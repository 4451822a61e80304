------------------------------ MODULE PathUtil ------------------------------
(***************************************************************************)
(* infra/pathutil.cpp and the names workflow/naming.cpp makes.  A name is  *)
(* a sequence of marks: a mark is a character, an encoded octet, or a word *)
(* the functions do not look into.                                         *)
(***************************************************************************)
EXTENDS Naturals, Sequences, SequencesExt

CONSTANTS
  MaxNameLen,  (* kMaxNameLen                                               *)
  Marks        (* what names are made of                                    *)

ASSUME PathUtilAssumption ==
  /\ MaxNameLen \in Nat
  /\ {"_", "/", ".", " ", "download", "dat", "video", "_full"} \subseteq Marks
  /\ {".mp4", ".m4a", ".mkv", ".webm"} \subseteq Marks

Separators == {"/", "\\"}
Devices    == {"CON", "NUL"}
Encoded    == [x \in {"%2F", "%2E", "%20"} |->
                 CASE x = "%2F" -> "/" [] x = "%2E" -> "." [] x = "%20" -> " "]

(* What is left of s up to its last mark outside `marks`.                  *)
StripRight(s, marks) == SubSeq(s, 1, SelectLastInSeq(s, LAMBDA x : x \notin marks))

BeforeFirst(s, marks) ==
  LET i == SelectInSeq(s, LAMBDA x : x \in marks)
  IN IF i = 0 THEN s ELSE SubSeq(s, 1, i - 1)

(* The last segment of the path of a URL.                                  *)
UrlBaseName(url) ==
  LET path == StripRight(BeforeFirst(url, {"?", "#"}), {"/"})
  IN SubSeq(path, SelectLastInSeq(path, LAMBDA x : x \in Separators) + 1, Len(path))

PercentDecode(s) == [i \in DOMAIN s |-> IF s[i] \in DOMAIN Encoded THEN Encoded[s[i]] ELSE s[i]]

Illegal == Separators \cup {"?", ":", "*"}

(* Mutant of SanitizeFileName: what is decoded is not looked at again.     *)
SanitizeFileName_decodesLast(name) ==
  LET clean == PercentDecode([i \in DOMAIN name |-> IF name[i] \in Illegal THEN "_" ELSE name[i]])
      out   == StripRight(clean, {".", " "})
  IN SubSeq(out, 1, IF Len(out) < MaxNameLen THEN Len(out) ELSE MaxNameLen)

SanitizeFileName(name) ==
  LET decoded == PercentDecode(name)
      clean   == [i \in DOMAIN decoded |-> IF decoded[i] \in Illegal THEN "_" ELSE decoded[i]]
      out     == StripRight(clean, {".", " "})
      base    == BeforeFirst(out, {"."})
      safe    == IF base \in {<<d>> : d \in Devices} THEN <<"_">> \o out ELSE out
  IN SubSeq(safe, 1, IF Len(safe) < MaxNameLen THEN Len(safe) ELSE MaxNameLen)

(* StampName: the stamp goes before the extension of the last segment.     *)
StampName(s, stamp) ==
  LET dot   == SelectLastInSeq(s, LAMBDA x : x = ".")
      slash == SelectLastInSeq(s, LAMBDA x : x \in Separators)
  IN IF dot > slash
     THEN SubSeq(s, 1, dot - 1) \o <<"_", stamp>> \o SubSeq(s, dot, Len(s))
     ELSE s \o <<"_", stamp>>

(* A base name for a video: without its extension.                         *)
VideoBase(url) ==
  LET base == SanitizeFileName(UrlBaseName(url))
      dot  == SelectLastInSeq(base, LAMBDA x : x = ".")
      cut  == IF dot = 0 THEN base ELSE SubSeq(base, 1, dot - 1)
  IN IF cut = <<>> THEN <<"video">> ELSE cut

DefaultName(url) ==
  LET base == SanitizeFileName(UrlBaseName(url))
  IN IF base = <<>> THEN <<"download", ".", "dat">> ELSE base

VideoExts == {".mp4", ".m4a", ".mkv", ".webm"}
VideoFiles(base) == {base \o <<e>> : e \in VideoExts} \cup {base \o <<"_full", e>> : e \in VideoExts}

(* One name in the directory it is stored in, which no system reads as     *)
(* another place or as a device.                                           *)
SafeName(s) ==
  /\ s # <<>>
  /\ \A i \in DOMAIN s : s[i] \notin Illegal
  /\ s \notin {<<".">>, <<".", ".">>}
  /\ BeforeFirst(s, {"."}) \notin {<<d>> : d \in Devices}
=============================================================================
