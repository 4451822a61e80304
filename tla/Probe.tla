------------------------------- MODULE Probe -------------------------------
(***************************************************************************)
(* Ccurl::Init up to the layout of the file (engine/Ccurl.cpp): a HEAD     *)
(* request gives a candidate for the length, a GET of one byte with a      *)
(* Range is to confirm it, and when neither told whether the server does   *)
(* ranges, a second such GET finds out.  The server may refuse, time out,  *)
(* ignore the Range or answer HEAD with the length of something else, all  *)
(* of it differently from one request to the next.  The validators the     *)
(* probe collects are part of Resume.                                      *)
(***************************************************************************)
EXTENDS Layout, FiniteSets

CONSTANTS
  Body,      (* the length of what the URL serves                           *)
  HeadLens   (* the lengths HEAD may tell                                   *)

ASSUME ProbeAssumption == Body \in Nat \ {0} /\ HeadLens \subseteq Nat \ {0}

VARIABLES
  main,              (* where the thread in RunFileExec stands              *)
  m_fileLen,         (* 0 stands for -1, none                               *)
  m_range_supported,
  m_range_known,
  candidate,         (* head_len and ctxHead, locals of get_Download_FileSize *)
  told,              (* which answer m_fileLen was taken from (auxiliary)   *)
  m_cancel           (* m_cancel_flag                                       *)

probeVars == <<main, m_fileLen, m_range_supported, m_range_known, candidate, told, m_cancel>>

Known   == <<m_fileLen, m_range_supported, m_range_known, told>>
NoHead  == [code |-> 0, len |-> 0, accept |-> FALSE]
Answers == [code : {200, 404}, len : HeadLens \cup {0}, accept : BOOLEAN]

(* The members of a new instance.                                          *)
ProbeInit ==
  /\ main = "enter"
  /\ m_fileLen = 0
  /\ m_range_supported = FALSE /\ m_range_known = FALSE
  /\ candidate = NoHead
  /\ told = "none"
  /\ m_cancel = FALSE

(* Init: a cancel that came before is forgotten.                           *)
BeginProbe ==
  /\ main = "init"
  /\ m_cancel' = FALSE
  /\ main' = "head"
  /\ UNCHANGED <<Known, candidate>>

ProbeCanceled ==
  /\ main \in {"head", "range", "fallback"} /\ m_cancel
  /\ main' = "initfailed"
  /\ candidate' = NoHead
  /\ UNCHANGED <<Known, m_cancel>>

(* Attempt 1.  HeadProbeHeader sees the headers of every hop, so that an   *)
(* Accept-Ranges may come with any answer; NoHead is a failed request.     *)
HeadProbe(answer) ==
  /\ main = "head" /\ ~m_cancel
  /\ candidate' = answer
  /\ main' = "range"
  /\ UNCHANGED <<Known, m_cancel>>

(* Attempt 2: a 206 with a total is the last word.  A 2xx that is not 206  *)
(* is aborted by RangeProbeHeader, and that, like any failure and a total  *)
(* of "*", leaves it to the candidate.                                     *)
RangeConfirms ==
  /\ main = "range" /\ ~m_cancel
  /\ m_fileLen' = Body
  /\ m_range_supported' = TRUE /\ m_range_known' = TRUE
  /\ told' = "range"
  /\ candidate' = NoHead
  /\ main' = "layout"
  /\ UNCHANGED m_cancel

RangeUnclear ==
  /\ main = "range" /\ ~m_cancel
  /\ main' = "fallback"
  /\ UNCHANGED <<Known, candidate, m_cancel>>

(* Any candidate with a length is taken, whatever the status of its answer. *)
UseCandidate ==
  /\ main = "fallback" /\ ~m_cancel /\ candidate.len > 0
  /\ m_fileLen' = candidate.len
  /\ told' = IF candidate.code = 200 THEN "head" ELSE "other"
  /\ m_range_supported' = (candidate.accept \/ m_range_supported)
  /\ m_range_known' = (candidate.accept \/ m_range_known)
  /\ candidate' = NoHead
  /\ main' = IF m_range_known' THEN "layout" ELSE "check"
  /\ UNCHANGED m_cancel

NoLength ==
  /\ main = "fallback" /\ ~m_cancel /\ candidate.len = 0
  /\ m_fileLen' = 0
  /\ candidate' = NoHead
  /\ main' = "initfailed"
  /\ UNCHANGED <<m_range_supported, m_range_known, told, m_cancel>>

(* Check_Range_Support, whose result Init only logs.                       *)
CheckRangeSupport(got206) ==
  /\ main = "check"
  /\ m_range_supported' = (got206 /\ ~m_cancel)
  /\ main' = "layout"
  /\ UNCHANGED <<m_fileLen, m_range_known, candidate, told, m_cancel>>

ProbeNext ==
  \/ BeginProbe \/ ProbeCanceled
  \/ \E answer \in Answers \cup {NoHead} : HeadProbe(answer)
  \/ RangeConfirms \/ RangeUnclear
  \/ UseCandidate \/ NoLength
  \/ \E got206 \in BOOLEAN : CheckRangeSupport(got206)

ProbeTypeOK ==
  /\ m_fileLen \in {0, Body} \cup HeadLens
  /\ m_range_supported \in BOOLEAN /\ m_range_known \in BOOLEAN
  /\ candidate \in Answers \cup {NoHead}
  /\ told \in {"none", "range", "head", "other"}
  /\ m_cancel \in BOOLEAN
=============================================================================
