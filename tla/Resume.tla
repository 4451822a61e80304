------------------------------- MODULE Resume -------------------------------
(***************************************************************************)
(* Chunk-level resume (engine/Ccurl.cpp): the sessions of one target file, *)
(* each of which lays the file out (File_Init), may take over what the     *)
(* meta <target>.curlbolt.part says was written, transfers, and ends by    *)
(* saving or removing the meta, or by a crash.  A byte of the file is the  *)
(* version of the remote content it was taken from; cache is the file as   *)
(* processes see it, disk what a power loss leaves.  How a session moves   *)
(* its bytes is ChunkTransfer's subject: here they arrive one by one, from *)
(* the version that was probed.                                            *)
(***************************************************************************)
EXTENDS Layout, Sequences

CONSTANTS
  Versions,      (* what the URL serves, one version at a time              *)
  FileLen,       (* the length of each, in bytes                            *)
  ETag,          (* the ETag it is served with, or None                     *)
  LastModified,  (* its Last-Modified, or None                              *)
  None,
  StableHeaders, (* the server does not begin or cease to send an ETag      *)
  MinPart,       (* kMinPartSize                                            *)
  MaxThreads,    (* the largest thread count asked for                      *)
  ForeignSizes,  (* sizes of a file that is there before the first session  *)
  MaxSessions    (* bound: how many sessions are started                    *)

Lengths == {FileLen[v] : v \in Versions} \cup ForeignSizes

ASSUME ResumeAssumption ==
  /\ \E n \in Lengths : \A m \in Lengths : m <= n
  /\ FileLen \in [Versions -> Nat \ {0}]   \* File_Init refuses other lengths
  /\ StableHeaders \in BOOLEAN
  /\ MinPart \in Nat \ {0} /\ MaxThreads \in Nat \ {0}
  /\ ForeignSizes \subseteq Nat /\ MaxSessions \in Nat

VARIABLES
  remote,     (* the version served now                                     *)
  cache,      (* the bytes of the target file                               *)
  disk,       (* those of them that are durable                             *)
  size,       (* its length                                                 *)
  meta,       (* the .curlbolt.part file, or NoMeta                         *)
  phase,      (* idle, transfer, or saving (inside SavePartMeta)            *)
  probed,     (* the version this session's Init saw                        *)
  ranges,     (* m_range_supported                                          *)
  done,       (* offset - part_start of each part                           *)
  outcome,    (* of the last session: none, complete, stopped, lost         *)
  sessions,   (* how many sessions were started                             *)
  (* history *)
  outdated,   (* a session for another length wrote beside the meta        *)
  misled      (* this session took over such a meta                         *)

history == <<outdated, misled>>
vars == <<remote, cache, disk, size, meta, phase, probed, ranges, done,
          outcome, sessions, history>>

NoMeta == [schema |-> 0]
(* The positions a file may have.                                          *)
Positions == 0..(CHOOSE n \in Lengths : \A m \in Lengths : m <= n)

Content == Versions \cup {"hole", "nul", "foreign"}

(* SavePartMeta writes, and LoadPartMeta reads back: `of` is the version   *)
(* whose headers are in the file, which its reader cannot see.             *)
MetaOf_untagged(v, written) ==           \* mutant: the ETag is not saved
  [schema |-> 2, filelen |-> FileLen[v], etag |-> None,
   last_modified |-> LastModified[v], written |-> written, of |-> v]

MetaOf(v, written) ==
  [schema |-> 2, filelen |-> FileLen[v], etag |-> ETag[v],
   last_modified |-> LastModified[v], written |-> written, of |-> v]

(* LoadPartMeta's verdict for the version just probed.                     *)
Unusable(m, v) == m = NoMeta \/ m.filelen # FileLen[v] \/ m.written = <<>>
Changed_blind(m, v) == m.schema # 2      \* mutant: no validator is compared

Changed(m, v) ==
  \/ m.schema # 2
  \/ m.etag # None /\ ETag[v] # None /\ m.etag # ETag[v]
  \/ m.etag = None /\ ETag[v] # None
  \/ /\ m.etag = None /\ ETag[v] = None
     /\ m.last_modified # None /\ LastModified[v] # None
     /\ m.last_modified # LastModified[v]
LoadPartMeta(m, v) ==
  IF Unusable(m, v) THEN "None" ELSE IF Changed(m, v) THEN "Changed" ELSE "Ok"

(* Before the first session: no file, one without meta, or one that an old *)
(* release left with a meta of schema 1.                                   *)
Init ==
  /\ remote \in Versions
  /\ size \in ForeignSizes
  /\ cache = [p \in Positions |-> IF p < size THEN "foreign" ELSE "hole"]
  /\ disk = cache
  /\ meta \in {NoMeta} \cup
       {[MetaOf(remote, <<1>>) EXCEPT !.schema = 1] : s \in {size} \ {0}}
  /\ phase = "idle"
  /\ probed = remote
  /\ ranges = TRUE
  /\ done = <<>>
  /\ outcome = "none"
  /\ sessions = 0
  /\ outdated = FALSE /\ misled = FALSE

(* The file as File_Init leaves it: truncated or not, and extended by a    *)
(* zero byte written in the last place.                                    *)
Extended(trunc, len) ==
  [p \in Positions |->
     IF p = len - 1 THEN "nul"
     ELSE IF trunc \/ p >= size THEN "hole" ELSE cache[p]]

(***************************************************************************)
(* Init and File_Init.  With ok FALSE the mapping fails, the last of the   *)
(* calls that may.                                                         *)
(***************************************************************************)
StartSession(threads, range, ok) ==
  LET len   == FileLen[remote]
      res   == IF size > 0 THEN LoadPartMeta(meta, remote) ELSE "None"
      trunc == res = "Ok" /\ ~range
      n     == Parts(threads, range, len, MinPart)
      have  == res = "Ok" /\ range /\ Len(meta.written) = n
  IN /\ phase = "idle" /\ sessions < MaxSessions
     /\ sessions' = sessions + 1
     /\ probed' = remote
     /\ ranges' = range
     /\ meta' = IF have \/ res = "None" THEN meta ELSE NoMeta
     /\ cache' = Extended(trunc, len)
     /\ size' = IF trunc THEN len ELSE Larger(size, len)
     /\ done' = [i \in 1..n |->
                   IF have THEN Smaller(meta.written[i], PartLen(i, n, len)) ELSE 0]
     /\ phase' = IF ok THEN "transfer" ELSE "idle"
     /\ outcome' = IF ok THEN "none" ELSE "lost"
     /\ outdated' = (meta' # NoMeta /\ (outdated \/ ~have))
     /\ misled' = (have /\ outdated)
     /\ UNCHANGED <<remote, disk>>

Parted    == Len(done)
Written(i) == done[i] = PartLen(i, Parted, FileLen[probed])

(* File_Write.                                                             *)
Write(i) ==
  /\ phase = "transfer" /\ i \in DOMAIN done /\ ~Written(i)
  /\ cache' = [cache EXCEPT
                 ![PartStart(i, Parted, FileLen[probed]) + done[i]] = probed]
  /\ done' = [done EXCEPT ![i] = @ + 1]
  /\ UNCHANGED <<remote, disk, size, meta, phase, probed, ranges, outcome, sessions, history>>

(* FlushMapping, every ten seconds of progress.                            *)
Flush ==
  /\ phase = "transfer" /\ disk # cache
  /\ disk' = cache
  /\ UNCHANGED <<remote, cache, size, meta, phase, probed, ranges, done, outcome, sessions,
                 history>>

(* Download_Task when the server ignored Range: the meta goes, and         *)
(* File_Init lays the file out once more, as one part.                     *)
Degrade ==
  /\ phase = "transfer" /\ ranges
  /\ ranges' = FALSE
  /\ meta' = NoMeta
  /\ cache' = Extended(FALSE, FileLen[probed])
  /\ done' = <<0>>
  /\ outdated' = FALSE /\ misled' = FALSE
  /\ UNCHANGED <<remote, disk, size, phase, probed, outcome, sessions>>

(* Every part verified: the meta goes.                                     *)
Complete ==
  /\ phase = "transfer" /\ \A i \in DOMAIN done : Written(i)
  /\ meta' = NoMeta
  /\ phase' = "idle"
  /\ outcome' = "complete"
  /\ outdated' = FALSE
  /\ UNCHANGED <<remote, cache, disk, size, probed, ranges, done, sessions, misled>>

(* Mutant of Stop: the meta is written before the pages are flushed.       *)
Stop_unflushed ==
  /\ phase = "transfer"
  /\ phase' = "saving"
  /\ meta' = MetaOf(probed, <<>>)
  /\ outdated' = misled
  /\ UNCHANGED <<remote, cache, disk, size, probed, ranges, done, outcome, sessions,
                 misled>>

(* A cancel or a failed part: SavePartMeta flushes and opens the meta,     *)
(* which empties it, or cannot open it and leaves it as it is ...          *)
Stop ==
  /\ phase = "transfer"
  /\ disk' = cache
  /\ \/ /\ phase' = "saving"
        /\ meta' = MetaOf(probed, <<>>)
        /\ outdated' = misled
        /\ UNCHANGED outcome
     \/ /\ phase' = "idle"
        /\ outcome' = "lost"
        /\ UNCHANGED <<meta, outdated>>
  /\ UNCHANGED <<remote, cache, size, probed, ranges, done, sessions, misled>>

(* ... and writes it.                                                      *)
SavePartMeta ==
  /\ phase = "saving"
  /\ meta' = MetaOf(probed, done)
  /\ phase' = "idle"
  /\ outcome' = "stopped"
  /\ UNCHANGED <<remote, cache, disk, size, probed, ranges, done, sessions, history>>

(* The process dies; the pages it wrote are the system's.                  *)
Kill ==
  /\ phase # "idle"
  /\ phase' = "idle"
  /\ outcome' = "lost"
  /\ UNCHANGED <<remote, cache, disk, size, meta, probed, ranges, done, sessions,
                 history>>

(* The machine dies: any of the pages that were not flushed are lost.      *)
PowerLoss ==
  /\ \E kept \in SUBSET {p \in Positions : cache[p] # disk[p]} :
       disk' = [p \in Positions |-> IF p \in kept THEN cache[p] ELSE disk[p]]
  /\ cache' = disk'
  /\ phase' = "idle"
  /\ outcome' = "lost"
  /\ UNCHANGED <<remote, size, meta, probed, ranges, done, sessions, history>>

(* The content changes between two sessions.                               *)
ServerChanges ==
  /\ phase = "idle" /\ sessions < MaxSessions
  /\ \E v \in Versions \ {remote} :
       /\ StableHeaders => (ETag[v] = None) = (ETag[remote] = None)
       /\ remote' = v
  /\ UNCHANGED <<cache, disk, size, meta, phase, probed, ranges, done, outcome,
                 sessions, history>>

Session ==
  \/ \E threads \in 1..MaxThreads, range, ok \in BOOLEAN :
       StartSession(threads, range, ok)
  \/ \E i \in 1..MaxThreads : Write(i)
  \/ Flush \/ Degrade \/ Complete \/ Stop \/ SavePartMeta

Next == Session \/ Kill \/ PowerLoss \/ ServerChanges

Spec == Init /\ [][Next]_vars

-----------------------------------------------------------------------------

TypeOK ==
  /\ remote \in Versions /\ probed \in Versions
  /\ cache \in [Positions -> Content] /\ disk \in [Positions -> Content]
  /\ size \in Positions
  /\ meta = NoMeta \/ (meta.schema \in {1, 2} /\ meta.of \in Versions)
  /\ phase \in {"idle", "transfer", "saving"}
  /\ ranges \in BOOLEAN
  /\ \A i \in DOMAIN done : done[i] \in 0..PartLen(i, Parted, FileLen[probed])
  /\ outcome \in {"none", "complete", "stopped", "lost"}
  /\ sessions \in 0..MaxSessions
  /\ outdated \in BOOLEAN /\ misled \in BOOLEAN

(* README:270: what the meta counts as written is on the disk, from the    *)
(* version whose headers it carries, whatever crashed in between: the meta *)
(* is only ever behind the file.  The last byte of the file is exempt: it  *)
(* is zeroed at each session's start; and so is a meta that was left lying *)
(* while a session for another length wrote (it is ignored, not removed).  *)
Counted(m) ==
  UNION {{PartStart(i, Len(m.written), m.filelen) + k : k \in 0..(m.written[i] - 1)} :
           i \in DOMAIN m.written}
MetaTrue ==
  /\ TypeOK
  /\ meta.schema = 2 /\ ~outdated =>
       \A p \in Counted(meta) \ {meta.filelen - 1} : disk[p] = meta.of

(* A download that is reported complete has, but for its last byte, the    *)
(* bytes of the version it was started for, in however many sessions and   *)
(* from however many threads it came, unless it trusted such a meta.       *)
CompleteButLastByte ==
  outcome = "complete" /\ ~misled =>
    \A p \in 0..(FileLen[probed] - 2) : cache[p] = probed

(* Ccurl.cpp:931, "size verified", README.md:22: the same for every byte.  *)
CompleteIsExact ==
  outcome = "complete" =>
    \A p \in 0..(FileLen[probed] - 1) : cache[p] = probed

(* README.md:242: a stopped download goes on where it stopped, when the    *)
(* same content is served and the file is parted the same way.             *)
ResumesWhereStopped ==
  [][ /\ outcome = "stopped" /\ phase' = "transfer"
      /\ ranges /\ ranges' /\ probed' = probed /\ Len(done') = Len(done)
      => done' = done ]_vars
=============================================================================
