------------------------------ MODULE FileTask ------------------------------
(***************************************************************************)
(* RunFileExec (infra/taskexec.cpp) and, under it, a Ccurl instance that   *)
(* has no transfer engine: the probe, the layout of the file, RunChunks    *)
(* with a thread or a pool job per chunk (Downloading), the restart as a   *)
(* single stream, and what becomes of the file and its meta when the task  *)
(* ends.  Bytes are known by their places, as in ChunkTransfer.            *)
(***************************************************************************)
EXTENDS Probe

CONSTANTS
  ThreadNum,   (* thread_num, already clamped                               *)
  MinPart,     (* kMinPartSize                                              *)
  MaxRetry     (* max_retry                                                 *)

ASSUME FileTaskAssumption ==
  ThreadNum \in Nat \ {0} /\ MinPart \in Nat \ {0} /\ MaxRetry \in Nat \ {0}

Slots == 1..ThreadNum

VARIABLES
  canceled,      (* what fnIsCanceled answers                               *)
  m_thread_num,  (* 0 while there is no chunk list                          *)
  offset,        (* info->offset - info->part_start                         *)
  success,       (* the chunks with info->success                           *)
  at,            (* where the thread of a chunk stands, none without one    *)
  attempt,       (* the loop counter of Downloading                         *)
  http,          (* status of the running request, 0 before it              *)
  asked,         (* offset its Range was made from                          *)
  got,           (* bytes of its body that came                             *)
  wrong,         (* the chunks with a byte written where another belongs    *)
  download_len,  (* info->download_len, as the progress tells it            *)
  range_denied,  (* m_range_denied                                          *)
  cur,           (* the chunk RunChunks creates a thread for next           *)
  file,          (* the target exists                                       *)
  meta           (* .curlbolt.part: none, earlier (as found) or saved       *)

requestVars == <<http, asked, got>>
chunkVars == <<offset, success, at, attempt, requestVars, wrong, download_len>>
listVars  == <<m_thread_num, chunkVars, cur>>
diskVars  == <<file, meta>>
vars == <<probeVars, canceled, listVars, range_denied, diskVars>>

Zeros   == [c \in Slots |-> 0]
Chunks  == 1..m_thread_num
Size(c) == PartLen(c, m_thread_num, m_fileLen)
First(c) == PartStart(c, m_thread_num, m_fileLen)
Full(c) == offset[c] = Size(c)

Init ==
  /\ ProbeInit
  /\ canceled = FALSE
  /\ m_thread_num = 0
  /\ offset = Zeros /\ success = {}
  /\ at = [c \in Slots |-> "none"]
  /\ attempt = Zeros /\ http = Zeros /\ asked = Zeros /\ got = Zeros
  /\ wrong = {}
  /\ download_len = Zeros
  /\ range_denied = FALSE
  /\ cur = 1
  /\ file = FALSE
  /\ meta = "none"

(* The chunk list File_Init makes: n parts, of which part c resumes after  *)
(* written[c] bytes.                                                       *)
MakeList(n, written) ==
  /\ m_thread_num' = n
  /\ offset' = written
  /\ success' = {c \in 1..n : written[c] = PartLen(c, n, m_fileLen)}
  /\ at' = [c \in Slots |-> "none"]
  /\ attempt' = Zeros
  /\ wrong' = {}
  /\ download_len' = written
  /\ cur' = 1
  /\ UNCHANGED requestVars

(* What a meta that fits may say (Resume says when it fits).               *)
Written(n) ==
  {w \in [Slots -> 0..m_fileLen] :
     \A c \in Slots : w[c] <= IF c <= n THEN PartLen(c, n, m_fileLen) ELSE 0}

(***************************************************************************)
(* RunFileExec up to the chunk list.                                       *)
(***************************************************************************)
EnterTask ==
  /\ main = "enter"
  /\ main' = IF canceled THEN "canceled" ELSE "init"
  /\ UNCHANGED <<Known, candidate, m_cancel, canceled, listVars, range_denied, diskVars>>

FileInit ==
  /\ main = "layout" /\ ~m_cancel
  /\ LET n == Parts(ThreadNum, m_range_supported, m_fileLen, MinPart)
     IN \/ MakeList(n, Zeros) /\ meta' = "none"
        \/ /\ m_range_supported
           /\ \E w \in Written(n) : MakeList(n, w)
           /\ meta' = "earlier"
  /\ file' = TRUE
  /\ main' = "begin"
  /\ UNCHANGED <<Known, candidate, m_cancel, canceled, range_denied>>

(* Opening, extending or mapping the file fails, or the task is canceled.  *)
FileInitFails ==
  /\ main = "layout"
  /\ main' = "initfailed"
  /\ file' \in {file, TRUE}
  /\ UNCHANGED <<Known, candidate, m_cancel, canceled, listVars, range_denied, meta>>

BeginDownload ==
  /\ main = "begin"
  /\ main' = IF m_cancel THEN "failed" ELSE "spawn"
  /\ UNCHANGED <<Known, candidate, m_cancel, canceled, listVars, range_denied, diskVars>>

probeOnly == <<Known, candidate, m_cancel, canceled, range_denied, diskVars>>

(***************************************************************************)
(* RunChunks: a chunk that is not full gets a thread, or a job of the      *)
(* pool, unless the thread cannot be created or the pool refuses.          *)
(***************************************************************************)
NextChunk == cur' = cur + 1 /\ UNCHANGED <<main, probeOnly, m_thread_num>>

SkipChunk ==
  /\ main = "spawn" /\ cur \in Chunks /\ cur \in success
  /\ NextChunk
  /\ UNCHANGED chunkVars

SpawnChunk ==
  /\ main = "spawn" /\ cur \in Chunks \ success
  /\ at' = [at EXCEPT ![cur] = "check"]
  /\ NextChunk
  /\ UNCHANGED <<offset, success, attempt, requestVars, wrong, download_len>>

SpawnFails ==
  /\ main = "spawn" /\ cur \in Chunks \ success
  /\ NextChunk
  /\ UNCHANGED chunkVars

(* Mutants of Joined: only the last thread is waited for; one that was     *)
(* never created is as well.                                               *)
Joined_lastOnly == at[m_thread_num] \in {"none", "over"}
Joined_every    == \A c \in Chunks : at[c] = "over"

Joined == \A c \in Chunks : at[c] \in {"none", "over"}

Join ==
  /\ main = "spawn" /\ cur \notin Chunks
  /\ Joined
  /\ main' = "decide"
  /\ UNCHANGED <<probeOnly, listVars>>

AllOk == Chunks \subseteq success
Verified == \A c \in Chunks : Full(c)   \* VerifyAllPartsWritten

(***************************************************************************)
(* Download_Task after RunChunks.  A denied Range throws everything away   *)
(* and starts over as one stream, if File_Init lets it.                    *)
(***************************************************************************)
(* Mutant of DestoryUnlocked: the list of the ranged parts stays.          *)
DestoryUnlocked_keeps == UNCHANGED listVars

DestoryUnlocked == m_thread_num' = 0 /\ UNCHANGED <<chunkVars, cur>>

Degrade ==
  /\ main = "decide" /\ ~AllOk /\ range_denied
  /\ m_range_supported' = FALSE
  /\ range_denied' = FALSE
  /\ meta' = "none"
  /\ \/ ~m_cancel /\ main' = "spawn" /\ MakeList(1, Zeros)
     \/ main' = "failed" /\ DestoryUnlocked
  /\ UNCHANGED <<m_fileLen, m_range_known, told, candidate, m_cancel, canceled, file>>

DownloadComplete ==
  /\ main = "decide" /\ AllOk /\ Verified /\ ~m_cancel
  /\ meta' = "none"
  /\ main' = "verify"
  /\ UNCHANGED <<Known, candidate, m_cancel, canceled, listVars, range_denied, file>>

(* Mutant of DownloadIncomplete: only a failure saves the progress.        *)
DownloadIncomplete_unsaved ==
  /\ main = "decide"
  /\ ~AllOk => ~range_denied
  /\ m_cancel \/ ~AllOk \/ ~Verified
  /\ meta' = IF m_cancel THEN meta ELSE "saved"
  /\ main' = "failed"
  /\ UNCHANGED <<Known, candidate, m_cancel, canceled, listVars, range_denied, file>>

DownloadIncomplete ==
  /\ main = "decide"
  /\ ~AllOk => ~range_denied
  /\ m_cancel \/ ~AllOk \/ ~Verified
  /\ meta' = "saved"
  /\ main' = "failed"
  /\ UNCHANGED <<Known, candidate, m_cancel, canceled, listVars, range_denied, file>>

(***************************************************************************)
(* The end of RunFileExec.  The digest, when one is asked for, is only     *)
(* logged; it cannot be taken when nothing is mapped.                      *)
(***************************************************************************)
over == <<Known, candidate, m_cancel, canceled, listVars, range_denied>>

VerifySha256 == m_thread_num > 0 /\ m_fileLen > 0

ReportDone(bVerifySha256) ==
  /\ main = "verify"
  /\ main' = IF bVerifySha256 /\ ~VerifySha256 THEN "error" ELSE "done"
  /\ UNCHANGED <<over, diskVars>>

ReportInitFailed == main = "initfailed" /\ main' = "error" /\ UNCHANGED <<over, diskVars>>

ReportCanceled ==
  /\ main = "failed" /\ canceled
  /\ main' = "canceled"
  /\ UNCHANGED <<over, diskVars>>

ReportFailed(deletePartial) ==
  /\ main = "failed" /\ ~canceled
  /\ file' = (file /\ ~deletePartial)
  /\ meta' = IF deletePartial THEN "none" ELSE meta
  /\ main' = "error"
  /\ UNCHANGED over

(***************************************************************************)
(* Downloading, the body of a chunk's thread.                              *)
(***************************************************************************)
threadOnly == <<main, Known, candidate, m_thread_num, cur, canceled, diskVars>>

Ends(c, ok) ==
  /\ at' = [at EXCEPT ![c] = "over"]
  /\ success' = IF ok THEN success \cup {c} ELSE success \ {c}

Forget(c) ==
  /\ http' = [http EXCEPT ![c] = 0]
  /\ asked' = [asked EXCEPT ![c] = 0]
  /\ got' = [got EXCEPT ![c] = 0]

(* Mutant of Request: every attempt asks for the chunk from its start.     *)
Request_fromBase(c) ==
  /\ at[c] = "check" /\ ~m_cancel /\ ~Full(c)
  /\ at' = [at EXCEPT ![c] = "perform"]
  /\ UNCHANGED <<threadOnly, m_cancel, range_denied, offset, success, attempt,
                 requestVars, wrong, download_len>>

(* The top of the loop: one more request, from where the last one stopped. *)
Request(c) ==
  /\ at[c] = "check" /\ ~m_cancel /\ ~Full(c)
  /\ at' = [at EXCEPT ![c] = "perform"]
  /\ asked' = [asked EXCEPT ![c] = offset[c]]
  /\ UNCHANGED <<threadOnly, m_cancel, range_denied, offset, success, attempt,
                 http, got, wrong, download_len>>

(* A canceled task, a chunk that is full although its request failed, and  *)
(* an easy handle that cannot be had end the thread here.                  *)
NoRequest(c) ==
  /\ at[c] = "check"
  /\ Ends(c, ~m_cancel /\ Full(c))
  /\ UNCHANGED <<threadOnly, m_cancel, range_denied, offset, attempt, requestVars,
                 wrong, download_len>>

(* ChunkStatusHeader.                                                      *)
Header(c, status) ==
  /\ at[c] = "perform" /\ http[c] = 0
  /\ status = 206 => m_range_supported
  /\ http' = [http EXCEPT ![c] = status]
  /\ UNCHANGED <<threadOnly, m_cancel, range_denied, offset, success, at, attempt,
                 asked, got, wrong, download_len>>

(* The place in the file the next byte of the body was meant for: a 206    *)
(* starts where it was asked to, a 200 at the beginning, an error page is  *)
(* not of this file; and the length of what the server sends.              *)
Source(c) == IF m_range_supported THEN First(c) + asked[c] + got[c] ELSE got[c]
MoreToCome(c) ==
  CASE http[c] = 206 -> Source(c) < Smaller(Body, First(c) + Size(c))
    [] http[c] = 200 -> ~m_range_supported /\ Source(c) < Body
    [] http[c] = 404 -> ~m_range_supported /\ got[c] = 0
    [] OTHER -> FALSE

(* File_Write: past the end of the chunk a byte is dropped.  With Range,   *)
(* what is not a 206 never gets here; without, every body is written.      *)
Write(c) ==
  /\ at[c] = "perform" /\ ~m_cancel /\ MoreToCome(c)
  /\ got' = [got EXCEPT ![c] = @ + 1]
  /\ IF Full(c)
     THEN UNCHANGED <<offset, wrong>>
     ELSE /\ offset' = [offset EXCEPT ![c] = @ + 1]
          /\ wrong' = IF http[c] # 404 /\ Source(c) = First(c) + offset[c]
                      THEN wrong ELSE wrong \cup {c}
  /\ UNCHANGED <<threadOnly, m_cancel, range_denied, success, at, attempt, http,
                 asked, download_len>>

(* ProgressCallback: the bytes of this request, and now and then the       *)
(* onProgress of RunFileExec, which passes the cancel on.                  *)
Progress(c) ==
  /\ at[c] = "perform"
  /\ download_len' = [download_len EXCEPT ![c] = got[c]]
  /\ m_cancel' \in {m_cancel, m_cancel \/ canceled}
  /\ UNCHANGED <<threadOnly, range_denied, offset, success, at, attempt,
                 requestVars, wrong>>

(* curl_easy_perform returns and the attempt is judged; the order of the   *)
(* tests is the order of the alternatives.  The sleep before a retry is    *)
(* not interrupted.                                                        *)
Is2xx(c)  == http[c] \in {200, 206}
Denied(c) == m_range_supported /\ http[c] = 200

Judge(c, res) ==
  IF m_cancel \/ Denied(c) THEN "failed"
  ELSE IF Is2xx(c) /\ res = "OK" /\ Full(c) THEN "complete"
  ELSE IF res = "TIMEDOUT" \/ ~Is2xx(c) \/ attempt[c] + 1 = MaxRetry THEN "failed"
  ELSE "again"

Performed(c, res) ==
  /\ at[c] = "perform"
  /\ res = "OK" => http[c] # 0 /\ ~Denied(c)
  /\ res = "ABORTED" => m_cancel \/ Denied(c)
  /\ range_denied' = (range_denied \/ (~m_cancel /\ Denied(c)))
  /\ IF Judge(c, res) = "again"
     THEN /\ at' = [at EXCEPT ![c] = "check"]
          /\ attempt' = [attempt EXCEPT ![c] = @ + 1]
          /\ UNCHANGED success
     ELSE Ends(c, Judge(c, res) = "complete") /\ UNCHANGED attempt
  /\ Forget(c)
  /\ UNCHANGED <<threadOnly, m_cancel, offset, wrong, download_len>>

Results == {"OK", "ERROR", "TIMEDOUT", "ABORTED"}

Downloading(c) ==
  Request(c) \/ NoRequest(c) \/ \E res \in Results : Performed(c, res)

(* The user cancels; a caller that holds the instance may call             *)
(* Ccurl::Cancel as well.                                                  *)
Cancel ==
  /\ canceled' = TRUE
  /\ m_cancel' \in {m_cancel, TRUE}
  /\ UNCHANGED <<main, Known, candidate, listVars, range_denied, diskVars>>

-----------------------------------------------------------------------------

RunFileExec ==
  \/ EnterTask
  \/ ProbeNext /\ UNCHANGED <<canceled, listVars, range_denied, diskVars>>
  \/ FileInit \/ FileInitFails \/ BeginDownload
  \/ SkipChunk \/ SpawnChunk \/ SpawnFails \/ Join
  \/ Degrade \/ DownloadComplete \/ DownloadIncomplete
  \/ \E bVerifySha256 \in BOOLEAN : ReportDone(bVerifySha256)
  \/ ReportInitFailed \/ ReportCanceled
  \/ \E deletePartial \in BOOLEAN : ReportFailed(deletePartial)

Returned == main \in {"done", "error", "canceled"}

Next ==
  \/ RunFileExec
  \/ \E c \in Slots :
       \/ Downloading(c)
       \/ \E status \in {200, 206, 404} : Header(c, status)
       \/ Write(c) \/ Progress(c)
  \/ Cancel /\ ~Returned
  \/ Returned /\ UNCHANGED vars

(* The threads run, and a request ends: the probes have CURLOPT_TIMEOUT,   *)
(* a chunk CURLOPT_LOW_SPEED_TIME.                                         *)
Spec == Init /\ [][Next]_vars
FairSpec == Spec /\ WF_vars(RunFileExec) /\ \A c \in Slots : WF_vars(Downloading(c))

-----------------------------------------------------------------------------

TypeOK ==
  /\ ProbeTypeOK
  /\ main \in {"enter", "init", "head", "range", "fallback", "check", "layout",
               "initfailed", "begin", "spawn", "decide", "verify", "failed",
               "done", "error", "canceled"}
  /\ canceled \in BOOLEAN
  /\ m_thread_num \in 0..ThreadNum
  /\ offset \in [Slots -> Nat] /\ \A c \in Chunks : offset[c] <= Size(c)
  /\ success \in SUBSET Slots
  /\ at \in [Slots -> {"none", "check", "perform", "over"}]
  /\ attempt \in [Slots -> 0..(MaxRetry - 1)]
  /\ http \in [Slots -> {0, 200, 206, 404}]
  /\ asked \in [Slots -> Nat] /\ got \in [Slots -> Nat]
  /\ wrong \in SUBSET Slots
  /\ download_len \in [Slots -> 0..Larger(Body, m_fileLen)]
  /\ range_denied \in BOOLEAN
  /\ cur \in 1..(ThreadNum + 1)
  /\ file \in BOOLEAN /\ meta \in {"none", "earlier", "saved"}

(* A file that is reported complete is the body, every place of it written *)
(* with its own byte, when a 206 told its length and every chunk was asked *)
(* for as a range: across resumed parts, retries and short answers.        *)
Covered ==
  UNION {{First(c) + k : k \in 0..(offset[c] - 1)} : c \in {d \in Chunks : offset[d] > 0}}
CompleteIsBody ==
  main \in {"verify", "done"} /\ told = "range" /\ m_range_supported
    => file /\ wrong = {} /\ Covered = 0..(Body - 1)

(* What the callers of Ccurl rely on, kept with a thread for each chunk as *)
(* it is with the engine: see ChunkTransfer.                               *)
Outcome ==
  CASE main \in {"enter", "init", "head", "range", "fallback", "check", "layout"} -> "probing"
    [] main \in {"begin", "spawn", "decide"} -> "writing"
    [] main \in {"verify", "done"} -> "whole"
    [] OTHER -> "broken"

Promise == INSTANCE Download WITH
  phase <- Outcome, len <- IF m_thread_num > 0 THEN m_fileLen ELSE 0,
  have <- IF file THEN Covered ELSE {}, ranged <- m_thread_num > 0 /\ m_range_supported,
  right <- (wrong = {}), stopping <- m_cancel
ImplementsDownload == Promise!Spec

(* The chunk list is not read, thrown away or laid out again while a       *)
(* thread still downloads into it; and no thread leaves its attempts, its  *)
(* chunk or its part of the file.                                          *)
ThreadsJoined ==
  /\ TypeOK
  /\ main # "spawn" => \A c \in Slots : at[c] \in {"none", "over"}

(* "canceled, partial files kept for resume" (taskexec.cpp:132): a task    *)
(* that ends canceled after its file was laid out keeps the file and, if   *)
(* it wrote to it, a meta that says how far it came; and what that meta    *)
(* says of a file downloaded in ranges was written by this task or the one *)
(* before, in its right place.                                             *)
KeptForResume ==
  /\ main = "canceled" /\ m_thread_num > 0 /\ m_range_supported =>
       /\ file
       /\ meta = "none" => \A c \in Chunks : offset[c] = 0
  /\ meta = "saved" /\ m_range_supported => wrong = {}

(* The task returns, whatever fails and whenever it is canceled.           *)
TaskReturns == <>Returned
=============================================================================
