--------------------------- MODULE ChunkTransfer ---------------------------
(***************************************************************************)
(* Ccurl::Download_Task (engine/Ccurl.cpp) on the transfer engine: one     *)
(* thread submits the chunks of a file and waits until each is finished,   *)
(* the drivers decide in OnChunkDone whether a chunk is complete, tried    *)
(* again or given up, and a server that ignores Range makes the task start *)
(* over as a single stream.  A chunk is a Job of the engine.  A byte is    *)
(* known by its place only: offset says how many bytes of the chunk are in *)
(* the file, stream which byte of the body comes next, and a byte written  *)
(* where another belongs is remembered in wrong.                           *)
(***************************************************************************)
EXTENDS CurlMulti

CONSTANTS
  ThreadNum,  (* how many chunks File_Init made of the file                 *)
  ChunkLen    (* bytes of one chunk                                         *)

ASSUME TransferAssumption ==
  /\ ThreadNum \in Nat \ {0} /\ ChunkLen \in Nat \ {0}
  /\ Jobs = 1..ThreadNum
  /\ {"OK", "ERROR", "TIMEDOUT"} \subseteq Codes

VARIABLES
  use_range,    (* info->use_range, which is m_range_supported              *)
  offset,       (* info->offset - info->part_start                          *)
  success,      (* the chunks with info->success                            *)
  attempt,      (* info->attempt                                            *)
  dwLane,       (* info->dwLane                                             *)
  http,         (* status of the current response; 0 before it, and for an  *)
                (* error whose body is not written                          *)
  stream,       (* where in the chunk the next byte of the body belongs     *)
  wrong,        (* the chunks with a byte written where another belongs     *)
  range_denied, (* m_range_denied                                           *)
  nChunksLeft,  (* m_nChunksLeft                                            *)
  m_cancel,     (* m_cancel_flag                                            *)
  external,     (* SetExternalCancel was called: the engine polls that flag *)
  main,         (* where the thread in Download_Task stands                 *)
  cur           (* the chunk it submits next                                *)

chunkVars == <<offset, success, attempt, http, stream, wrong>>
taskVars  == <<use_range, external, main, cur>>
vars == <<engineVars, chunkVars, taskVars, dwLane, range_denied, nChunksLeft, m_cancel>>

(* Without Range the whole file is chunk 1 (m_thread_num = 1).             *)
Chunks  == IF use_range THEN Jobs ELSE {1}
PartLen == IF use_range THEN ChunkLen ELSE ThreadNum * ChunkLen

(* Mutant of Full: a chunk is taken for full with one byte missing.        *)
Full_butOne(c) == offset[c] + 1 >= PartLen

Full(c) == offset[c] = PartLen

(* File_Init, for the task: with Range, chunks may resume from the meta.   *)
Init ==
  /\ EngineInit
  /\ use_range \in BOOLEAN
  /\ offset \in IF use_range THEN [Jobs -> 0..ChunkLen] ELSE {[c \in Jobs |-> 0]}
  /\ success = {c \in Jobs : use_range /\ Full(c)}
  /\ attempt = [c \in Jobs |-> 0]
  /\ dwLane = [c \in Jobs |-> Unset]
  /\ http = [c \in Jobs |-> 0]
  /\ stream = [c \in Jobs |-> 0]
  /\ wrong = {}
  /\ range_denied = FALSE
  /\ nChunksLeft = 0
  /\ m_cancel = FALSE
  /\ external \in BOOLEAN
  /\ main = "begin"
  /\ cur = 1

(***************************************************************************)
(* The thread in Download_Task.                                            *)
(***************************************************************************)
Begin ==
  /\ main = "begin"
  /\ main' = IF m_cancel THEN "failed" ELSE "submit"
  /\ UNCHANGED <<engineVars, chunkVars, use_range, external, cur, dwLane,
                 range_denied, nChunksLeft, m_cancel>>

Advance == cur' = cur + 1 /\ main' = "submit"

(* RunChunksMulti: the loop over the chunks that are not full yet.         *)
SkipChunk ==
  /\ main = "submit" /\ cur \in Chunks /\ cur \in success
  /\ Advance
  /\ UNCHANGED <<engineVars, chunkVars, use_range, external, dwLane,
                 range_denied, nChunksLeft, m_cancel>>

(* SubmitChunkAttempt(FALSE) goes as far as the engine's lock ...          *)
SubmitChunk ==
  /\ main = "submit" /\ cur \in Chunks \ success
  /\ ~m_cancel
  /\ attempt' = [attempt EXCEPT ![cur] = 0]
  /\ dwLane' = [dwLane EXCEPT ![cur] = Unset]
  /\ nChunksLeft' = nChunksLeft + 1
  /\ AssignLane(cur, Unset)
  /\ main' = "push"
  /\ UNCHANGED <<offset, success, http, stream, wrong, use_range, external, cur,
                 range_denied, m_cancel>>

(* ... or is stopped before it by a cancel or a closed engine: the chunk   *)
(* is counted in and, by FinishChunk(FALSE), out again.                    *)
SubmitStopped ==
  /\ main = "submit" /\ cur \in Chunks \ success
  /\ m_cancel \/ bShutdown
  /\ attempt' = [attempt EXCEPT ![cur] = 0]
  /\ dwLane' = [dwLane EXCEPT ![cur] = Unset]
  /\ Advance
  /\ UNCHANGED <<engineVars, offset, success, http, stream, wrong, use_range,
                 external, range_denied, nChunksLeft, m_cancel>>

(* Under the lane's lock, where the engine still may refuse.               *)
PushChunk ==
  /\ main = "push"
  /\ Enqueue(cur)
  /\ IF bShutdown
     THEN /\ Advance
          /\ dwLane' = [dwLane EXCEPT ![cur] = lane[cur]]
          /\ nChunksLeft' = nChunksLeft - 1
     ELSE main' = "writeback" /\ UNCHANGED <<cur, dwLane, nChunksLeft>>
  /\ UNCHANGED <<chunkVars, use_range, external, range_denied, m_cancel>>

(* The lane is remembered for retries, after the driver may have run.      *)
WriteLaneBack ==
  /\ main = "writeback"
  /\ dwLane' = [dwLane EXCEPT ![cur] = lane[cur]]
  /\ Advance
  /\ UNCHANGED <<engineVars, chunkVars, use_range, external, range_denied,
                 nChunksLeft, m_cancel>>

(* m_waitCv.wait; FinishChunk notifies under the same mutex.               *)
WaitChunks ==
  /\ main = "submit" /\ cur \notin Chunks
  /\ nChunksLeft = 0
  /\ main' = "decide"
  /\ UNCHANGED <<engineVars, chunkVars, use_range, external, cur, dwLane,
                 range_denied, nChunksLeft, m_cancel>>

AllOk == Chunks \subseteq success
Verified == \A c \in Chunks : Full(c)   \* VerifyAllPartsWritten

(* Range was ignored: everything is thrown away and File_Init lays the     *)
(* file out again as one chunk, unless it is canceled or fails.            *)
Degrade ==
  /\ main = "decide" /\ ~AllOk /\ range_denied
  /\ range_denied' = FALSE
  /\ \/ /\ ~m_cancel
        /\ use_range' = FALSE
        /\ offset' = [c \in Jobs |-> 0]
        /\ success' = {}
        /\ attempt' = [c \in Jobs |-> 0]
        /\ dwLane' = [c \in Jobs |-> Unset]
        /\ stream' = [c \in Jobs |-> 0]
        /\ wrong' = {}
        /\ cur' = 1
        /\ main' = "submit"
     \/ /\ main' = "failed"
        /\ UNCHANGED <<use_range, offset, success, attempt, dwLane, stream, wrong, cur>>
  /\ UNCHANGED <<engineVars, http, external, nChunksLeft, m_cancel>>

Decide ==
  /\ main = "decide" /\ (AllOk \/ ~range_denied)
  /\ main' = IF AllOk /\ Verified /\ ~m_cancel THEN "done" ELSE "failed"
  /\ UNCHANGED <<engineVars, chunkVars, use_range, external, cur, dwLane,
                 range_denied, nChunksLeft, m_cancel>>

DownloadTask ==
  \/ Begin \/ SkipChunk \/ SubmitChunk \/ SubmitStopped \/ PushChunk
  \/ WriteLaneBack \/ WaitChunks \/ Degrade \/ Decide

(* Mutant of StartChunk: every attempt asks for the chunk from its start.  *)
StartChunk_fromBase(l, c) ==
  /\ ~m_cancel
  /\ StartJob(l, c)
  /\ stream' = [stream EXCEPT ![c] = 0]
  /\ UNCHANGED <<offset, success, attempt, http, wrong, taskVars, dwLane,
                 range_denied, nChunksLeft, m_cancel>>

(***************************************************************************)
(* The lanes.  fnCreateEasy gives no handle once the task is canceled.     *)
(***************************************************************************)
StartChunk(l, c) ==
  /\ ~m_cancel
  /\ StartJob(l, c)
  /\ stream' = [stream EXCEPT ![c] = IF use_range THEN offset[c] ELSE 0]
  /\ UNCHANGED <<offset, success, attempt, http, wrong, taskVars, dwLane,
                 range_denied, nChunksLeft, m_cancel>>

otherThanEngine == <<chunkVars, taskVars, dwLane, range_denied, nChunksLeft, m_cancel>>

Lane(l) ==
  \/ DriverLoop(l) /\ UNCHANGED otherThanEngine
  \/ \E c \in Jobs :
       \/ StartChunk(l, c)
       \/ \E res \in Codes : StartFails(l, c, res) /\ UNCHANGED otherThanEngine

(* What libcurl's callbacks see of a transfer while its lane performs.     *)
Transfers(c) ==
  place[c] = "active" /\ phase[lane[c]] = "perform" /\ On(lane[c], "calling") = {}

(* ChunkStatusHeader: the server may ignore the Range it was asked for.    *)
Header(c, status) ==
  /\ Transfers(c) /\ http[c] = 0
  /\ status = 206 => use_range
  /\ status = 404 => ~use_range
  /\ http' = [http EXCEPT ![c] = status]
  /\ UNCHANGED <<engineVars, offset, success, attempt, stream, wrong, taskVars,
                 dwLane, range_denied, nChunksLeft, m_cancel>>

Is2xx(c)    == http[c] \in {200, 206}
IsDenied(c) == use_range /\ http[c] = 200

(* File_Write: one byte of the body; what lies past the chunk is ignored,  *)
(* and so is an error page when a range was asked for, but not without:    *)
(* one byte stands for it.                                                 *)
Write(c) ==
  /\ Transfers(c) /\ ~IsDenied(c) /\ ~m_cancel
  /\ \/ Is2xx(c) /\ stream[c] < PartLen
     \/ http[c] = 404 /\ ~use_range /\ stream[c] = 0
  /\ stream' = [stream EXCEPT ![c] = @ + 1]
  /\ IF Full(c)
     THEN UNCHANGED <<offset, wrong>>
     ELSE /\ offset' = [offset EXCEPT ![c] = @ + 1]
          /\ wrong' = IF Is2xx(c) /\ stream[c] = offset[c] THEN wrong ELSE wrong \cup {c}
  /\ UNCHANGED <<engineVars, success, attempt, http, taskVars, dwLane,
                 range_denied, nChunksLeft, m_cancel>>

(* The transfer ends: well, with the whole body, without a length to tell  *)
(* that it is short, or with an HTTP error; aborted by the header or the   *)
(* progress callback; by a timeout or another error at any time.           *)
Ends(c, res) ==
  /\ Transfers(c)
  /\ res = "OK" => ~IsDenied(c)
  /\ res = "ABORTED" => m_cancel
  /\ res # "FAILED_INIT"
  /\ Completes(lane[c], c, res)
  /\ UNCHANGED otherThanEngine

(***************************************************************************)
(* OnChunkDone, the fnDone of a chunk: the order of its tests is the order *)
(* of the alternatives.  It ends in FinishChunk or in a delayed attempt.   *)
(***************************************************************************)
FinishChunk(c, ok) ==
  /\ FnDoneReturns(c)
  /\ success' = IF ok THEN success \cup {c} ELSE success \ {c}
  /\ nChunksLeft' = nChunksLeft - 1
  /\ http' = [http EXCEPT ![c] = 0]
  /\ UNCHANGED <<offset, stream, wrong, taskVars, dwLane, m_cancel>>

Stopped(c)   == m_cancel \/ code[c] = "ABORTED"
Denied(c)    == ~Stopped(c) /\ IsDenied(c)
Completed(c) == ~Stopped(c) /\ ~Denied(c) /\ Is2xx(c) /\ code[c] = "OK" /\ Full(c)
Transient(c) ==
  /\ ~Stopped(c) /\ ~Denied(c) /\ ~Completed(c)
  /\ Is2xx(c) /\ code[c] # "TIMEDOUT"
WantsRetry(c) == Transient(c) /\ attempt[c] < 2

ChunkDenied(c) ==
  /\ place[c] = "calling" /\ Denied(c)
  /\ range_denied' = TRUE
  /\ FinishChunk(c, FALSE)
  /\ UNCHANGED attempt

ChunkCompleted(c) ==
  /\ place[c] = "calling" /\ Completed(c)
  /\ FinishChunk(c, TRUE)
  /\ UNCHANGED <<attempt, range_denied>>

ChunkGivenUp(c) ==
  /\ place[c] = "calling"
  /\ ~Denied(c) /\ ~Completed(c) /\ ~WantsRetry(c)
  /\ FinishChunk(c, FALSE)
  /\ UNCHANGED <<attempt, range_denied>>

(* Mutants of ChunkRetried: the chunk is counted out although it goes on;  *)
(* a refused one is not counted out.                                       *)
ChunkRetried_countedOut(c) ==
  /\ place[c] = "calling" /\ WantsRetry(c) /\ dwLane[c] \in Lanes
  /\ attempt' = [attempt EXCEPT ![c] = @ + 1]
  /\ nChunksLeft' = nChunksLeft - 1
  /\ SubmitChunkDelayed(c, dwLane[c])
  /\ http' = [http EXCEPT ![c] = 0]
  /\ UNCHANGED <<offset, success, stream, wrong, taskVars, dwLane, range_denied, m_cancel>>

ChunkRetried_forgotten(c) ==
  /\ place[c] = "calling" /\ WantsRetry(c)
  /\ attempt' = [attempt EXCEPT ![c] = @ + 1]
  /\ http' = [http EXCEPT ![c] = 0]
  /\ IF bShutdown \/ dwLane[c] \notin Lanes THEN FnDoneReturns(c)
     ELSE SubmitChunkDelayed(c, dwLane[c])
  /\ UNCHANGED <<offset, success, stream, wrong, taskVars, dwLane, range_denied,
                 nChunksLeft, m_cancel>>

(* attempt++ and SubmitChunkAttempt(TRUE): the chunk may be full although  *)
(* its transfer failed, and the engine may refuse the job.                 *)
ChunkRetried(c) ==
  /\ place[c] = "calling" /\ WantsRetry(c)
  /\ attempt' = [attempt EXCEPT ![c] = @ + 1]
  /\ UNCHANGED range_denied
  /\ IF Full(c) THEN FinishChunk(c, TRUE)
     ELSE IF bShutdown \/ dwLane[c] \notin Lanes THEN FinishChunk(c, FALSE)
     ELSE /\ SubmitChunkDelayed(c, dwLane[c])
          /\ http' = [http EXCEPT ![c] = 0]
          /\ UNCHANGED <<offset, success, stream, wrong, taskVars, dwLane,
                         nChunksLeft, m_cancel>>

OnChunkDone(c) ==
  ChunkDenied(c) \/ ChunkCompleted(c) \/ ChunkGivenUp(c) \/ ChunkRetried(c)

(* Ccurl::Cancel, or the flag of SetExternalCancel; in that case the       *)
(* progress callback of a running transfer sets m_cancel_flag as well.     *)
Cancel ==
  /\ SetFlag(Jobs)
  /\ m_cancel' = (m_cancel \/ ~external)
  /\ UNCHANGED <<chunkVars, taskVars, dwLane, range_denied, nChunksLeft>>

Progress(c) ==
  /\ external /\ flagged # {} /\ ~m_cancel
  /\ Transfers(c)
  /\ m_cancel' = TRUE
  /\ UNCHANGED <<engineVars, chunkVars, taskVars, dwLane, range_denied, nChunksLeft>>

Environment ==
  \/ \E c \in Jobs :
       \/ \E status \in {200, 206, 404} : Header(c, status)
       \/ Write(c) \/ \E res \in Codes : Ends(c, res)
       \/ Progress(c)
  \/ Cancel
  \/ Shutdown /\ UNCHANGED otherThanEngine

Retries(c) == Due(c) /\ UNCHANGED otherThanEngine

Next ==
  \/ DownloadTask
  \/ \E l \in Lanes : Lane(l)
  \/ \E c \in Jobs : OnChunkDone(c) \/ Retries(c)
  \/ Environment
  \/ ShutdownJoin /\ UNCHANGED otherThanEngine

(* The threads run.  A transfer may stall: only TransfersEnd says that     *)
(* none does (CURLOPT_LOW_SPEED_TIME, with a timeout).                     *)
Fairness ==
  /\ WF_vars(DownloadTask)
  /\ \A l \in Lanes : WF_vars(Lane(l))
  /\ \A c \in Jobs : WF_vars(OnChunkDone(c)) /\ WF_vars(Retries(c))

TransfersEnd == \A c \in Jobs : SF_vars(\E res \in Codes : Ends(c, res))

Spec == Init /\ [][Next]_vars
FairSpec == Spec /\ Fairness

-----------------------------------------------------------------------------

TypeOK ==
  /\ EngineTypeOK
  /\ use_range \in BOOLEAN
  /\ offset \in [Jobs -> 0..(ThreadNum * ChunkLen)]
  /\ success \in SUBSET Jobs
  /\ attempt \in [Jobs -> 0..2]
  /\ dwLane \in [Jobs -> Lanes \cup {Unset}]
  /\ http \in [Jobs -> {0, 200, 206, 404}]
  /\ stream \in [Jobs -> 0..(ThreadNum * ChunkLen)]
  /\ wrong \in SUBSET Jobs
  /\ range_denied \in BOOLEAN
  /\ nChunksLeft \in 0..ThreadNum
  /\ m_cancel \in BOOLEAN
  /\ external \in BOOLEAN
  /\ main \in {"begin", "submit", "push", "writeback", "decide", "done", "failed"}
  /\ cur \in 1..(ThreadNum + 1)

(* m_nChunksLeft counts exactly the chunks that are submitted and not      *)
(* finished, although the thread counts up and the drivers count down, so  *)
(* that when Download_Task looks at the results, lays the file out again   *)
(* or returns (and its caller frees the chunks), no driver holds one; nor  *)
(* is a chunk tried more than three times.                                 *)
ReturnsAlone ==
  /\ TypeOK
  /\ nChunksLeft = Cardinality({c \in Jobs : place[c] # "client"})
  /\ main \in {"begin", "decide", "done", "failed"} => \A c \in Jobs : place[c] = "client"

(* A chunk marked successful is full, and a Range request puts every byte  *)
(* where it belongs, whatever failed in between.                           *)
SuccessIsFull ==
  /\ \A c \in success : c \in Chunks => Full(c)
  /\ main = "done" => Verified /\ AllOk
  /\ use_range => wrong = {}

(* What the callers of Ccurl rely on, kept although drivers write to the   *)
(* file, report and try again on their own: no byte is written before a    *)
(* restart is laid out, once the task is stopped or after it has returned. *)
Outcome == CASE main = "done" -> "whole" [] main = "failed" -> "broken" [] OTHER -> "writing"
Base(c) == (c - 1) * PartLen
Covered == UNION {{Base(c) + k : k \in 0..(offset[c] - 1)} : c \in Chunks}

Promise == INSTANCE Download WITH
  phase <- Outcome, len <- ThreadNum * ChunkLen, have <- Covered,
  ranged <- use_range, right <- (wrong = {}), stopping <- m_cancel
ImplementsDownload == Promise!Spec

(* Ccurl.cpp:930, "download complete: ..., size verified": the file then   *)
(* holds the bytes of the server, each in its place.                       *)
CompleteIsRight == main = "done" => wrong = {}

(* Download_Task returns: if no transfer stalls for ever, and even if all  *)
(* of them do once the task is canceled or the engine is shut down.        *)
Returned == main \in {"done", "failed"}
TaskReturns == TransfersEnd \/ <>(flagged # {} \/ bShutdown) => <>Returned
=============================================================================
