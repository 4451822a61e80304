------------------------------ MODULE VideoTask -----------------------------
(***************************************************************************)
(* RunVideoExec (taskexec.cpp) with VideoDownloader::Run                   *)
(* (download_video.cpp) and MergeMp4 (avmerge.cpp), for several tasks of a *)
(* process that share the Python worker, and the end of the process        *)
(* (app_main.cpp).  A cancel is a flag the window sets; the task looks at  *)
(* it in the callbacks of its stages and of its progress only, which copy  *)
(* it to m_cancel of the downloader.  A download is what ChunkTransfer     *)
(* promises: the whole file, or not.                                       *)
(***************************************************************************)
EXTENDS PyWorker

CONSTANTS
  Modes,       (* what the process may be started for                       *)
  Cancelable   (* bound: the tasks somebody may cancel                      *)

ASSUME TaskAssumption ==
  Cancelable \subseteq Callers /\ Modes \subseteq {"tasks", "update", "verify"}

VARIABLES
  mode,        (* "tasks", "update" (--update-parser) or "verify"           *)
  pc,          (* where a task stands                                       *)
  attempt,     (* 1, or 2 after the forced update                           *)
  asked,       (* the cancel flag of the task                               *)
  m_cancel,    (* of its VideoDownloader                                    *)
  streams, idx,   (* nStreamCount, nIndex + 1                               *)
  page,        (* whose page the URLs it downloads are from                 *)
  track,       (* the .mp4 and the .m4a of each task                        *)
  merged, ext, (* the _full files; the one being written                    *)
  outcome, path,  (* what TaskExecRun gave, and strOutputPath               *)
  main         (* the main thread: "waits", "stopping", "gone"              *)

taskVars == <<pc, attempt, asked, m_cancel, streams, idx, page, track, merged,
              ext, outcome, path>>
vars     == <<pyVars, taskVars, mode, main>>

Exts     == {"mp4", "mkv"}
NoPage   == "none"
Outcomes == {"Done", "Error", "Canceled"}

Init ==
  /\ PyInit
  /\ mode \in Modes
  /\ pc = [t \in Callers |-> "start"]
  /\ attempt = [t \in Callers |-> 1] /\ asked = [t \in Callers |-> FALSE]
  /\ m_cancel = [t \in Callers |-> FALSE]
  /\ streams = [t \in Callers |-> 0] /\ idx = [t \in Callers |-> 1]
  /\ page = [t \in Callers |-> NoPage]
  /\ track = [t \in Callers |-> [i \in 1 .. 2 |-> "none"]]
  /\ merged = [t \in Callers |-> [e \in Exts |-> "none"]]
  /\ ext = [t \in Callers |-> "mp4"]
  /\ outcome = [t \in Callers |-> "none"] /\ path = [t \in Callers |-> "none"]
  /\ main = "waits"

Goto(t, l) == pc' = [pc EXCEPT ![t] = l]

(* The end of RunVideoExec: an error of a task that is canceled by now is  *)
(* a cancel.                                                               *)
Ends(t, how) ==
  /\ Goto(t, "ended")
  /\ outcome' = [outcome EXCEPT ![t] =
       IF how = "Error" /\ asked[t] THEN "Canceled" ELSE how]

(* onStage: the callback of RunVideoExec.                                  *)
Stage(t) == m_cancel' = [m_cancel EXCEPT ![t] = @ \/ asked[t]]

SetTrack(t, i, what)  == track' = [track EXCEPT ![t] = [@ EXCEPT ![i] = what]]
SetMerged(t, e, what) == merged' = [merged EXCEPT ![t] = [@ EXCEPT ![e] = what]]

-----------------------------------------------------------------------------
Start(t) ==
  /\ pc[t] = "start" /\ mode = "tasks"
  /\ IF asked[t] THEN Ends(t, "Canceled")
                 ELSE Goto(t, "parse") /\ UNCHANGED outcome
  /\ UNCHANGED <<pyVars, attempt, asked, m_cancel, streams, idx, page, track,
                 merged, ext, path, mode, main>>

(* EmbedPythonInit fails.                                                  *)
NoPython(t) ==
  /\ pc[t] = "start" /\ (mode = "tasks" => ~asked[t])
  /\ Ends(t, "Error")
  /\ UNCHANGED <<pyVars, attempt, asked, m_cancel, streams, idx, page, track,
                 merged, ext, path, mode, main>>

(* A new VideoDownloader; STAGE_PARSING; EmbedParseVideoUrls.              *)
Parse(t) ==
  /\ pc[t] = "parse"
  /\ Submit(t, "parse", asked[t])
  /\ m_cancel' = [m_cancel EXCEPT ![t] = asked[t]]
  /\ Goto(t, "parsing")
  /\ UNCHANGED <<attempt, asked, streams, idx, page, track, merged, ext,
                 outcome, path, mode, main>>

Parsed(t) ==
  /\ pc[t] = "parsing" /\ call[t].at = "over" /\ Succeeded(t)
  /\ page' = [page EXCEPT ![t] = call[t].answer.job[1]]
  /\ \E n \in 1 .. 2 : streams' = [streams EXCEPT ![t] = n]
  /\ Goto(t, "stream")
  /\ UNCHANGED <<pyVars, attempt, asked, m_cancel, idx, track, merged, ext,
                 outcome, path, mode, main>>

(* The first failure forces an update, the second is the task's.           *)
ParseFailed(t) ==
  /\ pc[t] = "parsing" /\ call[t].at = "over" /\ ~Succeeded(t)
  /\ IF ~m_cancel[t] /\ attempt[t] = 1
       THEN Goto(t, "update") /\ UNCHANGED outcome
       ELSE Ends(t, IF m_cancel[t] THEN "Canceled" ELSE "Error")
  /\ UNCHANGED <<pyVars, attempt, asked, m_cancel, streams, idx, page, track,
                 merged, ext, path, mode, main>>

(* EmbedUpdateParser, which nothing cancels.                               *)
Update(t) ==
  /\ pc[t] = "update"
  /\ Submit(t, "update", FALSE)
  /\ Goto(t, "updating")
  /\ UNCHANGED <<attempt, asked, m_cancel, streams, idx, page, track, merged,
                 ext, outcome, path, mode, main>>

(* Whatever came of it, the page is tried once more.                       *)
Updated(t) ==
  /\ pc[t] = "updating" /\ call[t].at = "over" /\ mode = "tasks"
  /\ attempt' = [attempt EXCEPT ![t] = 2]
  /\ IF asked[t] THEN Ends(t, "Canceled")
                 ELSE Goto(t, "parse") /\ UNCHANGED outcome
  /\ UNCHANGED <<pyVars, asked, m_cancel, streams, idx, page, track, merged,
                 ext, path, mode, main>>

-----------------------------------------------------------------------------
(* Stage 2, one stream after the other.                                    *)

BeginStream(t) ==
  /\ pc[t] = "stream" /\ ~m_cancel[t]
  /\ Stage(t)
  /\ SetTrack(t, idx[t], "part")
  /\ Goto(t, "download")
  /\ UNCHANGED <<pyVars, attempt, asked, streams, idx, page, merged, ext,
                 outcome, path, mode, main>>

CheckpointStops(t) ==
  /\ pc[t] \in {"stream", "merge"} /\ m_cancel[t]
  /\ Ends(t, "Canceled")
  /\ UNCHANGED <<pyVars, attempt, asked, m_cancel, streams, idx, page, track,
                 merged, ext, path, mode, main>>

(* Any progress callback may have copied the flag meanwhile; a stream may  *)
(* be whole before one sees it, and no checkpoint follows the last stream. *)
StreamDone(t) ==
  /\ pc[t] = "download"
  /\ SetTrack(t, idx[t], "full")
  /\ Stage(t) \/ UNCHANGED m_cancel
  /\ \/ /\ idx[t] < streams[t]
        /\ idx' = [idx EXCEPT ![t] = @ + 1] /\ Goto(t, "stream")
        /\ UNCHANGED <<outcome, path>>
     \/ /\ idx[t] = streams[t] /\ streams[t] > 1
        /\ Goto(t, "merge") /\ UNCHANGED <<idx, outcome, path>>
     \/ /\ idx[t] = streams[t] /\ streams[t] = 1
        /\ path' = [path EXCEPT ![t] = "track"]
        /\ Ends(t, "Done") /\ UNCHANGED idx
  /\ UNCHANGED <<pyVars, attempt, asked, streams, page, merged, ext, mode, main>>

(* Init or Download_Task gives up, or its cancel flag stops it.            *)
StreamFails(t) ==
  /\ pc[t] = "download"
  /\ Ends(t, "Error")
  /\ UNCHANGED <<pyVars, attempt, asked, m_cancel, streams, idx, page, track,
                 merged, ext, path, mode, main>>

-----------------------------------------------------------------------------
(* Stage 3.                                                                *)

(* Mutant of BeginMerge: the tracks go when the merge starts.              *)
BeginMerge_removes(t) ==
  /\ pc[t] = "merge" /\ ~m_cancel[t]
  /\ Stage(t)
  /\ \E e \in Exts :
       /\ ext' = [ext EXCEPT ![t] = e]
       /\ SetMerged(t, e, "part")
  /\ track' = [track EXCEPT ![t] = [i \in 1 .. 2 |-> "none"]]
  /\ Goto(t, "merging")
  /\ UNCHANGED <<pyVars, attempt, asked, streams, idx, page, outcome,
                 path, mode, main>>

(* SuggestMergeExt goes by the codec of the video track.                   *)
BeginMerge(t) ==
  /\ pc[t] = "merge" /\ ~m_cancel[t]
  /\ Stage(t)
  /\ \E e \in Exts :
       /\ ext' = [ext EXCEPT ![t] = e]
       /\ SetMerged(t, e, "part")
  /\ Goto(t, "merging")
  /\ UNCHANGED <<pyVars, attempt, asked, streams, idx, page, track, outcome,
                 path, mode, main>>

(* Mutant of MergeOk: after the fallback the first name is reported.       *)
MergeOk_firstName(t) ==
  /\ pc[t] = "merging" /\ ~m_cancel[t]
  /\ SetMerged(t, ext[t], "full")
  /\ path' = [path EXCEPT ![t] = "mp4"]
  /\ Goto(t, "cleanup")
  /\ UNCHANGED <<pyVars, attempt, asked, m_cancel, streams, idx, page, track,
                 ext, outcome, mode, main>>

MergeOk(t) ==
  /\ pc[t] = "merging" /\ ~m_cancel[t]
  /\ SetMerged(t, ext[t], "full")
  /\ path' = [path EXCEPT ![t] = ext[t]]
  /\ Goto(t, "cleanup")
  /\ UNCHANGED <<pyVars, attempt, asked, m_cancel, streams, idx, page, track,
                 ext, outcome, mode, main>>

(* The partial output is removed.  An .mp4 that cannot hold the codecs is  *)
(* tried again as .mkv.                                                    *)
MergeFails(t) ==
  /\ pc[t] = "merging"
  /\ IF ~m_cancel[t] /\ ext[t] = "mp4"
       THEN /\ merged' = [merged EXCEPT ![t] = [mp4 |-> "none", mkv |-> "part"]]
            /\ ext' = [ext EXCEPT ![t] = "mkv"]
            /\ UNCHANGED <<pc, outcome>>
       ELSE /\ SetMerged(t, ext[t], "none")
            /\ Ends(t, IF m_cancel[t] THEN "Canceled" ELSE "Error")
            /\ UNCHANGED ext
  /\ UNCHANGED <<pyVars, attempt, asked, m_cancel, streams, idx, page, track,
                 path, mode, main>>

Cleanup(t) ==
  /\ pc[t] = "cleanup"
  /\ track' = [track EXCEPT ![t] = [i \in 1 .. 2 |-> "none"]]
  /\ Ends(t, "Done")
  /\ UNCHANGED <<pyVars, attempt, asked, m_cancel, streams, idx, page, merged,
                 ext, path, mode, main>>

-----------------------------------------------------------------------------
(* The other users of the worker: RunCli with --update-parser and          *)
(* --verify-runtime, on the main thread.                                   *)
CliCall(t) ==
  /\ pc[t] = "start" /\ mode # "tasks"
  /\ \A u \in Callers : pc[u] = "start"
  /\ Submit(t, mode, FALSE)
  /\ pc' = [u \in Callers |-> IF u = t THEN "updating" ELSE "ended"]
  /\ UNCHANGED <<attempt, asked, m_cancel, streams, idx, page, track, merged,
                 ext, outcome, path, mode, main>>

CliAnswer(t) ==
  /\ pc[t] = "updating" /\ call[t].at = "over" /\ mode # "tasks"
  /\ Ends(t, IF Succeeded(t) THEN "Done" ELSE "Error")
  /\ UNCHANGED <<pyVars, attempt, asked, m_cancel, streams, idx, page, track,
                 merged, ext, path, mode, main>>

Cancel(t) ==
  /\ t \in Cancelable /\ mode = "tasks" /\ pc[t] # "ended" /\ ~asked[t]
  /\ asked' = [asked EXCEPT ![t] = TRUE]
  /\ UNCHANGED <<pyVars, pc, attempt, m_cancel, streams, idx, page, track,
                 merged, ext, outcome, path, mode, main>>

(* main: all tasks have ended, then EmbedPythonStopWorker(2).              *)
StopWorker ==
  /\ main = "waits" /\ \A t \in Callers : pc[t] = "ended"
  /\ IF started THEN stop' = TRUE /\ main' = "stopping"
                ELSE UNCHANGED stop /\ main' = "gone"
  /\ UNCHANGED <<jobs, worker, cur, script, started, exited, rc, disk, call,
                 taskVars, mode>>

Joined ==
  /\ main = "stopping" /\ exited
  /\ main' = "gone"
  /\ UNCHANGED <<pyVars, taskVars, mode>>

(* Mutant of Detached: the thread is joined, however long it takes.        *)
Detached_joins ==
  /\ main = "stopping" /\ exited
  /\ main' = "gone"
  /\ UNCHANGED <<pyVars, taskVars, mode>>

Detached ==
  /\ main = "stopping" /\ ~exited
  /\ main' = "gone"
  /\ UNCHANGED <<pyVars, taskVars, mode>>

-----------------------------------------------------------------------------
Step(t) ==
  \/ Start(t) \/ NoPython(t) \/ Parse(t) \/ Parsed(t) \/ ParseFailed(t)
  \/ Update(t) \/ Updated(t)
  \/ BeginStream(t) \/ CheckpointStops(t) \/ StreamDone(t) \/ StreamFails(t)
  \/ BeginMerge(t) \/ MergeOk(t) \/ MergeFails(t) \/ Cleanup(t)
  \/ CliCall(t) \/ CliAnswer(t)

Await(t) == Woken(t) \/ TimesOut(t) \/ ReadResult(t) \/ RemoveResult(t)

(* When main has returned the process is gone, and its threads with it.    *)
Python == main # "gone" /\ (Loop \/ Scripts) /\ UNCHANGED <<taskVars, mode, main>>

Next ==
  \/ \E t \in Callers :
       \/ Step(t) \/ Cancel(t)
       \/ Await(t) /\ UNCHANGED <<taskVars, mode, main>>
  \/ Python
  \/ StopWorker \/ Joined \/ Detached

Spec == Init /\ [][Next]_vars

Thread(t) == Step(t) \/ (Await(t) /\ UNCHANGED <<taskVars, mode, main>>)

(* The threads run; a script need not end (the network may hold it), so    *)
(* nothing is assumed of Scripts.                                          *)
FairSpec ==
  /\ Spec
  /\ \A t \in Callers : WF_vars(Thread(t))
  /\ WF_vars(Loop /\ main # "gone" /\ UNCHANGED <<taskVars, mode, main>>)
  /\ WF_vars(StopWorker \/ Joined \/ Detached)

-----------------------------------------------------------------------------
(* Every variable has its type.                                            *)
Early  == {"start", "parse", "parsing", "update", "updating"}
Places == Early \cup {"stream", "download", "merge", "merging", "cleanup", "ended"}
TypeOK ==
  /\ mode \in Modes /\ main \in {"waits", "stopping", "gone"}
  /\ pc \in [Callers -> Places]
  /\ asked \in [Callers -> BOOLEAN] /\ m_cancel \in [Callers -> BOOLEAN]
  /\ ext \in [Callers -> Exts]
  /\ page \in [Callers -> Callers \cup {NoPage}]
  /\ attempt \in [Callers -> 1 .. 2] /\ streams \in [Callers -> 0 .. 2]
  /\ idx \in [Callers -> 1 .. 2]
  /\ track \in [Callers -> [1 .. 2 -> {"none", "part", "full"}]]
  /\ merged \in [Callers -> [Exts -> {"none", "part", "full"}]]
  /\ outcome \in [Callers -> Outcomes \cup {"none"}]
  /\ path \in [Callers -> {"none", "track"} \cup Exts]

(* A task that reports success names a file that is there and whole, and   *)
(* whatever the end, no torn _full file is left: MergeMp4 removes it, and  *)
(* the name that is reported is the one that was written last.             *)
Settled(t) ==
  pc[t] = "ended" =>
    /\ \A e \in Exts : merged[t][e] # "part"
    /\ mode = "tasks" /\ outcome[t] = "Done" =>
         \/ path[t] = "track" /\ track[t][1] = "full"
         \/ path[t] \in Exts /\ merged[t][path[t]] = "full"
OutputIsWhole == TypeOK /\ \A t \in Callers : Settled(t)

(* Hours of download are not thrown away: a whole track is removed only    *)
(* when the merged file is whole, whatever fails or is canceled.           *)
TracksKept ==
  [][\A t \in Callers : \A i \in 1 .. 2 :
       track[t][i] = "full" /\ track'[t][i] # "full" =>
         \E e \in Exts : merged[t][e] = "full"]_vars

(* The inductive invariant of VideoTaskProofs: how far the tracks and the  *)
(* merged files are where the task stands.                                 *)
Stands(t) ==
  /\ pc[t] \in Early => idx[t] = 1 /\ \A i \in 1 .. 2 : track[t][i] = "none"
  /\ pc[t] \in {"stream", "download"} => \A i \in 1 .. 2 : i >= idx[t] => track[t][i] # "full"
  /\ pc[t] \in Early \cup {"stream", "download", "merge"} =>
       \A e \in Exts : merged[t][e] = "none"
  /\ pc[t] = "merging" => \A e \in Exts : e # ext[t] => merged[t][e] = "none"
  /\ pc[t] = "cleanup" => /\ path[t] \in Exts /\ merged[t][path[t]] = "full"
                          /\ \A e \in Exts : merged[t][e] # "part"
IInv == OutputIsWhole /\ \A t \in Callers : Stands(t)

(* "A stuck network job cannot block exit": with every wait bounded and    *)
(* the thread detached, the process ends though a script never does.       *)
ProcessExits == <>(main = "gone")

(* What embed_python.h:54 says of EmbedParseVideoUrls: it parses the page  *)
(* it is given into its media streams.                                     *)
OwnPage == \A t \in Callers : page[t] \in {NoPage, t}
=============================================================================
