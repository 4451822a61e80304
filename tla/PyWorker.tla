------------------------------ MODULE PyWorker ------------------------------
(***************************************************************************)
(* The Python worker of embed_python.cpp: one thread that runs the scripts *)
(* of all callers, started on demand and released when idle, and the calls *)
(* (RunOnPythonThread) that wait for it with a budget.  A script leaves    *)
(* its answer in one file for the whole process (ResultFile); the caller   *)
(* reads and removes it after it was woken.  The script of an update       *)
(* replaces the yt_dlp directory in steps.  What a script computes is      *)
(* chosen; the interpreter has only the modules it has imported.           *)
(***************************************************************************)
EXTENDS Naturals, Sequences

CONSTANTS Callers      (* who calls: the executors of tasks, or the CLI     *)

VARIABLES
  jobs,        (* g_py_jobs                                                 *)
  worker,      (* the thread: "none", "wait", "run", "leaving"              *)
  cur,         (* the job it runs                                           *)
  script,      (* where the script of an update stands                      *)
  started, stop, exited,   (* g_py_thread_started, _stop, _exited           *)
  rc,          (* of every job somebody holds; "open" until bDone           *)
  call,        (* of a caller: its job and how far RunOnPythonThread is     *)
  result,      (* the file                                                  *)
  parser, backup           (* are yt_dlp and .parser_bak_<pid> there       *)

thread == <<jobs, worker, cur, script, started, stop, exited, rc>>
disk   == <<result, parser, backup>>
pyVars == <<thread, disk, call>>

Kinds    == {"parse", "update", "verify"}
JobIds   == Callers \X (Nat \ {0}) \X Kinds
NoJob    == <<>>
NoAnswer == [job |-> NoJob, ok |-> FALSE]
Answers  == [job : JobIds, ok : BOOLEAN] \cup {NoAnswer}
Idle     == [job |-> NoJob, at |-> "idle", answer |-> NoAnswer]

PyInit ==
  /\ jobs = <<>> /\ worker = "none" /\ cur = NoJob /\ script = "none"
  /\ started = FALSE /\ stop = FALSE /\ exited = FALSE
  /\ rc = [j \in {} |-> "open"]
  /\ call = [c \in Callers |-> Idle]
  /\ result = NoAnswer
  /\ parser = TRUE /\ backup = FALSE

-----------------------------------------------------------------------------
(* The callers.                                                            *)

(* The jobs of a caller are numbered.                                      *)
NextJob(c, kind) ==
  <<c, IF call[c].job = NoJob THEN 1 ELSE call[c].job[2] + 1, kind>>

(* SubmitPythonJob: a thread that has left is joined and replaced.  canceled*)
(* is *pbCancel: a caller that is canceled already does not wait at all.   *)
Submit(c, kind, canceled) ==
  LET j == NextJob(c, kind)
  IN  /\ jobs' = Append(jobs, j)
      /\ rc' = [i \in DOMAIN rc \cup {j} |-> IF i = j THEN "open" ELSE rc[i]]
      /\ call' = [call EXCEPT ![c] =
           [job |-> j, at |-> IF canceled THEN "over" ELSE "waiting", answer |-> NoAnswer]]
      /\ IF started THEN UNCHANGED <<worker, started, exited>>
                    ELSE worker' = "wait" /\ started' = TRUE /\ exited' = FALSE
      /\ UNCHANGED <<cur, script, stop, disk>>

MoveOn(c, at) == call' = [call EXCEPT ![c] = [@ EXCEPT !.at = at]]

(* The result of a job is gone with the last that holds it.                *)
Awaited(j) == call[j[1]].job = j /\ call[j[1]].at = "waiting"
Forget(j)  == rc' = [i \in DOMAIN rc \ {j} |-> rc[i]]

(* A script that raised has written nothing.                               *)
Woken(c) ==
  /\ call[c].at = "waiting" /\ rc[call[c].job] # "open"
  /\ MoveOn(c, IF rc[call[c].job] = "done" THEN "read" ELSE "over")
  /\ Forget(call[c].job)
  /\ UNCHANGED <<jobs, worker, cur, script, started, stop, exited, disk>>

(* The deadline; the job stays where it is.                                *)
TimesOut(c) ==
  /\ call[c].at = "waiting" /\ rc[call[c].job] = "open"
  /\ MoveOn(c, "over")
  /\ UNCHANGED <<thread, disk>>

ReadResult(c) ==
  /\ call[c].at = "read"
  /\ call' = [call EXCEPT ![c] =
       [job |-> @.job, answer |-> result,
        at |-> IF result = NoAnswer THEN "over" ELSE "remove"]]
  /\ UNCHANGED <<thread, disk>>

RemoveResult(c) ==
  /\ call[c].at = "remove"
  /\ result' = NoAnswer
  /\ MoveOn(c, "over")
  /\ UNCHANGED <<thread, parser, backup>>

(* What the caller makes of it: an answer of another kind has no "urls",   *)
(* or no "ok": true, in it.                                                *)
Succeeded(c) ==
  LET a == call[c].answer
  IN  a # NoAnswer /\ a.job[3] = call[c].job[3] /\ a.ok

-----------------------------------------------------------------------------
(* PythonWorkerLoop.                                                       *)

Take ==
  /\ worker = "wait" /\ jobs # <<>>
  /\ cur' = Head(jobs) /\ jobs' = Tail(jobs)
  /\ worker' = "run" /\ script' = "begin"
  /\ UNCHANGED <<started, stop, exited, rc, disk, call>>

(* Idle for kPyWorkerIdle, or told to stop.                                *)
Leave ==
  /\ worker = "wait" /\ jobs = <<>>
  /\ worker' = "leaving"
  /\ UNCHANGED <<jobs, cur, script, started, stop, exited, rc, disk, call>>

(* Mutant of MarkIdle: the queue is emptied on the way out.                *)
MarkIdle_clears ==
  /\ worker = "leaving"
  /\ worker' = "none" /\ started' = FALSE /\ exited' = TRUE /\ jobs' = <<>>
  /\ UNCHANGED <<cur, script, stop, rc, disk, call>>

(* The lock was given up in between: what came in since is still queued.   *)
MarkIdle ==
  /\ worker = "leaving"
  /\ worker' = "none" /\ started' = FALSE /\ exited' = TRUE
  /\ UNCHANGED <<jobs, cur, script, stop, rc, disk, call>>

Finish(code, answer) ==
  /\ IF Awaited(cur) THEN rc' = [rc EXCEPT ![cur] = code] ELSE Forget(cur)
  /\ result' = answer
  /\ worker' = "wait" /\ cur' = NoJob /\ script' = "none"
  /\ UNCHANGED <<jobs, started, stop, exited, call>>

Running(kinds, at) == worker = "run" /\ cur[3] \in kinds /\ script = at

(* Parsing and the check of --verify-runtime catch what the page or the    *)
(* imports raise, except the import at the head of the parsing script: it  *)
(* raises without the package, unless that was imported before.            *)
RunScript(ok) ==
  /\ Running({"parse", "verify"}, "begin")
  /\ \/ Finish("done", [job |-> cur, ok |-> ok])
     \/ ~parser /\ cur[3] = "parse" /\ Finish("raised", result)
  /\ UNCHANGED <<parser, backup>>

(* Nothing newer, or no network, no package, an unsafe or incomplete one,  *)
(* or the first rename raises.                                             *)
NoUpdate(ok) ==
  /\ Running({"update"}, "begin")
  /\ Finish("done", [job |-> cur, ok |-> ok])
  /\ UNCHANGED <<parser, backup>>

(* A directory cannot be renamed onto a backup that is there.              *)
MoveOldAway ==
  /\ Running({"update"}, "begin")
  /\ parser /\ ~backup
  /\ backup' = TRUE /\ parser' = FALSE
  /\ script' = "moved"
  /\ UNCHANGED <<jobs, worker, cur, started, stop, exited, rc, result, call>>

(* Without had_old there is one rename, and no backup to remove.           *)
AddNew ==
  /\ Running({"update"}, "begin") /\ ~parser
  /\ parser' = TRUE
  /\ script' = "added"
  /\ UNCHANGED <<jobs, worker, cur, started, stop, exited, rc, result, backup, call>>

MoveNewIn ==
  /\ Running({"update"}, "moved")
  /\ parser' = TRUE
  /\ script' = "placed"
  /\ UNCHANGED <<jobs, worker, cur, started, stop, exited, rc, result, backup, call>>

(* Mutant of RollBack: the first rename is not taken back.                 *)
RollBack_forgets ==
  /\ Running({"update"}, "moved")
  /\ backup' = FALSE /\ UNCHANGED parser
  /\ Finish("done", [job |-> cur, ok |-> FALSE])

(* The second rename raises; so may the one that takes the first back.     *)
RollBack ==
  /\ Running({"update"}, "moved")
  /\ \/ parser' = TRUE /\ backup' = FALSE
     \/ UNCHANGED <<parser, backup>>
  /\ Finish("done", [job |-> cur, ok |-> FALSE])

(* Whether the backup could be removed is ignored; what follows may raise. *)
Compile(ok) ==
  /\ \/ Running({"update"}, "placed") /\ backup' \in {FALSE, backup}
     \/ Running({"update"}, "added") /\ UNCHANGED backup
  /\ Finish("done", [job |-> cur, ok |-> ok])
  /\ UNCHANGED parser

Loop    == Take \/ Leave \/ MarkIdle
Scripts ==
  \/ \E ok \in BOOLEAN : RunScript(ok) \/ NoUpdate(ok) \/ Compile(ok)
  \/ MoveOldAway \/ AddNew \/ MoveNewIn \/ RollBack

-----------------------------------------------------------------------------
PyTypeOK ==
  /\ worker \in {"none", "wait", "run", "leaving"} /\ cur \in JobIds \cup {NoJob}
  /\ jobs \in Seq(JobIds) /\ started \in BOOLEAN /\ stop \in BOOLEAN
  /\ exited \in BOOLEAN /\ script \in {"none", "begin", "moved", "placed", "added"}
  /\ DOMAIN rc \subseteq JobIds
  /\ \A j \in DOMAIN rc : rc[j] \in {"open", "done", "raised"}
  /\ call \in [Callers -> [job : JobIds \cup {NoJob}, answer : Answers,
                           at : {"idle", "waiting", "read", "remove", "over"}]]
  /\ result \in Answers
  /\ parser \in BOOLEAN /\ backup \in BOOLEAN

(* What SubmitPythonJob, the idle release and the two locks of the loop    *)
(* keep between them: a job that is open waits in the queue or is the one  *)
(* that runs, each once, and the thread counts as started exactly from its *)
(* start to its mark.                                                      *)
JobsAccounted ==
  /\ PyTypeOK
  /\ \A i, k \in DOMAIN jobs : jobs[i] = jobs[k] => i = k
  /\ \A i \in DOMAIN jobs : jobs[i] \in DOMAIN rc /\ jobs[i] # cur
  /\ \A j \in DOMAIN rc :
       rc[j] = "open" <=> j = cur \/ \E i \in DOMAIN jobs : jobs[i] = j
  /\ started <=> worker # "none"

(* An update never loses both: while the package is missing the old one is *)
(* aside, and it is missing only within the update or when the rollback    *)
(* itself has failed ("atomic replace with rollback").                     *)
ParserOrBackup == parser \/ backup

(* What makes them inductive: a job is in the worker's hands exactly while *)
(* it runs, a script exactly then at work on it, what it moved away can    *)
(* come back, and a new number is new.                                     *)
AtWork ==
  /\ worker = "run" <=> cur # NoJob
  /\ worker = "run" <=> script # "none"
  /\ cur # NoJob => cur \in DOMAIN rc
  /\ script = "moved" => ~parser /\ backup
  /\ script \in {"placed", "added"} => parser
NumbersGrow ==
  /\ \A c \in Callers : call[c].job # NoJob => call[c].job[1] = c
  /\ \A j \in DOMAIN rc :
       call[j[1]].job # NoJob /\ j[2] <= call[j[1]].job[2]
PyIInv == JobsAccounted /\ ParserOrBackup /\ AtWork /\ NumbersGrow
=============================================================================
