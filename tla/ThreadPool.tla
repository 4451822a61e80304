----------------------------- MODULE ThreadPool -----------------------------
(***************************************************************************)
(* CThreadPool (infra/threadpool.cpp): a fixed set of workers over one     *)
(* FIFO of jobs.  Every access to the pool's fields is made under m_mutex, *)
(* so the code between a lock and the unlock that follows is one action;   *)
(* what happens between two of them (a wait on m_cvWork, a job's body) is  *)
(* where the other threads run.                                            *)
(***************************************************************************)
EXTENDS Naturals, Sequences, FiniteSets

CONSTANTS
  Workers,   (* the threads of m_vecWorkers                                 *)
  Jobs,      (* the jobs that may be submitted                              *)
  NoJob      (* what a worker between two jobs holds                        *)

ASSUME PoolAssumption ==
  /\ IsFiniteSet(Workers) /\ Workers # {}   \* the constructor clamps to 1
  /\ IsFiniteSet(Jobs)
  /\ NoJob \notin Jobs

VARIABLES
  deqPending,     (* m_deqPending                                           *)
  dwOutstanding,  (* m_dwOutstanding                                        *)
  bShutdown,      (* m_bShutdown                                            *)
  waitSet,        (* the workers blocked in m_cvWork.wait                   *)
  pc,             (* where each worker stands in WorkerLoop                 *)
  held,           (* the local `job` of each worker                         *)
  closer          (* where the thread that called Shutdown stands           *)

poolVars ==
  <<deqPending, dwOutstanding, bShutdown, waitSet, pc, held, closer>>

Awake == {w \in Workers : pc[w] = "take" /\ w \notin waitSet}
Busy  == {w \in Workers : pc[w] \in {"body", "done"}}

PoolInit ==
  /\ deqPending = <<>>
  /\ dwOutstanding = 0
  /\ bShutdown = FALSE
  /\ waitSet = {}
  /\ pc = [w \in Workers |-> "take"]
  /\ held = [w \in Workers |-> NoJob]
  /\ closer = "open"

(* Mutant of Submit: notify_one forgotten.                                 *)
Submit_silent(jobs) ==
  /\ ~bShutdown
  /\ deqPending' = deqPending \o jobs
  /\ dwOutstanding' = dwOutstanding + Len(jobs)
  /\ UNCHANGED <<bShutdown, waitSet, pc, held, closer>>

(***************************************************************************)
(* Submit, called once for each job of a sequence by one thread: the jobs  *)
(* join the FIFO and each notify_one wakes a waiting worker if one is left.*)
(***************************************************************************)
Submit(jobs) ==
  /\ ~bShutdown
  /\ deqPending' = deqPending \o jobs
  /\ dwOutstanding' = dwOutstanding + Len(jobs)
  /\ \E woken \in SUBSET waitSet :
       /\ Cardinality(woken) = Len(jobs) \/ woken = waitSet
       /\ Cardinality(woken) <= Len(jobs)
       /\ waitSet' = waitSet \ woken
  /\ UNCHANGED <<bShutdown, pc, held, closer>>

(* The wait of WorkerLoop and what follows it under the same lock: with no *)
(* job and no shutdown the worker blocks, otherwise it takes the oldest    *)
(* job, and it leaves the loop only when shut down and drained.            *)
Wait(w) ==
  /\ w \in Awake /\ deqPending = <<>> /\ ~bShutdown
  /\ waitSet' = waitSet \cup {w}
  /\ UNCHANGED <<deqPending, dwOutstanding, bShutdown, pc, held, closer>>

(* Mutant of TakeJob: front() without pop_front().                         *)
TakeJob_copies(w) ==
  /\ w \in Awake /\ deqPending # <<>>
  /\ held' = [held EXCEPT ![w] = Head(deqPending)]
  /\ pc' = [pc EXCEPT ![w] = "body"]
  /\ UNCHANGED <<deqPending, dwOutstanding, bShutdown, waitSet, closer>>

TakeJob(w) ==
  /\ w \in Awake /\ deqPending # <<>>
  /\ held' = [held EXCEPT ![w] = Head(deqPending)]
  /\ deqPending' = Tail(deqPending)
  /\ pc' = [pc EXCEPT ![w] = "body"]
  /\ UNCHANGED <<dwOutstanding, bShutdown, waitSet, closer>>

Exit(w) ==
  /\ w \in Awake /\ deqPending = <<>> /\ bShutdown
  /\ pc' = [pc EXCEPT ![w] = "exited"]
  /\ UNCHANGED <<deqPending, dwOutstanding, bShutdown, waitSet, held, closer>>

(* job.fnBody() returned, or threw into the catch (...): the future, if    *)
(* any, is ready now, but the job still counts as outstanding.             *)
BodyEnds(w) ==
  /\ pc[w] = "body"
  /\ pc' = [pc EXCEPT ![w] = "done"]
  /\ UNCHANGED <<deqPending, dwOutstanding, bShutdown, waitSet, held, closer>>

(* The second lock of WorkerLoop, and the way back to its head.            *)
JobDone(w) ==
  /\ pc[w] = "done"
  /\ dwOutstanding' = IF dwOutstanding > 0 THEN dwOutstanding - 1
                                           ELSE dwOutstanding
  /\ pc' = [pc EXCEPT ![w] = "take"]
  /\ held' = [held EXCEPT ![w] = NoJob]
  /\ UNCHANGED <<deqPending, bShutdown, waitSet, closer>>

(* Shutdown: the flag under the lock, notify_all after it, then the joins. *)
(* A later call sees the flag and returns, which changes nothing.          *)
ShutdownFlag ==
  /\ ~bShutdown
  /\ bShutdown' = TRUE
  /\ closer' = "flagged"
  /\ UNCHANGED <<deqPending, dwOutstanding, waitSet, pc, held>>

(* Mutant of ShutdownNotify: notify_one in place of notify_all.            *)
ShutdownNotify_one ==
  /\ closer = "flagged"
  /\ closer' = "joining"
  /\ waitSet' = waitSet \ (IF waitSet = {} THEN {} ELSE {CHOOSE w \in waitSet : TRUE})
  /\ UNCHANGED <<deqPending, dwOutstanding, bShutdown, pc, held>>

ShutdownNotify ==
  /\ closer = "flagged"
  /\ closer' = "joining"
  /\ waitSet' = {}
  /\ UNCHANGED <<deqPending, dwOutstanding, bShutdown, pc, held>>

ShutdownJoin ==
  /\ closer = "joining"
  /\ \A w \in Workers : pc[w] = "exited"
  /\ closer' = "joined"
  /\ UNCHANGED <<deqPending, dwOutstanding, bShutdown, waitSet, pc, held>>

Closing == ShutdownFlag \/ ShutdownNotify \/ ShutdownJoin

(* The steps of a worker that involve no job's body.                       *)
WorkerIdle(w) == Wait(w) \/ TakeJob(w) \/ Exit(w) \/ JobDone(w)

PoolNext ==
  \/ \E jobs \in Seq(Jobs) : Submit(jobs)
  \/ \E w \in Workers : WorkerIdle(w) \/ BodyEnds(w)
  \/ Closing

PoolSpec == PoolInit /\ [][PoolNext]_poolVars

-----------------------------------------------------------------------------

PoolTypeOK ==
  /\ deqPending \in Seq(Jobs)
  /\ dwOutstanding \in Nat
  /\ bShutdown \in BOOLEAN
  /\ waitSet \in SUBSET Workers
  /\ pc \in [Workers -> {"take", "body", "done", "exited"}]
  /\ held \in [Workers -> Jobs \cup {NoJob}]
  /\ closer \in {"open", "flagged", "joining", "joined"}

(* threadpool.h:59, PendingCount: m_dwOutstanding counts exactly the jobs  *)
(* queued plus the jobs a worker still has to account for.                 *)
OutstandingCounts == dwOutstanding = Len(deqPending) + Cardinality(Busy)

(* No wakeup is lost: while a worker sleeps, at least one awake worker is  *)
(* on its way to each queued job.                                          *)
WakeupsSuffice == waitSet # {} => Cardinality(Awake) >= Len(deqPending)

(* Shutdown drains: a worker leaves its loop only when the queue is empty  *)
(* and stays empty.                                                        *)
NoJobDropped == (\E w \in Workers : pc[w] = "exited") => deqPending = <<>>

(* threadpool.h:13, 59: the pool counts every job it has, has somebody     *)
(* awake for each that is queued, and drops none at Shutdown.              *)
PoolKeepsJobs == OutstandingCounts /\ WakeupsSuffice /\ NoJobDropped
=============================================================================
