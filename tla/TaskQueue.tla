----------------------------- MODULE TaskQueue -----------------------------
(***************************************************************************)
(* CTaskQueue (infra/taskqueue.cpp) on the CThreadPool it is given.  Every *)
(* method holds m_mutex from its first to its last access to the queue     *)
(* and takes the pool's mutex inside it (Submit), so each is one action;   *)
(* RunTask is the body of a pool job and runs the executor unlocked.       *)
(* The job of a task is named by the task's id.  Save and Load, which only *)
(* the tests call, are in QueueFile.                                       *)
(***************************************************************************)
EXTENDS ThreadPool, Functions

CONSTANTS
  Slots,     (* m_dwSlots                                                   *)
  MaxTasks   (* bound: how many tasks are added                             *)

TaskIds == 1..MaxTasks

ASSUME QueueAssumption ==
  /\ Slots \in Nat \ {0}                    \* the constructor clamps to 1
  /\ MaxTasks \in Nat
  /\ Jobs = TaskIds

VARIABLES
  emState,     (* tTask.emState of each entry of m_mapEntries, or "Absent"  *)
  bCancel,     (* the tasks whose CTaskContext is canceled                  *)
  dwNextId,    (* m_dwNextId                                                *)
  bStarted,    (* m_bStarted                                                *)
  dwRunning,   (* m_dwRunning                                               *)
  waiter,      (* the thread in WaitAll: outside, about to test, asleep     *)
  thrown       (* history: the tasks whose executor threw                   *)

queueVars == <<emState, bCancel, dwNextId, bStarted, dwRunning, waiter, thrown>>
vars == <<poolVars, queueVars>>

In(st, s)  == {t \in TaskIds : st[t] = s}
Running    == In(emState, "Running")
Active(st) == In(st, "Pending") \cup In(st, "Running")

Init ==
  /\ PoolInit
  /\ emState = [t \in TaskIds |-> "Absent"]
  /\ bCancel = {}
  /\ dwNextId = 1
  /\ bStarted = FALSE
  /\ dwRunning = 0
  /\ waiter = "outside"
  /\ thrown = {}

(* m_cvIdle.notify_all().                                                  *)
NotifyIdle(wtr) == IF wtr = "asleep" THEN "test" ELSE wtr

(* The tasks a run of the dispatch loop starts, in the order it submits    *)
(* them: lowest id first, until no task is pending or no slot is free.     *)
IsBatch(batch, st, free) ==
  /\ \A i, j \in DOMAIN batch : i < j => batch[i] < batch[j]
  /\ \A t \in In(st, "Pending") \ Range(batch), s \in Range(batch) : s < t
  /\ Len(batch) = free \/ Range(batch) = In(st, "Pending")

Batches(st, free) ==
  {b \in UNION {[1..n -> In(st, "Pending")] : n \in 0..free} :
     IsBatch(b, st, free)}

(* The same for a pool that refuses every job: the first pending task ends *)
(* in Error and the loop is left, whatever else is pending.                *)
Refused(st, free) ==
  {t \in In(st, "Pending") : free > 0 /\ \A s \in In(st, "Pending") : t <= s}

(* DispatchLocked, last call of each method below.  Its arguments are what *)
(* the method has made of m_bStarted, the entries, m_dwRunning and the     *)
(* waiter before it.                                                       *)
DispatchLocked(started, st, running, wtr) ==
  \/ /\ ~started
     /\ emState' = st /\ dwRunning' = running /\ waiter' = wtr
     /\ UNCHANGED poolVars
  \/ /\ started /\ ~bShutdown
     /\ \E batch \in Batches(st, Slots - running) :
          /\ emState' = [t \in TaskIds |->
                           IF t \in Range(batch) THEN "Running" ELSE st[t]]
          /\ dwRunning' = running + Len(batch)
          /\ Submit(batch)
     /\ waiter' = wtr
  \/ /\ started /\ bShutdown
     /\ LET refused == Refused(st, Slots - running) IN
          /\ emState' = [t \in TaskIds |->
                           IF t \in refused THEN "Error" ELSE st[t]]
          /\ waiter' = IF refused = {} THEN wtr ELSE NotifyIdle(wtr)
     /\ dwRunning' = running
     /\ UNCHANGED poolVars

AddTask ==
  /\ dwNextId <= MaxTasks
  /\ dwNextId' = dwNextId + 1
  /\ DispatchLocked(bStarted, [emState EXCEPT ![dwNextId] = "Pending"],
                    dwRunning, waiter)
  /\ UNCHANGED <<bCancel, bStarted, thrown>>

Start ==
  /\ ~bStarted
  /\ bStarted' = TRUE
  /\ DispatchLocked(TRUE, emState, dwRunning, waiter)
  /\ UNCHANGED <<bCancel, dwNextId, thrown>>

(* CancelTask(dwId) and CancelAll differ in the entries they visit.  A     *)
(* pending entry ends at once, a running one only has its flag set.        *)
Cancel(ids, notify) ==
  /\ emState' = [t \in TaskIds |->
       IF t \in ids /\ emState[t] = "Pending" THEN "Canceled" ELSE emState[t]]
  /\ bCancel' = bCancel \cup (ids \cap Running)
  /\ waiter' = IF notify THEN NotifyIdle(waiter) ELSE waiter
  /\ UNCHANGED <<poolVars, dwNextId, bStarted, dwRunning, thrown>>

CancelTask(t) == Cancel({t}, emState[t] = "Pending")
CancelAll == Cancel(TaskIds, TRUE)

(* Mutants of RunTask: the freed slot is not given to the next task; a     *)
(* cancel that arrived while the executor ran is not looked at; the slot   *)
(* is not given back.                                                      *)
RunTask_undispatched(w, bOk) ==
  LET t == held[w] IN
    /\ pc[w] = "body" /\ emState[t] = "Running"
    /\ emState' = [emState EXCEPT ![t] = IF t \in bCancel THEN "Canceled"
                                         ELSE IF bOk THEN "Done" ELSE "Error"]
    /\ dwRunning' = IF dwRunning > 0 THEN dwRunning - 1 ELSE dwRunning
    /\ waiter' = NotifyIdle(waiter)
    /\ UNCHANGED <<poolVars, bCancel, dwNextId, bStarted, thrown>>

RunTask_uncanceled(w, bOk) ==
  LET t  == held[w]
      st == [emState EXCEPT ![t] = IF bOk THEN "Done" ELSE "Error"]
  IN /\ pc[w] = "body" /\ emState[t] = "Running"
     /\ DispatchLocked(bStarted, st, dwRunning - 1, NotifyIdle(waiter))
     /\ UNCHANGED <<bCancel, dwNextId, bStarted, thrown>>

RunTask_keepsSlot(w, bOk) ==
  LET t  == held[w]
      st == [emState EXCEPT ![t] = IF t \in bCancel THEN "Canceled"
                                   ELSE IF bOk THEN "Done" ELSE "Error"]
  IN /\ pc[w] = "body" /\ emState[t] = "Running"
     /\ DispatchLocked(bStarted, st, dwRunning, NotifyIdle(waiter))
     /\ UNCHANGED <<bCancel, dwNextId, bStarted, thrown>>

(* RunTask, the body of the job of task held[w], once the executor has     *)
(* returned bOk: the half under m_mutex.  The entry leaves "Running" here, *)
(* which tells this half from the executor's run before it.                *)
RunTask(w, bOk) ==
  LET t  == held[w]
      st == [emState EXCEPT ![t] = IF t \in bCancel THEN "Canceled"
                                   ELSE IF bOk THEN "Done" ELSE "Error"]
  IN /\ pc[w] = "body" /\ emState[t] = "Running"
     /\ DispatchLocked(bStarted, st,
                       IF dwRunning > 0 THEN dwRunning - 1 ELSE dwRunning,
                       NotifyIdle(waiter))
     /\ UNCHANGED <<bCancel, dwNextId, bStarted, thrown>>

RunTaskReturns(w) ==
  /\ pc[w] = "body" /\ emState[held[w]] # "Running"
  /\ BodyEnds(w)
  /\ UNCHANGED queueVars

(* An exception of the executor leaves RunTask before the lock and ends in *)
(* the pool's catch (...): the entry stays as it is.                       *)
RunTaskThrows(w) ==
  /\ pc[w] = "body" /\ emState[held[w]] = "Running"
  /\ BodyEnds(w)
  /\ thrown' = thrown \cup {held[w]}
  /\ UNCHANGED <<emState, bCancel, dwNextId, bStarted, dwRunning, waiter>>

(* WaitAll: the predicate of m_cvIdle.wait, tested under the lock.         *)
WaitAll ==
  /\ waiter = "outside"
  /\ waiter' = "test"
  /\ UNCHANGED <<poolVars, emState, bCancel, dwNextId, bStarted, dwRunning, thrown>>

WaitTest ==
  /\ waiter = "test"
  /\ waiter' = IF Active(emState) = {} THEN "outside" ELSE "asleep"
  /\ UNCHANGED <<poolVars, emState, bCancel, dwNextId, bStarted, dwRunning, thrown>>

Api == AddTask \/ Start \/ (\E t \in TaskIds : CancelTask(t)) \/ CancelAll \/ WaitAll

Worker(w) ==
  \/ WorkerIdle(w) /\ UNCHANGED queueVars
  \/ \E bOk \in BOOLEAN : RunTask(w, bOk)
  \/ RunTaskReturns(w)

Next ==
  \/ Api
  \/ \E w \in Workers : Worker(w) \/ RunTaskThrows(w)
  \/ WaitTest
  \/ Closing /\ UNCHANGED queueVars

(* The threads run; an executor ends (its transfers have timeouts), though *)
(* not necessarily well; nobody is obliged to call the API.                *)
Fairness ==
  /\ \A w \in Workers : WF_vars(Worker(w))
  /\ WF_vars(WaitTest)
  /\ WF_vars((ShutdownNotify \/ ShutdownJoin) /\ UNCHANGED queueVars)

Spec == Init /\ [][Next]_vars
FairSpec == Spec /\ Fairness

-----------------------------------------------------------------------------

States == {"Absent", "Pending", "Running", "Done", "Error", "Canceled"}

TypeOK ==
  /\ PoolTypeOK
  /\ emState \in [TaskIds -> States]
  /\ bCancel \in SUBSET TaskIds
  /\ dwNextId \in 1..(MaxTasks + 1)
  /\ bStarted \in BOOLEAN
  /\ dwRunning \in 0..Slots
  /\ waiter \in {"outside", "test", "asleep"}
  /\ thrown \in SUBSET TaskIds

(* m_dwRunning, decremented in two places and incremented in one, is the   *)
(* number of entries in emTaskRunning, and never passes the slots.         *)
SlotsExact     == dwRunning = Cardinality(Running) /\ dwRunning <= Slots
SlotAccounting == TypeOK /\ SlotsExact

(* Dispatch leaves nothing behind: while the pool takes jobs, a started    *)
(* queue has no pending task beside a free slot.                           *)
WorkConserving ==
  bStarted /\ ~bShutdown => dwRunning = Slots \/ In(emState, "Pending") = {}

(* The entries and the pool agree: a task whose executor has not thrown is *)
(* running exactly while its job is in the pool (queued, or held by a      *)
(* worker that has not finalised it), and never twice.                     *)
Queued(t)   == {i \in DOMAIN deqPending : deqPending[i] = t}
Executes(t) == {w \in Workers : pc[w] = "body" /\ held[w] = t}
ExecutedOnce ==
  \A t \in TaskIds :
    /\ \A i, j \in Queued(t) : i = j
    /\ \A v, w \in Executes(t) : v = w
    /\ Queued(t) = {} \/ Executes(t) = {}
    /\ emState[t] = "Running" => (t \in thrown <=> Queued(t) = {} /\ Executes(t) = {})
    /\ emState[t] # "Running" => Queued(t) = {}

(* The inductive invariant of TaskQueueProofs: the two properties above,   *)
(* that a job's body runs with a task in hand, and that the ids are handed *)
(* out in order.                                                           *)
HeldIsTask == \A w \in Workers : pc[w] = "body" => held[w] \in TaskIds
IdsInOrder == \A t \in TaskIds : emState[t] = "Absent" <=> t >= dwNextId
IInv == TypeOK /\ SlotsExact /\ WorkConserving /\ HeldIsTask /\ IdsInOrder

(* The queue implements TaskLifecycle.                                     *)
Lifecycle == INSTANCE TaskLifecycle
               WITH Tasks <- TaskIds, status <- emState, asked <- bCancel
ImplementsLifecycle == Lifecycle!Spec

(* A thread in WaitAll gets out, and a started queue finishes every task   *)
(* it was given, unless an executor threw or the pool was closed first:    *)
(* no notification is lost and no slot is forgotten.                       *)
Excused == thrown # {} \/ bShutdown
WaitAllReturns ==
  /\ (bStarted /\ waiter = "asleep") ~> (waiter = "outside" \/ Excused)
  /\ \A t \in TaskIds :
       (bStarted /\ emState[t] = "Pending") ~>
         (emState[t] \in {"Done", "Error", "Canceled"} \/ Excused)

(* threadpool.h:13, Shutdown always gets its workers back, also when it is *)
(* called over queued jobs: like WaitAll, it returns.                      *)
ShutdownReturns == bShutdown ~> (closer = "joined")
CallsReturn == WaitAllReturns /\ ShutdownReturns
=============================================================================
