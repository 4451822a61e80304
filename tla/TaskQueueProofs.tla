-------------------------- MODULE TaskQueueProofs --------------------------
(***************************************************************************)
(* Theorems about ThreadPool and TaskQueue, for every number of workers,   *)
(* jobs, slots and tasks.  The pool comes first: its lemmas are about      *)
(* single steps with arbitrary arguments, so that the queue, which submits *)
(* from its executors, can cite them.  The queue's argument:               *)
(* DispatchLocked, with which four of the methods end, is described once   *)
(* (Dispatched) in terms of the arguments it is given; each method then    *)
(* only has to establish the lemma's hypotheses.                           *)
(***************************************************************************)
EXTENDS TaskQueue, FiniteSetTheorems, FunctionTheorems, SequenceTheorems, TLAPS

-----------------------------------------------------------------------------
(* The pool.                                                               *)

(* A worker leaves its loop only after the flag: without this Submit could *)
(* queue a job for workers that are gone.  And who sleeps is at the head   *)
(* of the loop: without this a job could wake a worker that is not there.  *)
LeaveAfterFlag == \A w \in Workers : pc[w] = "exited" => bShutdown
SleepAtHead    == \A w \in waitSet : pc[w] = "take"

PoolIInv == PoolTypeOK /\ PoolKeepsJobs /\ LeaveAfterFlag /\ SleepAtHead

LEMMA FiniteWorkers ==
  ASSUME NEW S \in SUBSET Workers
  PROVE  IsFiniteSet(S) /\ Cardinality(S) \in Nat
  BY FS_Subset, FS_CardinalityType, PoolAssumption

(* How the two sets of workers that are counted change.                    *)
LEMMA OneMore ==
  ASSUME NEW S \in SUBSET Workers, NEW w \in Workers, w \notin S
  PROVE  Cardinality(S \cup {w}) = Cardinality(S) + 1
  BY FiniteWorkers, FS_AddElement

LEMMA OneFewer ==
  ASSUME NEW S \in SUBSET Workers, NEW w \in S
  PROVE  Cardinality(S) > 0 /\ Cardinality(S \ {w}) = Cardinality(S) - 1
<1>1. IsFiniteSet(S) /\ Cardinality(S) \in Nat  BY FiniteWorkers
<1>2. Cardinality(S \ {w}) = Cardinality(S) - 1  BY <1>1, FS_RemoveElement
<1>3. Cardinality(S) # 0  BY <1>1, FS_EmptySet
<1> QED  BY <1>1, <1>2, <1>3

LEMMA Counted ==
  /\ Awake \in SUBSET Workers /\ Busy \in SUBSET Workers
  /\ Cardinality(Awake) \in Nat /\ Cardinality(Busy) \in Nat
<1>1. Awake \in SUBSET Workers /\ Busy \in SUBSET Workers  BY DEF Awake, Busy
<1> QED  BY <1>1, FiniteWorkers

LEMMA InitPool == PoolInit => PoolIInv
<1> SUFFICES ASSUME PoolInit PROVE PoolIInv  OBVIOUS
<1>1. PoolTypeOK
  <2>1. pc \in [Workers -> {"take", "body", "done", "exited"}]  BY DEF PoolInit
  <2>2. held \in [Workers -> Jobs \cup {NoJob}]  BY DEF PoolInit
  <2>3. deqPending \in Seq(Jobs) /\ dwOutstanding \in Nat  BY DEF PoolInit
  <2>4. waitSet \in SUBSET Workers /\ bShutdown = FALSE /\ closer = "open"  BY DEF PoolInit
  <2> QED  BY <2>1, <2>2, <2>3, <2>4 DEF PoolTypeOK
<1>2. Busy = {}  BY DEF PoolInit, Busy
<1>3. PoolKeepsJobs
  BY <1>2, FS_EmptySet
  DEF PoolInit, PoolKeepsJobs, OutstandingCounts, WakeupsSuffice, NoJobDropped
<1>4. LeaveAfterFlag /\ SleepAtHead  BY DEF PoolInit, LeaveAfterFlag, SleepAtHead
<1> QED  BY <1>1, <1>3, <1>4 DEF PoolIInv

(* Every job of the batch wakes a worker, or all are awake.                *)
LEMMA SubmitPool ==
  ASSUME PoolIInv, NEW jobs \in Seq(Jobs), Submit(jobs)
  PROVE  PoolIInv'
<1>1. PICK woken \in SUBSET waitSet :
        /\ Cardinality(woken) = Len(jobs) \/ woken = waitSet
        /\ waitSet' = waitSet \ woken
  BY DEF Submit
<1>2. /\ UNCHANGED <<bShutdown, pc, held, closer>> /\ ~bShutdown
      /\ deqPending' = deqPending \o jobs /\ dwOutstanding' = dwOutstanding + Len(jobs)
  BY DEF Submit
<1>3. /\ deqPending \in Seq(Jobs) /\ Len(deqPending) \in Nat /\ Len(jobs) \in Nat
      /\ deqPending' \in Seq(Jobs) /\ Len(deqPending') = Len(deqPending) + Len(jobs)
  BY <1>2 DEF PoolIInv, PoolTypeOK
<1>4. PoolTypeOK'  BY <1>1, <1>2, <1>3 DEF PoolIInv, PoolTypeOK
<1>5. OutstandingCounts'
  <2>1. Busy' = Busy  BY <1>2 DEF Busy
  <2> QED  BY <1>2, <1>3, <2>1, Counted DEF PoolIInv, PoolKeepsJobs, OutstandingCounts
<1>6. WakeupsSuffice'
  <2> SUFFICES ASSUME waitSet' # {} PROVE Cardinality(Awake') >= Len(deqPending')
    BY DEF WakeupsSuffice
  <2>1. waitSet # {} /\ Cardinality(woken) = Len(jobs)  BY <1>1
  <2>2. Cardinality(Awake) >= Len(deqPending)
    BY <2>1 DEF PoolIInv, PoolKeepsJobs, WakeupsSuffice
  <2>3. Awake' = Awake \cup woken /\ Awake \cap woken = {}
    BY <1>1, <1>2 DEF Awake, PoolIInv, SleepAtHead, PoolTypeOK
  <2>4. IsFiniteSet(Awake) /\ IsFiniteSet(woken) /\ Cardinality(woken) \in Nat
    BY <1>1, Counted, FiniteWorkers DEF PoolIInv, PoolTypeOK
  <2>5. Cardinality(Awake \cup woken) = Cardinality(Awake) + Cardinality(woken)
    <3>1. Cardinality(Awake \cup woken) =
            Cardinality(Awake) + Cardinality(woken) - Cardinality(Awake \cap woken)
      BY <2>4, FS_Union
    <3>2. Cardinality(Awake \cap woken) = 0  BY <2>3, FS_EmptySet
    <3>3. Cardinality(Awake) \in Nat /\ Cardinality(woken) \in Nat  BY <2>4, Counted
    <3> QED  BY <3>1, <3>2, <3>3
  <2>6. Cardinality(Awake') = Cardinality(Awake \cup woken)  BY <2>3
  <2> QED  BY <1>3, <2>1, <2>2, <2>5, <2>6, Counted
<1>7. NoJobDropped' /\ LeaveAfterFlag' /\ SleepAtHead'
  BY <1>1, <1>2 DEF PoolIInv, LeaveAfterFlag, NoJobDropped, SleepAtHead
<1> QED  BY <1>4, <1>5, <1>6, <1>7 DEF PoolIInv, PoolKeepsJobs

(* The steps of a worker: what it takes leaves the queue with one awake    *)
(* worker fewer, and what it has done was counted.                         *)
LEMMA WorkerPool ==
  ASSUME PoolIInv, NEW w \in Workers, WorkerIdle(w) \/ BodyEnds(w)
  PROVE  PoolIInv'
<1> USE DEF PoolTypeOK
<1>0. PoolTypeOK /\ Len(deqPending) \in Nat  BY DEF PoolIInv
<1>1. CASE Wait(w)
  <2>1. Busy' = Busy  BY <1>1 DEF Wait, Busy
  <2>2. OutstandingCounts'
    BY <1>1, <2>1 DEF Wait, PoolIInv, PoolKeepsJobs, OutstandingCounts
  <2>3. WakeupsSuffice'
    <3>1. deqPending' = <<>> /\ Len(deqPending') = 0  BY <1>1 DEF Wait
    <3>2. Awake' \in SUBSET Workers  BY DEF Awake
    <3>3. Cardinality(Awake') \in Nat  BY <3>2, FiniteWorkers
    <3> QED  BY <3>1, <3>3 DEF WakeupsSuffice
  <2> QED  BY <1>0, <1>1, <2>2, <2>3
           DEF Wait, Awake, PoolIInv, PoolKeepsJobs, NoJobDropped, LeaveAfterFlag, SleepAtHead
<1>2. CASE TakeJob(w)
  <2>1. Len(deqPending') = Len(deqPending) - 1 /\ Len(deqPending) > 0
        /\ deqPending' \in Seq(Jobs) /\ Head(deqPending) \in Jobs
    BY <1>0, <1>2 DEF TakeJob
  <2>2. PoolTypeOK'  BY <1>0, <1>2, <2>1 DEF TakeJob
  <2>3. OutstandingCounts'
    <3>1. w \notin Busy /\ Busy' = Busy \cup {w}
      BY <1>0, <1>2 DEF TakeJob, Awake, Busy
    <3>2. Cardinality(Busy') = Cardinality(Busy) + 1  BY <3>1, Counted, OneMore
    <3> QED  BY <1>0, <1>2, <2>1, <3>2, Counted
             DEF TakeJob, PoolIInv, PoolKeepsJobs, OutstandingCounts
  <2>4. WakeupsSuffice'
    <3>1. w \in Awake /\ Awake' = Awake \ {w}
      BY <1>0, <1>2 DEF TakeJob, Awake
    <3>2. Cardinality(Awake') = Cardinality(Awake) - 1  BY <3>1, Counted, OneFewer
    <3> QED  BY <1>0, <1>2, <2>1, <3>2, Counted
             DEF TakeJob, PoolIInv, PoolKeepsJobs, WakeupsSuffice
  <2>5. NoJobDropped' /\ LeaveAfterFlag' /\ SleepAtHead'
    BY <1>0, <1>2 DEF TakeJob, Awake, PoolIInv, PoolKeepsJobs, NoJobDropped, LeaveAfterFlag,
                      SleepAtHead
  <2> QED  BY <2>2, <2>3, <2>4, <2>5 DEF PoolIInv, PoolKeepsJobs
<1>3. CASE Exit(w)
  <2>1. Busy' = Busy  BY <1>0, <1>3 DEF Exit, Awake, Busy
  <2>2. OutstandingCounts'
    BY <1>3, <2>1 DEF Exit, PoolIInv, PoolKeepsJobs, OutstandingCounts
  <2>3. WakeupsSuffice'
    <3>1. deqPending' = <<>> /\ Len(deqPending') = 0  BY <1>3 DEF Exit
    <3>2. Awake' \in SUBSET Workers  BY DEF Awake
    <3>3. Cardinality(Awake') \in Nat  BY <3>2, FiniteWorkers
    <3> QED  BY <3>1, <3>3 DEF WakeupsSuffice
  <2> QED  BY <1>0, <1>3, <2>2, <2>3
           DEF Exit, Awake, PoolIInv, PoolKeepsJobs, NoJobDropped, LeaveAfterFlag, SleepAtHead
<1>4. CASE BodyEnds(w)
  <2>1. Busy' = Busy /\ Awake' = Awake  BY <1>0, <1>4 DEF BodyEnds, Busy, Awake
  <2>2. OutstandingCounts' /\ WakeupsSuffice'
    BY <1>4, <2>1 DEF BodyEnds, PoolIInv, PoolKeepsJobs, OutstandingCounts, WakeupsSuffice
  <2> QED  BY <1>0, <1>4, <2>2
           DEF BodyEnds, PoolIInv, PoolKeepsJobs, NoJobDropped, LeaveAfterFlag, SleepAtHead
<1>5. CASE JobDone(w)
  <2>1. w \in Busy /\ Busy' = Busy \ {w}
    BY <1>0, <1>5 DEF JobDone, Busy
  <2>2. Cardinality(Busy) > 0 /\ Cardinality(Busy') = Cardinality(Busy) - 1
    BY <2>1, Counted, OneFewer
  <2>3. OutstandingCounts'
    BY <1>0, <1>5, <2>2, Counted DEF JobDone, PoolIInv, PoolKeepsJobs, OutstandingCounts
  <2>4. WakeupsSuffice'
    <3>1. Awake' \in SUBSET Workers /\ Awake \subseteq Awake'
      BY <1>0, <1>5 DEF JobDone, Awake
    <3>2. Cardinality(Awake) <= Cardinality(Awake') /\ Cardinality(Awake') \in Nat
      BY <3>1, FiniteWorkers, FS_Subset
    <3> QED  BY <1>0, <1>5, <3>2, Counted
             DEF JobDone, PoolIInv, PoolKeepsJobs, WakeupsSuffice
  <2> QED  BY <1>0, <1>5, <2>3, <2>4
           DEF JobDone, PoolIInv, PoolKeepsJobs, NoJobDropped, LeaveAfterFlag, SleepAtHead
<1> QED  BY <1>1, <1>2, <1>3, <1>4, <1>5 DEF WorkerIdle

(* Shutdown wakes all, and leaves jobs and counter to the workers.         *)
LEMMA ClosingPool == PoolIInv /\ Closing => PoolIInv'
<1> SUFFICES ASSUME PoolIInv, Closing PROVE PoolIInv'  OBVIOUS
<1>1. UNCHANGED <<deqPending, dwOutstanding, pc, held>> /\ waitSet' \in {waitSet, {}}
      /\ (bShutdown => bShutdown') /\ bShutdown' \in BOOLEAN
      /\ closer' \in {"open", "flagged", "joining", "joined"}
  BY DEF Closing, ShutdownFlag, ShutdownNotify, ShutdownJoin, PoolIInv, PoolTypeOK
<1>2. PoolTypeOK'  BY <1>1 DEF PoolIInv, PoolTypeOK
<1>3. OutstandingCounts'
  BY <1>1 DEF PoolIInv, PoolKeepsJobs, OutstandingCounts, Busy
<1>4. WakeupsSuffice'
  BY <1>1 DEF PoolIInv, PoolKeepsJobs, WakeupsSuffice, Awake
<1>5. NoJobDropped' /\ LeaveAfterFlag' /\ SleepAtHead'
  BY <1>1 DEF PoolIInv, PoolKeepsJobs, NoJobDropped, LeaveAfterFlag, SleepAtHead
<1> QED  BY <1>2, <1>3, <1>4, <1>5 DEF PoolIInv, PoolKeepsJobs

LEMMA StutterPool == PoolIInv /\ UNCHANGED poolVars => PoolIInv'
  BY DEF PoolIInv, PoolTypeOK, PoolKeepsJobs, OutstandingCounts, WakeupsSuffice, NoJobDropped,
         LeaveAfterFlag, SleepAtHead, Busy, Awake, poolVars

(* Whoever submits and whenever the pool is shut down, it counts exactly   *)
(* the jobs it has, no queued job lacks an awake worker while another      *)
(* sleeps, and none is left when the workers leave.                        *)
THEOREM PoolKeeps == PoolSpec => []PoolKeepsJobs
<1>1. PoolIInv /\ [PoolNext]_poolVars => PoolIInv'
  BY SubmitPool, WorkerPool, ClosingPool, StutterPool DEF PoolNext
<1>2. PoolIInv => PoolKeepsJobs  BY DEF PoolIInv
<1> QED  BY InitPool, <1>1, <1>2, PTL DEF PoolSpec

-----------------------------------------------------------------------------
(* The queue.                                                              *)

(* TaskIds and its subsets are finite.                                     *)
LEMMA FiniteTasks ==
  ASSUME NEW S \in SUBSET TaskIds
  PROVE  IsFiniteSet(S) /\ Cardinality(S) \in Nat
<1>1. IsFiniteSet(TaskIds)
  BY FS_Interval, QueueAssumption DEF TaskIds
<1>2. IsFiniteSet(S)
  BY <1>1, FS_Subset
<1> QED BY <1>2, FS_CardinalityType

(* What a batch of the dispatch loop is: as many distinct pending tasks as *)
(* there are free slots, or all of them, and the lowest ids first.         *)
LEMMA BatchFacts ==
  ASSUME NEW st \in [TaskIds -> States], NEW free \in Nat,
         NEW b \in Batches(st, free)
  PROVE  /\ b \in Seq(TaskIds)
         /\ Len(b) \in 0..free
         /\ Range(b) \in SUBSET In(st, "Pending")
         /\ Cardinality(Range(b)) = Len(b)
         /\ Len(b) = free \/ Range(b) = In(st, "Pending")
         /\ \A t \in In(st, "Pending") \ Range(b), s \in Range(b) : s < t
<1>1. PICK n \in 0..free : b \in [1..n -> In(st, "Pending")]
  BY DEF Batches
<1>2. In(st, "Pending") \subseteq TaskIds
  BY DEF In
<1>3. b \in Seq(TaskIds) /\ Len(b) = n /\ DOMAIN b = 1..n
  BY <1>1, <1>2
<1>4. IsBatch(b, st, free)
  BY DEF Batches
<1>5. Range(b) \in SUBSET In(st, "Pending")
  BY <1>1 DEF Range
<1>6. Cardinality(Range(b)) = n
  <2>1. b \in Surjection(1..n, Range(b))
    BY <1>1 DEF Surjection, Range
  <2>2. \A i, j \in 1..n : b[i] = b[j] => i = j
    <3> SUFFICES ASSUME NEW i \in 1..n, NEW j \in 1..n, b[i] = b[j], i # j
                 PROVE  FALSE
      OBVIOUS
    <3>1. b[i] \in Nat /\ b[j] \in Nat
      BY <1>1, <1>2 DEF TaskIds
    <3>2. b[i] < b[j] \/ b[j] < b[i]
      BY <1>3, <1>4 DEF IsBatch
    <3> QED BY <3>1, <3>2
  <2>3. b \in Injection(1..n, Range(b))
    BY <2>2, <2>1 DEF Injection, IsInjective, Surjection
  <2>4. IsFiniteSet(1..n) /\ Cardinality(1..n) = n
    BY FS_Interval
  <2> QED BY <2>1, <2>3, <2>4, FS_Surjection
<1> QED BY <1>3, <1>4, <1>5, <1>6 DEF IsBatch

(* What DispatchLocked makes of a queue whose counter is right: the counter *)
(* is right again, no slot is left free beside a pending task, and the      *)
(* entries it touches are the oldest pending ones, which it starts.         *)
LEMMA Dispatched ==
  ASSUME NEW started \in BOOLEAN, NEW st \in [TaskIds -> States],
         NEW running \in 0..Slots, NEW wtr \in {"outside", "test", "asleep"},
         running = Cardinality(In(st, "Running")), PoolTypeOK,
         DispatchLocked(started, st, running, wtr)
  PROVE  /\ PoolTypeOK'
         /\ emState' \in [TaskIds -> States]
         /\ dwRunning' \in 0..Slots
         /\ dwRunning' = Cardinality(In(emState', "Running"))
         /\ waiter' \in {"outside", "test", "asleep"}
         /\ started /\ ~bShutdown =>
               dwRunning' = Slots \/ In(emState', "Pending") = {}
         /\ bShutdown' = bShutdown /\ pc' = pc /\ held' = held
         /\ \A t \in TaskIds :
               \/ emState'[t] = st[t]
               \/ /\ st[t] = "Pending"
                  /\ emState'[t] \in {"Running", "Error"}
                  /\ emState'[t] = "Running" =>
                       \A s \in TaskIds : s < t => emState'[s] # "Pending"
<1> USE QueueAssumption
<1>1. CASE ~started /\ emState' = st /\ dwRunning' = running /\ waiter' = wtr
           /\ UNCHANGED poolVars
  <2>1. PoolTypeOK'
    BY <1>1 DEF PoolTypeOK, poolVars
  <2> QED BY <1>1, <2>1 DEF poolVars
<1>2. CASE /\ started /\ ~bShutdown
           /\ \E batch \in Batches(st, Slots - running) :
                /\ emState' = [t \in TaskIds |->
                                 IF t \in Range(batch) THEN "Running" ELSE st[t]]
                /\ dwRunning' = running + Len(batch)
                /\ Submit(batch)
           /\ waiter' = wtr
  <2> DEFINE free == Slots - running
  <2>1. free \in Nat
    OBVIOUS
  <2>2. PICK batch \in Batches(st, free) :
          /\ emState' = [t \in TaskIds |->
                           IF t \in Range(batch) THEN "Running" ELSE st[t]]
          /\ dwRunning' = running + Len(batch)
          /\ Submit(batch)
    BY <1>2
  <2> HIDE DEF free
  <2>3. /\ batch \in Seq(TaskIds) /\ Len(batch) \in 0..free
        /\ Range(batch) \in SUBSET In(st, "Pending")
        /\ Cardinality(Range(batch)) = Len(batch)
        /\ Len(batch) = free \/ Range(batch) = In(st, "Pending")
        /\ \A t \in In(st, "Pending") \ Range(batch), s \in Range(batch) : s < t
    BY <2>1, BatchFacts
  <2>4. PoolTypeOK'
    <3>1. deqPending' \in Seq(Jobs) /\ dwOutstanding' \in Nat
      BY <2>2, <2>3 DEF Submit, PoolTypeOK
    <3>2. waitSet' \in SUBSET Workers
      BY <2>2 DEF Submit, PoolTypeOK
    <3> QED BY <2>2, <3>1, <3>2 DEF Submit, PoolTypeOK
  <2>5. emState' \in [TaskIds -> States]
    BY <2>2 DEF States
  <2>6. dwRunning' \in 0..Slots /\ dwRunning' = running + Len(batch)
    BY <2>1, <2>2, <2>3 DEF free
  <2>7. Cardinality(In(emState', "Running")) = running + Len(batch)
    <3>1. In(emState', "Running") = In(st, "Running") \cup Range(batch)
      BY <2>2, <2>3 DEF In
    <3>2. In(st, "Running") \cap Range(batch) = {}
      BY <2>3 DEF In
    <3>3. In(st, "Running") \in SUBSET TaskIds /\ Range(batch) \in SUBSET TaskIds
      BY <2>3 DEF In
    <3>4. IsFiniteSet(In(st, "Running")) /\ IsFiniteSet(Range(batch))
      BY <3>3, FiniteTasks
    <3>5. Cardinality(In(st, "Running") \cup Range(batch)) =
             Cardinality(In(st, "Running")) + Cardinality(Range(batch))
               - Cardinality(In(st, "Running") \cap Range(batch))
      BY <3>4, FS_Union
    <3>6. Cardinality(In(st, "Running") \cap Range(batch)) = 0
      BY <3>2, FS_EmptySet
    <3>7. Len(batch) \in Nat /\ running \in Nat
      BY <2>1, <2>3
    <3>8. Cardinality(In(emState', "Running")) =
             Cardinality(In(st, "Running") \cup Range(batch))
      BY <3>1
    <3> QED BY <3>5, <3>6, <3>7, <3>8, <2>3
  <2>8. dwRunning' = Slots \/ In(emState', "Pending") = {}
    <3>1. CASE Len(batch) = free
      BY <3>1, <2>2 DEF free
    <3>2. CASE Range(batch) = In(st, "Pending")
      BY <3>2, <2>2 DEF In
    <3> QED BY <3>1, <3>2, <2>3
  <2>9. bShutdown' = bShutdown /\ pc' = pc /\ held' = held
    BY <2>2 DEF Submit
  <2>10. ASSUME NEW t \in TaskIds
         PROVE  \/ emState'[t] = st[t]
                \/ /\ st[t] = "Pending"
                   /\ emState'[t] \in {"Running", "Error"}
                   /\ emState'[t] = "Running" =>
                        \A s \in TaskIds : s < t => emState'[s] # "Pending"
    <3>1. CASE t \notin Range(batch)
      BY <3>1, <2>2
    <3>2. CASE t \in Range(batch)
      <4>1. st[t] = "Pending" /\ emState'[t] = "Running"
        BY <3>2, <2>2, <2>3 DEF In
      <4>2. ASSUME NEW s \in TaskIds, s < t PROVE emState'[s] # "Pending"
        <5>1. CASE s \in Range(batch)
          BY <5>1, <2>2
        <5>2. CASE s \notin Range(batch)
          <6>1. s \notin In(st, "Pending")
            <7>1. SUFFICES ASSUME s \in In(st, "Pending") PROVE FALSE
              OBVIOUS
            <7>2. t < s
              BY <7>1, <5>2, <3>2, <2>3
            <7> QED BY <7>2, <4>2 DEF TaskIds
          <6> QED BY <6>1, <5>2, <2>2 DEF In
        <5> QED BY <5>1, <5>2
      <4> QED BY <4>1, <4>2
    <3> QED BY <3>1, <3>2
  <2> QED BY <1>2, <2>4, <2>5, <2>6, <2>7, <2>8, <2>9, <2>10
<1>3. CASE /\ started /\ bShutdown
           /\ LET refused == Refused(st, Slots - running) IN
                /\ emState' = [t \in TaskIds |->
                                 IF t \in refused THEN "Error" ELSE st[t]]
                /\ waiter' = IF refused = {} THEN wtr ELSE NotifyIdle(wtr)
           /\ dwRunning' = running
           /\ UNCHANGED poolVars
  <2>1. emState' \in [TaskIds -> States]
    BY <1>3 DEF States
  <2>2. In(emState', "Running") = In(st, "Running")
    BY <1>3 DEF In, Refused
  <2>3. waiter' \in {"outside", "test", "asleep"}
    BY <1>3 DEF NotifyIdle
  <2>4. PoolTypeOK'
    BY <1>3 DEF PoolTypeOK, poolVars
  <2>5. \A t \in TaskIds : emState'[t] = st[t] \/
          (st[t] = "Pending" /\ emState'[t] = "Error")
    BY <1>3 DEF Refused, In
  <2> QED BY <1>3, <2>1, <2>2, <2>3, <2>4, <2>5 DEF poolVars
<1> QED BY <1>1, <1>2, <1>3 DEF DispatchLocked

-----------------------------------------------------------------------------
(* Each action preserves the inductive invariant.                          *)

LEMMA InitIInv == Init => IInv
<1> SUFFICES ASSUME Init PROVE IInv
  OBVIOUS
<1> USE QueueAssumption DEF Init, PoolInit
<1>0. PoolTypeOK
  <2>1. deqPending \in Seq(Jobs) /\ dwOutstanding \in Nat
    OBVIOUS
  <2>2. pc \in [Workers -> {"take", "body", "done", "exited"}]
    OBVIOUS
  <2>3. held \in [Workers -> Jobs \cup {NoJob}]
    OBVIOUS
  <2>4. bShutdown \in BOOLEAN /\ waitSet \in SUBSET Workers /\ closer = "open"
    OBVIOUS
  <2> QED BY <2>1, <2>2, <2>3, <2>4 DEF PoolTypeOK
<1>1. TypeOK
  <2>1. dwNextId \in 1..(MaxTasks + 1) /\ dwRunning \in 0..Slots
    OBVIOUS
  <2>2. emState \in [TaskIds -> States]
    BY DEF States
  <2>3. bCancel \in SUBSET TaskIds /\ thrown \in SUBSET TaskIds
        /\ bStarted \in BOOLEAN /\ waiter = "outside"
    OBVIOUS
  <2> QED BY <1>0, <2>1, <2>2, <2>3 DEF TypeOK
<1>2. Running = {} /\ In(emState, "Pending") = {}
  BY DEF Running, In
<1>3. SlotsExact
  BY <1>2, FS_EmptySet DEF SlotsExact
<1>4. WorkConserving /\ HeldIsTask /\ IdsInOrder
  BY DEF WorkConserving, HeldIsTask, IdsInOrder, TaskIds
<1> QED BY <1>1, <1>3, <1>4 DEF IInv

LEMMA AddTaskIInv == IInv /\ AddTask => IInv'
<1> SUFFICES ASSUME IInv, AddTask PROVE IInv'
  OBVIOUS
<1> USE QueueAssumption
<1> DEFINE st == [emState EXCEPT ![dwNextId] = "Pending"]
<1>1. dwNextId \in TaskIds /\ dwNextId' = dwNextId + 1
  BY DEF AddTask, IInv, TypeOK, TaskIds
<1>2. /\ st \in [TaskIds -> States]
      /\ bStarted \in BOOLEAN /\ dwRunning \in 0..Slots
      /\ waiter \in {"outside", "test", "asleep"}
  BY <1>1 DEF IInv, TypeOK, States
<1>3. emState[dwNextId] = "Absent"
  BY <1>1 DEF IInv, IdsInOrder, TaskIds
<1>4. In(st, "Running") = Running
  BY <1>1, <1>3 DEF In, Running, IInv, TypeOK
<1>5. dwRunning = Cardinality(In(st, "Running"))
  BY <1>4 DEF IInv, SlotsExact
<1>6. DispatchLocked(bStarted, st, dwRunning, waiter) /\ PoolTypeOK
  BY DEF AddTask, IInv, TypeOK
<1> HIDE DEF st
<1>7. /\ PoolTypeOK' /\ emState' \in [TaskIds -> States] /\ dwRunning' \in 0..Slots
      /\ dwRunning' = Cardinality(In(emState', "Running"))
      /\ waiter' \in {"outside", "test", "asleep"}
      /\ bStarted /\ ~bShutdown =>
            dwRunning' = Slots \/ In(emState', "Pending") = {}
      /\ bShutdown' = bShutdown /\ pc' = pc /\ held' = held
      /\ \A t \in TaskIds : emState'[t] = st[t] \/
            (st[t] = "Pending" /\ emState'[t] \in {"Running", "Error"})
  BY <1>2, <1>5, <1>6, Dispatched
<1>8. UNCHANGED <<bCancel, bStarted, thrown>>
  BY DEF AddTask
<1>9. TypeOK'
  BY <1>1, <1>7, <1>8 DEF IInv, TypeOK, TaskIds
<1>10. SlotsExact' /\ WorkConserving'
  BY <1>7, <1>8 DEF SlotsExact, WorkConserving, Running
<1>11. HeldIsTask'
  BY <1>7 DEF IInv, HeldIsTask
<1>12. IdsInOrder'
  <2> SUFFICES ASSUME NEW t \in TaskIds
               PROVE  emState'[t] = "Absent" <=> t >= dwNextId'
    BY DEF IdsInOrder
  <2>1. st[t] = "Absent" <=> t >= dwNextId + 1
    BY <1>1 DEF st, IInv, TypeOK, IdsInOrder, TaskIds
  <2>2. emState'[t] = "Absent" <=> st[t] = "Absent"
    BY <1>7
  <2> QED BY <2>1, <2>2, <1>1
<1> QED BY <1>9, <1>10, <1>11, <1>12 DEF IInv

LEMMA StartIInv == IInv /\ Start => IInv'
<1> SUFFICES ASSUME IInv, Start PROVE IInv'
  OBVIOUS
<1>1. /\ emState \in [TaskIds -> States] /\ dwRunning \in 0..Slots
      /\ waiter \in {"outside", "test", "asleep"} /\ PoolTypeOK
      /\ dwRunning = Cardinality(In(emState, "Running"))
      /\ DispatchLocked(TRUE, emState, dwRunning, waiter)
  BY DEF Start, IInv, TypeOK, SlotsExact, Running
<1>2. /\ PoolTypeOK' /\ emState' \in [TaskIds -> States] /\ dwRunning' \in 0..Slots
      /\ dwRunning' = Cardinality(In(emState', "Running"))
      /\ waiter' \in {"outside", "test", "asleep"}
      /\ ~bShutdown => dwRunning' = Slots \/ In(emState', "Pending") = {}
      /\ bShutdown' = bShutdown /\ pc' = pc /\ held' = held
      /\ \A t \in TaskIds : emState'[t] = emState[t] \/
            (emState[t] = "Pending" /\ emState'[t] \in {"Running", "Error"})
  BY <1>1, Dispatched
<1>3. bStarted' = TRUE /\ UNCHANGED <<bCancel, dwNextId, thrown>>
  BY DEF Start
<1>4. TypeOK'
  BY <1>2, <1>3 DEF IInv, TypeOK
<1>5. SlotsExact' /\ WorkConserving'
  BY <1>2, <1>3, QueueAssumption DEF SlotsExact, WorkConserving, Running
<1>6. HeldIsTask' /\ IdsInOrder'
  BY <1>2, <1>3 DEF IInv, HeldIsTask, IdsInOrder
<1> QED BY <1>4, <1>5, <1>6 DEF IInv

(* Canceling moves pending tasks only, so the running ones stay counted.   *)
LEMMA CancelIInv ==
  ASSUME IInv, NEW ids \in SUBSET TaskIds, NEW notify \in BOOLEAN,
         Cancel(ids, notify)
  PROVE  IInv'
<1>1. TypeOK'
  BY DEF Cancel, IInv, TypeOK, PoolTypeOK, States, poolVars, NotifyIdle
<1>2. Running' = Running
  BY DEF Cancel, Running, In, IInv, TypeOK
<1>3. In(emState, "Pending")' \subseteq In(emState, "Pending")
  BY DEF Cancel, In
<1>4. SlotsExact' /\ WorkConserving'
  BY <1>2, <1>3 DEF Cancel, IInv, SlotsExact, WorkConserving, poolVars
<1>5. HeldIsTask'
  BY DEF Cancel, IInv, HeldIsTask, poolVars
<1>6. IdsInOrder'
  BY DEF Cancel, IInv, IdsInOrder
<1> QED BY <1>1, <1>4, <1>5, <1>6 DEF IInv

(* When a running task leaves "Running" the counter decremented is again   *)
(* the number of running tasks.                                            *)
LEMMA OneLess ==
  ASSUME NEW st, NEW t \in In(st, "Running"), NEW n \in 0..Slots,
         n = Cardinality(In(st, "Running"))
  PROVE  /\ n > 0 /\ n - 1 \in 0..Slots
         /\ n - 1 = Cardinality(In(st, "Running") \ {t})
<1>1. IsFiniteSet(In(st, "Running")) /\ Cardinality(In(st, "Running")) \in Nat
  BY FiniteTasks DEF In
<1>2. Cardinality(In(st, "Running") \ {t}) = Cardinality(In(st, "Running")) - 1
  BY <1>1, FS_RemoveElement
<1>3. n # 0
  BY <1>1, FS_EmptySet
<1> QED BY <1>2, <1>3, QueueAssumption

LEMMA RunTaskIInv ==
  ASSUME IInv, NEW w \in Workers, NEW bOk \in BOOLEAN, RunTask(w, bOk)
  PROVE  IInv'
<1> USE QueueAssumption
<1> DEFINE t  == held[w]
           st == [emState EXCEPT ![t] = IF t \in bCancel THEN "Canceled"
                                        ELSE IF bOk THEN "Done" ELSE "Error"]
           running == IF dwRunning > 0 THEN dwRunning - 1 ELSE dwRunning
           wtr == NotifyIdle(waiter)
<1>1. /\ DispatchLocked(bStarted, st, running, wtr)
      /\ emState[t] = "Running" /\ pc[w] = "body"
      /\ UNCHANGED <<bCancel, dwNextId, bStarted, thrown>>
  BY DEF RunTask
<1>2. t \in TaskIds
  BY <1>1 DEF IInv, HeldIsTask
<1>3. st \in [TaskIds -> States] /\ wtr \in {"outside", "test", "asleep"}
      /\ bStarted \in BOOLEAN /\ PoolTypeOK
  BY <1>2 DEF IInv, TypeOK, States, NotifyIdle
<1>4. In(st, "Running") = Running \ {t}
  BY <1>2 DEF In, Running, IInv, TypeOK
<1>5. /\ t \in In(emState, "Running") /\ dwRunning \in 0..Slots
      /\ dwRunning = Cardinality(In(emState, "Running"))
  BY <1>1, <1>2 DEF In, IInv, TypeOK, SlotsExact, Running
<1>6. running \in 0..Slots /\ running = Cardinality(In(st, "Running"))
  <2>1. /\ dwRunning > 0 /\ dwRunning - 1 \in 0..Slots
        /\ dwRunning - 1 = Cardinality(In(emState, "Running") \ {t})
    BY <1>5, OneLess
  <2>2. running = dwRunning - 1
    BY <2>1
  <2> QED BY <2>1, <2>2, <1>4 DEF Running
<1>7. st[t] \in {"Canceled", "Done", "Error"}
      /\ \A u \in TaskIds : u # t => st[u] = emState[u]
  BY <1>2 DEF IInv, TypeOK
<1> HIDE DEF t, st, running, wtr
<1>8. /\ PoolTypeOK' /\ emState' \in [TaskIds -> States] /\ dwRunning' \in 0..Slots
      /\ dwRunning' = Cardinality(In(emState', "Running"))
      /\ waiter' \in {"outside", "test", "asleep"}
      /\ bStarted /\ ~bShutdown =>
            dwRunning' = Slots \/ In(emState', "Pending") = {}
      /\ bShutdown' = bShutdown /\ pc' = pc /\ held' = held
      /\ \A u \in TaskIds : emState'[u] = st[u] \/
            (st[u] = "Pending" /\ emState'[u] \in {"Running", "Error"})
  BY <1>1, <1>3, <1>6, Dispatched
<1>9. TypeOK'
  BY <1>1, <1>8 DEF IInv, TypeOK
<1>10. SlotsExact' /\ WorkConserving'
  BY <1>1, <1>8 DEF SlotsExact, WorkConserving, Running
<1>11. HeldIsTask'
  BY <1>8 DEF IInv, HeldIsTask
<1>12. IdsInOrder'
  <2> SUFFICES ASSUME NEW u \in TaskIds
               PROVE  emState'[u] = "Absent" <=> emState[u] = "Absent"
    BY <1>1 DEF IInv, IdsInOrder
  <2> QED BY <1>1, <1>7, <1>8
<1> QED BY <1>9, <1>10, <1>11, <1>12 DEF IInv

(* The pool's own steps leave the entries alone.  Those of a worker may    *)
(* take a job, which is one of the queue's tasks.                          *)
LEMMA PoolStepIInv ==
  ASSUME IInv, UNCHANGED <<emState, bCancel, dwNextId, bStarted, dwRunning, waiter>>,
         thrown' \in SUBSET TaskIds,
         Closing \/ \E w \in Workers : WorkerIdle(w) \/ BodyEnds(w)
  PROVE  IInv'
<1> USE QueueAssumption
<1>1. ASSUME Closing PROVE PoolTypeOK' /\ HeldIsTask' /\ (bShutdown => bShutdown')
  BY <1>1 DEF Closing, ShutdownFlag, ShutdownNotify, ShutdownJoin, PoolTypeOK,
              IInv, TypeOK, HeldIsTask
<1>2. ASSUME NEW w \in Workers, WorkerIdle(w) \/ BodyEnds(w)
      PROVE  PoolTypeOK' /\ HeldIsTask' /\ bShutdown' = bShutdown
  <2>1. PoolTypeOK /\ HeldIsTask
    BY DEF IInv, TypeOK
  <2>2. CASE TakeJob(w)
    <3>1. Head(deqPending) \in TaskIds /\ Tail(deqPending) \in Seq(Jobs)
      BY <2>1, <2>2 DEF TakeJob, PoolTypeOK
    <3>2. PoolTypeOK'
      BY <2>1, <2>2, <3>1 DEF TakeJob, PoolTypeOK
    <3>3. HeldIsTask'
      BY <2>1, <2>2, <3>1 DEF TakeJob, HeldIsTask, PoolTypeOK
    <3> QED BY <2>2, <3>2, <3>3 DEF TakeJob
  <2>3. CASE Wait(w)
    BY <2>1, <2>3 DEF Wait, Awake, PoolTypeOK, HeldIsTask
  <2>4. CASE Exit(w)
    BY <2>1, <2>4 DEF Exit, PoolTypeOK, HeldIsTask
  <2>5. CASE JobDone(w)
    BY <2>1, <2>5 DEF JobDone, PoolTypeOK, HeldIsTask
  <2>6. CASE BodyEnds(w)
    BY <2>1, <2>6 DEF BodyEnds, PoolTypeOK, HeldIsTask
  <2> QED BY <1>2, <2>2, <2>3, <2>4, <2>5, <2>6 DEF WorkerIdle
<1>3. PoolTypeOK' /\ HeldIsTask' /\ (bShutdown => bShutdown')
  BY <1>1, <1>2
<1>4. TypeOK'
  BY <1>3 DEF IInv, TypeOK
<1>5. SlotsExact' /\ WorkConserving' /\ IdsInOrder'
  BY <1>3 DEF IInv, SlotsExact, WorkConserving, IdsInOrder, Running, In, TypeOK, PoolTypeOK
<1> QED BY <1>3, <1>4, <1>5 DEF IInv

(* Every step of the queue preserves the inductive invariant.              *)
LEMMA NextIInv == IInv /\ [Next]_vars => IInv'
<1> SUFFICES ASSUME IInv, [Next]_vars PROVE IInv'
  OBVIOUS
<1>1. CASE AddTask
  BY <1>1, AddTaskIInv
<1>2. CASE Start
  BY <1>2, StartIInv
<1>3. ASSUME NEW t \in TaskIds, CancelTask(t) PROVE IInv'
  BY <1>3, CancelIInv DEF CancelTask
<1>4. CASE CancelAll
  BY <1>4, CancelIInv DEF CancelAll
<1>5. CASE WaitAll \/ WaitTest \/ UNCHANGED vars
  <2>1. UNCHANGED <<poolVars, emState, bCancel, dwNextId, bStarted, dwRunning, thrown>>
        /\ waiter' \in {waiter, "outside", "test", "asleep"}
    BY <1>5 DEF WaitAll, WaitTest, vars, queueVars
  <2>2. TypeOK'
    BY <2>1 DEF IInv, TypeOK, PoolTypeOK, poolVars
  <2> QED BY <2>1, <2>2 DEF IInv, SlotsExact, WorkConserving, HeldIsTask,
                            IdsInOrder, Running, In, poolVars
<1>6. ASSUME NEW w \in Workers, NEW bOk \in BOOLEAN, RunTask(w, bOk) PROVE IInv'
  BY <1>6, RunTaskIInv
<1>7. ASSUME NEW w \in Workers,
             (WorkerIdle(w) /\ UNCHANGED queueVars) \/ RunTaskReturns(w)
      PROVE  IInv'
  BY <1>7, PoolStepIInv DEF RunTaskReturns, queueVars, IInv, TypeOK
<1>8. ASSUME NEW w \in Workers, RunTaskThrows(w) PROVE IInv'
  <2>1. thrown' \in SUBSET TaskIds
    BY <1>8 DEF RunTaskThrows, IInv, TypeOK, HeldIsTask
  <2> QED BY <1>8, <2>1, PoolStepIInv DEF RunTaskThrows
<1>9. CASE Closing /\ UNCHANGED queueVars
  BY <1>9, PoolStepIInv DEF queueVars, IInv, TypeOK
<1> QED BY <1>1, <1>2, <1>3, <1>4, <1>5, <1>6, <1>7, <1>8, <1>9 DEF Next, Api, Worker

LEMMA Invariance == Spec => []IInv
<1> QED BY InitIInv, NextIInv, PTL DEF Spec

(* m_dwRunning is the number of running tasks and never passes m_dwSlots,  *)
(* and every variable of the queue and of its pool keeps its type.         *)
THEOREM SlotsRespected == Spec => []SlotAccounting
<1>1. IInv => SlotAccounting
  BY DEF IInv, SlotAccounting
<1> QED BY <1>1, Invariance, PTL

(* No pending task is left beside a free slot while the pool takes jobs.   *)
THEOREM NoIdleSlot == Spec => []WorkConserving
<1>1. IInv => WorkConserving
  BY DEF IInv
<1> QED BY <1>1, Invariance, PTL

-----------------------------------------------------------------------------
(* The pool under the queue, and the jobs the queue gives it.              *)

(* All that a method does to the pool is to submit a batch.                *)
LEMMA DispatchSubmits ==
  ASSUME NEW started, NEW st \in [TaskIds -> States], NEW running \in 0..Slots, NEW wtr,
         DispatchLocked(started, st, running, wtr)
  PROVE  UNCHANGED poolVars \/ \E batch \in Seq(Jobs) : Submit(batch)
<1>1. Slots - running \in Nat  BY QueueAssumption
<1>2. \A b \in Batches(st, Slots - running) : b \in Seq(Jobs)
  BY <1>1, BatchFacts, QueueAssumption
<1> QED  BY <1>2 DEF DispatchLocked

LEMMA DispatchPool ==
  ASSUME PoolIInv, NEW started, NEW st \in [TaskIds -> States], NEW running \in 0..Slots,
         NEW wtr, DispatchLocked(started, st, running, wtr)
  PROVE  PoolIInv'
  BY DispatchSubmits, SubmitPool, StutterPool

LEMMA QueuePool == IInv /\ PoolIInv /\ [Next]_vars => PoolIInv'
<1> SUFFICES ASSUME IInv, PoolIInv, [Next]_vars PROVE PoolIInv'  OBVIOUS
<1>0. emState \in [TaskIds -> States] /\ dwRunning \in 0..Slots
  BY DEF IInv, TypeOK
<1>1. CASE AddTask
  <2> DEFINE st == [emState EXCEPT ![dwNextId] = "Pending"]
  <2>1. st \in [TaskIds -> States]  BY <1>0 DEF States
  <2>2. DispatchLocked(bStarted, st, dwRunning, waiter)  BY <1>1 DEF AddTask
  <2> HIDE DEF st
  <2> QED  BY <1>0, <2>1, <2>2, DispatchPool
<1>2. CASE Start
  BY <1>0, <1>2, DispatchPool DEF Start
<1>3. ASSUME NEW w \in Workers, NEW bOk \in BOOLEAN, RunTask(w, bOk) PROVE PoolIInv'
  <2> DEFINE st == [emState EXCEPT ![held[w]] = IF held[w] \in bCancel THEN "Canceled"
                                               ELSE IF bOk THEN "Done" ELSE "Error"]
             running == IF dwRunning > 0 THEN dwRunning - 1 ELSE dwRunning
  <2>1. st \in [TaskIds -> States]  BY <1>0 DEF States
  <2>2. running \in 0..Slots  BY <1>0, QueueAssumption
  <2>3. DispatchLocked(bStarted, st, running, NotifyIdle(waiter))  BY <1>3 DEF RunTask
  <2> HIDE DEF st, running
  <2> QED  BY <2>1, <2>2, <2>3, DispatchPool
<1>4. ASSUME NEW w \in Workers, WorkerIdle(w) \/ BodyEnds(w) PROVE PoolIInv'
  BY <1>4, WorkerPool
<1>5. CASE Closing
  BY <1>5, ClosingPool
<1>6. CASE UNCHANGED poolVars
  BY <1>6, StutterPool
<1>7. \/ AddTask \/ Start \/ Closing \/ UNCHANGED poolVars
      \/ \E w \in Workers : WorkerIdle(w) \/ BodyEnds(w)
      \/ \E w \in Workers, bOk \in BOOLEAN : RunTask(w, bOk)
  BY DEF Next, Api, CancelTask, CancelAll, Cancel, WaitAll, WaitTest, Worker, RunTaskReturns,
         RunTaskThrows, vars
<1> QED  BY <1>1, <1>2, <1>3, <1>4, <1>5, <1>6, <1>7

(* The queue's pool counts exactly the jobs it has, lets no worker sleep   *)
(* beside a queued job that nobody is coming for, and drops none when it   *)
(* is shut down.                                                           *)
THEOREM JobsKept == Spec => []PoolKeepsJobs
<1>1. Init => PoolIInv  BY InitPool DEF Init
<1>2. PoolIInv => PoolKeepsJobs  BY DEF PoolIInv
<1> QED  BY Invariance, QueuePool, <1>1, <1>2, PTL DEF Spec

(* ExecutedOnce with the entries as they are in the middle of a method.    *)
(* A job in the pool is one of a task that has been started, and thrown    *)
(* holds running tasks only.                                               *)
Once(st) ==
  /\ \A i, j \in DOMAIN deqPending : deqPending[i] = deqPending[j] => i = j
  /\ \A v, w \in Workers : pc[v] = "body" /\ pc[w] = "body" /\ held[v] = held[w] => v = w
  /\ \A w \in Workers : \A i \in DOMAIN deqPending :
       pc[w] = "body" => held[w] # deqPending[i]
  /\ \A i \in DOMAIN deqPending :
       st[deqPending[i]] = "Running" /\ deqPending[i] \notin thrown
  /\ \A w \in Workers :
       pc[w] = "body" => st[held[w]] \notin {"Absent", "Pending"} /\ held[w] \notin thrown
  /\ \A t \in TaskIds : st[t] = "Running" /\ t \notin thrown =>
       \/ \E i \in DOMAIN deqPending : deqPending[i] = t
       \/ \E w \in Workers : pc[w] = "body" /\ held[w] = t
  /\ \A t \in thrown : st[t] = "Running"

LEMMA DispatchOnce ==
  ASSUME PoolTypeOK, NEW started, NEW st \in [TaskIds -> States], NEW running \in 0..Slots,
         NEW wtr, DispatchLocked(started, st, running, wtr), thrown \in SUBSET TaskIds,
         UNCHANGED thrown, Once(st), HeldIsTask
  PROVE  Once(emState)'
<1>0. deqPending \in Seq(TaskIds)  BY QueueAssumption DEF PoolTypeOK
<1>1. CASE emState' = st /\ UNCHANGED poolVars
  BY <1>1 DEF Once, poolVars
<1>2. CASE /\ emState' = [t \in TaskIds |->
                            IF t \in Refused(st, Slots - running) THEN "Error" ELSE st[t]]
           /\ UNCHANGED poolVars
  <2>1. \A t \in TaskIds : \/ emState'[t] = st[t]
                           \/ st[t] = "Pending" /\ emState'[t] = "Error"
    BY <1>2 DEF Refused, In
  <2>2. UNCHANGED <<deqPending, pc, held>>  BY <1>2 DEF poolVars
  <2>3. \A i \in DOMAIN deqPending : deqPending[i] \in TaskIds  BY <1>0
  <2> QED  BY <2>1, <2>2, <2>3 DEF Once, HeldIsTask
<1>3. ASSUME NEW batch \in Batches(st, Slots - running), Submit(batch),
             emState' = [t \in TaskIds |-> IF t \in Range(batch) THEN "Running" ELSE st[t]]
      PROVE  Once(emState)'
  <2>1. Slots - running \in Nat  BY QueueAssumption
  <2>2. /\ batch \in Seq(TaskIds) /\ Range(batch) \in SUBSET In(st, "Pending")
        /\ \A i, j \in DOMAIN batch : i < j => batch[i] < batch[j]
    <3>1. IsBatch(batch, st, Slots - running)  BY DEF Batches
    <3> QED  BY <2>1, <3>1, BatchFacts DEF IsBatch
  <2>3. \A i \in DOMAIN batch : batch[i] \in TaskIds /\ st[batch[i]] = "Pending"
                               /\ batch[i] \in Range(batch)
    BY <2>2 DEF In, Range
  <2>4. deqPending' = deqPending \o batch /\ UNCHANGED <<pc, held>>
    BY <1>3 DEF Submit
  <2> DEFINE n == Len(deqPending)
  <2>5. /\ n \in Nat /\ DOMAIN deqPending = 1..n /\ DOMAIN batch = 1..Len(batch)
        /\ Len(batch) \in Nat
        /\ DOMAIN (deqPending') = 1..(n + Len(batch))
        /\ \A i \in 1..n : deqPending'[i] = deqPending[i]
        /\ \A i \in (n + 1)..(n + Len(batch)) :
             i - n \in DOMAIN batch /\ deqPending'[i] = batch[i - n]
    BY <1>0, <2>2, <2>4
  <2> HIDE DEF n
  <2>6. \A i \in DOMAIN (deqPending') :
          \/ i \in 1..n /\ i \in DOMAIN deqPending /\ deqPending'[i] = deqPending[i]
          \/ i \in Nat /\ i > n /\ i - n \in DOMAIN batch /\ deqPending'[i] = batch[i - n]
    BY <2>5
  <2>7. \A i \in DOMAIN deqPending : deqPending[i] \in TaskIds /\ deqPending[i] \notin Range(batch)
    BY <1>0, <2>2 DEF Once, In
  <2>8. \A i, j \in DOMAIN batch : batch[i] = batch[j] => i = j
    <3>1. \A i \in DOMAIN batch : batch[i] \in Nat  BY <2>3 DEF TaskIds
    <3> QED  BY <2>2, <2>5, <3>1
  <2>9. \A i, j \in DOMAIN (deqPending') : deqPending'[i] = deqPending'[j] => i = j
    <3> SUFFICES ASSUME NEW i \in DOMAIN (deqPending'), NEW j \in DOMAIN (deqPending'),
                        deqPending'[i] = deqPending'[j]
                 PROVE  i = j
      OBVIOUS
    <3>1. CASE i \in DOMAIN deqPending /\ j \in DOMAIN deqPending /\ i \in 1..n /\ j \in 1..n
      BY <2>5, <3>1 DEF Once
    <3>2. CASE i > n /\ j > n
      <4>1. i - n = j - n  BY <2>6, <2>5, <2>8, <3>2
      <4> QED  BY <4>1, <2>5
    <3>3. ~((i \in 1..n /\ j > n) \/ (j \in 1..n /\ i > n))
      BY <2>3, <2>5, <2>6, <2>7
    <3> QED  BY <2>5, <3>1, <3>2, <3>3
  <2>10. \A w \in Workers : \A i \in DOMAIN (deqPending') :
           pc'[w] = "body" => held'[w] # deqPending'[i]
    BY <2>3, <2>4, <2>6 DEF Once
  <2>11. \A i \in DOMAIN (deqPending') :
           emState'[deqPending'[i]] = "Running" /\ deqPending'[i] \notin thrown'
    BY <1>3, <2>3, <2>6, <2>7 DEF Once
  <2>12. \A w \in Workers :
           pc'[w] = "body" => emState'[held'[w]] \notin {"Absent", "Pending"} /\ held'[w] \notin thrown'
    BY <1>3, <2>4 DEF Once, HeldIsTask
  <2>13. \A t \in TaskIds : emState'[t] = "Running" /\ t \notin thrown' =>
           \/ \E i \in DOMAIN (deqPending') : deqPending'[i] = t
           \/ \E w \in Workers : pc'[w] = "body" /\ held'[w] = t
    <3> SUFFICES ASSUME NEW t \in TaskIds, emState'[t] = "Running", t \notin thrown'
                 PROVE  \/ \E i \in DOMAIN (deqPending') : deqPending'[i] = t
                        \/ \E w \in Workers : pc'[w] = "body" /\ held'[w] = t
      OBVIOUS
    <3>1. CASE t \in Range(batch)
      <4>1. PICK k \in DOMAIN batch : batch[k] = t  BY <3>1 DEF Range
      <4>2. n + k \in (n + 1)..(n + Len(batch)) /\ (n + k) - n = k  BY <2>5
      <4> QED  BY <2>5, <4>1, <4>2
    <3>2. CASE t \notin Range(batch)
      <4>1. st[t] = "Running"  BY <1>3, <3>2
      <4>2. CASE \E i \in DOMAIN deqPending : deqPending[i] = t
        BY <2>5, <4>2
      <4> QED  BY <2>4, <4>1, <4>2 DEF Once
    <3> QED  BY <3>1, <3>2
  <2>14. \A t \in thrown' : emState'[t] = "Running"
    BY <1>3 DEF Once
  <2> QED  BY <2>4, <2>9, <2>10, <2>11, <2>12, <2>13, <2>14 DEF Once
<1> QED  BY <1>1, <1>2, <1>3 DEF DispatchLocked

LEMMA QueueOnce == IInv /\ Once(emState) /\ [Next]_vars => Once(emState)'
<1> SUFFICES ASSUME IInv, Once(emState), [Next]_vars PROVE Once(emState)'  OBVIOUS
<1>0. /\ emState \in [TaskIds -> States] /\ dwRunning \in 0..Slots /\ PoolTypeOK
      /\ thrown \in SUBSET TaskIds /\ HeldIsTask /\ dwNextId \in 1..(MaxTasks + 1)
      /\ deqPending \in Seq(TaskIds)
  BY QueueAssumption DEF IInv, TypeOK, PoolTypeOK
<1>q. \A i \in DOMAIN deqPending : deqPending[i] \in TaskIds  BY <1>0
<1>1. CASE AddTask
  <2> DEFINE st == [emState EXCEPT ![dwNextId] = "Pending"]
  <2>1. st \in [TaskIds -> States]  BY <1>0 DEF States
  <2>2. DispatchLocked(bStarted, st, dwRunning, waiter) /\ UNCHANGED thrown
    BY <1>1 DEF AddTask
  <2>3. dwNextId \in TaskIds /\ emState[dwNextId] = "Absent"
    BY <1>0, <1>1 DEF AddTask, IInv, IdsInOrder, TaskIds
  <2>4. Once(st)  BY <1>0, <1>q, <2>3 DEF Once, HeldIsTask
  <2> HIDE DEF st
  <2> QED  BY <1>0, <2>1, <2>2, <2>4, DispatchOnce
<1>2. CASE Start
  <2>1. DispatchLocked(TRUE, emState, dwRunning, waiter) /\ UNCHANGED thrown
    BY <1>2 DEF Start
  <2> QED  BY <1>0, <2>1, DispatchOnce
<1>3. ASSUME NEW w \in Workers, NEW bOk \in BOOLEAN, RunTask(w, bOk) PROVE Once(emState)'
  <2> DEFINE t  == held[w]
             st == [emState EXCEPT ![t] = IF t \in bCancel THEN "Canceled"
                                          ELSE IF bOk THEN "Done" ELSE "Error"]
             running == IF dwRunning > 0 THEN dwRunning - 1 ELSE dwRunning
  <2>1. t \in TaskIds /\ pc[w] = "body" /\ emState[t] = "Running"
    BY <1>0, <1>3 DEF RunTask, HeldIsTask
  <2>2. st \in [TaskIds -> States] /\ st[t] \in {"Canceled", "Done", "Error"}
        /\ \A u \in TaskIds : u # t => st[u] = emState[u]
    BY <1>0, <2>1 DEF States
  <2>3. running \in 0..Slots  BY <1>0, QueueAssumption
  <2>4. DispatchLocked(bStarted, st, running, NotifyIdle(waiter)) /\ UNCHANGED thrown
    BY <1>3 DEF RunTask
  <2>5. t \notin thrown /\ \A i \in DOMAIN deqPending : deqPending[i] # t
    BY <2>1 DEF Once
  <2> HIDE DEF st, running
  <2>6. Once(st)
    <3>1. \A i \in DOMAIN deqPending :
            st[deqPending[i]] = "Running" /\ deqPending[i] \notin thrown
      BY <1>q, <2>2, <2>5 DEF Once
    <3>2. \A v \in Workers :
            pc[v] = "body" => st[held[v]] \notin {"Absent", "Pending"} /\ held[v] \notin thrown
      BY <1>0, <2>2, <2>5 DEF Once, HeldIsTask
    <3>3. \A u \in TaskIds : st[u] = "Running" /\ u \notin thrown =>
            \/ \E i \in DOMAIN deqPending : deqPending[i] = u
            \/ \E v \in Workers : pc[v] = "body" /\ held[v] = u
      BY <2>2 DEF Once
    <3>4. \A u \in thrown : st[u] = "Running"
      BY <1>0, <2>2, <2>5 DEF Once
    <3> QED  BY <3>1, <3>2, <3>3, <3>4 DEF Once
  <2> QED  BY <1>0, <2>2, <2>3, <2>4, <2>6, DispatchOnce
<1>4. ASSUME NEW w \in Workers, TakeJob(w), UNCHANGED <<emState, thrown>> PROVE Once(emState)'
  <2>1. /\ deqPending # <<>> /\ held' = [held EXCEPT ![w] = Head(deqPending)]
        /\ deqPending' = Tail(deqPending) /\ pc' = [pc EXCEPT ![w] = "body"]
        /\ pc[w] = "take"
    BY <1>4 DEF TakeJob, Awake
  <2> DEFINE n == Len(deqPending)
  <2>2. /\ n \in Nat \ {0} /\ DOMAIN deqPending = 1..n /\ Head(deqPending) = deqPending[1]
        /\ DOMAIN (deqPending') = 1..(n - 1)
        /\ \A i \in 1..(n - 1) : i + 1 \in 1..n /\ i + 1 # 1 /\ deqPending'[i] = deqPending[i + 1]
    BY <1>0, <2>1
  <2> HIDE DEF n
  <2>3. held' = [held EXCEPT ![w] = deqPending[1]] /\ 1 \in DOMAIN deqPending
    BY <2>1, <2>2
  <2>4. \A v \in Workers : \/ v = w /\ held'[v] = deqPending[1] /\ pc'[v] = "body"
                           \/ v # w /\ held'[v] = held[v] /\ pc'[v] = pc[v]
    BY <1>0, <2>1, <2>3 DEF PoolTypeOK
  <2>5. \A i, j \in DOMAIN (deqPending') : deqPending'[i] = deqPending'[j] => i = j
    <3> SUFFICES ASSUME NEW i \in 1..(n - 1), NEW j \in 1..(n - 1), deqPending'[i] = deqPending'[j]
                 PROVE  i = j
      BY <2>2
    <3>1. i + 1 \in DOMAIN deqPending /\ j + 1 \in DOMAIN deqPending
          /\ deqPending[i + 1] = deqPending[j + 1]
      BY <2>2
    <3>2. i + 1 = j + 1  BY <3>1 DEF Once
    <3> QED  BY <2>2, <3>2
  <2>6. \A u, v \in Workers : pc'[u] = "body" /\ pc'[v] = "body" /\ held'[u] = held'[v] => u = v
    BY <2>3, <2>4 DEF Once
  <2>7. \A v \in Workers : \A i \in DOMAIN (deqPending') :
          pc'[v] = "body" => held'[v] # deqPending'[i]
    <3> SUFFICES ASSUME NEW v \in Workers, NEW i \in 1..(n - 1), pc'[v] = "body",
                        held'[v] = deqPending[i + 1]
                 PROVE  FALSE
      BY <2>2
    <3>1. i + 1 \in DOMAIN deqPending /\ i + 1 # 1  BY <2>2
    <3> QED  BY <2>3, <2>4, <3>1 DEF Once
  <2>8. \A i \in DOMAIN (deqPending') :
          emState'[deqPending'[i]] = "Running" /\ deqPending'[i] \notin thrown'
    BY <1>4, <2>2 DEF Once
  <2>9. \A v \in Workers :
          pc'[v] = "body" => emState'[held'[v]] \notin {"Absent", "Pending"} /\ held'[v] \notin thrown'
    BY <1>4, <2>3, <2>4 DEF Once
  <2>10. \A t \in TaskIds : emState'[t] = "Running" /\ t \notin thrown' =>
           \/ \E i \in DOMAIN (deqPending') : deqPending'[i] = t
           \/ \E v \in Workers : pc'[v] = "body" /\ held'[v] = t
    <3> SUFFICES ASSUME NEW t \in TaskIds, emState[t] = "Running", t \notin thrown
                 PROVE  \/ \E i \in DOMAIN (deqPending') : deqPending'[i] = t
                        \/ \E v \in Workers : pc'[v] = "body" /\ held'[v] = t
      BY <1>4
    <3>1. CASE \E v \in Workers : pc[v] = "body" /\ held[v] = t
      BY <2>1, <2>4, <3>1
    <3>2. ASSUME NEW i \in DOMAIN deqPending, deqPending[i] = t, i = 1
          PROVE  \E v \in Workers : pc'[v] = "body" /\ held'[v] = t
      BY <2>4, <3>2
    <3>3. ASSUME NEW i \in DOMAIN deqPending, deqPending[i] = t, i # 1
          PROVE  \E k \in DOMAIN (deqPending') : deqPending'[k] = t
      <4>1. i - 1 \in 1..(n - 1) /\ (i - 1) + 1 = i  BY <2>2, <3>3
      <4> QED  BY <2>2, <3>3, <4>1
    <3> QED  BY <3>1, <3>2, <3>3 DEF Once
  <2>11. \A t \in thrown' : emState'[t] = "Running"
    BY <1>4 DEF Once
  <2> QED  BY <2>5, <2>6, <2>7, <2>8, <2>9, <2>10, <2>11 DEF Once
<1>5. ASSUME NEW w \in Workers, Wait(w) \/ Exit(w) \/ JobDone(w), UNCHANGED <<emState, thrown>>
      PROVE  Once(emState)'
  <2>1. /\ UNCHANGED deqPending /\ pc[w] # "body"
        /\ \A v \in Workers : (pc'[v] = "body" <=> pc[v] = "body") /\ (v # w => held'[v] = held[v])
    BY <1>0, <1>5 DEF Wait, Exit, JobDone, Awake, PoolTypeOK
  <2> QED  BY <1>5, <2>1 DEF Once
<1>6. ASSUME NEW w \in Workers, RunTaskReturns(w) PROVE Once(emState)'
  <2>1. /\ UNCHANGED <<deqPending, held, emState, thrown>> /\ emState[held[w]] # "Running"
        /\ \A v \in Workers : pc'[v] = "body" <=> v # w /\ pc[v] = "body"
    BY <1>0, <1>6 DEF RunTaskReturns, BodyEnds, PoolTypeOK, queueVars
  <2> QED  BY <2>1 DEF Once
<1>7. ASSUME NEW w \in Workers, RunTaskThrows(w) PROVE Once(emState)'
  <2>1. /\ UNCHANGED <<deqPending, held, emState>> /\ emState[held[w]] = "Running"
        /\ pc[w] = "body" /\ thrown' = thrown \cup {held[w]}
        /\ \A v \in Workers : pc'[v] = "body" <=> v # w /\ pc[v] = "body"
    BY <1>0, <1>7 DEF RunTaskThrows, BodyEnds, PoolTypeOK
  <2> QED  BY <2>1 DEF Once
<1>8. CASE UNCHANGED <<deqPending, pc, held, thrown>> /\ ~AddTask /\ ~Start
           /\ \A t \in TaskIds : \/ emState'[t] = emState[t]
                                 \/ emState[t] = "Pending" /\ emState'[t] = "Canceled"
  BY <1>0, <1>q, <1>8 DEF Once, HeldIsTask
<1>9. ASSUME NEW ids, NEW notify, Cancel(ids, notify)
      PROVE  /\ UNCHANGED <<deqPending, pc, held, thrown>>
             /\ \A t \in TaskIds : \/ emState'[t] = emState[t]
                                   \/ emState[t] = "Pending" /\ emState'[t] = "Canceled"
  BY <1>9 DEF Cancel, poolVars
<1>10. ASSUME WaitAll \/ WaitTest \/ UNCHANGED vars \/ (Closing /\ UNCHANGED queueVars)
       PROVE  UNCHANGED <<deqPending, pc, held, thrown, emState>>
  BY <1>10 DEF WaitAll, WaitTest, vars, queueVars, poolVars, Closing, ShutdownFlag,
               ShutdownNotify, ShutdownJoin
<1> QED
  BY <1>1, <1>2, <1>3, <1>4, <1>5, <1>6, <1>7, <1>8, <1>9, <1>10
  DEF Next, Api, CancelTask, CancelAll, Worker, WorkerIdle, queueVars

(* The job of a running task is in the pool once and in one place, until   *)
(* its executor throws, and no other task's is.                            *)
THEOREM RunOnce == Spec => []ExecutedOnce
<1>1. Init => Once(emState)
  BY DEF Init, PoolInit, Once
<1>2. IInv /\ Once(emState) => ExecutedOnce
  BY DEF Once, ExecutedOnce, Queued, Executes
<1> QED  BY Invariance, QueueOnce, <1>1, <1>2, PTL DEF Spec

-----------------------------------------------------------------------------
(* The refinement: each step of the queue is a step of TaskLifecycle.      *)

(* A method that changes entries in the ways st may differ from emState    *)
(* and then dispatches makes one lifecycle step.                           *)
LEMMA DispatchStep ==
  ASSUME IInv, IInv', NEW st, UNCHANGED bCancel,
         \A t \in TaskIds :
           \/ st[t] = emState[t]
           \/ emState[t] = "Absent" /\ st[t] = "Pending"
           \/ /\ emState[t] = "Running" /\ st[t] \in {"Done", "Error", "Canceled"}
              /\ st[t] = "Canceled" <=> t \in bCancel,
         \A t \in TaskIds :
           \/ emState'[t] = st[t]
           \/ /\ st[t] = "Pending"
              /\ emState'[t] \in {"Running", "Error"}
              /\ emState'[t] = "Running" =>
                   \A s \in TaskIds : s < t => emState'[s] # "Pending"
  PROVE  Lifecycle!Step
<1>0. /\ emState \in [TaskIds -> States] /\ dwNextId' \in 1..(MaxTasks + 1)
      /\ IdsInOrder' /\ SlotsExact'
  BY DEF IInv, TypeOK
<1> USE QueueAssumption
<1>1. ASSUME NEW t \in TaskIds
      PROVE  emState'[t] \in Lifecycle!Moves[emState[t]]
  BY <1>0 DEF Lifecycle!Moves, Lifecycle!Terminal, States
<1>2. Cardinality({t \in TaskIds : emState'[t] = "Running"}) <= Slots
  BY <1>0 DEF SlotsExact, Running, In
<1>3. ASSUME NEW t \in TaskIds, Lifecycle!Started(t), NEW s \in TaskIds, s < t
      PROVE  emState'[s] \notin {"Absent", "Pending"}
  <2>1. emState'[t] = "Running" /\ emState'[s] # "Pending"
    BY <1>3 DEF Lifecycle!Started, Lifecycle!Waiting
  <2>2. t < dwNextId'
    BY <1>0, <2>1 DEF IdsInOrder, TaskIds
  <2>3. s < dwNextId'
    BY <1>0, <2>2, <1>3 DEF TaskIds
  <2>4. emState'[s] # "Absent"
    BY <1>0, <2>3 DEF IdsInOrder, TaskIds
  <2> QED BY <2>1, <2>4
<1>4. ASSUME NEW t \in TaskIds, Lifecycle!Ended(t)
      PROVE  (emState'[t] = "Canceled") <=> (t \in bCancel)
  BY <1>4 DEF Lifecycle!Ended, Lifecycle!Terminal
<1>5. bCancel \subseteq bCancel' /\ \A t \in bCancel' \ bCancel : emState[t] = "Running"
  OBVIOUS
<1>6. \A t \in TaskIds : Lifecycle!Started(t) =>
        \A s \in TaskIds : s < t => emState'[s] \notin {"Absent", "Pending"}
  BY <1>3
<1>7. \A t \in TaskIds : Lifecycle!Ended(t) => (emState'[t] = "Canceled") <=> (t \in bCancel)
  BY <1>4
<1> QED BY <1>1, <1>2, <1>5, <1>6, <1>7 DEF Lifecycle!Step, Lifecycle!Cardinality, Cardinality

LEMMA StepRefines ==
  IInv /\ IInv' /\ [Next]_vars => [Lifecycle!Step]_<<emState, bCancel>>
<1> SUFFICES ASSUME IInv, IInv', [Next]_vars
             PROVE  Lifecycle!Step \/ UNCHANGED <<emState, bCancel>>
  OBVIOUS
<1> USE QueueAssumption
<1>0. /\ emState \in [TaskIds -> States] /\ dwRunning \in 0..Slots
      /\ waiter \in {"outside", "test", "asleep"} /\ bStarted \in BOOLEAN
      /\ PoolTypeOK /\ dwNextId \in 1..(MaxTasks + 1)
      /\ dwRunning = Cardinality(In(emState, "Running"))
  BY DEF IInv, TypeOK, SlotsExact, Running
<1>1. CASE AddTask
  <2> DEFINE st == [emState EXCEPT ![dwNextId] = "Pending"]
  <2>1. dwNextId \in TaskIds /\ emState[dwNextId] = "Absent"
    BY <1>0, <1>1 DEF AddTask, IInv, IdsInOrder, TaskIds
  <2>2. st \in [TaskIds -> States] /\ In(st, "Running") = In(emState, "Running")
    BY <1>0, <2>1 DEF In, States
  <2>3. DispatchLocked(bStarted, st, dwRunning, waiter) /\ UNCHANGED bCancel
    BY <1>1 DEF AddTask
  <2>4. \A t \in TaskIds : st[t] = emState[t] \/
          (emState[t] = "Absent" /\ st[t] = "Pending")
    BY <1>0, <2>1
  <2> HIDE DEF st
  <2>5. \A t \in TaskIds :
           \/ emState'[t] = st[t]
           \/ /\ st[t] = "Pending"
              /\ emState'[t] \in {"Running", "Error"}
              /\ emState'[t] = "Running" =>
                   \A s \in TaskIds : s < t => emState'[s] # "Pending"
    BY <1>0, <2>2, <2>3, Dispatched
  <2> QED BY <2>3, <2>4, <2>5, DispatchStep
<1>2. CASE Start
  <2>1. DispatchLocked(TRUE, emState, dwRunning, waiter) /\ UNCHANGED bCancel
    BY <1>2 DEF Start
  <2>2. \A t \in TaskIds :
           \/ emState'[t] = emState[t]
           \/ /\ emState[t] = "Pending"
              /\ emState'[t] \in {"Running", "Error"}
              /\ emState'[t] = "Running" =>
                   \A s \in TaskIds : s < t => emState'[s] # "Pending"
    BY <1>0, <2>1, Dispatched
  <2> QED BY <2>1, <2>2, DispatchStep
<1>3. ASSUME NEW ids \in SUBSET TaskIds, NEW notify \in BOOLEAN, Cancel(ids, notify)
      PROVE  Lifecycle!Step
  <2>1. /\ \A t \in TaskIds : emState'[t] \in Lifecycle!Moves[emState[t]]
        /\ \A t \in TaskIds : ~Lifecycle!Started(t) /\ ~Lifecycle!Ended(t)
    BY <1>0, <1>3 DEF Cancel, Lifecycle!Moves, Lifecycle!Terminal, Lifecycle!Started,
                      Lifecycle!Ended, Lifecycle!Waiting, States
  <2>2. Cardinality({t \in TaskIds : emState'[t] = "Running"}) <= Slots
    BY DEF IInv, SlotsExact, Running, In
  <2>3. bCancel \subseteq bCancel' /\ \A t \in bCancel' \ bCancel : emState[t] = "Running"
    BY <1>3 DEF Cancel, Running, In
  <2> QED BY <2>1, <2>2, <2>3 DEF Lifecycle!Step, Lifecycle!Cardinality, Cardinality
<1>4. ASSUME NEW w \in Workers, NEW bOk \in BOOLEAN, RunTask(w, bOk)
      PROVE  Lifecycle!Step
  <2> DEFINE t  == held[w]
             st == [emState EXCEPT ![t] = IF t \in bCancel THEN "Canceled"
                                          ELSE IF bOk THEN "Done" ELSE "Error"]
             running == IF dwRunning > 0 THEN dwRunning - 1 ELSE dwRunning
             wtr == NotifyIdle(waiter)
  <2>1. /\ DispatchLocked(bStarted, st, running, wtr) /\ UNCHANGED bCancel
        /\ emState[t] = "Running" /\ t \in TaskIds
    BY <1>4 DEF RunTask, IInv, HeldIsTask
  <2>2. /\ st \in [TaskIds -> States] /\ wtr \in {"outside", "test", "asleep"}
        /\ In(st, "Running") = In(emState, "Running") \ {t}
    BY <1>0, <2>1 DEF States, NotifyIdle, In
  <2>3. \A u \in TaskIds :
           \/ st[u] = emState[u]
           \/ /\ emState[u] = "Running" /\ st[u] \in {"Done", "Error", "Canceled"}
              /\ st[u] = "Canceled" <=> u \in bCancel
    BY <1>0, <2>1
  <2>4. running \in 0..Slots /\ running = Cardinality(In(st, "Running"))
    BY <1>0, <2>1, <2>2, OneLess DEF In
  <2> HIDE DEF st, t, running, wtr
  <2>5. \A u \in TaskIds :
           \/ emState'[u] = st[u]
           \/ /\ st[u] = "Pending"
              /\ emState'[u] \in {"Running", "Error"}
              /\ emState'[u] = "Running" =>
                   \A s \in TaskIds : s < u => emState'[s] # "Pending"
    BY <1>0, <2>1, <2>2, <2>4, Dispatched
  <2> QED BY <2>1, <2>3, <2>5, DispatchStep
<1>5. ASSUME NEW w \in Workers,
             (WorkerIdle(w) /\ UNCHANGED queueVars) \/ RunTaskReturns(w)
               \/ RunTaskThrows(w)
      PROVE  UNCHANGED <<emState, bCancel>>
  BY <1>5 DEF RunTaskReturns, RunTaskThrows, queueVars
<1>6. CASE WaitAll \/ WaitTest \/ (Closing /\ UNCHANGED queueVars) \/ UNCHANGED vars
  BY <1>6 DEF WaitAll, WaitTest, queueVars, vars
<1>7. ASSUME NEW t \in TaskIds, CancelTask(t) PROVE Lifecycle!Step
  BY <1>3, <1>7 DEF CancelTask
<1>8. CASE CancelAll
  BY <1>3, <1>8 DEF CancelAll
<1> QED BY <1>1, <1>2, <1>4, <1>5, <1>6, <1>7, <1>8 DEF Next, Api, Worker

(* The queue, whatever the schedule, behaves like TaskLifecycle: forward   *)
(* only, oldest first, within the slots, with final terminal states, and   *)
(* a cancellation that reached a running task is what is reported.         *)
THEOREM RefinesLifecycle == Spec => ImplementsLifecycle
<1>1. Init => Lifecycle!Init
  BY DEF Init, Lifecycle!Init
<1> QED BY <1>1, Invariance, StepRefines, PTL
        DEF Spec, ImplementsLifecycle, Lifecycle!Spec
=============================================================================
