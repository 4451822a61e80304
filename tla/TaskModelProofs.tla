--------------------------- MODULE TaskModelProofs --------------------------
(***************************************************************************)
(* Theorems about TaskModel, for every set of tasks, rows and URLs and any *)
(* number of slots.                                                        *)
(***************************************************************************)
EXTENDS TaskModel, FiniteSetTheorems, WellFoundedInduction, TLAPS

In(st, s) == {q \in Tasks : st[q] = s}

(* The queue: ids are handed out upwards, and the slots are kept.          *)
IdsInOrder ==
  /\ \E n \in Nat : \A q \in Tasks : status[q] # "Absent" => q <= n
  /\ \A p, q \in Tasks : p < q /\ status[q] # "Absent" => status[p] # "Absent"
QueueInv ==
  /\ status \in [Tasks -> DOMAIN Moves] /\ asked \subseteq Tasks
  /\ IdsInOrder
  /\ Cardinality(In(status, "Running")) <= Slots

(* The rows: numbered upwards, each with a queue task of its own.          *)
Used == {m \in Rows : task[m] # NoTask}
RowsKnown ==
  /\ Used = 1..Cardinality(Used) /\ mapTasks \subseteq Used
  /\ \A m \in Used : /\ task[m].dwQueueTaskId \in Tasks
                     /\ status[task[m].dwQueueTaskId] # "Absent"
                     /\ task[m].bPendingRemove => m \in deleted
  /\ \A m, n \in Used : task[m].dwQueueTaskId = task[n].dwQueueTaskId => m = n

(* The window: a row drawn as ended has ended; Delete works on a row that  *)
(* was clicked; the engine is about to go only while nobody needs it.      *)
ShownTrue ==
  \A m \in Rows : shown[m] # "none" =>
    m \in Used /\ (shown[m] \in Terminal => status[task[m].dwQueueTaskId] = shown[m])
Deleting ==
  ui \in {"cancel", "erase", "artifacts", "mark",
      "stop"} => target \in deleted \cap Used
ResetIdle == ui = "reset" => Active = {}

(* The executors: each is for a running task, and one that cleans up does  *)
(* so for a row that was deleted.                                          *)
Live == {"found", "run", "succeeded", "ended", "dropOk", "dropFailed", "ok",
    "failed"}
ExecRuns == \A q \in Tasks : exec[q] \in Live => status[q] = "Running"
Dropping ==
  \A q \in Tasks : exec[q] \in {"dropOk", "dropFailed"} =>
    \A m \in Rows : task[m].dwQueueTaskId = q => m \in deleted

ModelIInv ==
  /\ ModelTypeOK /\ QueueInv /\ RowsKnown
  /\ ShownTrue /\ Deleting /\ ResetIdle
  /\ ExecRuns /\ Dropping
  /\ EngineInUse /\ ActiveTaskHasRow

-----------------------------------------------------------------------------
(* The states of a task.                                                   *)

LEMMA MovesAre ==
  /\ DOMAIN Moves = {"Absent", "Pending", "Running", "Done", "Error", "Canceled"}
  /\ Moves["Absent"] = {"Absent", "Pending", "Running", "Error"}
  /\ Moves["Pending"] = {"Pending", "Running", "Canceled", "Error"}
  /\ Moves["Running"] = {"Running", "Done", "Error", "Canceled"}
  /\ Moves["Done"] = {"Done"} /\ Moves["Error"] = {"Error"}
  /\ Moves["Canceled"] = {"Canceled"}
BY DEF Moves, Terminal

LEMMA Least ==
  ASSUME NEW S \in SUBSET Nat, S # {}
  PROVE  \E x \in S : \A y \in S : x <= y
<1>1. PICK x \in S : \A y \in S : ~(<<y, x>> \in OpToRel(<, Nat))
  BY NatLessThanWellFounded, WFMin, Zenon
<1>2. \A y \in S : ~(y < x)
  BY <1>1 DEF OpToRel
<1> QED BY <1>2

(* The greatest of a bounded set of numbers.                               *)
LEMMA Greatest ==
  ASSUME NEW S \in SUBSET Nat, S # {}, NEW n \in Nat, \A y \in S : y <= n
  PROVE  \E x \in S : \A y \in S : y <= x
<1> DEFINE bounds == {u \in Nat : \A y \in S : y <= u}
<1>1. PICK u \in bounds : \A w \in bounds : u <= w
  <2>1. n \in bounds /\ bounds \in SUBSET Nat
    OBVIOUS
  <2> QED BY <2>1, Least
<1>2. u \in S
  <2> SUFFICES ASSUME u \notin S PROVE FALSE
    OBVIOUS
  <2>1. PICK y \in S : TRUE
    OBVIOUS
  <2>2. \A z \in S : z < u
    BY <1>1
  <2>3. u - 1 \in Nat /\ \A z \in S : z <= u - 1
    BY <1>1, <2>1, <2>2
  <2> QED BY <1>1, <2>3
<1> QED BY <1>1, <1>2

(* A dispatch starts pending tasks, oldest first, and never too many.      *)
LEMMA DispatchedIs ==
  ASSUME NEW st \in [Tasks -> DOMAIN Moves]
  PROVE  /\ Dispatched(st) \in [Tasks -> DOMAIN Moves]
         /\ \A t \in Tasks : \/ Dispatched(st)[t] = st[t]
                             \/ st[t] = "Pending" /\ Dispatched(st)[t] = "Running"
BY MovesAre DEF Dispatched

LEMMA DispatchedKeeps ==
  ASSUME NEW st \in [Tasks -> DOMAIN Moves],
         NEW n \in Nat, \A q \in Tasks : st[q] # "Absent" => q <= n,
         Cardinality(In(st, "Running")) <= Slots
  PROVE  /\ Cardinality(In(Dispatched(st), "Running")) <= Slots
         /\ \A s, t \in Tasks :
              s < t /\ st[t] = "Pending" /\ Dispatched(st)[t] = "Running" =>
                Dispatched(st)[s] # "Pending"
<1> DEFINE W == In(st, "Pending")
           R == In(st, "Running")
           free == Slots - Cardinality(R)
           Lower(q) == {p \in W : p < q}
           B == {q \in W : Cardinality(Lower(q)) < free}
<1>0. Tasks \subseteq Nat /\ Slots \in Nat
  BY ModelAssumption
<1>a. W \subseteq Tasks /\ W = {q \in Tasks : st[q] = "Pending"} /\ R \subseteq Tasks
  BY DEF In
<1>b. \A q \in Tasks : Lower(q) = {p \in W : p < q}
  OBVIOUS
<1>c. B \subseteq W /\ \A q \in W : q \in B <=> Cardinality(Lower(q)) < free
  OBVIOUS
<1>d. R \cap W = {} /\ W \subseteq 0..n /\ R \subseteq 0..n
  <2>1. \A q \in Tasks : st[q] # "Absent" => q \in 0..n
    BY <1>0
  <2> QED BY <2>1 DEF In
<1>1. IsFiniteSet(0..n)
  BY FS_Interval
<1>4. Dispatched(st) = [q \in Tasks |-> IF q \in B THEN "Running" ELSE st[q]]
  BY DEF Dispatched, In
<1>7. In(Dispatched(st), "Running") = R \cup B
  BY <1>4 DEF In
<1>e. free = Slots - Cardinality(R)
  OBVIOUS
<1> HIDE DEF W, R, free, Lower, B
<1>2. /\ IsFiniteSet(W) /\ IsFiniteSet(R) /\ IsFiniteSet(B)
      /\ \A q \in Tasks : IsFiniteSet(Lower(q)) /\ Cardinality(Lower(q)) \in Nat
  <2>2. IsFiniteSet(W) /\ IsFiniteSet(R)
    BY <1>1, <1>d, FS_Subset
  <2>3. \A q \in Tasks : Lower(q) \in SUBSET W
    BY <1>b
  <2>4. IsFiniteSet(B) /\ \A q \in Tasks : IsFiniteSet(Lower(q))
    BY <1>c, <2>2, <2>3, FS_Subset
  <2> QED BY <2>2, <2>4, FS_CardinalityType
<1>3. Cardinality(R) \in Nat /\ Cardinality(B) \in Nat /\ free \in Nat
  <2>1. Cardinality(R) \in Nat /\ Cardinality(B) \in Nat
    BY <1>2, FS_CardinalityType
  <2>2. Cardinality(R) <= Slots
    BY DEF R
  <2> QED BY <1>0, <1>e, <2>1, <2>2
<1>5. \A s, t \in Tasks : s < t /\ t \in B /\ s \in W => s \in B
  <2> SUFFICES ASSUME NEW s \in Tasks, NEW t \in Tasks, s < t, t \in B, s \in W
               PROVE  Cardinality(Lower(s)) < free
    BY <1>c
  <2>1. Lower(s) \in SUBSET Lower(t)
    <3> SUFFICES ASSUME NEW p \in Lower(s) PROVE p \in Lower(t)
      OBVIOUS
    <3>1. p \in W /\ p < s /\ p \in Nat /\ s \in Nat /\ t \in Nat
      BY <1>0, <1>a, <1>b
    <3>2. p < t
      BY <3>1
    <3> QED BY <1>b, <3>1, <3>2
  <2>2. Cardinality(Lower(s)) <= Cardinality(Lower(t))
    BY <1>2, <2>1, FS_Subset
  <2>3. Cardinality(Lower(t)) < free
    BY <1>c
  <2> QED BY <1>2, <1>3, <2>2, <2>3
<1>6. Cardinality(B) <= free
  <2>1. CASE B = {}
    <3>1. Cardinality(B) = 0
      BY <2>1, FS_EmptySet
    <3> QED BY <1>3, <3>1
  <2>2. CASE B # {}
    <3>1. B \in SUBSET Nat /\ \A y \in B : y <= n
      BY <1>c, <1>d
    <3>2. PICK x \in B : \A y \in B : y <= x
      BY <2>2, <3>1, Greatest
    <3>3. x \in Tasks /\ Cardinality(Lower(x)) < free
      BY <1>a, <1>c
    <3>4. B \ {x} \in SUBSET Lower(x)
      <4> SUFFICES ASSUME NEW y \in B, y # x PROVE y \in Lower(x)
        OBVIOUS
      <4>1. y < x
        BY <3>1, <3>2
      <4> QED BY <1>b, <1>c, <3>3, <4>1
    <3>5. Cardinality(B \ {x}) <= Cardinality(Lower(x))
      BY <1>2, <3>3, <3>4, FS_Subset
    <3>6. Cardinality(B \ {x}) = Cardinality(B) - 1
      BY <1>2, FS_RemoveElement
    <3> QED BY <1>2, <1>3, <3>3, <3>5, <3>6
  <2> QED BY <2>1, <2>2
<1>8. Cardinality(R \cup B) = Cardinality(R) + Cardinality(B)
  <2>1. Cardinality(R \cap B) = 0
    <3>1. R \cap B = {}
      BY <1>c, <1>d
    <3> QED BY <3>1, FS_EmptySet
  <2>2. Cardinality(R \cup B) = Cardinality(R) + Cardinality(B) - Cardinality(R \cap B)
    BY <1>2, FS_Union
  <2> QED BY <1>3, <2>1, <2>2
<1>9. Cardinality(In(Dispatched(st), "Running")) <= Slots
  BY <1>0, <1>3, <1>6, <1>7, <1>8, <1>e
<1>10. \A s, t \in Tasks :
         s < t /\ st[t] = "Pending" /\ Dispatched(st)[t] = "Running" =>
           Dispatched(st)[s] # "Pending"
  <2> SUFFICES ASSUME NEW s \in Tasks, NEW t \in Tasks, s < t, st[t] = "Pending",
                      Dispatched(st)[t] = "Running", Dispatched(st)[s] = "Pending"
               PROVE  FALSE
    OBVIOUS
  <2>1. t \in B /\ s \notin B /\ st[s] = "Pending"
    BY <1>4
  <2> QED BY <1>a, <1>5, <2>1
<1> QED BY <1>9, <1>10
-----------------------------------------------------------------------------
(* The three calls of the queue: each is a step of TaskLifecycle, and does *)
(* to the other tasks what is said.                                        *)

Dispatch(p) == status[p] = "Pending" /\ status'[p] = "Running"

LEMMA Bounded ==
  ASSUME QueueInv
  PROVE  \E n \in Nat : \A q \in Tasks : status[q] # "Absent" => q <= n
BY DEF QueueInv, IdsInOrder

LEMMA AddStep ==
  ASSUME QueueInv, NEW q \in Tasks, QueueAdd(q)
  PROVE  /\ QueueInv' /\ Step
         /\ status[q] = "Absent" /\ status'[q] \in {"Pending", "Running"}
         /\ \A p \in Tasks \ {q} : status'[p] = status[p] \/ Dispatch(p)
<1> DEFINE st == [status EXCEPT ![q] = "Pending"]
<1>1. /\ status' = Dispatched(st) /\ asked' = asked
      /\ status[q] = "Absent" /\ \A p \in Tasks : p < q => status[p] # "Absent"
  BY DEF QueueAdd, Unused
<1>2. /\ status \in [Tasks -> DOMAIN Moves] /\ st \in [Tasks -> DOMAIN Moves]
      /\ st[q] = "Pending" /\ \A p \in Tasks \ {q} : st[p] = status[p]
  BY MovesAre DEF QueueInv
<1>3. In(st, "Running") = In(status, "Running")
  BY <1>1, <1>2 DEF In
<1>4. Tasks \subseteq Nat
  BY ModelAssumption
<1>5. PICK n \in Nat : \A p \in Tasks : st[p] # "Absent" => p <= n
  <2>1. PICK m \in Nat : \A p \in Tasks : status[p] # "Absent" => p <= m
    BY Bounded
  <2>2. CASE m <= q
    <3>1. q \in Nat /\ \A p \in Tasks : st[p] # "Absent" => p <= q
      BY <1>2, <1>4, <2>1, <2>2
    <3> QED BY <3>1
  <2>3. CASE q < m
    <3>1. \A p \in Tasks : st[p] # "Absent" => p <= m
      BY <1>2, <1>4, <2>1, <2>3
    <3> QED BY <3>1
  <2> QED BY <1>4, <2>2, <2>3
<1> HIDE DEF st
<1>6. /\ status' \in [Tasks -> DOMAIN Moves]
      /\ \A t \in Tasks : \/ status'[t] = st[t]
                          \/ st[t] = "Pending" /\ status'[t] = "Running"
  BY <1>1, <1>2, DispatchedIs
<1>7. /\ Cardinality(In(status', "Running")) <= Slots
      /\ \A s, t \in Tasks : s < t /\ st[t] = "Pending" /\ status'[t] = "Running" =>
           status'[s] # "Pending"
  BY <1>1, <1>2, <1>3, <1>5, DispatchedKeeps DEF QueueInv
<1>8. /\ status'[q] \in {"Pending", "Running"}
      /\ \A p \in Tasks \ {q} : status'[p] = status[p] \/ Dispatch(p)
  BY <1>2, <1>6 DEF Dispatch
<1>9. IdsInOrder'
  <2>1. \A p \in Tasks : status'[p] # "Absent" <=> st[p] # "Absent"
    BY <1>6
  <2>2. \E m \in Nat : \A p \in Tasks : status'[p] # "Absent" => p <= m
    BY <1>5, <2>1
  <2>3. ASSUME NEW p \in Tasks, NEW r \in Tasks, p < r, status'[r] # "Absent"
        PROVE  status'[p] # "Absent"
    <3>1. r = q \/ status[r] # "Absent"
      BY <1>2, <2>1, <2>3
    <3>2. status[p] # "Absent"
      BY <1>1, <2>3, <3>1 DEF QueueInv, IdsInOrder
    <3> QED BY <1>2, <2>1, <3>2
  <2> QED BY <2>2, <2>3 DEF IdsInOrder
<1>10. Step
  <2>1. \A t \in Tasks : status'[t] \in Moves[status[t]]
    BY <1>1, <1>2, <1>8, MovesAre DEF Dispatch
  <2>2. ASSUME NEW t \in Tasks, Started(t), NEW s \in Tasks, s < t
        PROVE  status'[s] \notin {"Absent", "Pending"}
    <3>1. st[t] = "Pending" /\ status'[t] = "Running"
      BY <1>2, <1>6, <2>2 DEF Started, Waiting
    <3>2. status'[s] # "Pending"
      BY <1>7, <2>2, <3>1
    <3>3. status'[s] # "Absent"
      BY <1>9, <2>2, <3>1 DEF IdsInOrder
    <3> QED BY <3>2, <3>3
  <2>3. \A t \in Tasks : ~Ended(t)
    BY <1>1, <1>8 DEF Ended, Terminal, Dispatch
  <2> QED BY <1>1, <1>7, <2>1, <2>2, <2>3 DEF Step, In
<1> QED BY <1>1, <1>6, <1>7, <1>8, <1>9, <1>10 DEF QueueInv

LEMMA CancelStep ==
  ASSUME QueueInv, NEW ids \in SUBSET Tasks, QueueCancel(ids)
  PROVE  /\ QueueInv' /\ Step
         /\ \A p \in Tasks : \/ status'[p] = status[p]
                             \/ status[p] = "Pending" /\ status'[p] = "Canceled"
<1>1. /\ status' = [p \in Tasks |->
           IF p \in ids /\ status[p] = "Pending" THEN "Canceled" ELSE status[p]]
      /\ asked' = asked \cup {p \in ids : status[p] = "Running"}
  BY DEF QueueCancel
<1>2. /\ status \in [Tasks -> DOMAIN Moves] /\ status' \in [Tasks -> DOMAIN Moves]
      /\ asked' \subseteq Tasks
  BY <1>1, MovesAre DEF QueueInv
<1>3. \A p \in Tasks : \/ status'[p] = status[p]
                       \/ status[p] = "Pending" /\ status'[p] = "Canceled"
  BY <1>1
<1>4. In(status', "Running") = In(status, "Running")
  BY <1>3 DEF In
<1>5. \A p \in Tasks : status'[p] = "Absent" <=> status[p] = "Absent"
  BY <1>3
<1>6. IdsInOrder'
  BY <1>5 DEF QueueInv, IdsInOrder
<1>7. Cardinality(In(status', "Running")) <= Slots
  BY <1>4 DEF QueueInv
<1>8. Step
  <2>1. \A t \in Tasks : status'[t] \in Moves[status[t]]
    BY <1>2, <1>3, MovesAre
  <2>2. \A t \in Tasks : ~Started(t) /\ ~Ended(t)
    BY <1>3 DEF Started, Waiting, Ended, Terminal
  <2> QED BY <1>1, <1>7, <2>1, <2>2 DEF Step, In
<1> QED BY <1>2, <1>3, <1>6, <1>7, <1>8 DEF QueueInv

LEMMA ReturnStep ==
  ASSUME QueueInv, NEW q \in Tasks, Return(q)
  PROVE  /\ QueueInv' /\ Step
         /\ status[q] = "Running" /\ status'[q] \in Terminal
         /\ \A p \in Tasks \ {q} : status'[p] = status[p] \/ Dispatch(p)
<1> DEFINE end == IF q \in asked THEN "Canceled" ELSE IF exec[q] = "ok" THEN "Done" ELSE "Error"
           st  == [status EXCEPT ![q] = end]
<1>1. status' = Dispatched(st) /\ asked' = asked /\ status[q] = "Running"
  BY DEF Return
<1>2. /\ status \in [Tasks -> DOMAIN Moves] /\ st \in [Tasks -> DOMAIN Moves]
      /\ st[q] = end /\ \A p \in Tasks \ {q} : st[p] = status[p]
      /\ end \in Terminal /\ (end = "Canceled" <=> q \in asked)
  BY MovesAre DEF QueueInv, Terminal
<1> HIDE DEF end, st
<1>3. Tasks \subseteq Nat
  BY ModelAssumption
<1>4. \A p \in Tasks : st[p] = "Absent" <=> status[p] = "Absent"
  BY <1>1, <1>2 DEF Terminal
<1>5. PICK n \in Nat : \A p \in Tasks : st[p] # "Absent" => p <= n
  BY <1>4, Bounded
<1>6. Cardinality(In(st, "Running")) <= Slots
  <2>1. In(st, "Running") \in SUBSET In(status, "Running")
    BY <1>2 DEF In, Terminal
  <2>2. IsFiniteSet(In(status, "Running"))
    <3>1. PICK m \in Nat : \A p \in Tasks : status[p] # "Absent" => p <= m
      BY Bounded
    <3>2. IsFiniteSet(0..m)
      BY FS_Interval
    <3>3. \A p \in Tasks : status[p] # "Absent" => p \in 0..m
      BY <1>3, <3>1
    <3>4. In(status, "Running") \in SUBSET (0..m)
      BY <3>3 DEF In
    <3> QED BY <3>2, <3>4, FS_Subset
  <2>3. Cardinality(In(st, "Running")) <= Cardinality(In(status, "Running"))
    BY <2>1, <2>2, FS_Subset
  <2>4. IsFiniteSet(In(st, "Running"))
    BY <2>1, <2>2, FS_Subset
  <2>5. /\ Cardinality(In(st, "Running")) \in Nat
        /\ Cardinality(In(status, "Running")) \in Nat /\ Slots \in Nat
    BY <2>2, <2>4, FS_CardinalityType, ModelAssumption
  <2>6. Cardinality(In(status, "Running")) <= Slots
    BY DEF QueueInv
  <2> QED BY <2>3, <2>5, <2>6
<1>7. /\ status' \in [Tasks -> DOMAIN Moves]
      /\ \A t \in Tasks : \/ status'[t] = st[t]
                          \/ st[t] = "Pending" /\ status'[t] = "Running"
  BY <1>1, <1>2, DispatchedIs
<1>8. /\ Cardinality(In(status', "Running")) <= Slots
      /\ \A s, t \in Tasks : s < t /\ st[t] = "Pending" /\ status'[t] = "Running" =>
           status'[s] # "Pending"
  BY <1>1, <1>2, <1>5, <1>6, DispatchedKeeps
<1>9. /\ status'[q] = end
      /\ \A p \in Tasks \ {q} : status'[p] = status[p] \/ Dispatch(p)
  BY <1>2, <1>7 DEF Dispatch, Terminal
<1>10. IdsInOrder'
  <2>1. \A p \in Tasks : status'[p] = "Absent" <=> status[p] = "Absent"
    BY <1>4, <1>7
  <2> QED BY <2>1 DEF QueueInv, IdsInOrder
<1>11. Step
  <2>1. \A t \in Tasks : status'[t] \in Moves[status[t]]
    BY <1>1, <1>2, <1>9, MovesAre DEF Dispatch, Terminal
  <2>2. ASSUME NEW t \in Tasks, Started(t), NEW s \in Tasks, s < t
        PROVE  status'[s] \notin {"Absent", "Pending"}
    <3>1. st[t] = "Pending" /\ status'[t] = "Running"
      BY <1>1, <1>2, <1>7, <2>2 DEF Started, Waiting
    <3>2. status'[s] # "Pending"
      BY <1>8, <2>2, <3>1
    <3>3. status'[s] # "Absent"
      BY <1>10, <2>2, <3>1 DEF IdsInOrder
    <3> QED BY <3>2, <3>3
  <2>3. \A t \in Tasks : Ended(t) => (status'[t] = "Canceled") <=> (t \in asked)
    BY <1>2, <1>9 DEF Ended, Terminal, Dispatch
  <2> QED BY <1>1, <1>8, <2>1, <2>2, <2>3 DEF Step, In
<1> QED BY <1>1, <1>2, <1>7, <1>8, <1>9, <1>10, <1>11 DEF QueueInv
-----------------------------------------------------------------------------
(* A row is used when it has a queue task; one has each active task.       *)
LEMMA UsedRows ==
  ASSUME ModelTypeOK
  PROVE  \A m \in Rows :
    /\ m \in Used <=> task[m].dwQueueTaskId \in Tasks
    /\ m \in Used => task[m] \in
         [dwQueueTaskId : Tasks, path : Paths, bPendingRemove : BOOLEAN]
    /\ m \notin Used => task[m] = NoTask
<1>1. NoTask.dwQueueTaskId \notin Tasks
  BY ModelAssumption DEF NoTask
<1> QED BY <1>1 DEF ModelTypeOK, Used

LEMMA Holder ==
  ASSUME ModelIInv, NEW q \in Tasks, status[q] = "Running"
  PROVE  /\ Object(q) \in Used /\ task[Object(q)].dwQueueTaskId = q
         /\ \A m \in Rows : task[m].dwQueueTaskId = q => m = Object(q)
<1>1. PICK m \in Rows : task[m].dwQueueTaskId = q
  BY DEF ModelIInv, ActiveTaskHasRow, Active
<1>2. Object(q) \in Rows /\ task[Object(q)].dwQueueTaskId = q
  BY <1>1 DEF Object
<1>3. \A r \in Rows : task[r].dwQueueTaskId = q => r \in Used
  BY UsedRows DEF ModelIInv
<1> QED BY <1>2, <1>3 DEF ModelIInv, RowsKnown

LEMMA KeepsShowRows == ModelIInv /\ ShowRows => ModelTypeOK'
<1> SUFFICES ASSUME ModelIInv, ShowRows PROVE ModelTypeOK'
  OBVIOUS
<1>1. \A m \in mapTasks : task[m].dwQueueTaskId \in Tasks
  BY DEF ModelIInv, RowsKnown
<1>2. \A m \in mapTasks : status[task[m].dwQueueTaskId] \in DOMAIN Moves
  BY <1>1 DEF ModelIInv, ModelTypeOK
<1>3. shown' \in [Rows -> DOMAIN Moves \cup {"none"}]
  <2> HIDE DEF Moves
  <2> QED BY <1>2 DEF ShowRows
<1> QED BY <1>3 DEF ModelIInv, ModelTypeOK, ShowRows, queue, model

LEMMA KeepsRemoveTask == ASSUME ModelIInv, NEW m \in Rows,
    RemoveTask(m) PROVE ActiveTaskHasRow'
<1>1. m \in Used /\ status[task[m].dwQueueTaskId] \in Terminal
  BY DEF ModelIInv, ShownTrue, RemoveTask, Click, Terminal
<1>2. /\ mapTasks' = mapTasks \ {m} /\ UNCHANGED <<status, task, deleted>>
      /\ queueToModel' = [queueToModel EXCEPT ![task[m].dwQueueTaskId] = 0]
  BY DEF RemoveTask, queue
<1> SUFFICES ASSUME NEW q \in Active
             PROVE  \E r \in Rows : /\ task[r].dwQueueTaskId = q
                                    /\ r \in deleted
                                        \/ (r \in mapTasks' /\ queueToModel'[q] = r)
  BY <1>2 DEF ActiveTaskHasRow, Active
<1>3. PICK r \in Rows : /\ task[r].dwQueueTaskId = q
                        /\ r \in deleted \/ (r \in mapTasks /\ queueToModel[q] = r)
  BY DEF ModelIInv, ActiveTaskHasRow
<1>4. q # task[m].dwQueueTaskId /\ q \in Tasks
  BY <1>1 DEF Active, Terminal
<1> QED BY <1>2, <1>3, <1>4 DEF ModelIInv, ModelTypeOK

LEMMA KeepsClear == ModelIInv /\ ClearFinished => ActiveTaskHasRow'
<1> DEFINE done == {m \in mapTasks : status[task[m].dwQueueTaskId] \in Terminal}
<1> SUFFICES ASSUME ModelIInv, ClearFinished, NEW q \in Active
             PROVE  \E r \in Rows : /\ task[r].dwQueueTaskId = q
                                    /\ r \in deleted
                                        \/ (r \in mapTasks' /\ queueToModel'[q] = r)
  BY DEF ActiveTaskHasRow, Active, ClearFinished, queue
<1>1. /\ mapTasks' = mapTasks \ done
      /\ queueToModel' = [p \in Tasks |->
           IF \E m \in done : task[m].dwQueueTaskId = p THEN 0 ELSE queueToModel[p]]
  BY DEF ClearFinished
<1>2. q \in Tasks /\ status[q] \notin Terminal
  BY DEF Active, Terminal
<1>3. PICK r \in Rows : /\ task[r].dwQueueTaskId = q
                        /\ r \in deleted \/ (r \in mapTasks /\ queueToModel[q] = r)
  BY DEF ModelIInv, ActiveTaskHasRow
<1>4. r \notin done /\ ~\E m \in done : task[m].dwQueueTaskId = q
  BY <1>2, <1>3
<1> HIDE DEF done
<1> QED BY <1>1, <1>2, <1>3, <1>4

LEMMA KeepsDeleteMarks ==
  ModelIInv /\ DeleteMarks =>
    ModelTypeOK' /\ RowsKnown' /\ ShownTrue' /\ Deleting' /\ ResetIdle'
<1> SUFFICES ASSUME ModelIInv, DeleteMarks
             PROVE  ModelTypeOK' /\ RowsKnown' /\ ShownTrue' /\ Deleting' /\ ResetIdle'
  OBVIOUS
<1>1. /\ task' = [task EXCEPT ![target].bPendingRemove = TRUE] /\ ui' = "stop" /\ ui = "mark"
      /\ UNCHANGED <<status, asked, mapTasks, queueToModel, engine,
          shown, target,
                     exec, uses, file, deleted>>
  BY DEF DeleteMarks, queue
<1>2. target \in Used /\ target \in deleted /\ target \in Rows
  BY <1>1 DEF ModelIInv, Deleting, Used
<1>3. /\ task' \in [Rows -> {NoTask} \cup
           [dwQueueTaskId : Tasks, path : Paths, bPendingRemove : BOOLEAN]]
      /\ \A m \in Rows : /\ task'[m].dwQueueTaskId = task[m].dwQueueTaskId
                         /\ m # target => task'[m] = task[m]
  <2>1. task[target] \in [dwQueueTaskId : Tasks, path : Paths, bPendingRemove : BOOLEAN]
    BY <1>2, UsedRows DEF ModelIInv
  <2> QED BY <1>1, <1>2, <2>1 DEF ModelIInv, ModelTypeOK
<1>4. ModelTypeOK'
  BY <1>1, <1>3 DEF ModelIInv, ModelTypeOK
<1>5. Used' = Used
  <2>1. \A m \in Rows : m \in Used <=> task[m].dwQueueTaskId \in Tasks
    BY UsedRows DEF ModelIInv
  <2>2. NoTask.dwQueueTaskId \notin Tasks
    BY ModelAssumption DEF NoTask
  <2>3. \A m \in Rows : task'[m] # NoTask <=> task'[m].dwQueueTaskId \in Tasks
    BY <1>3, <2>2
  <2> QED BY <1>3, <2>1, <2>3 DEF Used
<1>6. RowsKnown'
  BY <1>1, <1>2, <1>3, <1>5 DEF ModelIInv, RowsKnown, Used
<1>7. ShownTrue' /\ Deleting' /\ ResetIdle'
  BY <1>1, <1>2, <1>3, <1>5 DEF ModelIInv, ShownTrue, Deleting, ResetIdle
<1> QED BY <1>4, <1>6, <1>7

LEMMA KeepsTakeEngine ==
  ASSUME ModelIInv, NEW q \in Tasks, TakeEngine(q) PROVE EngineInUse'
BY DEF ModelIInv, ModelTypeOK, TakeEngine, EngineInUse, model

LEMMA KeepsCheckRemove ==
  ASSUME ModelIInv, NEW q \in Tasks, CheckRemove(q)
  PROVE  ExecRuns' /\ Dropping' /\ EngineInUse'
<1>1. status[q] = "Running"
  BY DEF ModelIInv, ExecRuns, Live, CheckRemove
<1>2. /\ exec' = [exec EXCEPT ![q] = exec'[q]]
      /\ exec'[q] \in {"dropOk", "dropFailed", "ok", "failed"}
      /\ exec'[q] \in {"dropOk", "dropFailed"} => task[Object(q)].bPendingRemove
      /\ UNCHANGED <<status, task, deleted, uses, engine>>
  BY DEF ModelIInv, ModelTypeOK, CheckRemove, queue, model
<1>3. ExecRuns' /\ EngineInUse'
  BY <1>1, <1>2 DEF ModelIInv, ModelTypeOK, ExecRuns, EngineInUse
<1>4. task[Object(q)].bPendingRemove =>
        \A m \in Rows : task[m].dwQueueTaskId = q => m \in deleted
  BY <1>1, Holder DEF ModelIInv, RowsKnown
<1>5. Dropping'
  BY <1>2, <1>4 DEF ModelIInv, ModelTypeOK, Dropping
<1> QED BY <1>3, <1>5

LEMMA KeepsDropRow ==
  ASSUME ModelIInv, NEW q \in Tasks, DropRow(q) PROVE ActiveTaskHasRow'
<1>1. status[q] = "Running" /\ Object(q) \in deleted /\ task[Object(q)].dwQueueTaskId = q
  <2>1. status[q] = "Running"
    BY DEF ModelIInv, ExecRuns, Live, DropRow
  <2> QED BY <2>1, Holder DEF ModelIInv, Dropping, DropRow, Used
<1>2. /\ mapTasks' = mapTasks \ {Object(q)} /\ UNCHANGED <<status, task, deleted>>
      /\ queueToModel' = [queueToModel EXCEPT ![q] = 0]
  BY DEF DropRow, queue
<1> SUFFICES ASSUME NEW p \in Active
             PROVE  \E r \in Rows : /\ task[r].dwQueueTaskId = p
                                    /\ r \in deleted
                                        \/ (r \in mapTasks' /\ queueToModel'[p] = r)
  BY <1>2 DEF ActiveTaskHasRow, Active
<1>3. PICK r \in Rows : /\ task[r].dwQueueTaskId = p
                        /\ r \in deleted \/ (r \in mapTasks /\ queueToModel[p] = r)
  BY DEF ModelIInv, ActiveTaskHasRow
<1> QED BY <1>1, <1>2, <1>3, Holder DEF ModelIInv, ModelTypeOK, Active

(* A cancel, whichever button or exit asked for it.                        *)
LEMMA CancelKeeps ==
  ASSUME ModelIInv, NEW ids \in SUBSET Tasks, QueueCancel(ids),
         UNCHANGED <<model, exec, uses, file, deleted>>,
         ui' \in {"tick", "erase", "waiting"}, shown' \in {shown, Nothing},
         ui' = "erase" => target \in deleted \cap Used, target' \in {target, 0}, 
         ui' = "erase" => target' = target
  PROVE  ModelIInv'
<1>1. /\ QueueInv'
      /\ \A p \in Tasks : \/ status'[p] = status[p]
                          \/ status[p] = "Pending" /\ status'[p] = "Canceled"
  BY CancelStep DEF ModelIInv
<1>2. Active' \subseteq Active /\ Used' = Used
  BY <1>1 DEF Active, Used, model
<1>3. \A m \in Used : task[m].dwQueueTaskId \in Tasks
  BY DEF ModelIInv, RowsKnown
<1>4. ModelTypeOK'
  BY <1>1 DEF ModelIInv, ModelTypeOK, QueueInv, model, Nothing
<1>5. RowsKnown'
  BY <1>1, <1>2, <1>3 DEF ModelIInv, RowsKnown, model, Used
<1>6. ShownTrue' /\ Deleting' /\ ResetIdle'
  BY <1>1, <1>2, <1>3
     DEF ModelIInv, ModelTypeOK, ShownTrue, Deleting, ResetIdle, Nothing, model,
         Terminal
<1>7. ExecRuns' /\ Dropping' /\ EngineInUse'
  BY <1>1 DEF ModelIInv, ExecRuns, Dropping, EngineInUse, model
<1>8. ActiveTaskHasRow'
  BY <1>2 DEF ModelIInv, ActiveTaskHasRow, model
<1> QED BY <1>1, <1>4, <1>5, <1>6, <1>7, <1>8 DEF ModelIInv

LEMMA RowIds == ASSUME ModelIInv PROVE \A m \in Used : {task[m].dwQueueTaskId} \in SUBSET Tasks
BY DEF ModelIInv, RowsKnown

LEMMA KeepsCancels ==
  ASSUME ModelIInv,
         (\E m \in Rows : RowStop(m)) \/ DeleteCancels \/ DeleteStops \/ CloseWindow
  PROVE  ModelIInv'
<1>1. ASSUME NEW m \in Rows, RowStop(m) PROVE ModelIInv'
  <2>1. \E ids \in SUBSET Tasks : QueueCancel(ids)
    <3>1. CASE m \in mapTasks
      <4>1. m \in Used
        BY <3>1 DEF ModelIInv, RowsKnown
      <4> QED BY <1>1, <3>1, <4>1, RowIds DEF RowStop
    <3>2. CASE m \notin mapTasks
      <4>1. status' = [p \in Tasks |-> status[p]] /\ asked' = asked
        BY <1>1, <3>2 DEF RowStop, queue, ModelIInv, ModelTypeOK
      <4>2. QueueCancel({})
        BY <4>1 DEF QueueCancel
      <4> QED BY <4>2
    <3> QED BY <3>1, <3>2
  <2> QED BY <1>1, <2>1, CancelKeeps DEF RowStop, EndFrame
<1>2. CASE DeleteCancels
  <2>1. target \in deleted \cap Used
    BY <1>2 DEF ModelIInv, Deleting, DeleteCancels
  <2>2. {task[target].dwQueueTaskId} \in SUBSET Tasks
    BY <2>1, RowIds
  <2> QED BY <1>2, <2>1, <2>2, CancelKeeps DEF DeleteCancels
<1>3. CASE DeleteStops
  <2>1. target \in Used
    BY <1>3 DEF ModelIInv, Deleting, DeleteStops
  <2>2. {task[target].dwQueueTaskId} \in SUBSET Tasks
    BY <2>1, RowIds
  <2> QED BY <1>3, <2>2, CancelKeeps DEF DeleteStops, EndFrame
<1>4. CASE CloseWindow
  BY <1>4, CancelKeeps DEF CloseWindow
<1> QED BY <1>1, <1>2, <1>3, <1>4

LEMMA KeepsReturn == ASSUME ModelIInv, NEW q \in Tasks, Return(q) PROVE ModelIInv'
<1>1. /\ QueueInv' /\ status[q] = "Running" /\ status'[q] \in Terminal
      /\ \A p \in Tasks \ {q} : status'[p] = status[p] \/ Dispatch(p)
  BY ReturnStep DEF ModelIInv
<1>2. /\ exec' = [exec EXCEPT ![q] = "over"]
      /\ UNCHANGED <<model, ui, shown, target, uses, file, deleted>>
  BY DEF Return
<1>3. Active' \subseteq Active /\ Used' = Used
  BY <1>1, <1>2 DEF Active, Used, model, Terminal, Dispatch
<1>4. \A m \in Used : task[m].dwQueueTaskId \in Tasks
  BY DEF ModelIInv, RowsKnown
<1>5. ModelTypeOK'
  BY <1>1, <1>2 DEF ModelIInv, ModelTypeOK, QueueInv, model
<1>6. RowsKnown'
  BY <1>1, <1>2, <1>3, <1>4 DEF ModelIInv, RowsKnown, model, Used, Dispatch,
     Terminal
<1>7. ShownTrue' /\ Deleting' /\ ResetIdle'
  BY <1>1, <1>2, <1>3, <1>4
     DEF ModelIInv, ShownTrue, Deleting, ResetIdle, model, Terminal, Dispatch
<1>8. ExecRuns' /\ Dropping' /\ EngineInUse'
  BY <1>1, <1>2
     DEF ModelIInv, ModelTypeOK, ExecRuns, Live, Dropping, EngineInUse,
         model, Dispatch
<1>9. ActiveTaskHasRow'
  BY <1>2, <1>3 DEF ModelIInv, ActiveTaskHasRow, model
<1> QED BY <1>1, <1>5, <1>6, <1>7, <1>8, <1>9 DEF ModelIInv

LEMMA KeepsAddTask ==
  ASSUME ModelIInv, NEW url \in Urls, NEW q \in Tasks, NEW m \in Rows,
      AddTask(url, q, m)
  PROVE  ModelIInv'
<1> DEFINE new == [dwQueueTaskId |-> q, path |-> TargetOf(url),
    bPendingRemove |-> FALSE]
<1>1. /\ QueueInv' /\ status[q] = "Absent" /\ status'[q] \in {"Pending", "Running"}
      /\ \A p \in Tasks \ {q} : status'[p] = status[p] \/ Dispatch(p)
  BY AddStep DEF ModelIInv, AddTask
<1>2. /\ ui = "form" /\ ui' = "list" /\ m = 1 + Cardinality(Used) /\ EnsureChunkEngine
      /\ task' = [task EXCEPT ![m] = new] /\ mapTasks' = mapTasks \cup {m}
      /\ queueToModel' = [queueToModel EXCEPT ![q] = m]
      /\ UNCHANGED <<shown, target, exec, uses, file, deleted>>
  BY DEF AddTask, Used
<1>3. new \in [dwQueueTaskId : Tasks, path : Paths, bPendingRemove : BOOLEAN]
  BY ModelAssumption DEF TargetOf, Paths
<1>4. new.dwQueueTaskId = q /\ new.bPendingRemove = FALSE /\ new # NoTask
  BY ModelAssumption DEF NoTask
<1> HIDE DEF new
<1>5. /\ Cardinality(Used) \in Nat /\ Used = 1..Cardinality(Used) /\ m \notin Used
      /\ Used \subseteq Rows
  <2>1. Used \subseteq Rows /\ IsFiniteSet(Used)
    BY ModelAssumption, FS_Subset DEF Used
  <2>2. Cardinality(Used) \in Nat
    BY <2>1, FS_CardinalityType
  <2> QED BY <1>2, <2>1, <2>2 DEF ModelIInv, RowsKnown
<1>6. \A r \in Rows : task'[r] = IF r = m THEN new ELSE task[r]
  BY <1>2 DEF ModelIInv, ModelTypeOK
<1>7. Used' = Used \cup {m} /\ Used' = 1..Cardinality(Used')
  <2>1. Used' = Used \cup {m}
    BY <1>4, <1>5, <1>6 DEF Used
  <2>2. Used' = 1..m /\ m \in Nat
    BY <1>2, <1>5, <2>1
  <2>3. Cardinality(1..m) = m
    BY <2>2, FS_Interval
  <2> QED BY <2>1, <2>2, <2>3
<1>8. \A r \in Used : /\ task[r].dwQueueTaskId \in Tasks \ {q}
                      /\ status[task[r].dwQueueTaskId] # "Absent"
  BY <1>1 DEF ModelIInv, RowsKnown
<1>9. ModelTypeOK'
  <2>1. engine' = 1
    BY <1>2 DEF EnsureChunkEngine
  <2> QED BY <1>1, <1>2, <1>3, <2>1 DEF ModelIInv, ModelTypeOK, QueueInv
<1>10. RowsKnown'
  <2>1. mapTasks' \subseteq Used'
    BY <1>2, <1>7 DEF ModelIInv, RowsKnown
  <2>2. ASSUME NEW r \in Used'
        PROVE  /\ task'[r].dwQueueTaskId \in Tasks
               /\ status'[task'[r].dwQueueTaskId] # "Absent"
               /\ task'[r].bPendingRemove => r \in deleted'
    <3>1. CASE r = m
      BY <1>1, <1>4, <1>6, <3>1
    <3>2. CASE r \in Used
      <4>1. task'[r] = task[r] /\ task[r].dwQueueTaskId \in Tasks \ {q}
        BY <1>5, <1>6, <1>8, <3>2
      <4> QED BY <1>1, <1>2, <1>8, <3>2, <4>1 DEF Dispatch, ModelIInv, RowsKnown
    <3> QED BY <1>7, <3>1, <3>2
  <2>3. ASSUME NEW r \in Used', NEW s \in Used',
               task'[r].dwQueueTaskId = task'[s].dwQueueTaskId
        PROVE  r = s
    BY <1>4, <1>5, <1>6, <1>7, <1>8, <2>3 DEF ModelIInv, RowsKnown
  <2> QED BY <1>7, <2>1, <2>2, <2>3 DEF RowsKnown
<1>11. ShownTrue' /\ Deleting' /\ ResetIdle'
  <2>1. ASSUME NEW r \in Rows, shown[r] # "none"
        PROVE  /\ r \in Used'
               /\ shown[r] \in Terminal => status'[task'[r].dwQueueTaskId] = shown[r]
    <3>1. r \in Used /\ task'[r] = task[r]
      BY <1>5, <1>6, <2>1 DEF ModelIInv, ShownTrue
    <3> QED BY <1>1, <1>7, <1>8, <2>1, <3>1
            DEF ModelIInv, ShownTrue, Terminal, Dispatch
  <2> QED BY <1>2, <2>1 DEF ShownTrue, Deleting, ResetIdle
<1>12. ExecRuns' /\ Dropping'
  <2>1. \A p \in Tasks : exec[p] \in Live => p # q /\ status'[p] = "Running"
    BY <1>1 DEF ModelIInv, ExecRuns, Dispatch
  <2>2. \A p \in Tasks \ {q} : \A r \in Rows :
          task'[r].dwQueueTaskId = p => task[r].dwQueueTaskId = p
    BY <1>4, <1>6
  <2> QED BY <1>2, <2>1, <2>2 DEF ModelIInv, ExecRuns, Dropping, Live
<1>13. EngineInUse'
  BY <1>2 DEF ModelIInv, ModelTypeOK, EngineInUse, EnsureChunkEngine
<1>14. ActiveTaskHasRow'
  <2> SUFFICES ASSUME NEW p \in Active'
               PROVE  \E r \in Rows :
                        /\ task'[r].dwQueueTaskId = p
                        /\ r \in deleted'
                            \/ (r \in mapTasks' /\ queueToModel'[p] = r)
    BY DEF ActiveTaskHasRow
  <2>1. CASE p = q
    BY <1>2, <1>4, <1>6, <2>1 DEF ModelIInv, ModelTypeOK
  <2>2. CASE p # q
    <3>1. p \in Active
      BY <1>1, <2>2 DEF Active, Dispatch
    <3>2. PICK r \in Rows : /\ task[r].dwQueueTaskId = p
                            /\ r \in deleted
                                \/ (r \in mapTasks /\ queueToModel[p] = r)
      BY <3>1 DEF ModelIInv, ActiveTaskHasRow
    <3>3. r \in Used
      BY <3>1, <3>2, UsedRows DEF ModelIInv, Active
    <3>4. task'[r] = task[r] /\ queueToModel'[p] = queueToModel[p]
      BY <1>2, <1>5, <1>6, <2>2, <3>1, <3>3 DEF ModelIInv, ModelTypeOK, Active
    <3> QED BY <1>2, <3>2, <3>4
  <2> QED BY <2>1, <2>2
<1> QED BY <1>1, <1>9, <1>10, <1>11, <1>12, <1>13, <1>14 DEF ModelIInv

LEMMA KeepsResumeTask ==
  ASSUME ModelIInv, NEW m \in Rows, NEW q \in Tasks, ResumeTask(m, q)
  PROVE  ModelIInv'
<1>1. /\ QueueInv' /\ status[q] = "Absent" /\ status'[q] \in {"Pending", "Running"}
      /\ \A p \in Tasks \ {q} : status'[p] = status[p] \/ Dispatch(p)
  BY AddStep DEF ModelIInv, ResumeTask
<1>2. /\ shown[m] = "Canceled" /\ m \in mapTasks /\ ui' = "tick" /\ shown' = Nothing
      /\ task' = [task EXCEPT ![m].dwQueueTaskId = q]
      /\ queueToModel' = [queueToModel EXCEPT ![q] = m]
      /\ UNCHANGED <<mapTasks, engine, target, exec, uses, file, deleted>>
  BY DEF ResumeTask, Click, EndFrame
<1>3. m \in Used /\ status[task[m].dwQueueTaskId] = "Canceled"
  BY <1>2 DEF ModelIInv, ShownTrue, Terminal
<1>4. task[m] \in [dwQueueTaskId : Tasks, path : Paths, bPendingRemove : BOOLEAN]
  BY <1>3, UsedRows DEF ModelIInv
<1>5. /\ task'[m] \in [dwQueueTaskId : Tasks, path : Paths, bPendingRemove : BOOLEAN]
      /\ task'[m].dwQueueTaskId = q
      /\ task'[m].bPendingRemove = task[m].bPendingRemove
      /\ \A r \in Rows \ {m} : task'[r] = task[r]
  BY <1>2, <1>4 DEF ModelIInv, ModelTypeOK
<1>6. Used' = Used
  <2>1. NoTask.dwQueueTaskId \notin Tasks
    BY ModelAssumption DEF NoTask
  <2>2. task'[m] # NoTask
    BY <1>5, <2>1
  <2> QED BY <1>3, <1>5, <2>2 DEF Used
<1>7. \A r \in Used : /\ r \in Rows /\ task[r].dwQueueTaskId \in Tasks \ {q}
                      /\ status[task[r].dwQueueTaskId] # "Absent"
  BY <1>1 DEF ModelIInv, RowsKnown, Used
<1>8. ModelTypeOK'
  <2>1. task' \in [Rows -> {NoTask} \cup
          [dwQueueTaskId : Tasks, path : Paths, bPendingRemove : BOOLEAN]]
    BY <1>2, <1>5 DEF ModelIInv, ModelTypeOK
  <2> QED BY <1>1, <1>2, <2>1 DEF ModelIInv, ModelTypeOK, QueueInv, Nothing
<1>9. RowsKnown'
  <2>1. ASSUME NEW r \in Used
        PROVE  /\ task'[r].dwQueueTaskId \in Tasks
               /\ status'[task'[r].dwQueueTaskId] # "Absent"
               /\ task'[r].bPendingRemove => r \in deleted
    BY <1>1, <1>3, <1>5, <1>7 DEF ModelIInv, RowsKnown, Dispatch
  <2>2. \A r, s \in Used : task'[r].dwQueueTaskId = task'[s].dwQueueTaskId => r = s
    BY <1>5, <1>7 DEF ModelIInv, RowsKnown
  <2> QED BY <1>2, <1>6, <2>1, <2>2 DEF ModelIInv, RowsKnown
<1>10. ShownTrue' /\ Deleting' /\ ResetIdle'
  BY <1>2 DEF ShownTrue, Deleting, ResetIdle, Nothing
<1>11. ExecRuns' /\ Dropping' /\ EngineInUse'
  <2>1. \A p \in Tasks : exec[p] \in Live => p # q /\ status'[p] = "Running"
    BY <1>1 DEF ModelIInv, ExecRuns, Dispatch
  <2>2. \A p \in Tasks \ {q} : \A r \in Rows :
          task'[r].dwQueueTaskId = p => task[r].dwQueueTaskId = p
    BY <1>5
  <2> QED BY <1>2, <2>1, <2>2
          DEF ModelIInv, ExecRuns, Dropping, Live, EngineInUse
<1>12. ActiveTaskHasRow'
  <2> SUFFICES ASSUME NEW p \in Active'
               PROVE  \E r \in Rows :
                        /\ task'[r].dwQueueTaskId = p
                        /\ r \in deleted'
                            \/ (r \in mapTasks' /\ queueToModel'[p] = r)
    BY DEF ActiveTaskHasRow
  <2>1. CASE p = q
    BY <1>2, <1>5, <2>1 DEF ModelIInv, ModelTypeOK
  <2>2. CASE p # q
    <3>1. p \in Active
      BY <1>1, <2>2 DEF Active, Dispatch
    <3>2. PICK r \in Rows : /\ task[r].dwQueueTaskId = p
                            /\ r \in deleted
                                \/ (r \in mapTasks /\ queueToModel[p] = r)
      BY <3>1 DEF ModelIInv, ActiveTaskHasRow
    <3>3. r # m
      BY <1>3, <3>1, <3>2 DEF Active
    <3>4. task'[r] = task[r] /\ queueToModel'[p] = queueToModel[p]
      BY <1>2, <1>5, <2>2, <3>1, <3>3 DEF ModelIInv, ModelTypeOK, Active
    <3> QED BY <1>2, <3>2, <3>4
  <2> QED BY <2>1, <2>2
<1> QED BY <1>1, <1>8, <1>9, <1>10, <1>11, <1>12 DEF ModelIInv

(* A frame, and the end of the window.                                     *)
LEMMA KeepsFrame ==
  ASSUME ModelIInv,
         OnUiTick \/ ResetEngine \/ NoAdd \/ ShowRows \/ NoClick \/ Destroy
  PROVE  ModelIInv'
<1> USE DEF ModelIInv, OnUiTick, ResetEngine, NoAdd, ShowRows, NoClick, Destroy,
        queue, model, EndFrame, DeleteArtifacts
<1>1. ModelTypeOK'
  BY KeepsShowRows DEF ModelTypeOK, Nothing
<1>2. QueueInv'
  BY DEF QueueInv, IdsInOrder
<1>3. RowsKnown'
  BY DEF RowsKnown, Used
<1>4. ShownTrue' /\ Deleting' /\ ResetIdle'
  BY DEF ModelTypeOK, ShownTrue, Deleting, ResetIdle, Used, Active, Nothing,
     RowsKnown, Terminal
<1>5. ExecRuns' /\ Dropping'
  BY DEF ModelTypeOK, ExecRuns, Dropping, Live
<1>6. EngineInUse'
  BY DEF ModelTypeOK, EngineInUse, ExecRuns, Live, Active, ResetIdle
<1>7. ActiveTaskHasRow'
  BY DEF ActiveTaskHasRow, Active, ModelTypeOK, RowsKnown, Terminal, Deleting
<1> QED BY <1>1, <1>2, <1>3, <1>4, <1>5, <1>6, <1>7

(* The buttons that leave the queue alone.                                 *)
LEMMA KeepsRows ==
  ASSUME ModelIInv,
         (\E m \in Rows : RemoveTask(m) \/ DeleteTask(m)) \/ ClearFinished
         \/ DeleteErases \/ DeleteRemoves \/ DeleteMarks
  PROVE  ModelIInv'
<1> USE DEF ModelIInv, RemoveTask, ClearFinished, DeleteTask, DeleteErases,
        DeleteRemoves, DeleteMarks, queue, model, EndFrame, DeleteArtifacts
<1>1. ModelTypeOK'
  BY KeepsDeleteMarks DEF ModelTypeOK, Nothing
<1>2. QueueInv'
  BY DEF QueueInv, IdsInOrder
<1>3. RowsKnown'
  BY KeepsDeleteMarks DEF RowsKnown, Used
<1>4. ShownTrue' /\ Deleting' /\ ResetIdle'
  BY KeepsDeleteMarks DEF ModelTypeOK, ShownTrue, Deleting, ResetIdle, Used,
     Active, Nothing, RowsKnown, Terminal
<1>5. ExecRuns' /\ Dropping'
  <2>1. ASSUME NEW m \in Rows, RemoveTask(m) PROVE ExecRuns' /\ Dropping'
    BY <2>1 DEF ExecRuns, Dropping, Live, ModelTypeOK
  <2>2. ASSUME NEW m \in Rows, DeleteTask(m) PROVE ExecRuns' /\ Dropping'
    BY <2>2 DEF ExecRuns, Dropping, Live, ModelTypeOK
  <2>3. CASE ClearFinished \/ DeleteErases \/ DeleteRemoves
    BY <2>3 DEF ExecRuns, Dropping, Live, ModelTypeOK
  <2>4. CASE DeleteMarks
    BY <2>4 DEF ExecRuns, Dropping, Live, ModelTypeOK
  <2> QED BY <2>1, <2>2, <2>3, <2>4
<1>6. EngineInUse'
  BY DEF ModelTypeOK, EngineInUse, ExecRuns, Live, Active, ResetIdle
<1>7. ActiveTaskHasRow'
  <2>1. ASSUME NEW m \in Rows, RemoveTask(m) PROVE ActiveTaskHasRow'
    BY <2>1, KeepsRemoveTask
  <2>2. CASE ClearFinished
    BY <2>2, KeepsClear
  <2>3. ASSUME NEW m \in Rows, DeleteTask(m) PROVE ActiveTaskHasRow'
    BY <2>3 DEF ActiveTaskHasRow, Active
  <2>4. CASE DeleteErases \/ DeleteRemoves
    BY <2>4 DEF ActiveTaskHasRow, Active, ModelTypeOK, RowsKnown, Terminal, Deleting
  <2>5. CASE DeleteMarks
    BY <2>5 DEF ActiveTaskHasRow, Active, ModelTypeOK
  <2> QED BY <2>1, <2>2, <2>3, <2>4, <2>5
<1> QED BY <1>1, <1>2, <1>3, <1>4, <1>5, <1>6, <1>7

(* A success renames the output of its own row, and nothing else of it.    *)
LEMMA KeepsSuccess ==
  ASSUME ModelIInv, NEW q \in Tasks, ExecSucceeds(q) PROVE ModelIInv'
<1> DEFINE m == Object(q)
<1>1. /\ exec[q] = "run" /\ status[q] = "Running" /\ exec' = [exec EXCEPT ![q] = "succeeded"]
      /\ uses' = [uses EXCEPT ![q] = 0]
      /\ FinalPath(task[m].path) \in Paths
      /\ task' = [task EXCEPT ![m].path = FinalPath(@)]
      /\ file' = [file EXCEPT ![task[m].path] = "full"]
      /\ UNCHANGED <<status, asked, mapTasks, queueToModel, engine, ui, shown,
                     target, deleted>>
  BY DEF ModelIInv, ExecRuns, Live, ExecSucceeds, queue
<1>2. m \in Used /\ m \in Rows /\ task[m].dwQueueTaskId = q
  BY <1>1, Holder DEF Used
<1>3. task[m] \in [dwQueueTaskId : Tasks, path : Paths, bPendingRemove : BOOLEAN]
  BY <1>2, UsedRows DEF ModelIInv
<1> HIDE DEF m
<1>4. /\ task' \in [Rows -> {NoTask} \cup
           [dwQueueTaskId : Tasks, path : Paths, bPendingRemove : BOOLEAN]]
      /\ \A r \in Rows : /\ task'[r].dwQueueTaskId = task[r].dwQueueTaskId
                         /\ task'[r].bPendingRemove = task[r].bPendingRemove
                         /\ r # m => task'[r] = task[r]
  <2>1. task' = [task EXCEPT ![m] = [task[m] EXCEPT !.path = FinalPath(task[m].path)]]
    BY <1>1
  <2> QED BY <1>1, <1>2, <1>3, <2>1 DEF ModelIInv, ModelTypeOK
<1>5. ModelTypeOK'
  BY <1>1, <1>3, <1>4 DEF ModelIInv, ModelTypeOK
<1>6. Used' = Used
  <2>1. \A r \in Rows : r \in Used <=> task[r].dwQueueTaskId \in Tasks
    BY UsedRows DEF ModelIInv
  <2>2. NoTask.dwQueueTaskId \notin Tasks
    BY ModelAssumption DEF NoTask
  <2>3. \A r \in Rows : task'[r] # NoTask <=> task'[r].dwQueueTaskId \in Tasks
    BY <1>4, <2>2
  <2> QED BY <1>4, <2>1, <2>3 DEF Used
<1>7. QueueInv'
  BY <1>1 DEF ModelIInv, QueueInv, IdsInOrder
<1>8. RowsKnown'
  BY <1>1, <1>4, <1>6 DEF ModelIInv, RowsKnown, Used
<1>9. ShownTrue' /\ Deleting' /\ ResetIdle'
  <2>1. Active' = Active
    BY <1>1 DEF Active
  <2> QED BY <1>1, <1>4, <1>6, <2>1 DEF ModelIInv, ShownTrue, Deleting, ResetIdle
<1>10. ExecRuns' /\ Dropping' /\ EngineInUse'
  BY <1>1, <1>4 DEF ModelIInv, ModelTypeOK, ExecRuns, Dropping, EngineInUse
<1>11. ActiveTaskHasRow'
  BY <1>1, <1>4 DEF ModelIInv, ActiveTaskHasRow, Active
<1> QED BY <1>5, <1>7, <1>8, <1>9, <1>10, <1>11 DEF ModelIInv

(* An executor until it returns.                                           *)
LEMMA KeepsExecutor ==
  ASSUME ModelIInv, NEW q \in Tasks,
         LookUp(q) \/ TakeEngine(q) \/ WriteFile(q)
             \/ ExecFails(q) \/ CheckRemove(q) \/ DropRow(q)
  PROVE  ModelIInv'
<1> USE DEF ModelIInv, LookUp, TakeEngine, WriteFile, ExecFails,
        CheckRemove, DropRow, queue, model, EndFrame, DeleteArtifacts
<1>1. ModelTypeOK'
  BY DEF ModelTypeOK, Nothing
<1>2. QueueInv'
  BY DEF QueueInv, IdsInOrder
<1>3. RowsKnown'
  <2>1. UNCHANGED <<task, status, deleted>> /\ mapTasks' \subseteq mapTasks
    OBVIOUS
  <2>2. RowsKnown
    OBVIOUS
  <2> QED BY <2>1, <2>2 DEF RowsKnown, Used
<1>4. ShownTrue' /\ Deleting' /\ ResetIdle'
  BY DEF ModelTypeOK, ShownTrue, Deleting, ResetIdle, Used, Active, Nothing,
     RowsKnown, Terminal
<1>5. ExecRuns' /\ Dropping'
  BY KeepsCheckRemove DEF ModelTypeOK, ExecRuns, Dropping, Live
<1>6. EngineInUse'
  BY KeepsTakeEngine, KeepsCheckRemove DEF ModelTypeOK, EngineInUse,
     ExecRuns, Live, Active, ResetIdle
<1>7. ActiveTaskHasRow'
  <2>1. CASE DropRow(q)
    BY <2>1, KeepsDropRow
  <2>2. CASE LookUp(q) \/ TakeEngine(q) \/ WriteFile(q)
    BY <2>2 DEF ActiveTaskHasRow, Active
  <2>3. CASE ExecFails(q) \/ CheckRemove(q)
    BY <2>3 DEF ActiveTaskHasRow, Active
  <2> QED BY <2>1, <2>2, <2>3
<1> QED BY <1>1, <1>2, <1>3, <1>4, <1>5, <1>6, <1>7

-----------------------------------------------------------------------------
LEMMA InitIInv == ModelInit => ModelIInv
<1> SUFFICES ASSUME ModelInit PROVE ModelIInv
  OBVIOUS
<1> USE DEF ModelInit, Init, ModelIInv
<1>1. \A q \in Tasks : status[q] = "Absent" /\ exec[q] = "idle"
  OBVIOUS
<1>2. ModelTypeOK
  BY MovesAre DEF ModelTypeOK, Nothing
<1>3. QueueInv
  <2>1. In(status, "Running") = {}
    BY <1>1 DEF In
  <2>2. Cardinality(In(status, "Running")) = 0
    BY <2>1, FS_EmptySet
  <2>3. 0 \in Nat /\ \A q \in Tasks : status[q] # "Absent" => q <= 0
    BY <1>1
  <2>4. IdsInOrder
    BY <1>1, <2>3 DEF IdsInOrder
  <2> QED BY <2>2, <2>4, ModelAssumption, MovesAre DEF QueueInv
<1>4. RowsKnown
  <2>1. Used = {}
    BY DEF Used
  <2>2. Cardinality(Used) = 0 /\ Used = 1..0
    BY <2>1, FS_EmptySet
  <2>3. Used = 1..Cardinality(Used)
    BY <2>2
  <2> QED BY <2>1, <2>3 DEF RowsKnown
<1>5. ShownTrue /\ Deleting /\ ResetIdle
  BY DEF ShownTrue, Deleting, ResetIdle, Nothing
<1>6. ExecRuns /\ Dropping /\ EngineInUse
  BY DEF ExecRuns, Dropping, EngineInUse, Live
<1>7. ActiveTaskHasRow
  BY <1>1 DEF ActiveTaskHasRow, Active
<1> QED BY <1>2, <1>3, <1>4, <1>5, <1>6, <1>7

LEMMA NextIInv == ModelIInv /\ [ModelNext]_vars => ModelIInv'
<1> SUFFICES ASSUME ModelIInv, [ModelNext]_vars PROVE ModelIInv'
  OBVIOUS
<1>1. CASE UiRuns
  BY <1>1, ModelAssumption, KeepsFrame, KeepsCancels, KeepsRows
     DEF UiRuns, DeleteGoesOn
<1>2. CASE User
  <2>1. ASSUME NEW url \in Urls, NEW q \in Tasks, NEW m \in Rows, AddTask(url, q, m)
        PROVE  ModelIInv'
    BY <2>1, KeepsAddTask
  <2>2. ASSUME NEW m \in Rows, RowStop(m) \/ RemoveTask(m)
      \/ DeleteTask(m) PROVE ModelIInv'
    BY <2>2, KeepsCancels, KeepsRows
  <2>3. ASSUME NEW m \in Rows, NEW q \in Tasks, ResumeTask(m, q) PROVE ModelIInv'
    BY <2>3, KeepsResumeTask
  <2> QED BY <1>2, <2>1, <2>2, <2>3, KeepsRows, KeepsCancels DEF User
<1>3. ASSUME NEW q \in Tasks, Executor(q) PROVE ModelIInv'
  BY <1>3, KeepsExecutor, KeepsSuccess, KeepsReturn DEF Executor
<1>4. CASE UNCHANGED vars
  BY <1>4 DEF vars, queue, model, ModelIInv, ModelTypeOK, QueueInv, IdsInOrder,
     RowsKnown,
     Used, ShownTrue, Deleting, ResetIdle, ExecRuns, Dropping, EngineInUse,
     ActiveTaskHasRow, Active
<1> QED BY <1>1, <1>2, <1>3, <1>4 DEF ModelNext

LEMMA ModelInvariance == ModelSpec => []ModelIInv
BY InitIInv, NextIInv, PTL DEF ModelSpec

(* OnUiTick asks the queue under one mutex and destroys the engine under   *)
(* another, and executors hold raw pointers: none of them dangles.         *)
THEOREM EngineOutlives == ModelSpec => []EngineOutlivesTasks
<1>1. ModelIInv => EngineOutlivesTasks
  BY DEF ModelIInv, EngineOutlivesTasks
<1> QED BY <1>1, ModelInvariance, PTL

(* No row leaves the list before its task is over, whatever is clicked on  *)
(* an old snapshot, unless Delete was.                                     *)
THEOREM ActiveHasRow == ModelSpec => []ActiveTaskHasRow
<1>1. ModelIInv => ActiveTaskHasRow
  BY DEF ModelIInv
<1> QED BY <1>1, ModelInvariance, PTL

(* A file that was there goes only for a row on which Delete was clicked.  *)
THEOREM DeletesOnly == ModelSpec => OnlyDeleteDeletes
<1> DEFINE Kept == \A p \in Paths : file[p] # "none" /\ file'[p] = "none" =>
                     \E m \in deleted : task[m].path = p
<1>1. ModelIInv /\ [ModelNext]_vars => [Kept]_vars
  <2> SUFFICES ASSUME ModelIInv, ModelNext PROVE Kept
    OBVIOUS
  <2>1. CASE DeleteRemoves
    BY <2>1 DEF ModelIInv, ModelTypeOK, Deleting, DeleteRemoves, DeleteArtifacts
  <2>2. ASSUME NEW q \in Tasks, CheckRemove(q) PROVE Kept
    <3>1. status[q] = "Running"
      BY <2>2 DEF ModelIInv, ExecRuns, Live, CheckRemove
    <3>2. task[Object(q)].bPendingRemove => Object(q) \in deleted
      BY <3>1, Holder DEF ModelIInv, RowsKnown
    <3> QED BY <2>2, <3>2 DEF ModelIInv, ModelTypeOK, CheckRemove, DeleteArtifacts
  <2>3. ASSUME NEW q \in Tasks, WriteFile(q) \/ ExecSucceeds(q) PROVE Kept
    BY <2>3 DEF ModelIInv, ModelTypeOK, WriteFile, ExecSucceeds
  <2>4. CASE UNCHANGED file
    BY <2>4
  <2>5. UiRuns => DeleteRemoves \/ UNCHANGED file
    BY DEF UiRuns, DeleteGoesOn, OnUiTick, ResetEngine, NoAdd, ShowRows, NoClick, DeleteCancels,
       DeleteErases, DeleteMarks, DeleteStops, Destroy
  <2>6. User => UNCHANGED file
    BY DEF User, AddTask, RowStop, RemoveTask, DeleteTask, ResumeTask,
       ClearFinished, CloseWindow
  <2>7. ASSUME NEW q \in Tasks, Executor(q)
        PROVE  CheckRemove(q) \/ WriteFile(q) \/ ExecSucceeds(q) \/ UNCHANGED file
    BY <2>7 DEF Executor, LookUp, TakeEngine, ExecFails, DropRow, Return
  <2> QED BY <2>1, <2>2, <2>3, <2>4, <2>5, <2>6, <2>7 DEF ModelNext
<1> QED BY <1>1, ModelInvariance, PTL DEF ModelSpec, OnlyDeleteDeletes

(* The calls the window and the executors make of the queue, at the times  *)
(* they make them, are behaviours of TaskLifecycle, which TaskQueue        *)
(* implements: the two modules meet there.                                 *)
THEOREM UsesLifecycle == ModelSpec => Spec
<1>1. ModelInit => Init
  BY DEF ModelInit
<1>2. ModelIInv /\ [ModelNext]_vars => [Step]_<<status, asked>>
  <2> SUFFICES ASSUME ModelIInv, ModelNext PROVE Step \/ UNCHANGED <<status, asked>>
    BY DEF vars, queue
  <2>1. ASSUME NEW q \in Tasks, QueueAdd(q) PROVE Step
    BY <2>1, AddStep DEF ModelIInv
  <2>2. ASSUME NEW ids \in SUBSET Tasks, QueueCancel(ids) PROVE Step
    BY <2>2, CancelStep DEF ModelIInv
  <2>3. CASE UiRuns
    <3>1. CASE DeleteCancels \/ DeleteStops
      <4>1. target \in Used
        BY <3>1 DEF ModelIInv, Deleting, DeleteCancels, DeleteStops
      <4>2. {task[target].dwQueueTaskId} \in SUBSET Tasks
        BY <4>1, RowIds
      <4> QED BY <2>2, <3>1, <4>2 DEF DeleteCancels, DeleteStops
    <3> QED BY <2>3, <3>1 DEF UiRuns, DeleteGoesOn, OnUiTick, ResetEngine, NoAdd,
               ShowRows, NoClick,
               DeleteErases, DeleteRemoves, DeleteMarks, Destroy, queue
  <2>4. CASE User
    <3>1. ASSUME NEW m \in Rows, RowStop(m) PROVE Step \/ UNCHANGED <<status,
        asked>>
      <4>1. m \in mapTasks => {task[m].dwQueueTaskId} \in SUBSET Tasks
        BY RowIds DEF ModelIInv, RowsKnown
      <4> QED BY <2>2, <3>1, <4>1 DEF RowStop, queue
    <3> QED BY <2>1, <2>2, <2>4, <3>1 DEF User, AddTask, RemoveTask, DeleteTask,
       ResumeTask,
               ClearFinished, CloseWindow, queue
  <2>5. ASSUME NEW q \in Tasks, Executor(q) PROVE Step \/ UNCHANGED <<status,
      asked>>
    <3>1. CASE Return(q)
      BY <3>1, ReturnStep DEF ModelIInv
    <3> QED BY <2>5, <3>1 DEF Executor, LookUp, TakeEngine, WriteFile,
       ExecSucceeds, ExecFails,
               CheckRemove, DropRow, queue
  <2> QED BY <2>3, <2>4, <2>5 DEF ModelNext
<1> QED BY <1>1, <1>2, ModelInvariance, PTL DEF ModelSpec, Spec
=============================================================================
