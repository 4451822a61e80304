--------------------------- MODULE TaskLifecycle ---------------------------
(***************************************************************************)
(* What the users of CTaskQueue (the GUI model, the CLI batch) rely on,    *)
(* without pool, locks or condition variables: tasks move forward only,    *)
(* the oldest starts first, the slots are never exceeded, a terminal state *)
(* is final, and a cancellation that reached a running task decides how it *)
(* is reported.                                                            *)
(***************************************************************************)
EXTENDS Naturals, FiniteSets

CONSTANTS
  Tasks,     (* task ids, in the order they are handed out                  *)
  Slots      (* how many tasks may run at once                              *)

VARIABLES
  status,    (* the state of each task, as Snapshot reports it              *)
  asked      (* the running tasks that were asked to cancel                 *)

Terminal == {"Done", "Error", "Canceled"}

Init ==
  /\ status = [t \in Tasks |-> "Absent"]
  /\ asked = {}

(* Everything one step may do to a task.  "Error" without having run is a  *)
(* task whose job the pool refused.                                        *)
Moves ==
  [ Absent   |-> {"Absent", "Pending", "Running", "Error"},
    Pending  |-> {"Pending", "Running", "Canceled", "Error"},
    Running  |-> {"Running"} \cup Terminal,
    Done     |-> {"Done"},
    Error    |-> {"Error"},
    Canceled |-> {"Canceled"} ]

Waiting(t) == status[t] \in {"Absent", "Pending"}
Started(t) == Waiting(t) /\ status'[t] = "Running"
Ended(t)   == status[t] = "Running" /\ status'[t] \in Terminal

Step ==
  /\ \A t \in Tasks : status'[t] \in Moves[status[t]]
  /\ Cardinality({t \in Tasks : status'[t] = "Running"}) <= Slots
  /\ \A t \in Tasks : Started(t) =>
       \A s \in Tasks : s < t => status'[s] \notin {"Absent", "Pending"}
  /\ \A t \in Tasks : Ended(t) => (status'[t] = "Canceled") <=> (t \in asked)
  /\ asked \subseteq asked'
  /\ \A t \in asked' \ asked : status[t] = "Running"

Spec == Init /\ [][Step]_<<status, asked>>
=============================================================================
