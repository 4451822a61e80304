---------------------------- MODULE ChunkService ----------------------------
(***************************************************************************)
(* What Ccurl relies on when it gives a chunk to the transfer engine: a    *)
(* job that was accepted is reported to its owner exactly once per         *)
(* acceptance, an owner may hand it in again from the report, nothing is   *)
(* accepted once the engine closes, and the engine is closed only when no  *)
(* job is left in it.                                                      *)
(***************************************************************************)
CONSTANTS Jobs

VARIABLES
  status,    (* idle (with its owner), accepted, reported (fnDone runs)     *)
  service    (* open, closing, closed                                       *)

Init ==
  /\ status = [j \in Jobs |-> "idle"]
  /\ service = "open"

Accept(j) ==
  /\ status[j] \in {"idle", "reported"} /\ service = "open"
  /\ status' = [status EXCEPT ![j] = "accepted"]
  /\ UNCHANGED service

Report(j) ==
  /\ status[j] = "accepted"
  /\ status' = [status EXCEPT ![j] = "reported"]
  /\ UNCHANGED service

Release(j) ==
  /\ status[j] = "reported"
  /\ status' = [status EXCEPT ![j] = "idle"]
  /\ UNCHANGED service

Close ==
  /\ service = "open"
  /\ service' = "closing"
  /\ UNCHANGED status

Closed ==
  /\ service = "closing"
  /\ \A j \in Jobs : status[j] = "idle"
  /\ service' = "closed"
  /\ UNCHANGED status

Next ==
  \/ \E j \in Jobs : Accept(j) \/ Report(j) \/ Release(j)
  \/ Close \/ Closed

Spec == Init /\ [][Next]_<<status, service>>
=============================================================================
