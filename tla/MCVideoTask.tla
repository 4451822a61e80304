----------------------------- MODULE MCVideoTask ----------------------------
(* Two tasks: what one task's script leaves, the other can meet.           *)
EXTENDS VideoTask

CONSTANTS t1, t2

MCCallers == {t1, t2}
MCFirst   == {t1}
MCModes   == {"tasks", "update", "verify"}
MCTasks   == {"tasks"}
=============================================================================
