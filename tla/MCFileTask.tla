----------------------------- MODULE MCFileTask -----------------------------
(* A body of three bytes in two parts, of one and of two bytes; HEAD may   *)
(* tell a length that is too short or too long.                            *)
EXTENDS FileTask

MCHeadLens == {2, 3, 4}
=============================================================================
