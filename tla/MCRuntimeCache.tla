--------------------------- MODULE MCRuntimeCache ---------------------------
(* Two processes, two rounds of waiting for the lock.                      *)
EXTENDS RuntimeCache

CONSTANTS p1, p2

MCTwo == {p1, p2}
=============================================================================
