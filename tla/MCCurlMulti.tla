---------------------------- MODULE MCCurlMulti ----------------------------
(* Model values for CurlMulti: two jobs on two lanes.  A job that is done  *)
(* and submitted again goes to the next lane, so that the jobs also meet   *)
(* on one lane, in different parts of its driver's cycle.                  *)
EXTENDS CurlMulti

CONSTANTS j1, j2

MCJobs  == {j1, j2}
MCCodes == {"OK", "ABORTED", "FAILED_INIT"}
=============================================================================
