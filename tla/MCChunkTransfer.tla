-------------------------- MODULE MCChunkTransfer --------------------------
(* ChunkTransfer with the codes OnChunkDone tells apart.                   *)
EXTENDS ChunkTransfer

MCJobs  == 1..ThreadNum
MCCodes == {"OK", "ERROR", "TIMEDOUT", "ABORTED", "FAILED_INIT"}
=============================================================================
