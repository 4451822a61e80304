---------------------------- MODULE MCTaskQueue ----------------------------
(* Model values for TaskQueue: two workers and two slots over three tasks, *)
(* so that tasks wait for a slot and jobs wait for a worker.  The texts of *)
(* the queue file have the characters that are escaped, and what could be  *)
(* taken for an escape.                                                    *)
EXTENDS QueueFile

CONSTANTS w1, w2

MCWorkers == {w1, w2}
MCTexts == {<<>>, <<"x">>, <<"\\">>, <<"\t", "x">>, <<"\n">>, <<"\\", "t">>, <<"x", "\r">>}
=============================================================================
