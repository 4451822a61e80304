---------------------------- MODULE MCTaskModel ----------------------------
(* Two rows and three queue tasks, so that one row can be resumed, over    *)
(* one slot, so that a task can be found pending; a file and a video.      *)
(* Three tasks can rename a video three times at most.                     *)
EXTENDS TaskModel

MCTasks  == 1..3
MCRows   == 1..2
MCUrls   == {"u", "v"}
MCVideos == {"v"}
=============================================================================
