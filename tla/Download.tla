------------------------------ MODULE Download ------------------------------
(***************************************************************************)
(* What the callers of Ccurl rely on (RunFileExec, VideoDownloader),       *)
(* without probes, threads, lanes or retries: the file is laid out once    *)
(* and then written, never after the download was stopped or has ended; it *)
(* may be started over once, as a single stream; what was asked for by its *)
(* place gets there; whole means every place; and the end is final.        *)
(***************************************************************************)
EXTENDS Naturals

VARIABLES
  phase,     (* probing, writing, whole or broken                           *)
  len,       (* the length of the file, 0 while it is not laid out          *)
  have,      (* the places of the file that count as written                *)
  ranged,    (* each part is asked for by its place                         *)
  right,     (* each byte that was written is in its place                  *)
  stopping   (* a cancel has reached the download                           *)

vars == <<phase, len, have, ranged, right, stopping>>

Places == 0..(len - 1)

(* A part may go on where an earlier download left it, a stream may not.   *)
LaidOut ==
  /\ phase = "writing"
  /\ len \in Nat \ {0}
  /\ have \subseteq Places
  /\ ~ranged => have = {}

Init ==
  /\ right = TRUE /\ stopping = FALSE
  /\ \/ phase = "probing" /\ len = 0 /\ have = {} /\ ranged = FALSE
     \/ LaidOut

(* A new instance forgets the cancel that came before it.                  *)
Forget ==
  /\ phase = "probing"
  /\ stopping' = FALSE
  /\ UNCHANGED <<phase, len, have, ranged, right>>

LayOut ==
  /\ phase = "probing" /\ ~stopping
  /\ LaidOut'
  /\ UNCHANGED <<right, stopping>>

Write ==
  /\ phase = "writing" /\ ~stopping
  /\ have \subseteq have' /\ have' \subseteq Places
  /\ right' => right
  /\ ranged => right' = right
  /\ UNCHANGED <<phase, len, ranged, stopping>>

StartOver ==
  /\ phase = "writing" /\ ~stopping
  /\ ranged /\ ranged' = FALSE
  /\ have' = {} /\ right' = TRUE
  /\ UNCHANGED <<phase, len, stopping>>

Finish ==
  /\ phase = "writing" /\ ~stopping
  /\ have = Places
  /\ phase' = "whole"
  /\ UNCHANGED <<len, have, ranged, right, stopping>>

(* It breaks off with what it has, or with nothing where it failed to      *)
(* start over.                                                             *)
GiveUp ==
  /\ phase \in {"probing", "writing"}
  /\ phase' = "broken"
  /\ \/ UNCHANGED <<len, have, ranged>>
     \/ ranged /\ len' = 0 /\ have' = {} /\ ranged' = FALSE
  /\ UNCHANGED <<right, stopping>>

(* Its caller may delete what a broken download left.                      *)
Discard ==
  /\ phase = "broken"
  /\ have' = {}
  /\ UNCHANGED <<phase, len, ranged, right, stopping>>

Stop ==
  /\ stopping' = TRUE
  /\ UNCHANGED <<phase, len, have, ranged, right>>

Next ==
  \/ Forget \/ LayOut \/ Write \/ StartOver \/ Finish \/ GiveUp \/ Discard
  \/ Stop

Spec == Init /\ [][Next]_vars
=============================================================================
