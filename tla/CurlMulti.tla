----------------------------- MODULE CurlMulti -----------------------------
(***************************************************************************)
(* CCurlMultiEngine (engine/curlmulti.cpp): transfer jobs shared out over  *)
(* lanes, each driven by one thread.  A job is in one place at a time: the *)
(* queues of its lane, the local vectors of the driver's cycle, the active *)
(* map, or its owner's fnDone.  The order inside a queue decides nothing   *)
(* here: a cycle empties the pending queue, and the retries all wait the   *)
(* same delay.  Flags read several times under one lock are read once.     *)
(***************************************************************************)
EXTENDS Naturals, FiniteSets

CONSTANTS
  Jobs,       (* the jobs owners may submit                                 *)
  LaneCount,  (* m_vecLanes.size()                                          *)
  Codes       (* the CURLcodes reported to fnDone                           *)

Lanes == 0..(LaneCount - 1)
Unset == LaneCount            \* kChunkLaneUnset: no lane has this number

ASSUME EngineAssumption ==
  /\ LaneCount \in Nat \ {0}              \* the constructor clamps to 1
  /\ {"ABORTED", "FAILED_INIT"} \subseteq Codes

VARIABLES
  place,       (* where each job is                                         *)
  lane,        (* tJob.dwLane                                               *)
  due,         (* the jobs of deqRetry whose delay has passed               *)
  code,        (* the CURLcode fnDone is called with                        *)
  phase,       (* where the driver of each lane stands in its cycle         *)
  bShutdown,   (* m_bShutdown                                               *)
  closer,      (* where the thread that called Shutdown stands              *)
  dwNextLane,  (* m_dwNextLane, modulo the lanes                            *)
  flagged      (* the jobs whose *pCancelFlag is set                        *)

engineVars ==
  <<place, lane, due, code, phase, bShutdown, closer, dwNextLane, flagged>>

Places ==
  {"client", "submitting",       \* with the owner; inside SubmitChunk
   "pending", "retry",           \* deqPending, deqRetry
   "start", "canceled",          \* vecStart, vecCanceled
   "active", "aborted",          \* mapActive, vecAborted
   "calling"}                    \* the driver is in fnDone

Phases == {"drain", "abort", "start", "perform", "report", "exit", "exited"}

InEngine(j) == place[j] \notin {"client", "submitting"}
On(l, p)    == {j \in Jobs : lane[j] = l /\ place[j] = p}
Moved(js, p) == [j \in Jobs |-> IF j \in js THEN p ELSE place[j]]
Dropped(j)  == bShutdown \/ j \in flagged

EngineInit ==
  /\ place = [j \in Jobs |-> "client"]
  /\ lane = [j \in Jobs |-> Unset]
  /\ due = {}
  /\ code = [j \in Jobs |-> "none"]
  /\ phase = [l \in Lanes |-> "drain"]
  /\ bShutdown = FALSE
  /\ closer = "open"
  /\ dwNextLane = 0
  /\ flagged = {}

(* Mutant of AssignLane: the round-robin counter is off by one.            *)
AssignLane_offByOne(j, want) ==
  /\ place[j] = "client" /\ ~bShutdown
  /\ place' = [place EXCEPT ![j] = "submitting"]
  /\ lane' = [lane EXCEPT ![j] = IF want \in Lanes THEN want ELSE dwNextLane]
  /\ dwNextLane' = IF want \in Lanes THEN dwNextLane
                                     ELSE (dwNextLane + 1) % (LaneCount + 1)
  /\ UNCHANGED <<due, code, phase, bShutdown, closer, flagged>>

(***************************************************************************)
(* SubmitChunk: the lane is chosen before the lane's lock is taken.        *)
(***************************************************************************)
AssignLane(j, want) ==
  /\ place[j] = "client" /\ ~bShutdown
  /\ place' = [place EXCEPT ![j] = "submitting"]
  /\ lane' = [lane EXCEPT ![j] = IF want \in Lanes THEN want ELSE dwNextLane]
  /\ dwNextLane' = IF want \in Lanes THEN dwNextLane
                                     ELSE (dwNextLane + 1) % LaneCount
  /\ UNCHANGED <<due, code, phase, bShutdown, closer, flagged>>

(* Mutant of Enqueue: the flag is looked at only before the lock.          *)
Enqueue_unchecked(j) ==
  /\ place[j] = "submitting"
  /\ place' = [place EXCEPT ![j] = "pending"]
  /\ UNCHANGED <<lane, due, code, phase, bShutdown, closer, dwNextLane, flagged>>

(* The second look at the flag, under the lock.                            *)
Enqueue(j) ==
  /\ place[j] = "submitting"
  /\ place' = [place EXCEPT ![j] = IF bShutdown THEN "client" ELSE "pending"]
  /\ UNCHANGED <<lane, due, code, phase, bShutdown, closer, dwNextLane, flagged>>

(* SubmitChunkDelayed, called by the driver from fnDone, when it accepts.  *)
(* Its first look at the flag decides nothing the second does not.         *)
SubmitChunkDelayed(j, want) ==
  /\ place[j] = "calling" /\ ~bShutdown /\ want \in Lanes
  /\ place' = [place EXCEPT ![j] = "retry"]
  /\ lane' = [lane EXCEPT ![j] = want]
  /\ code' = [code EXCEPT ![j] = "none"]
  /\ UNCHANGED <<due, phase, bShutdown, closer, dwNextLane, flagged>>

(* fnDone returns without handing the job in again.                        *)
FnDoneReturns(j) ==
  /\ place[j] = "calling"
  /\ place' = [place EXCEPT ![j] = "client"]
  /\ code' = [code EXCEPT ![j] = "none"]
  /\ UNCHANGED <<lane, due, phase, bShutdown, closer, dwNextLane, flagged>>

(***************************************************************************)
(* The driver of a lane, in the order of its cycle.  It does nothing else  *)
(* while it is inside an fnDone.                                           *)
(***************************************************************************)
At(l, p) == phase[l] = p /\ On(l, "calling") = {}

InvokeDone(j, c) ==
  /\ place' = [place EXCEPT ![j] = "calling"]
  /\ code' = [code EXCEPT ![j] = c]

(* 1. Retries that are due, or every one at shutdown, and the pending jobs *)
(* leave the queues.                                                       *)
Drain(l) ==
  LET taken == On(l, "pending") \cup
               {j \in On(l, "retry") : j \in due \/ bShutdown}
  IN /\ At(l, "drain")
     /\ place' = [j \in Jobs |->
                    IF j \notin taken THEN place[j]
                    ELSE IF Dropped(j) THEN "canceled" ELSE "start"]
     /\ due' = due \ taken
     /\ phase' = [phase EXCEPT ![l] = "abort"]
     /\ UNCHANGED <<lane, code, bShutdown, closer, dwNextLane, flagged>>

(* Mutants of AbortActive: the flag is left to the progress callback;      *)
(* transfers are left running at shutdown.                                 *)
AbortActive_unpolled(l) ==
  /\ At(l, "abort")
  /\ place' = Moved({j \in On(l, "active") : bShutdown}, "aborted")
  /\ phase' = [phase EXCEPT ![l] = "start"]
  /\ UNCHANGED <<lane, due, code, bShutdown, closer, dwNextLane, flagged>>

(* 2. Active transfers whose flag is set are taken off the multi handle.   *)
AbortActive(l) ==
  /\ At(l, "abort")
  /\ place' = Moved({j \in On(l, "active") : Dropped(j)}, "aborted")
  /\ phase' = [phase EXCEPT ![l] = "start"]
  /\ UNCHANGED <<lane, due, code, bShutdown, closer, dwNextLane, flagged>>

(* 3. Each job of vecStart: fnCreateEasy gives a handle that the multi     *)
(* handle takes; or it gives none; or there is no multi handle to take it, *)
(* or that one refuses.                                                    *)
StartJob(l, j) ==
  /\ At(l, "start") /\ j \in On(l, "start")
  /\ place' = [place EXCEPT ![j] = "active"]
  /\ UNCHANGED <<lane, due, code, phase, bShutdown, closer, dwNextLane, flagged>>

StartFails(l, j, c) ==
  /\ At(l, "start") /\ j \in On(l, "start")
  /\ c \in {"ABORTED", "FAILED_INIT"}
  /\ InvokeDone(j, c)
  /\ UNCHANGED <<lane, due, phase, bShutdown, closer, dwNextLane, flagged>>

StartEnds(l) ==
  /\ At(l, "start") /\ On(l, "start") = {}
  /\ phase' = [phase EXCEPT ![l] = "perform"]
  /\ UNCHANGED <<place, lane, due, code, bShutdown, closer, dwNextLane, flagged>>

(* 4., 5. A transfer that ended leaves the active map and is reported.     *)
Completes(l, j, c) ==
  /\ At(l, "perform") /\ j \in On(l, "active")
  /\ InvokeDone(j, c)
  /\ UNCHANGED <<lane, due, phase, bShutdown, closer, dwNextLane, flagged>>

PerformEnds(l) ==
  /\ At(l, "perform")
  /\ phase' = [phase EXCEPT ![l] = "report"]
  /\ UNCHANGED <<place, lane, due, code, bShutdown, closer, dwNextLane, flagged>>

(* Mutants of Report and ReportEnds: the job is dropped without a call of  *)
(* its fnDone; only the aborted jobs are reported.                         *)
Report_drops(l, j) ==
  /\ At(l, "report")
  /\ j \in On(l, "aborted") \/ (On(l, "aborted") = {} /\ j \in On(l, "canceled"))
  /\ place' = [place EXCEPT ![j] = "client"]
  /\ UNCHANGED <<lane, due, code, phase, bShutdown, closer, dwNextLane, flagged>>

(* 6. The aborted jobs are reported, then those that never started.        *)
Report(l, j) ==
  /\ At(l, "report")
  /\ j \in On(l, "aborted") \/ (On(l, "aborted") = {} /\ j \in On(l, "canceled"))
  /\ InvokeDone(j, "ABORTED")
  /\ UNCHANGED <<lane, due, phase, bShutdown, closer, dwNextLane, flagged>>

ReportEnds(l) ==
  /\ At(l, "report") /\ On(l, "aborted") \cup On(l, "canceled") = {}
  /\ phase' = [phase EXCEPT ![l] = "exit"]
  /\ UNCHANGED <<place, lane, due, code, bShutdown, closer, dwNextLane, flagged>>

(* 7., 8. The way out, under the lock, or the wait and the next cycle.     *)
ExitOrLoop(l) ==
  LET drained == On(l, "pending") \cup On(l, "retry") \cup On(l, "active") = {}
  IN /\ At(l, "exit")
     /\ phase' = [phase EXCEPT ![l] = IF bShutdown /\ drained THEN "exited"
                                                              ELSE "drain"]
     /\ UNCHANGED <<place, lane, due, code, bShutdown, closer, dwNextLane, flagged>>

(* The steps of a driver that no transfer has to end for.                  *)
DriverLoop(l) ==
  \/ Drain(l) \/ AbortActive(l) \/ StartEnds(l)
  \/ PerformEnds(l) \/ ReportEnds(l) \/ ExitOrLoop(l)
  \/ \E j \in Jobs : Report(l, j)

(* kRetryDelay passes for a job of deqRetry.                               *)
Due(j) ==
  /\ place[j] = "retry" /\ j \notin due
  /\ due' = due \cup {j}
  /\ UNCHANGED <<place, lane, code, phase, bShutdown, closer, dwNextLane, flagged>>

(* Shutdown: the first caller sets the flag and joins every driver.        *)
Shutdown ==
  /\ ~bShutdown
  /\ bShutdown' = TRUE
  /\ closer' = "joining"
  /\ UNCHANGED <<place, lane, due, code, phase, dwNextLane, flagged>>

ShutdownJoin ==
  /\ closer = "joining"
  /\ \A l \in Lanes : phase[l] = "exited"
  /\ closer' = "joined"
  /\ UNCHANGED <<place, lane, due, code, phase, bShutdown, dwNextLane, flagged>>

(* An owner sets the flag its jobs point at.                               *)
SetFlag(js) ==
  /\ ~(js \subseteq flagged)
  /\ flagged' = flagged \cup js
  /\ UNCHANGED <<place, lane, due, code, phase, bShutdown, closer, dwNextLane>>

(* The engine with owners that submit at will and whose fnDone may retry.  *)
Start(l, j) == StartJob(l, j) \/ \E c \in Codes : StartFails(l, j, c)
FnDone(j)   == FnDoneReturns(j) \/ SubmitChunkDelayed(j, lane[j])

EngineNext ==
  \/ \E j \in Jobs :
       AssignLane(j, Unset) \/ Enqueue(j) \/ FnDone(j) \/ Due(j) \/ SetFlag({j})
  \/ \E l \in Lanes :
       \/ DriverLoop(l)
       \/ \E j \in Jobs : Start(l, j) \/ \E c \in Codes : Completes(l, j, c)
  \/ Shutdown \/ ShutdownJoin

(* The drivers run and a callback returns; nothing says that a transfer    *)
(* ever completes.                                                         *)
EngineFairness ==
  /\ \A l \in Lanes : WF_engineVars(DriverLoop(l) \/ \E j \in Jobs : Start(l, j))
  /\ \A j \in Jobs :
       /\ WF_engineVars(Enqueue(j))
       /\ WF_engineVars(FnDone(j))
       /\ WF_engineVars(Due(j))
  /\ WF_engineVars(ShutdownJoin)

EngineSpec == EngineInit /\ [][EngineNext]_engineVars
EngineFairSpec == EngineSpec /\ EngineFairness

-----------------------------------------------------------------------------

EngineTypeOK ==
  /\ place \in [Jobs -> Places]
  /\ lane \in [Jobs -> Lanes \cup {Unset}]
  /\ due \in SUBSET Jobs
  /\ code \in [Jobs -> Codes \cup {"none"}]
  /\ phase \in [Lanes -> Phases]
  /\ bShutdown \in BOOLEAN
  /\ closer \in {"open", "joining", "joined"}
  /\ dwNextLane \in Lanes
  /\ flagged \in SUBSET Jobs

(* A driver that has left its loop (curlmulti.cpp:313-321) leaves no job   *)
(* behind, and none reaches its lane later: nobody would report it.        *)
NoJobStranded ==
  \A l \in Lanes, j \in Jobs :
    phase[l] = "exited" /\ lane[j] = l => ~InEngine(j)

(* The vectors of a cycle (curlmulti.cpp:163-164, 201) live no longer than *)
(* the cycle: a job left in one when its driver starts over would be lost. *)
CycleEmptied ==
  \A l \in Lanes :
    /\ phase[l] \in {"exit", "exited", "drain"} =>
         On(l, "start") \cup On(l, "aborted") \cup On(l, "canceled") = {}
    /\ phase[l] \in {"perform", "report"} => On(l, "start") = {}

(* The inductive invariant of the engine: the three properties above,      *)
(* that a job beyond its owner's hands has a lane, and that a driver only  *)
(* leaves, as Shutdown only joins, once the flag is set.                   *)
LaneKnown == \A j \in Jobs : place[j] # "client" => lane[j] \in Lanes
FlagFirst ==
  /\ \A l \in Lanes : phase[l] = "exited" => bShutdown
  /\ closer = "open" <=> ~bShutdown
EngineIInv ==
  EngineTypeOK /\ NoJobStranded /\ CycleEmptied /\ LaneKnown /\ FlagFirst

(* curlmulti.h, the promise to the owner of a job: ChunkService.           *)
Service == INSTANCE ChunkService WITH
  status <- [j \in Jobs |-> IF ~InEngine(j) THEN "idle"
                            ELSE IF place[j] = "calling" THEN "reported"
                            ELSE "accepted"],
  service <- IF ~bShutdown THEN "open"
             ELSE IF closer = "joined" THEN "closed" ELSE "closing"
ImplementsService == Service!Spec

(* curlmulti.h: a canceled job comes back to its owner although its        *)
(* transfer may be stalled for ever, and so does every job at shutdown.    *)
CanceledComesBack ==
  \A j \in Jobs : (InEngine(j) /\ Dropped(j)) ~> place[j] \in {"calling", "client"}

(* So does Shutdown, which joins every driver, whatever was queued.        *)
ShutdownReturns == bShutdown ~> (closer = "joined")
NothingWaits == CanceledComesBack /\ ShutdownReturns
=============================================================================
