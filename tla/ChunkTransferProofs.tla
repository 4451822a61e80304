------------------------ MODULE ChunkTransferProofs ------------------------
(***************************************************************************)
(* Theorems about CurlMulti, for every set of jobs, and ChunkTransfer, for *)
(* every number and every length of the chunks; in both for every number   *)
(* of lanes and every set of result codes.  The engine comes first: its    *)
(* lemmas speak of single actions with any arguments, for each step of the *)
(* download is a step of the engine with arguments, or leaves it alone.    *)
(***************************************************************************)
EXTENDS ChunkTransfer, FiniteSetTheorems, TLAPS

-----------------------------------------------------------------------------
(* The engine.                                                             *)

LEMMA EngineInitIInv == EngineInit => EngineIInv
<1> SUFFICES ASSUME EngineInit PROVE EngineIInv
  OBVIOUS
<1> USE EngineAssumption
<1>1. EngineTypeOK
  <2>1. 0 \in Lanes
    BY DEF Lanes, EngineAssumption
  <2> QED BY <2>1 DEF EngineInit, EngineTypeOK, Places, Phases
<1>2. NoJobStranded /\ CycleEmptied /\ LaneKnown /\ FlagFirst
  BY DEF EngineInit, NoJobStranded, CycleEmptied, LaneKnown, FlagFirst, On, Lanes
<1> QED BY <1>1, <1>2 DEF EngineIInv

(* What may happen to the engine, whoever its owners are: what an owner    *)
(* does (submit, hand in again, let go, set the flag); a stage of the      *)
(* driver's cycle that hands a job to its fnDone, or to libcurl; a stage   *)
(* that moves several jobs, or none; and the closing.                      *)
Owner(j, want, js) ==
  \/ AssignLane(j, want) \/ Enqueue(j) \/ SubmitChunkDelayed(j, want)
  \/ FnDoneReturns(j) \/ Due(j) \/ SetFlag(js)
Calls(l, j, c) ==
  StartJob(l, j) \/ StartFails(l, j, c) \/ Completes(l, j, c) \/ Report(l, j)
Stages(l) ==
  \/ Drain(l) \/ AbortActive(l) \/ StartEnds(l)
  \/ PerformEnds(l) \/ ReportEnds(l) \/ ExitOrLoop(l)
Wants == Lanes \cup {Unset}

Happens ==
  \/ \E j \in Jobs : \E want \in Wants : \E js \in SUBSET Jobs : Owner(j, want, js)
  \/ \E l \in Lanes : Stages(l) \/ \E j \in Jobs : \E c \in Codes : Calls(l, j, c)
  \/ Shutdown \/ ShutdownJoin \/ UNCHANGED engineVars

LEMMA OwnerIInv ==
  ASSUME EngineIInv, NEW j \in Jobs, NEW want, NEW js \in SUBSET Jobs, Owner(j, want, js)
  PROVE  EngineIInv'
<1> USE EngineAssumption
<1> USE DEF EngineIInv, EngineTypeOK, NoJobStranded, CycleEmptied, LaneKnown,
            FlagFirst, InEngine, On, Places, Phases, Lanes, Unset
<1>1. CASE AssignLane(j, want)
  BY <1>1 DEF AssignLane
<1>2. CASE Enqueue(j)
  BY <1>2 DEF Enqueue
<1>3. CASE SubmitChunkDelayed(j, want)
  BY <1>3 DEF SubmitChunkDelayed
<1>4. CASE FnDoneReturns(j)
  BY <1>4 DEF FnDoneReturns
<1>5. CASE Due(j)
  BY <1>5 DEF Due
<1>6. CASE SetFlag(js)
  BY <1>6 DEF SetFlag
<1> QED BY <1>1, <1>2, <1>3, <1>4, <1>5, <1>6 DEF Owner

LEMMA CallsIInv ==
  ASSUME EngineIInv, NEW l \in Lanes, NEW j \in Jobs, NEW c \in Codes, Calls(l, j, c)
  PROVE  EngineIInv'
<1> USE EngineAssumption
<1> USE DEF EngineIInv, EngineTypeOK, NoJobStranded, CycleEmptied, LaneKnown,
            FlagFirst, InEngine, On, At, InvokeDone, Places, Phases, Lanes, Unset
<1>1. CASE StartJob(l, j)
  BY <1>1 DEF StartJob
<1>2. CASE StartFails(l, j, c)
  BY <1>2 DEF StartFails
<1>3. CASE Completes(l, j, c)
  BY <1>3 DEF Completes
<1>4. CASE Report(l, j)
  BY <1>4 DEF Report
<1> QED BY <1>1, <1>2, <1>3, <1>4 DEF Calls

LEMMA StagesIInv ==
  ASSUME EngineIInv, NEW l \in Lanes, Stages(l)
  PROVE  EngineIInv'
<1> USE EngineAssumption
<1> USE DEF EngineIInv, EngineTypeOK, NoJobStranded, CycleEmptied, LaneKnown,
            FlagFirst, InEngine, On, At, Places, Phases, Lanes, Unset
<1>1. CASE Drain(l)
  BY <1>1 DEF Drain
<1>2. CASE AbortActive(l)
  BY <1>2 DEF AbortActive, Moved
<1>3. CASE StartEnds(l)
  BY <1>3 DEF StartEnds
<1>4. CASE PerformEnds(l)
  BY <1>4 DEF PerformEnds
<1>5. CASE ReportEnds(l)
  BY <1>5 DEF ReportEnds
<1>6. CASE ExitOrLoop(l)
  BY <1>6 DEF ExitOrLoop
<1> QED BY <1>1, <1>2, <1>3, <1>4, <1>5, <1>6 DEF Stages

LEMMA ClosingIInv == EngineIInv /\ (Shutdown \/ ShutdownJoin) => EngineIInv'
<1> USE DEF EngineIInv, EngineTypeOK, NoJobStranded, CycleEmptied, LaneKnown,
            FlagFirst, InEngine, On
<1>1. ASSUME EngineIInv, Shutdown PROVE EngineIInv'
  BY <1>1 DEF Shutdown
<1>2. ASSUME EngineIInv, ShutdownJoin PROVE EngineIInv'
  BY <1>2 DEF ShutdownJoin
<1> QED BY <1>1, <1>2

LEMMA HappensIInv == EngineIInv /\ Happens => EngineIInv'
<1> SUFFICES ASSUME EngineIInv, Happens PROVE EngineIInv'
  OBVIOUS
<1>1. CASE UNCHANGED engineVars
  BY <1>1 DEF engineVars, EngineIInv, EngineTypeOK, NoJobStranded, CycleEmptied,
              LaneKnown, FlagFirst, InEngine, On
<1> QED BY <1>1, OwnerIInv, CallsIInv, StagesIInv, ClosingIInv DEF Happens

(* A stage of a driver's cycle, wherever it comes from.                    *)
LEMMA DriverHappens ==
  ASSUME NEW l \in Lanes,
         DriverLoop(l) \/ \E j \in Jobs : StartJob(l, j)
  PROVE  Happens
<1>1. "ABORTED" \in Codes
  BY EngineAssumption
<1>2. ASSUME NEW j \in Jobs, Report(l, j) \/ StartJob(l, j) PROVE Happens
  BY <1>1, <1>2 DEF Calls, Happens
<1>3. CASE Stages(l)
  BY <1>3 DEF Happens
<1> QED BY <1>2, <1>3 DEF DriverLoop, Stages

LEMMA OwnerHappens ==
  ASSUME NEW j \in Jobs, NEW want \in Wants, NEW js \in SUBSET Jobs, Owner(j, want, js)
  PROVE  Happens
BY DEF Happens

LEMMA NextHappens == EngineIInv /\ [EngineNext]_engineVars => Happens
<1> SUFFICES ASSUME EngineIInv, [EngineNext]_engineVars PROVE Happens
  OBVIOUS
<1>1. ASSUME NEW j \in Jobs,
             AssignLane(j, Unset) \/ Enqueue(j) \/ FnDone(j) \/ Due(j) \/ SetFlag({j})
      PROVE  Happens
  <2>1. lane[j] \in Wants /\ Unset \in Wants /\ {j} \in SUBSET Jobs
    BY DEF EngineIInv, EngineTypeOK, Wants
  <2>2. Owner(j, Unset, {j}) \/ Owner(j, lane[j], {j})
    BY <1>1 DEF FnDone, Owner
  <2> QED BY <2>1, <2>2, OwnerHappens
<1>2. ASSUME NEW l \in Lanes, DriverLoop(l) PROVE Happens
  BY <1>2, DriverHappens
<1>3. ASSUME NEW l \in Lanes, NEW j \in Jobs, Start(l, j) PROVE Happens
  <2>1. ASSUME NEW c \in Codes, StartFails(l, j, c) PROVE Happens
    BY <2>1 DEF Calls, Happens
  <2> QED BY <1>3, <2>1, DriverHappens DEF Start
<1>4. ASSUME NEW l \in Lanes, NEW j \in Jobs, NEW c \in Codes, Completes(l, j, c)
      PROVE  Happens
  BY <1>4 DEF Calls, Happens
<1>5. CASE Shutdown \/ ShutdownJoin \/ UNCHANGED engineVars
  BY <1>5 DEF Happens
<1> QED BY <1>1, <1>2, <1>3, <1>4, <1>5 DEF EngineNext

LEMMA Invariance == EngineSpec => []EngineIInv
<1> QED BY EngineInitIInv, NextHappens, HappensIInv, PTL DEF EngineSpec

(* Every variable of the engine keeps its type.                            *)
THEOREM EngineTypeCorrect == EngineSpec => []EngineTypeOK
<1>1. EngineIInv => EngineTypeOK
  BY DEF EngineIInv
<1> QED BY <1>1, Invariance, PTL

(* No job is ever in the queues of a lane whose driver has left its loop.  *)
THEOREM NothingStranded == EngineSpec => []NoJobStranded
<1>1. EngineIInv => NoJobStranded
  BY DEF EngineIInv
<1> QED BY <1>1, Invariance, PTL

(* No job survives a cycle in the local vectors of its driver.             *)
THEOREM VectorsEmptied == EngineSpec => []CycleEmptied
<1>1. EngineIInv => CycleEmptied
  BY DEF EngineIInv
<1> QED BY <1>1, Invariance, PTL

-----------------------------------------------------------------------------
(* The refinement: each step of the engine is a step of ChunkService.      *)

(* What its owner sees of a job, and of the engine.                        *)
seen == [j \in Jobs |-> IF ~InEngine(j) THEN "idle"
                        ELSE IF place[j] = "calling" THEN "reported"
                        ELSE "accepted"]
open == IF ~bShutdown THEN "open"
        ELSE IF closer = "joined" THEN "closed" ELSE "closing"

(* A step that moves no job between owner, engine and fnDone is a stutter. *)
LEMMA Unseen ==
  ASSUME UNCHANGED <<bShutdown, closer>>,
         \A j \in Jobs :
           /\ InEngine(j)' <=> InEngine(j)
           /\ place'[j] = "calling" <=> place[j] = "calling"
  PROVE  UNCHANGED <<seen, open>>
<1>1. seen' = seen
  BY DEF seen
<1>2. open' = open
  BY DEF open
<1> QED BY <1>1, <1>2

LEMMA OwnerRefines ==
  ASSUME EngineIInv, NEW j \in Jobs, NEW want, NEW js, Owner(j, want, js)
  PROVE  Service!Next \/ UNCHANGED <<seen, open>>
<1>0. place \in [Jobs -> Places] /\ closer \in {"open", "joining", "joined"}
  BY DEF EngineIInv, EngineTypeOK
<1> USE DEF InEngine, Places
<1>1. ASSUME Enqueue(j), ~bShutdown PROVE Service!Accept(j)
  BY <1>0, <1>1 DEF Enqueue, seen, open, Service!Accept
<1>2. ASSUME SubmitChunkDelayed(j, want) PROVE Service!Accept(j)
  BY <1>0, <1>2 DEF SubmitChunkDelayed, seen, open, Service!Accept
<1>3. ASSUME FnDoneReturns(j) PROVE Service!Release(j)
  BY <1>0, <1>3 DEF FnDoneReturns, seen, open, Service!Release
<1>4. ASSUME Enqueue(j), bShutdown PROVE UNCHANGED <<seen, open>>
  BY <1>0, <1>4, Unseen DEF Enqueue
<1>5. ASSUME AssignLane(j, want) \/ Due(j) \/ SetFlag(js) PROVE UNCHANGED <<seen, open>>
  BY <1>0, <1>5, Unseen DEF AssignLane, Due, SetFlag
<1> HIDE DEF InEngine, Places
<1> QED BY <1>1, <1>2, <1>3, <1>4, <1>5 DEF Owner, Service!Next

LEMMA CallsRefine ==
  ASSUME EngineIInv, NEW l \in Lanes, NEW j \in Jobs, NEW c, Calls(l, j, c)
  PROVE  Service!Next \/ UNCHANGED <<seen, open>>
<1>0. place \in [Jobs -> Places]
  BY DEF EngineIInv, EngineTypeOK
<1> USE DEF InEngine, Places
<1>1. ASSUME StartFails(l, j, c) \/ Completes(l, j, c) \/ Report(l, j)
      PROVE  Service!Report(j)
  <2>1. /\ place[j] \in {"start", "active", "aborted", "canceled"}
        /\ place' = [place EXCEPT ![j] = "calling"]
        /\ UNCHANGED <<bShutdown, closer>>
    BY <1>1 DEF StartFails, Completes, Report, InvokeDone, On
  <2> QED BY <1>0, <2>1 DEF seen, open, Service!Report
<1>2. ASSUME StartJob(l, j) PROVE UNCHANGED <<seen, open>>
  BY <1>0, <1>2, Unseen DEF StartJob, On
<1> HIDE DEF InEngine, Places
<1> QED BY <1>1, <1>2 DEF Calls, Service!Next

LEMMA StagesRefine ==
  ASSUME EngineIInv, NEW l \in Lanes, Stages(l)
  PROVE  UNCHANGED <<seen, open>>
<1>0. place \in [Jobs -> Places]
  BY DEF EngineIInv, EngineTypeOK
<1> USE DEF InEngine, Places
<1>1. CASE Drain(l)
  BY <1>0, <1>1, Unseen DEF Drain, On
<1>2. CASE AbortActive(l)
  BY <1>0, <1>2, Unseen DEF AbortActive, Moved, On
<1>3. CASE StartEnds(l) \/ PerformEnds(l) \/ ReportEnds(l) \/ ExitOrLoop(l)
  BY <1>3, Unseen DEF StartEnds, PerformEnds, ReportEnds, ExitOrLoop
<1> QED BY <1>1, <1>2, <1>3 DEF Stages

LEMMA ClosingRefines ==
  ASSUME EngineIInv, Shutdown \/ ShutdownJoin
  PROVE  Service!Next
<1>0. place \in [Jobs -> Places] /\ closer \in {"open", "joining", "joined"}
  BY DEF EngineIInv, EngineTypeOK
<1>1. ASSUME Shutdown PROVE Service!Close
  BY <1>0, <1>1 DEF Shutdown, seen, open, InEngine, Service!Close, EngineIInv, FlagFirst
<1>2. ASSUME ShutdownJoin PROVE Service!Closed
  <2>1. \A j \in Jobs : ~InEngine(j)
    <3> SUFFICES ASSUME NEW j \in Jobs, InEngine(j) PROVE FALSE
      OBVIOUS
    <3>1. lane[j] \in Lanes
      BY DEF EngineIInv, LaneKnown, InEngine
    <3>2. phase[lane[j]] = "exited"
      BY <1>2, <3>1 DEF ShutdownJoin
    <3> QED BY <3>1, <3>2 DEF EngineIInv, NoJobStranded
  <2>2. bShutdown
    BY <1>2 DEF ShutdownJoin, EngineIInv, FlagFirst
  <2> QED BY <1>0, <1>2, <2>1, <2>2 DEF ShutdownJoin, seen, open, InEngine, Service!Closed
<1> QED BY <1>1, <1>2 DEF Service!Next

LEMMA HappensRefines == EngineIInv /\ Happens => [Service!Next]_<<seen, open>>
<1> SUFFICES ASSUME EngineIInv, Happens PROVE Service!Next \/ UNCHANGED <<seen, open>>
  BY DEF seen, open
<1>1. CASE UNCHANGED engineVars
  BY <1>1, Unseen DEF engineVars, InEngine
<1> QED BY <1>1, OwnerRefines, CallsRefine, StagesRefine, ClosingRefines DEF Happens

LEMMA InitRefines == EngineInit => Service!Init
  BY DEF EngineInit, Service!Init, InEngine

(* Every accepted job is reported once, whatever the drivers do, and the   *)
(* engine is closed only over an empty house: it behaves as ChunkService.  *)
THEOREM RefinesService == EngineSpec => ImplementsService
<1> QED BY InitRefines, Invariance, NextHappens, HappensRefines, PTL
        DEF EngineSpec, ImplementsService, Service!Spec, seen, open

-----------------------------------------------------------------------------
(* The download.                                                           *)

(* The chunks that are submitted and not finished.                         *)
Out == {c \in Jobs : place[c] # "client"}

OwnTypes ==
  /\ use_range \in BOOLEAN
  /\ success \in SUBSET Jobs
  /\ attempt \in [Jobs -> 0..2]
  /\ dwLane \in [Jobs -> Lanes \cup {Unset}]
  /\ http \in [Jobs -> {0, 200, 206, 404}]
  /\ stream \in [Jobs -> 0..(ThreadNum * ChunkLen)]
  /\ wrong \in SUBSET Jobs
  /\ range_denied \in BOOLEAN
  /\ m_cancel \in BOOLEAN
  /\ external \in BOOLEAN
  /\ main \in {"begin", "submit", "push", "writeback", "decide", "done", "failed"}

Counted == nChunksLeft = Cardinality(Out)
Alone   == main \in {"begin", "decide", "done", "failed"} => Out = {}

(* The thread's place in its loop over the chunks.                         *)
CurKnown ==
  /\ cur \in 1..(ThreadNum + 1)
  /\ main \in {"push", "writeback"} => cur \in Chunks

(* The file has no more of a chunk than belongs to it, and a body that was *)
(* asked for from an offset is read in step with it.                       *)
Placed ==
  /\ offset \in [Jobs -> 0..PartLen]
  /\ \A c \in Jobs : use_range /\ place[c] = "active" => stream[c] = offset[c]

(* The inductive invariant: besides the two properties and the engine's    *)
(* own invariant, the last two conjuncts.                                  *)
Rest == OwnTypes /\ Counted /\ Alone /\ CurKnown /\ Placed /\ SuccessIsFull
TransferIInv == EngineIInv /\ Rest

-----------------------------------------------------------------------------
(* The numbers.                                                            *)

LEMMA Sizes ==
  /\ ThreadNum * ChunkLen \in Nat \ {0}
  /\ ChunkLen \in Nat \ {0}
  /\ ChunkLen <= ThreadNum * ChunkLen
<1>1. ThreadNum \in Nat \ {0} /\ ChunkLen \in Nat \ {0}
  BY TransferAssumption
<1>2. PICK n \in Nat : ThreadNum = n + 1
  <2>1. ThreadNum - 1 \in Nat /\ ThreadNum = (ThreadNum - 1) + 1
    BY <1>1
  <2> QED BY <2>1
<1>3. n * ChunkLen \in Nat
  BY <1>1, <1>2
<1>4. ThreadNum * ChunkLen = n * ChunkLen + ChunkLen
  BY <1>1, <1>2
<1> QED BY <1>1, <1>3, <1>4

LEMMA PartLenType == use_range \in BOOLEAN => /\ PartLen \in Nat \ {0}
                                              /\ PartLen <= ThreadNum * ChunkLen
BY Sizes DEF PartLen

LEMMA ChunksAreJobs == Chunks \subseteq Jobs /\ Jobs = 1..ThreadNum
BY TransferAssumption DEF Chunks

LEMMA OutFinite ==
  /\ IsFiniteSet(Out) /\ Cardinality(Out) \in 0..ThreadNum
  /\ Cardinality(Out) = 0 <=> Out = {}
<1>1. IsFiniteSet(Jobs) /\ Cardinality(Jobs) = ThreadNum
  BY TransferAssumption, FS_Interval
<1>2. Out \subseteq Jobs
  BY DEF Out
<1>3. IsFiniteSet(Out) /\ Cardinality(Out) <= ThreadNum
  BY <1>1, <1>2, FS_Subset
<1> QED BY <1>3, FS_CardinalityType, FS_EmptySet, TransferAssumption

(* One chunk comes in, or goes out.                                        *)
LEMMA CountIn ==
  ASSUME Counted, NEW c \in Jobs, place[c] = "client", place \in [Jobs -> Places],
         place' = [place EXCEPT ![c] = "submitting"], nChunksLeft' = nChunksLeft + 1
  PROVE  Counted'
<1>1. Out' = Out \cup {c} /\ c \notin Out
  BY DEF Out
<1> QED BY <1>1, OutFinite, FS_AddElement DEF Counted

LEMMA CountOut ==
  ASSUME Counted, NEW c \in Jobs, place[c] # "client", place \in [Jobs -> Places],
         place' = [place EXCEPT ![c] = "client"], nChunksLeft' = nChunksLeft - 1
  PROVE  Counted' /\ (Out = {} => Out' = {})
<1>1. Out' = Out \ {c} /\ c \in Out
  BY DEF Out
<1> QED BY <1>1, OutFinite, FS_RemoveElement DEF Counted

(* A step that takes no chunk from its owner and gives none back.          *)
LEMMA CountSame ==
  ASSUME Counted, nChunksLeft' = nChunksLeft,
         \A c \in Jobs : place'[c] = "client" <=> place[c] = "client"
  PROVE  Counted' /\ Out' = Out
<1>1. Out' = Out
  BY DEF Out
<1> QED BY <1>1 DEF Counted

-----------------------------------------------------------------------------
LEMMA InitIInv == Init => TransferIInv
<1> SUFFICES ASSUME Init PROVE TransferIInv
  OBVIOUS
<1>1. EngineIInv
  BY EngineInitIInv DEF Init
<1>2. Out = {}
  BY DEF Init, EngineInit, Out
<1>3. Counted /\ Alone
  BY <1>2, OutFinite DEF Counted, Alone, Init
<1>4. OwnTypes
  <2>1. 0 \in 0..(ThreadNum * ChunkLen) /\ 0 \in 0..2
    BY Sizes
  <2> QED BY <2>1 DEF Init, OwnTypes
<1>5. CurKnown
  BY TransferAssumption DEF Init, CurKnown
<1>6. Placed
  BY Sizes DEF Init, EngineInit, Placed, PartLen
<1>7. SuccessIsFull
  BY DEF Init, SuccessIsFull
<1> QED BY <1>1, <1>3, <1>4, <1>5, <1>6, <1>7 DEF TransferIInv, Rest

(* The thread in Download_Task.                                            *)
LEMMA ThreadStep == TransferIInv /\ DownloadTask => Rest'
<1> SUFFICES ASSUME TransferIInv, DownloadTask PROVE Rest'
  OBVIOUS
<1>0. place \in [Jobs -> Places] /\ lane \in [Jobs -> Lanes \cup {Unset}]
  BY DEF TransferIInv, EngineIInv, EngineTypeOK
<1>a. /\ ThreadNum \in Nat \ {0} /\ Jobs = 1..ThreadNum
      /\ Chunks \subseteq Jobs /\ 1 \in Jobs
  BY TransferAssumption, ChunksAreJobs
<1> USE DEF TransferIInv, Rest
<1> USE DEF OwnTypes, CurKnown, Chunks
<1>1. CASE Begin
  <2>1. Counted' /\ Alone'
    BY <1>1 DEF Begin, engineVars, Counted, Alone, Out
  <2>2. Placed' /\ SuccessIsFull'
    BY <1>1 DEF Begin, engineVars, chunkVars, Placed, PartLen, SuccessIsFull, Full
  <2>3. OwnTypes' /\ CurKnown'
    BY <1>1 DEF Begin, chunkVars
  <2> QED BY <2>1, <2>2, <2>3
<1>2. CASE SkipChunk
  <2>1. Counted' /\ Alone'
    BY <1>2 DEF SkipChunk, Advance, engineVars, Counted, Alone, Out
  <2>2. Placed' /\ SuccessIsFull'
    BY <1>2 DEF SkipChunk, Advance, engineVars, chunkVars, Placed, PartLen,
                SuccessIsFull, Full
  <2>3. OwnTypes' /\ CurKnown'
    BY <1>2, <1>a DEF SkipChunk, Advance, chunkVars
  <2> QED BY <2>1, <2>2, <2>3
<1>3. CASE SubmitChunk
  <2>0. cur \in Jobs
    BY <1>3, <1>a DEF SubmitChunk
  <2>1. Counted' /\ Alone'
    BY <1>0, <1>3, <2>0, CountIn DEF SubmitChunk, AssignLane, Alone
  <2>2. Placed' /\ SuccessIsFull'
    BY <1>0, <1>3, <2>0 DEF SubmitChunk, AssignLane, Placed, PartLen, SuccessIsFull, Full
  <2>3. OwnTypes' /\ CurKnown'
    BY <1>3, <2>0 DEF SubmitChunk
  <2> QED BY <2>1, <2>2, <2>3
<1>4. CASE SubmitStopped
  <2>0. cur \in Jobs
    BY <1>4, <1>a DEF SubmitStopped
  <2>1. Counted' /\ Alone'
    BY <1>4 DEF SubmitStopped, Advance, engineVars, Counted, Alone, Out
  <2>2. Placed' /\ SuccessIsFull'
    BY <1>4 DEF SubmitStopped, Advance, engineVars, Placed, PartLen, SuccessIsFull, Full
  <2>3. OwnTypes' /\ CurKnown'
    BY <1>4, <1>a, <2>0 DEF SubmitStopped, Advance
  <2> QED BY <2>1, <2>2, <2>3
<1>5. CASE PushChunk
  <2>0. cur \in Jobs
    BY <1>5, <1>a DEF PushChunk
  <2>1. Counted' /\ Alone'
    <3>1. CASE bShutdown
      BY <1>0, <1>5, <2>0, <3>1, CountOut DEF PushChunk, Advance, Enqueue, Alone
    <3>2. CASE ~bShutdown
      BY <1>0, <1>5, <2>0, <3>2, CountSame DEF PushChunk, Enqueue, Alone
    <3> QED BY <3>1, <3>2
  <2>2. Placed' /\ SuccessIsFull'
    BY <1>0, <1>5, <2>0 DEF PushChunk, Advance, Enqueue, chunkVars, Placed, PartLen,
                            SuccessIsFull, Full
  <2>3. OwnTypes' /\ CurKnown'
    BY <1>0, <1>5, <1>a, <2>0 DEF PushChunk, Advance, chunkVars
  <2> QED BY <2>1, <2>2, <2>3
<1>6. CASE WriteLaneBack
  <2>0. cur \in Jobs
    BY <1>6, <1>a DEF WriteLaneBack
  <2>1. Counted' /\ Alone'
    BY <1>6 DEF WriteLaneBack, Advance, engineVars, Counted, Alone, Out
  <2>2. Placed' /\ SuccessIsFull'
    BY <1>6 DEF WriteLaneBack, Advance, engineVars, chunkVars, Placed, PartLen,
                SuccessIsFull, Full
  <2>3. OwnTypes' /\ CurKnown'
    BY <1>0, <1>6, <1>a, <2>0 DEF WriteLaneBack, Advance, chunkVars
  <2> QED BY <2>1, <2>2, <2>3
<1>7. CASE WaitChunks
  <2>1. Counted' /\ Alone'
    <3>1. Out = {}
      BY <1>7, OutFinite DEF WaitChunks, Counted
    <3> QED BY <1>7, <3>1 DEF WaitChunks, engineVars, Counted, Alone, Out
  <2>2. Placed' /\ SuccessIsFull'
    BY <1>7 DEF WaitChunks, engineVars, chunkVars, Placed, PartLen, SuccessIsFull, Full
  <2>3. OwnTypes' /\ CurKnown'
    BY <1>7 DEF WaitChunks, chunkVars
  <2> QED BY <2>1, <2>2, <2>3
<1>8. CASE Degrade
  <2>1. Counted' /\ Alone'
    BY <1>8 DEF Degrade, engineVars, Counted, Alone, Out
  <2>2. Placed' /\ SuccessIsFull'
    BY <1>8, Sizes DEF Degrade, engineVars, Placed, PartLen, SuccessIsFull, Full
  <2>3. OwnTypes' /\ CurKnown'
    <3>1. 0 \in 0..(ThreadNum * ChunkLen) /\ 0 \in 0..2
      BY Sizes
    <3>2. UNCHANGED <<http, external, m_cancel>> /\ range_denied' = FALSE
      BY <1>8 DEF Degrade
    <3>3. CASE use_range' = FALSE /\ cur' = 1 /\ main' = "submit"
      <4>1. /\ success' = {} /\ wrong' = {} /\ attempt' = [c \in Jobs |-> 0]
            /\ dwLane' = [c \in Jobs |-> Unset] /\ stream' = [c \in Jobs |-> 0]
        BY <1>8, <3>3 DEF Degrade
      <4>2. /\ attempt' \in [Jobs -> 0..2] /\ dwLane' \in [Jobs -> Lanes \cup {Unset}]
            /\ stream' \in [Jobs -> 0..(ThreadNum * ChunkLen)]
        BY <3>1, <4>1
      <4>3. OwnTypes'
        BY <3>2, <3>3, <4>1, <4>2
      <4>4. CurKnown'
        BY <1>a, <3>3
      <4> QED BY <4>3, <4>4
    <3>4. CASE /\ main' = "failed"
               /\ UNCHANGED <<use_range, offset, success, attempt, dwLane, stream, wrong, cur>>
      BY <3>2, <3>4
    <3> QED BY <1>8, <3>3, <3>4 DEF Degrade
  <2> QED BY <2>1, <2>2, <2>3
<1>9. CASE Decide
  <2>1. Counted' /\ Alone'
    BY <1>9 DEF Decide, engineVars, Counted, Alone, Out
  <2>2. Placed' /\ SuccessIsFull'
    BY <1>9 DEF Decide, engineVars, chunkVars, Placed, PartLen, SuccessIsFull, Full,
                AllOk, Verified
  <2>3. OwnTypes' /\ CurKnown'
    BY <1>9 DEF Decide, chunkVars
  <2> QED BY <2>1, <2>2, <2>3
<1> QED BY <1>1, <1>2, <1>3, <1>4, <1>5, <1>6, <1>7, <1>8, <1>9 DEF DownloadTask

(* What changes nothing but the engine, and moves no chunk between it and  *)
(* its owner.                                                              *)
LEMMA EngineOnly ==
  ASSUME TransferIInv, UNCHANGED otherThanEngine,
         \A c \in Jobs : /\ place'[c] = "client" <=> place[c] = "client"
                         /\ place'[c] = "active" => place[c] = "active"
  PROVE  Rest'
<1> USE DEF TransferIInv, Rest, otherThanEngine, taskVars, chunkVars
<1>1. Counted' /\ Alone'
  BY CountSame DEF Alone
<1>2. Placed' /\ SuccessIsFull'
  BY DEF Placed, PartLen, SuccessIsFull, Full, AllOk, Verified, Chunks
<1>3. OwnTypes' /\ CurKnown'
  BY DEF OwnTypes, CurKnown, Chunks
<1> QED BY <1>1, <1>2, <1>3

LEMMA LaneStep == ASSUME TransferIInv, NEW l \in Lanes, Lane(l) PROVE Rest'
<1>0. place \in [Jobs -> Places]
  BY DEF TransferIInv, EngineIInv, EngineTypeOK
<1>1. CASE DriverLoop(l) /\ UNCHANGED otherThanEngine
  <2>1. CASE Drain(l)
    BY <1>0, <1>1, <2>1, EngineOnly DEF Drain, On, Places
  <2>2. CASE AbortActive(l)
    BY <1>0, <1>1, <2>2, EngineOnly DEF AbortActive, Moved, On, Places
  <2>3. CASE StartEnds(l) \/ PerformEnds(l) \/ ReportEnds(l) \/ ExitOrLoop(l)
    BY <1>1, <2>3, EngineOnly DEF StartEnds, PerformEnds, ReportEnds, ExitOrLoop
  <2>4. ASSUME NEW j \in Jobs, Report(l, j) PROVE Rest'
    BY <1>0, <1>1, <2>4, EngineOnly DEF Report, InvokeDone, On
  <2> QED BY <1>1, <2>1, <2>2, <2>3, <2>4 DEF DriverLoop
<1>2. ASSUME NEW c \in Jobs, StartChunk(l, c) PROVE Rest'
  <2> USE DEF TransferIInv, Rest
  <2>1. Counted' /\ Alone'
    BY <1>0, <1>2, CountSame DEF StartChunk, StartJob, On, Alone, taskVars
  <2>2. Placed'
    BY <1>0, <1>2, PartLenType DEF StartChunk, StartJob, On, taskVars, Placed, PartLen,
       OwnTypes
  <2>3. SuccessIsFull'
    BY <1>2 DEF StartChunk, taskVars, SuccessIsFull, PartLen, Full, AllOk, Verified, Chunks
  <2>4. stream' \in [Jobs -> 0..(ThreadNum * ChunkLen)]
    BY <1>2, Sizes, PartLenType DEF StartChunk, OwnTypes, Placed
  <2>5. OwnTypes' /\ CurKnown'
    BY <1>2, <2>4 DEF StartChunk, taskVars, OwnTypes, CurKnown, Chunks
  <2> QED BY <2>1, <2>2, <2>3, <2>5
<1>3. ASSUME NEW c \in Jobs, NEW res \in Codes, StartFails(l, c, res),
             UNCHANGED otherThanEngine
      PROVE  Rest'
  BY <1>0, <1>3, EngineOnly DEF StartFails, InvokeDone, On
<1> QED BY <1>1, <1>2, <1>3 DEF Lane

(* The end of fnDone: the chunk is counted out.  It is full if it is       *)
(* marked successful.                                                      *)
LEMMA Finishes ==
  ASSUME TransferIInv, NEW c \in Jobs, NEW ok \in BOOLEAN, FinishChunk(c, ok),
         ok => Full(c),
         range_denied' \in BOOLEAN, attempt' \in [Jobs -> 0..2]
  PROVE  Rest'
<1> USE DEF TransferIInv, Rest
<1>0. place \in [Jobs -> Places]
  BY DEF EngineIInv, EngineTypeOK
<1>1. Counted' /\ Alone'
  BY <1>0, CountOut DEF FinishChunk, FnDoneReturns, Alone, taskVars
<1>2. main # "done"
  BY DEF Alone, Out, FinishChunk, FnDoneReturns
<1>3. Placed'
  BY <1>0 DEF FinishChunk, FnDoneReturns, taskVars, Placed, PartLen
<1>4. SuccessIsFull'
  BY <1>2 DEF FinishChunk, taskVars, SuccessIsFull, PartLen, Full, Chunks
<1>5. OwnTypes' /\ CurKnown'
  BY DEF FinishChunk, taskVars, OwnTypes, CurKnown, Chunks
<1> QED BY <1>1, <1>3, <1>4, <1>5

LEMMA DoneStep == ASSUME TransferIInv, NEW c \in Jobs, OnChunkDone(c) PROVE Rest'
<1>0. place \in [Jobs -> Places] /\ attempt \in [Jobs -> 0..2] /\ range_denied \in BOOLEAN
  BY DEF TransferIInv, EngineIInv, EngineTypeOK, Rest, OwnTypes
<1>1. CASE ChunkDenied(c)
  BY <1>0, <1>1, Finishes DEF ChunkDenied
<1>2. CASE ChunkCompleted(c)
  BY <1>0, <1>2, Finishes DEF ChunkCompleted, Completed
<1>3. CASE ChunkGivenUp(c)
  BY <1>0, <1>3, Finishes DEF ChunkGivenUp
<1>4. CASE ChunkRetried(c)
  <2>1. attempt' \in [Jobs -> 0..2] /\ range_denied' \in BOOLEAN
    BY <1>0, <1>4 DEF ChunkRetried, WantsRetry
  <2>2. CASE FinishChunk(c, TRUE) /\ Full(c)
    BY <2>1, <2>2, Finishes
  <2>3. CASE FinishChunk(c, FALSE)
    BY <2>1, <2>3, Finishes
  <2>4. CASE /\ SubmitChunkDelayed(c, dwLane[c])
             /\ http' = [http EXCEPT ![c] = 0]
             /\ UNCHANGED <<offset, success, stream, wrong, taskVars, dwLane,
                            nChunksLeft, m_cancel>>
    <3> USE DEF TransferIInv, Rest
    <3>1. Counted' /\ Alone'
      BY <1>0, <2>4, CountSame DEF SubmitChunkDelayed, Alone, taskVars
    <3>2. Placed' /\ SuccessIsFull'
      BY <1>0, <2>4 DEF SubmitChunkDelayed, taskVars, Placed, PartLen, SuccessIsFull,
                        Full, AllOk, Verified, Chunks
    <3>3. OwnTypes' /\ CurKnown'
      BY <2>1, <2>4 DEF taskVars, OwnTypes, CurKnown, Chunks
    <3> QED BY <3>1, <3>2, <3>3
  <2> QED BY <1>4, <2>2, <2>3, <2>4 DEF ChunkRetried
<1> QED BY <1>1, <1>2, <1>3, <1>4 DEF OnChunkDone

(* One byte of a body.                                                     *)
LEMMA WriteStep == ASSUME TransferIInv, NEW c \in Jobs, Write(c) PROVE Rest'
<1> USE DEF TransferIInv, Rest
<1>0. /\ use_range \in BOOLEAN /\ PartLen \in Nat \ {0} /\ PartLen' = PartLen
      /\ PartLen <= ThreadNum * ChunkLen /\ ThreadNum * ChunkLen \in Nat \ {0}
      /\ Chunks' = Chunks
  BY PartLenType, Sizes DEF OwnTypes, Write, taskVars, PartLen, Chunks
<1>1. Counted' /\ Alone' /\ main # "done"
  BY CountSame DEF Write, engineVars, taskVars, Counted, Alone, Out, Transfers
<1>2. /\ use_range => http[c] = 206
      /\ (Is2xx(c) /\ stream[c] < PartLen) \/ stream[c] = 0
  BY DEF Write, IsDenied, Is2xx
<1>3. offset \in [Jobs -> 0..PartLen] /\ stream \in [Jobs -> 0..(ThreadNum * ChunkLen)]
  BY DEF Placed, OwnTypes
<1>4. /\ stream' = [stream EXCEPT ![c] = @ + 1]
      /\ place' = place /\ place[c] = "active"
      /\ UNCHANGED <<http, success, attempt, dwLane, use_range, external, main, cur,
                     range_denied, m_cancel>>
  BY DEF Write, taskVars, engineVars, Transfers
<1>5. stream' \in [Jobs -> 0..(ThreadNum * ChunkLen)]
  BY <1>0, <1>2, <1>3, <1>4
<1>6. CASE Full(c)
  <2>1. UNCHANGED <<offset, wrong>>
    BY <1>6 DEF Write
  <2>2. ~use_range
    <3>1. use_range => stream[c] = offset[c]
      BY <1>4 DEF Placed
    <3>2. use_range => stream[c] < PartLen
      BY <1>0, <1>2, <1>3
    <3> QED BY <1>0, <1>3, <1>6, <3>1, <3>2 DEF Full
  <2>3. Placed' /\ SuccessIsFull'
    BY <1>0, <1>1, <1>3, <1>4, <2>1, <2>2 DEF Placed, SuccessIsFull, Full
  <2>4. OwnTypes' /\ CurKnown'
    BY <1>4, <1>5, <2>1 DEF OwnTypes, CurKnown, Chunks
  <2> QED BY <1>1, <2>3, <2>4
<1>7. CASE ~Full(c)
  <2>1. /\ offset' = [offset EXCEPT ![c] = @ + 1]
        /\ wrong' = IF Is2xx(c) /\ stream[c] = offset[c] THEN wrong ELSE wrong \cup {c}
    BY <1>7 DEF Write
  <2>2. offset' \in [Jobs -> 0..PartLen]
    BY <1>0, <1>3, <1>7, <2>1 DEF Full
  <2>3. use_range => stream[c] = offset[c] /\ wrong' = {}
    BY <1>2, <1>4, <2>1 DEF Placed, SuccessIsFull, Is2xx
  <2>4. Placed'
    BY <1>0, <1>3, <1>4, <2>1, <2>2, <2>3 DEF Placed
  <2>5. SuccessIsFull'
    <3>1. \A d \in success : d \in Chunks => Full(d)'
      BY <1>0, <1>3, <1>7, <2>1 DEF SuccessIsFull, Full, OwnTypes
    <3> QED BY <1>0, <1>1, <1>4, <2>3, <3>1 DEF SuccessIsFull
  <2>6. wrong' \in SUBSET Jobs
    BY <2>1 DEF OwnTypes
  <2>7. OwnTypes' /\ CurKnown'
    BY <1>4, <1>5, <2>6 DEF OwnTypes, CurKnown, Chunks
  <2> QED BY <1>1, <2>4, <2>5, <2>7
<1> QED BY <1>6, <1>7

LEMMA EnvironmentStep == TransferIInv /\ Environment => Rest'
<1> SUFFICES ASSUME TransferIInv, Environment PROVE Rest'
  OBVIOUS
<1>0. place \in [Jobs -> Places]
  BY DEF TransferIInv, EngineIInv, EngineTypeOK
<1>1. ASSUME NEW c \in Jobs, NEW status \in {200, 206, 404}, Header(c, status) PROVE Rest'
  <2> USE DEF TransferIInv, Rest, Header, taskVars, engineVars
  <2>1. Counted' /\ Alone'
    BY <1>1 DEF Counted, Alone, Out
  <2>2. Placed' /\ SuccessIsFull'
    BY <1>1 DEF Placed, PartLen, SuccessIsFull, Full, AllOk, Verified, Chunks
  <2>3. OwnTypes' /\ CurKnown'
    BY <1>1 DEF OwnTypes, CurKnown, Chunks
  <2> QED BY <2>1, <2>2, <2>3
<1>2. ASSUME NEW c \in Jobs, NEW res \in Codes, Ends(c, res) PROVE Rest'
  BY <1>0, <1>2, EngineOnly DEF Ends, Transfers, Completes, InvokeDone
<1>3. ASSUME NEW c \in Jobs, Progress(c) PROVE Rest'
  <2> USE DEF TransferIInv, Rest, Progress, taskVars, engineVars, chunkVars
  <2>1. Counted' /\ Alone'
    BY <1>3 DEF Counted, Alone, Out
  <2>2. Placed' /\ SuccessIsFull'
    BY <1>3 DEF Placed, PartLen, SuccessIsFull, Full, AllOk, Verified, Chunks
  <2>3. OwnTypes' /\ CurKnown'
    BY <1>3 DEF OwnTypes, CurKnown, Chunks
  <2> QED BY <2>1, <2>2, <2>3
<1>4. CASE Cancel
  <2> USE DEF TransferIInv, Rest, Cancel, SetFlag, taskVars, chunkVars
  <2>1. Counted' /\ Alone'
    BY <1>4 DEF Counted, Alone, Out
  <2>2. Placed' /\ SuccessIsFull'
    BY <1>4 DEF Placed, PartLen, SuccessIsFull, Full, AllOk, Verified, Chunks
  <2>3. m_cancel' \in BOOLEAN
    BY <1>4 DEF OwnTypes
  <2>4. OwnTypes' /\ CurKnown'
    BY <1>4, <2>3 DEF OwnTypes, CurKnown, Chunks
  <2> QED BY <2>1, <2>2, <2>4
<1>5. CASE Shutdown /\ UNCHANGED otherThanEngine
  BY <1>5, EngineOnly DEF Shutdown
<1> QED BY <1>1, <1>2, <1>3, <1>4, <1>5, WriteStep DEF Environment

-----------------------------------------------------------------------------
(* Each step is one of the engine's, or leaves the engine alone.           *)
LEMMA TransferHappens == TransferIInv /\ [Next]_vars => Happens
<1> SUFFICES ASSUME TransferIInv, [Next]_vars PROVE Happens
  OBVIOUS
<1>0. EngineIInv /\ Chunks \subseteq Jobs /\ Unset \in Wants /\ Jobs # {}
  BY ChunksAreJobs, TransferAssumption DEF TransferIInv, Wants
<1>1. UNCHANGED engineVars => Happens
  BY DEF Happens
<1>2. CASE DownloadTask
  <2>1. CASE SubmitChunk
    <3>1. cur \in Jobs /\ Owner(cur, Unset, {})
      BY <1>0, <2>1 DEF SubmitChunk, Owner
    <3> QED BY <1>0, <3>1, OwnerHappens
  <2>2. CASE PushChunk
    <3>1. cur \in Jobs /\ Owner(cur, Unset, {})
      BY <1>0, <2>2 DEF PushChunk, TransferIInv, Rest, CurKnown, Owner
    <3> QED BY <1>0, <3>1, OwnerHappens
  <2> QED BY <1>1, <1>2, <2>1, <2>2
          DEF DownloadTask, Begin, SkipChunk, SubmitStopped, WriteLaneBack, WaitChunks,
              Degrade, Decide
<1>3. ASSUME NEW l \in Lanes, Lane(l) PROVE Happens
  <2>1. ASSUME NEW c \in Jobs, NEW res \in Codes, StartFails(l, c, res) PROVE Happens
    BY <2>1 DEF Calls, Happens
  <2> QED BY <1>3, <2>1, DriverHappens DEF Lane, StartChunk
<1>4. ASSUME NEW c \in Jobs, OnChunkDone(c) PROVE Happens
  <2>1. Owner(c, dwLane[c], {})
    BY <1>4 DEF OnChunkDone, ChunkDenied, ChunkCompleted, ChunkGivenUp, ChunkRetried,
                FinishChunk, Owner
  <2>2. dwLane[c] \in Wants
    BY DEF TransferIInv, Rest, OwnTypes, Wants
  <2> QED BY <2>1, <2>2, OwnerHappens
<1>5. ASSUME NEW c \in Jobs, Retries(c) PROVE Happens
  <2>1. Owner(c, Unset, {})
    BY <1>5 DEF Retries, Owner
  <2> QED BY <1>0, <2>1, OwnerHappens
<1>6. CASE Environment
  <2>1. ASSUME NEW c \in Jobs, NEW res \in Codes, Ends(c, res) PROVE Happens
    <3>1. lane[c] \in Lanes
      BY <1>0, <2>1 DEF Ends, Transfers, EngineIInv, LaneKnown
    <3> QED BY <2>1, <3>1 DEF Ends, Calls, Happens
  <2>2. CASE Cancel
    <3>1. PICK c \in Jobs : Owner(c, Unset, Jobs)
      BY <1>0, <2>2 DEF Cancel, Owner
    <3> QED BY <1>0, <3>1, OwnerHappens
  <2>3. CASE Shutdown
    BY <2>3 DEF Happens
  <2> QED BY <1>1, <1>6, <2>1, <2>2, <2>3 DEF Environment, Header, Write, Progress
<1>7. CASE ShutdownJoin
  BY <1>7 DEF Happens
<1>8. CASE UNCHANGED vars
  BY <1>1, <1>8 DEF vars
<1> QED BY <1>2, <1>3, <1>4, <1>5, <1>6, <1>7, <1>8 DEF Next

LEMMA RestStep == TransferIInv /\ [Next]_vars => Rest'
<1> SUFFICES ASSUME TransferIInv, [Next]_vars PROVE Rest'
  OBVIOUS
<1>1. ASSUME NEW c \in Jobs, Retries(c) PROVE Rest'
  BY <1>1, EngineOnly DEF Retries, Due
<1>2. CASE ShutdownJoin /\ UNCHANGED otherThanEngine
  BY <1>2, EngineOnly DEF ShutdownJoin
<1>3. CASE UNCHANGED vars
  BY <1>3, EngineOnly DEF vars, engineVars, otherThanEngine
<1> QED BY <1>1, <1>2, <1>3, ThreadStep, LaneStep, DoneStep, EnvironmentStep DEF Next

LEMMA TransferInvariance == Spec => []TransferIInv
<1>1. TransferIInv /\ [Next]_vars => TransferIInv'
  BY TransferHappens, HappensIInv, RestStep DEF TransferIInv
<1> QED BY <1>1, InitIInv, PTL DEF Spec

-----------------------------------------------------------------------------
(* m_nChunksLeft is the number of chunks in the engine's hands, and there  *)
(* are none when Download_Task decides, starts over or returns.            *)
THEOREM TaskReturnsAlone == Spec => []ReturnsAlone
<1>1. TransferIInv => ReturnsAlone
  <2> SUFFICES ASSUME TransferIInv PROVE ReturnsAlone
    OBVIOUS
  <2> USE DEF TransferIInv, Rest
  <2>1. nChunksLeft \in 0..ThreadNum
    BY OutFinite DEF Counted
  <2>2. offset \in [Jobs -> 0..(ThreadNum * ChunkLen)]
    BY PartLenType, Sizes DEF Placed, OwnTypes
  <2>3. TypeOK
    BY <2>1, <2>2 DEF TypeOK, OwnTypes, CurKnown, EngineIInv
  <2> QED BY <2>3 DEF ReturnsAlone, Counted, Alone, Out
<1> QED BY <1>1, TransferInvariance, PTL

(* A chunk marked successful has all its bytes, a download that says it is *)
(* done has all its chunks, and Range requests put each byte in its place. *)
THEOREM ChunksFull == Spec => []SuccessIsFull
<1>1. TransferIInv => SuccessIsFull
  BY DEF TransferIInv, Rest
<1> QED BY <1>1, TransferInvariance, PTL

(* What the engine promises its other owners it keeps under this one: no   *)
(* chunk is left in a lane whose driver has gone.                          *)
THEOREM ChunksNotStranded == Spec => []NoJobStranded
<1>1. TransferIInv => NoJobStranded
  BY DEF TransferIInv, EngineIInv
<1> QED BY <1>1, TransferInvariance, PTL

(* And it does behave as ChunkService under a download that submits from   *)
(* its own thread and from its callbacks, and is canceled and shut down at *)
(* any point: the chunks use the engine as its promise is stated for.      *)
THEOREM ServiceUnderDownload == Spec => ImplementsService
<1>1. Init => EngineInit
  BY DEF Init
<1> QED BY <1>1, InitRefines, TransferInvariance, TransferHappens, HappensRefines, PTL
        DEF Spec, TransferIInv, ImplementsService, Service!Spec, seen, open

-----------------------------------------------------------------------------
(* The refinement: each step of the download is a step of Download.        *)

(* What is seen of it.                                                     *)
Total == ThreadNum * ChunkLen
Told  == <<Outcome, Total, Covered, use_range, wrong = {}, m_cancel>>

(* Range was only denied where it was asked for: a download starts over    *)
(* from its parts, never from a stream.                                    *)
DeniedInRange == range_denied => use_range

LEMMA DeniedStep == TransferIInv /\ DeniedInRange /\ [Next]_vars => DeniedInRange'
<1> SUFFICES ASSUME TransferIInv, DeniedInRange, [Next]_vars PROVE DeniedInRange'
  OBVIOUS
<1> USE DEF DeniedInRange, taskVars, otherThanEngine
<1>1. CASE DownloadTask
  BY <1>1 DEF DownloadTask, Begin, SkipChunk, SubmitChunk, SubmitStopped, PushChunk,
              WriteLaneBack, WaitChunks, Degrade, Decide
<1>2. ASSUME NEW l \in Lanes, Lane(l) PROVE DeniedInRange'
  BY <1>2 DEF Lane, StartChunk
<1>3. ASSUME NEW c \in Jobs, OnChunkDone(c) PROVE DeniedInRange'
  BY <1>3 DEF OnChunkDone, ChunkDenied, ChunkCompleted, ChunkGivenUp, ChunkRetried,
              FinishChunk, Denied, IsDenied
<1>4. ASSUME NEW c \in Jobs, Retries(c) PROVE DeniedInRange'
  BY <1>4 DEF Retries
<1>5. CASE Environment
  BY <1>5 DEF Environment, Header, Write, Ends, Progress, Cancel
<1>6. CASE ShutdownJoin /\ UNCHANGED otherThanEngine
  BY <1>6
<1>7. CASE UNCHANGED vars
  BY <1>7 DEF vars
<1> QED BY <1>1, <1>2, <1>3, <1>4, <1>5, <1>6, <1>7 DEF Next

LEMMA DeniedInvariance == Spec => []DeniedInRange
<1>1. Init => DeniedInRange
  BY DEF Init, DeniedInRange
<1> QED BY <1>1, DeniedStep, TransferInvariance, PTL DEF Spec

(* The parts lie in the file, side by side.                                *)
LEMMA Times == \A a, b, q \in Nat : (a + b) * q = a * q + b * q /\ a * q \in Nat
OBVIOUS

LEMMA PartInFile ==
  ASSUME use_range \in BOOLEAN, NEW c \in Chunks
  PROVE  Base(c) \in Nat /\ Base(c) + PartLen <= Total
<1>1. ThreadNum \in Nat \ {0} /\ ChunkLen \in Nat \ {0} /\ Total \in Nat \ {0}
  BY Sizes, TransferAssumption DEF Total
<1>2. CASE use_range
  <2>1. c \in 1..ThreadNum
    BY <1>2, TransferAssumption DEF Chunks
  <2>2. PICK a \in Nat : c = a + 1
    <3>1. c - 1 \in Nat /\ c = (c - 1) + 1
      BY <2>1
    <3> QED BY <3>1
  <2>3. PICK b \in Nat : ThreadNum = (a + 1) + b
    <3>1. ThreadNum - c \in Nat /\ ThreadNum = c + (ThreadNum - c)
      BY <1>1, <2>1
    <3> QED BY <2>2, <3>1
  <2>4. /\ Total = (a + 1) * ChunkLen + b * ChunkLen
        /\ (a + 1) * ChunkLen = a * ChunkLen + 1 * ChunkLen
        /\ a * ChunkLen \in Nat /\ b * ChunkLen \in Nat
    BY <1>1, <2>2, <2>3, Times DEF Total
  <2>5. Base(c) = a * ChunkLen /\ PartLen = ChunkLen
    BY <1>2, <2>2 DEF Base, PartLen
  <2> QED BY <1>1, <2>4, <2>5
<1>3. CASE ~use_range
  <2>1. c = 1 /\ PartLen = Total
    BY <1>3 DEF Chunks, PartLen, Total
  <2>2. Base(c) = 0
    BY <1>1, <2>1 DEF Base
  <2> QED BY <1>1, <2>1, <2>2
<1> QED BY <1>2, <1>3

LEMMA PartOfPlace ==
  ASSUME use_range \in BOOLEAN, NEW p \in 0..(Total - 1)
  PROVE  \E c \in Chunks : \E k \in Nat : k < PartLen /\ p = Base(c) + k
<1>1. ThreadNum \in Nat \ {0} /\ ChunkLen \in Nat \ {0} /\ Total \in Nat \ {0}
  BY Sizes, TransferAssumption DEF Total
<1>2. p \in Nat /\ p < Total
  BY <1>1
<1>3. CASE use_range
  <2>1. PICK d \in Nat : d * ChunkLen <= p /\ p < d * ChunkLen + ChunkLen
    <3>1. /\ p \div ChunkLen \in Nat
          /\ (p \div ChunkLen) * ChunkLen <= p
          /\ p < (p \div ChunkLen) * ChunkLen + ChunkLen
      BY <1>1, <1>2
    <3> QED BY <3>1
  <2>2. d < ThreadNum
    <3> SUFFICES ASSUME d >= ThreadNum PROVE FALSE
      BY <1>1
    <3>1. PICK e \in Nat : d = ThreadNum + e
      <4>1. d - ThreadNum \in Nat /\ d = ThreadNum + (d - ThreadNum)
        BY <1>1
      <4> QED BY <4>1
    <3>2. d * ChunkLen = Total + e * ChunkLen /\ e * ChunkLen \in Nat
      BY <1>1, <3>1, Times DEF Total
    <3> QED BY <1>1, <1>2, <2>1, <3>2
  <2>3. d + 1 \in Chunks
    BY <1>1, <1>3, <2>2, TransferAssumption DEF Chunks
  <2>4. d * ChunkLen \in Nat
    BY <1>1, Times
  <2>5. Base(d + 1) = d * ChunkLen /\ PartLen = ChunkLen
    BY <1>3 DEF Base, PartLen
  <2>6. p - d * ChunkLen \in Nat /\ p - d * ChunkLen < PartLen
        /\ p = Base(d + 1) + (p - d * ChunkLen)
    BY <1>1, <1>2, <2>1, <2>4, <2>5
  <2> QED BY <2>3, <2>6
<1>4. CASE ~use_range
  <2>1. 1 \in Chunks /\ PartLen = Total
    BY <1>4 DEF Chunks, PartLen, Total
  <2>2. Base(1) = 0
    BY <1>1, <2>1 DEF Base
  <2> QED BY <1>2, <2>1, <2>2
<1> QED BY <1>3, <1>4

(* What is written is in the file; with every part full, it is the file.   *)
LEMMA CoveredPlaces ==
  TransferIInv => /\ Covered \subseteq 0..(Total - 1)
                  /\ Verified => Covered = 0..(Total - 1)
<1> SUFFICES ASSUME TransferIInv
             PROVE  /\ Covered \subseteq 0..(Total - 1)
                    /\ Verified => Covered = 0..(Total - 1)
  OBVIOUS
<1>1. /\ use_range \in BOOLEAN /\ PartLen \in Nat \ {0} /\ Total \in Nat \ {0}
      /\ Chunks \subseteq Jobs /\ offset \in [Jobs -> 0..PartLen]
  BY PartLenType, Sizes, ChunksAreJobs DEF TransferIInv, Rest, OwnTypes, Placed, Total
<1>2. ASSUME NEW p \in Covered PROVE p \in 0..(Total - 1)
  <2>1. PICK c \in Chunks : \E k \in 0..(offset[c] - 1) : p = Base(c) + k
    BY <1>2 DEF Covered
  <2>2. PICK k \in 0..(offset[c] - 1) : p = Base(c) + k
    BY <2>1
  <2>3. offset[c] \in 0..PartLen
    BY <1>1
  <2> QED BY <1>1, <2>2, <2>3, PartInFile
<1>3. ASSUME Verified, NEW p \in 0..(Total - 1) PROVE p \in Covered
  <2>1. PICK c \in Chunks : \E k \in Nat : k < PartLen /\ p = Base(c) + k
    BY <1>1, PartOfPlace
  <2>2. PICK k \in Nat : k < PartLen /\ p = Base(c) + k
    BY <2>1
  <2>3. k \in 0..(offset[c] - 1)
    BY <1>1, <1>3, <2>2 DEF Verified, Full
  <2> QED BY <2>2, <2>3 DEF Covered
<1> QED BY <1>2, <1>3

LEMMA Untold ==
  UNCHANGED <<use_range, offset, wrong, m_cancel>> /\ Outcome' = Outcome => UNCHANGED Told
BY DEF Told, Covered, Chunks, Base, PartLen, Total

LEMMA InitIsDownload == Init => Promise!Init
<1> SUFFICES ASSUME Init PROVE Promise!Init
  OBVIOUS
<1>1. TransferIInv
  BY InitIInv
<1>2. Covered \subseteq 0..(Total - 1) /\ Total \in Nat \ {0}
  BY <1>1, CoveredPlaces, Sizes DEF Total
<1>3. ~use_range => Covered = {}
  <2>1. ASSUME ~use_range PROVE \A c \in Chunks : 0..(offset[c] - 1) = {}
    BY <2>1, ChunksAreJobs DEF Init
  <2> QED BY <2>1 DEF Covered
<1>4. Outcome = "writing"
  BY DEF Init, Outcome
<1> QED BY <1>2, <1>3, <1>4
        DEF Init, Promise!Init, Promise!LaidOut, Promise!Places, Total

LEMMA ThreadIsDownload ==
  TransferIInv /\ DeniedInRange /\ DownloadTask => [Promise!Next]_Told
<1> SUFFICES ASSUME TransferIInv, DeniedInRange, DownloadTask PROVE [Promise!Next]_Told
  OBVIOUS
<1> USE DEF chunkVars, taskVars
<1>1. CASE Begin
  <2>1. UNCHANGED <<use_range, offset, wrong, m_cancel>>
    BY <1>1 DEF Begin
  <2>2. UNCHANGED <<Total, Covered>>
    BY <2>1 DEF Covered, Chunks, Base, PartLen, Total
  <2>3. Outcome = "writing" /\ Outcome' \in {"writing", "broken"}
    BY <1>1 DEF Begin, Outcome
  <2>4. CASE Outcome' = "broken"
    BY <2>1, <2>2, <2>3, <2>4 DEF Promise!Next, Promise!GiveUp, Total
  <2> QED BY <2>1, <2>3, <2>4, Untold
<1>2. CASE SkipChunk \/ SubmitChunk \/ SubmitStopped \/ PushChunk \/ WriteLaneBack \/ WaitChunks
  <2>1. UNCHANGED <<use_range, offset, wrong, m_cancel>>
    BY <1>2 DEF SkipChunk, SubmitChunk, SubmitStopped, PushChunk, WriteLaneBack,
                WaitChunks, Advance
  <2>2. Outcome' = Outcome
    BY <1>2 DEF SkipChunk, SubmitChunk, SubmitStopped, PushChunk, WriteLaneBack,
                WaitChunks, Advance, Outcome
  <2> QED BY <2>1, <2>2, Untold
<1>3. CASE Degrade
  <2>1. main = "decide" /\ use_range /\ range_denied /\ UNCHANGED m_cancel
    BY <1>3 DEF Degrade, DeniedInRange
  <2>2. Outcome = "writing" /\ UNCHANGED Total
    BY <2>1 DEF Outcome, Total
  <2>3. CASE main' = "failed"
    <3>1. UNCHANGED <<use_range, offset, wrong>>
      BY <1>3, <2>3 DEF Degrade
    <3>2. UNCHANGED Covered /\ Outcome' = "broken"
      BY <2>3, <3>1 DEF Covered, Chunks, Base, PartLen, Outcome
    <3> QED BY <2>1, <2>2, <3>1, <3>2 DEF Promise!Next, Promise!GiveUp, Total
  <2>4. CASE main' # "failed"
    <3>1. /\ ~m_cancel /\ use_range' = FALSE /\ offset' = [c \in Jobs |-> 0]
          /\ wrong' = {} /\ main' = "submit"
      BY <1>3, <2>4 DEF Degrade
    <3>2. Covered' = {}
      <4>1. \A c \in Chunks' : 0..(offset'[c] - 1) = {}
        BY <3>1, ChunksAreJobs, TransferAssumption DEF Chunks
      <4> QED BY <4>1 DEF Covered
    <3>3. Outcome' = "writing" /\ (wrong = {})' = TRUE
      BY <3>1 DEF Outcome
    <3> QED BY <2>1, <2>2, <3>1, <3>2, <3>3 DEF Promise!Next, Promise!StartOver, Total
  <2> QED BY <2>3, <2>4
<1>4. CASE Decide
  <2>1. UNCHANGED <<use_range, offset, wrong, m_cancel>>
    BY <1>4 DEF Decide
  <2>2. UNCHANGED <<Total, Covered>> /\ Outcome = "writing"
    BY <1>4, <2>1 DEF Covered, Chunks, Base, PartLen, Total, Outcome, Decide
  <2>3. CASE AllOk /\ Verified /\ ~m_cancel
    <3>1. Outcome' = "whole"
      BY <1>4, <2>3 DEF Decide, Outcome
    <3>2. Covered = 0..(Total - 1)
      BY <2>3, CoveredPlaces
    <3> QED BY <2>1, <2>2, <2>3, <3>1, <3>2
            DEF Promise!Next, Promise!Finish, Promise!Places, Total
  <2>4. CASE ~(AllOk /\ Verified /\ ~m_cancel)
    <3>1. Outcome' = "broken"
      BY <1>4, <2>4 DEF Decide, Outcome
    <3> QED BY <2>1, <2>2, <3>1 DEF Promise!Next, Promise!GiveUp, Total
  <2> QED BY <2>3, <2>4
<1> QED BY <1>1, <1>2, <1>3, <1>4 DEF DownloadTask

(* A byte is written while the download is writing, and by one that was    *)
(* not stopped: no transfer runs once it has ended.                        *)
LEMMA WriteIsDownload ==
  ASSUME TransferIInv, NEW c \in Jobs, Write(c)
  PROVE  [Promise!Next]_Told
<1>1. /\ use_range \in BOOLEAN /\ offset \in [Jobs -> 0..PartLen] /\ PartLen \in Nat \ {0}
      /\ Chunks \subseteq Jobs
  BY PartLenType, ChunksAreJobs DEF TransferIInv, Rest, OwnTypes, Placed
<1>2. UNCHANGED <<use_range, main, m_cancel>> /\ ~m_cancel
  BY DEF Write, taskVars
<1>3. Outcome = "writing" /\ Outcome' = Outcome
  <2>1. c \in Out
    BY DEF Write, Transfers, Out
  <2>2. main \notin {"done", "failed"}
    BY <2>1 DEF TransferIInv, Rest, Alone
  <2> QED BY <1>2, <2>2 DEF Outcome
<1>4. /\ \A d \in Jobs : offset'[d] \in Nat /\ offset[d] \in Nat /\ offset[d] <= offset'[d]
      /\ wrong \subseteq wrong'
  BY <1>1 DEF Write
<1>5. /\ UNCHANGED <<Total, Chunks, PartLen>>
      /\ \A d \in Chunks : Base(d)' = Base(d)
  BY <1>2 DEF Total, Chunks, PartLen, Base
<1>6. Covered \subseteq Covered'
  <2> SUFFICES ASSUME NEW p \in Covered PROVE p \in Covered'
    OBVIOUS
  <2>1. PICK d \in Chunks : \E k \in 0..(offset[d] - 1) : p = Base(d) + k
    BY DEF Covered
  <2>2. PICK k \in 0..(offset[d] - 1) : p = Base(d) + k
    BY <2>1
  <2>3. d \in Chunks' /\ k \in 0..(offset'[d] - 1) /\ p = Base(d)' + k
    BY <1>1, <1>4, <1>5, <2>2
  <2> QED BY <2>3 DEF Covered
<1>7. Covered' \subseteq 0..(Total - 1)
  <2>1. EngineIInv'
    BY HappensIInv DEF Happens, Write, TransferIInv
  <2>2. TransferIInv'
    BY <2>1, WriteStep DEF TransferIInv
  <2>3. (TransferIInv => Covered \subseteq 0..(Total - 1))'
    BY CoveredPlaces, PTL
  <2> QED BY <1>5, <2>2, <2>3
<1>8. use_range => (wrong = {}) /\ (wrong' = {})
  BY WriteStep, <1>2 DEF TransferIInv, Rest, SuccessIsFull
<1>9. ((wrong = {})' => (wrong = {})) /\ (use_range => (wrong = {})' = (wrong = {}))
  BY <1>4, <1>8
<1> QED BY <1>2, <1>3, <1>5, <1>6, <1>7, <1>9
        DEF Promise!Next, Promise!Write, Promise!Places, Total

LEMMA NextIsDownload ==
  TransferIInv /\ DeniedInRange /\ [Next]_vars => [Promise!Next]_Told
<1> SUFFICES ASSUME TransferIInv, DeniedInRange, [Next]_vars PROVE [Promise!Next]_Told
  OBVIOUS
<1> USE DEF taskVars, chunkVars, otherThanEngine
<1>1. UNCHANGED <<use_range, offset, wrong, m_cancel, main>> => UNCHANGED Told
  BY Untold DEF Outcome
<1>2. UNCHANGED <<use_range, offset, wrong, main>> /\ m_cancel' = TRUE => Promise!Stop
  BY DEF Promise!Stop, Outcome, Covered, Chunks, Base, PartLen
<1>3. UNCHANGED otherThanEngine => UNCHANGED Told
  BY <1>1
<1>4. ASSUME NEW l \in Lanes, Lane(l) PROVE UNCHANGED Told
  BY <1>1, <1>4 DEF Lane, StartChunk
<1>5. ASSUME NEW c \in Jobs, OnChunkDone(c) PROVE UNCHANGED Told
  BY <1>1, <1>5 DEF OnChunkDone, ChunkDenied, ChunkCompleted, ChunkGivenUp, ChunkRetried,
                    FinishChunk
<1>6. CASE Environment
  <2>1. ASSUME NEW c \in Jobs,
               \/ \E status \in {200, 206, 404} : Header(c, status)
               \/ \E res \in Codes : Ends(c, res)
        PROVE  UNCHANGED Told
    BY <1>1, <2>1 DEF Header, Ends
  <2>2. ASSUME NEW c \in Jobs, Progress(c) PROVE Promise!Stop
    BY <1>2, <2>2 DEF Progress
  <2>3. CASE Cancel
    <3>1. m_cancel' \in {m_cancel, TRUE} /\ UNCHANGED <<use_range, offset, wrong, main>>
      BY <2>3 DEF Cancel, TransferIInv, Rest, OwnTypes
    <3> QED BY <1>1, <1>2, <3>1 DEF Promise!Next
  <2> QED BY <1>3, <1>6, <2>1, <2>2, <2>3, WriteIsDownload DEF Environment, Promise!Next
<1>7. CASE UNCHANGED vars
  BY <1>1, <1>7 DEF vars
<1> QED BY <1>3, <1>4, <1>5, <1>6, <1>7, ThreadIsDownload DEF Next, Retries

(* Download_Task is a download as its callers know one: drivers write to   *)
(* the file, report and try again on their own, and yet no byte is written *)
(* once it was canceled or has returned, or before a restart was laid out; *)
(* it starts over at most once, and succeeds only with every byte written. *)
THEOREM IsDownload == Spec => ImplementsDownload
<1> QED BY InitIsDownload, NextIsDownload, TransferInvariance, DeniedInvariance, PTL
        DEF Spec, ImplementsDownload, Promise!Spec, Promise!vars, Told, Total
=============================================================================
