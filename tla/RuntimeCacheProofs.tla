------------------------- MODULE RuntimeCacheProofs -------------------------
(* What RuntimeCache promises, for any number of processes and rounds.     *)
EXTENDS RuntimeCache, TLAPS

LEMMA Names ==
  /\ Shared \subseteq Dirs /\ Procs \subseteq Dirs /\ NoLock \notin Procs
  /\ Shared \cap Procs = {} /\ "none" \notin Dirs /\ "env" \notin Dirs
  BY RuntimeAssumption DEF Shared, Dirs, NoLock

LEMMA Kinds ==
  /\ Gone \in Contents /\ Whole \in Contents /\ Short \subseteq Contents
  /\ \A c \in Short : c.build = "short" /\ "entries" \in c.parts
  /\ \A c \in Contents, part \in Parts : [parts |-> c.parts \ {part}, build |-> c.build] \in Contents
  /\ \A c \in Contents : c.parts \subseteq Parts
  BY DEF Gone, Whole, Short, Contents, Parts

LEMMA Rounds == Tries \in Nat /\ Tries # 0 /\ 0 \in 0 .. Tries + 1 /\ Tries + 1 \in 0 .. Tries + 1
  BY RuntimeAssumption

LEMMA TypeInit == Init => TypeOK
<1> SUFFICES ASSUME Init PROVE TypeOK  OBVIOUS
<1>1. dir \in [Dirs -> Contents] /\ opened \subseteq Dirs
  <2>1. Whole \in Contents /\ Gone \in Contents /\ [parts |-> Parts, build |-> "old"] \in Contents
        /\ [parts |-> Parts \ {"rest"}, build |-> "this"] \in Contents
    BY DEF Whole, Gone, Contents, Parts
  <2>2. DEFINE old == [parts |-> Parts, build |-> "old"]
               half == [parts |-> Parts \ {"rest"}, build |-> "this"]
  <2>3. \/ dir \in [Dirs -> {Gone, Whole, old} \cup Short] /\ opened = {}
        \/ dir \in [Dirs -> {Gone, half}] /\ opened = {"cache"}
    BY DEF Init
  <2>4. {Gone, Whole, old} \cup Short \subseteq Contents /\ {Gone, half} \subseteq Contents
    BY <2>1, Kinds
  <2>5. dir \in [Dirs -> Contents]
    <3> HIDE DEF old, half
    <3> QED  BY <2>3, <2>4
  <2>6. opened = {} \/ opened = {"cache"}  BY DEF Init
  <2> QED  BY <2>5, <2>6, Names DEF Shared
<1>2. calm \in BOOLEAN  BY Zenon DEF Init
<1>3. /\ lock = NoLock /\ stale = FALSE
      /\ pc = [p \in Procs |-> "locate"] /\ look = [p \in Procs |-> "cache"]
      /\ bLocked = [p \in Procs |-> FALSE] /\ tries = [p \in Procs |-> 0]
      /\ nAttempt = [p \in Procs |-> 0] /\ home = [p \in Procs |-> "none"]
  BY Zenon DEF Init
<1>4. lock \in Procs \cup {NoLock} /\ stale \in BOOLEAN  BY <1>3
<1>5. pc \in [Procs -> Places]  BY <1>3 DEF Places
<1>6. look \in [Procs -> Shared] /\ home \in [Procs -> Homes]  BY <1>3 DEF Shared, Homes
<1>7. bLocked \in [Procs -> BOOLEAN] /\ tries \in [Procs -> 0 .. Tries + 1] /\ nAttempt \in [Procs -> 0 .. 1]
  BY <1>3, Rounds
<1> QED  BY <1>1, <1>2, <1>4, <1>5, <1>6, <1>7 DEF TypeOK

LEMMA TypeStep == TypeOK /\ [Next]_vars => TypeOK'
<1> SUFFICES ASSUME TypeOK, [Next]_vars PROVE TypeOK'  OBVIOUS
<1>1. ASSUME NEW p \in Procs, Step(p) \/ Crash(p) PROVE TypeOK'
  <2> USE Names, Kinds, Rounds DEF TypeOK, files, own, Goto, Next_directory, Homes, Places, Ended, Shared
  <2>1. ASSUME Locate(p) PROVE TypeOK'
    BY <2>1 DEF Locate
  <2>2. ASSUME ReadMarker(p) PROVE TypeOK'
    BY <2>2 DEF ReadMarker
  <2>3. ASSUME LookAtContents(p) PROVE TypeOK'
    BY <2>3 DEF LookAtContents
  <2>4. ASSUME CreateLock(p) PROVE TypeOK'
    BY <2>4 DEF CreateLock
  <2>5. ASSUME LockTaken(p) PROVE TypeOK'
    BY <2>5 DEF LockTaken
  <2>6. ASSUME BreakLock(p) PROVE TypeOK'
    BY <2>6 DEF BreakLock
  <2>7. ASSUME GiveUp(p) PROVE TypeOK'
    BY <2>7 DEF GiveUp
  <2>8. ASSUME Unpack(p) PROVE TypeOK'
    BY <2>8 DEF Unpack
  <2>9. ASSUME UnpackFails(p) PROVE TypeOK'
    BY <2>9 DEF UnpackFails
  <2>10. ASSUME RemovePart(p) PROVE TypeOK'
    BY <2>10 DEF RemovePart
  <2>11. ASSUME ClearedAway(p) PROVE TypeOK'
    BY <2>11 DEF ClearedAway
  <2>12. ASSUME Swap(p) PROVE TypeOK'
    BY <2>12 DEF Swap
  <2>13. ASSUME Release(p) PROVE TypeOK'
    BY <2>13 DEF Release
  <2>14. ASSUME Starts(p) PROVE TypeOK'
    BY <2>14 DEF Starts, Found
  <2>15. ASSUME NoHome(p) PROVE TypeOK'
    BY <2>15 DEF NoHome, Found
  <2>16. ASSUME InitFails(p) PROVE TypeOK'
    BY <2>16 DEF InitFails, Found
  <2>17. ASSUME Healed(p) PROVE TypeOK'
    BY <2>17 DEF Healed
  <2>18. ASSUME Crash(p) PROVE TypeOK'
    BY <2>18 DEF Crash
  <2> QED
    BY <1>1, <2>1, <2>2, <2>3, <2>4, <2>5, <2>6, <2>7, <2>8, <2>9, <2>10, <2>11,
       <2>12, <2>13, <2>14, <2>15, <2>16, <2>17, <2>18 DEF Step
<1>2. ASSUME LockAges PROVE TypeOK'
  BY <1>2 DEF LockAges, TypeOK, own, Ended
<1>3. ASSUME UNCHANGED vars PROVE TypeOK'
  BY <1>3 DEF vars, files, own, TypeOK, Ended
<1> QED  BY <1>1, <1>2, <1>3 DEF Next

-----------------------------------------------------------------------------
LEMMA LockStep == TypeOK /\ LockWillGo /\ [Next]_vars => LockWillGo'
<1> SUFFICES ASSUME TypeOK, LockWillGo, [Next]_vars PROVE LockWillGo'  OBVIOUS
<1>t. TypeOK'  BY TypeStep
<1> USE DEF TypeOK, LockWillGo, files, own, Goto
<1>1. ASSUME NEW p \in Procs, Step(p) \/ Crash(p) PROVE LockWillGo'
  <2>1. CASE CreateLock(p)  BY <2>1, <1>t, Names DEF CreateLock
  <2>2. CASE BreakLock(p)  BY <2>2, <1>t DEF BreakLock
  <2>3. CASE Release(p)  BY <2>3, <1>t, Names DEF Release
  <2>4. CASE Crash(p)  BY <2>4, <1>t DEF Crash
  <2>5. CASE GiveUp(p)  BY <2>5, <1>t DEF GiveUp
  <2>6. CASE InitFails(p)  BY <2>6, <1>t DEF InitFails
  <2>7. CASE UNCHANGED <<lock, bLocked, calm>>  BY <2>7, <1>t
  <2>8. ASSUME Step(p), ~CreateLock(p), ~BreakLock(p), ~Release(p), ~GiveUp(p), ~InitFails(p)
        PROVE UNCHANGED <<lock, bLocked, calm>>
    BY <2>8 DEF Step, Locate, ReadMarker, LookAtContents, LockTaken, Unpack, UnpackFails,
                RemovePart, ClearedAway, Swap, Starts, NoHome, Healed
  <2> QED  BY <1>1, <2>1, <2>2, <2>3, <2>4, <2>5, <2>6, <2>7, <2>8
<1>2. CASE LockAges  BY <1>2, <1>t DEF LockAges
<1>3. CASE UNCHANGED vars  BY <1>3, <1>t DEF vars
<1> QED  BY <1>1, <1>2, <1>3 DEF Next

LEMMA BuiltStep == TypeOK /\ BuiltWhole /\ [Next]_vars => BuiltWhole'
<1> SUFFICES ASSUME TypeOK, BuiltWhole, [Next]_vars PROVE BuiltWhole'  OBVIOUS
<1>t. TypeOK'  BY TypeStep
<1> USE Names DEF TypeOK, BuiltWhole, files, own, Goto
<1>1. ASSUME NEW p \in Procs, Step(p) \/ Crash(p) PROVE BuiltWhole'
  <2>1. CASE Unpack(p)  BY <2>1, <1>t DEF Unpack
  <2>2. CASE UnpackFails(p)  BY <2>2, <1>t DEF UnpackFails
  <2>3. CASE RemovePart(p)  BY <2>3, <1>t DEF RemovePart
  <2>4. CASE ClearedAway(p)  BY <2>4, <1>t DEF ClearedAway
  <2>5. CASE Swap(p)
    <3>1. dir[p] \in {Whole} \cup Short  BY <2>5 DEF Swap
    <3>2. \/ dir[p].build = "short"
          \/ dir[p].parts = Parts
      BY <3>1, Kinds DEF Whole
    <3> QED  BY <2>5, <3>2, <1>t DEF Swap, Gone
  <2>7. ASSUME UNCHANGED <<dir, opened>>,
               pc' = [pc EXCEPT ![p] = pc'[p]], pc'[p] \notin {"clear", "rename"}
        PROVE  BuiltWhole'
    BY <2>7, <1>t
  <2>8. ASSUME Step(p) \/ Crash(p), ~Unpack(p), ~UnpackFails(p), ~RemovePart(p),
               ~ClearedAway(p), ~Swap(p)
        PROVE  /\ UNCHANGED <<dir, opened>>
               /\ pc' = [pc EXCEPT ![p] = pc'[p]] /\ pc'[p] \notin {"clear", "rename"}
    BY <2>8 DEF Step, Locate, ReadMarker, LookAtContents, Next_directory, CreateLock, LockTaken,
                BreakLock, GiveUp, Release, Starts, NoHome, InitFails, Healed, Crash
  <2> QED  BY <1>1, <2>1, <2>2, <2>3, <2>4, <2>5, <2>7, <2>8
<1>2. CASE LockAges  BY <1>2, <1>t DEF LockAges
<1>3. CASE UNCHANGED vars  BY <1>3, <1>t DEF vars
<1> QED  BY <1>1, <1>2, <1>3 DEF Next

LEMMA HomesStep == TypeOK /\ HomesOwn /\ [Next]_vars => HomesOwn'
<1> SUFFICES ASSUME TypeOK, HomesOwn, [Next]_vars PROVE HomesOwn'  OBVIOUS
<1>t. TypeOK'  BY TypeStep
<1> USE <1>t, Names DEF TypeOK, HomesOwn, files, own, Goto, Places, Ended
<1>1. ASSUME NEW p \in Procs, Step(p) \/ Crash(p) PROVE HomesOwn'
  <2>1. CASE Locate(p)  BY <2>1 DEF Locate
  <2>2. CASE ReadMarker(p)  BY <2>2 DEF ReadMarker, Next_directory
  <2>3. CASE LookAtContents(p)  BY <2>3 DEF LookAtContents, Next_directory
  <2>4. CASE CreateLock(p)  BY <2>4 DEF CreateLock
  <2>5. CASE LockTaken(p)  BY <2>5 DEF LockTaken
  <2>6. CASE BreakLock(p)  BY <2>6 DEF BreakLock
  <2>7. CASE GiveUp(p)  BY <2>7 DEF GiveUp
  <2>8. CASE Unpack(p)  BY <2>8 DEF Unpack
  <2>9. CASE UnpackFails(p)  BY <2>9 DEF UnpackFails
  <2>10. CASE RemovePart(p)  BY <2>10 DEF RemovePart
  <2>11. CASE ClearedAway(p)  BY <2>11 DEF ClearedAway
  <2>12. CASE Swap(p)  BY <2>12 DEF Swap
  <2>13. CASE Release(p)  BY <2>13 DEF Release
  <2>14. CASE Starts(p)  BY <2>14 DEF Starts, Found
  <2>15. CASE NoHome(p)  BY <2>15 DEF NoHome, Found
  <2>16. CASE InitFails(p)  BY <2>16 DEF InitFails, Found
  <2>17. CASE Healed(p)  BY <2>17 DEF Healed
  <2>18. CASE Crash(p)  BY <2>18 DEF Crash
  <2> QED
    BY <1>1, <2>1, <2>2, <2>3, <2>4, <2>5, <2>6, <2>7, <2>8, <2>9, <2>10, <2>11,
       <2>12, <2>13, <2>14, <2>15, <2>16, <2>17, <2>18 DEF Step
<1>2. CASE LockAges  BY <1>2 DEF LockAges
<1>3. CASE UNCHANGED vars  BY <1>3 DEF vars
<1> QED  BY <1>1, <1>2, <1>3 DEF Next

-----------------------------------------------------------------------------
(* The six parts of CalmLock, for a state that is calm.                    *)
Owner   == \A p \in Procs : bLocked[p] <=> lock = p
Inside  == \A p \in Procs : Swapping(p) \/ LookAgain(p) => bLocked[p]
Unseen  == \A p \in Procs : \A d \in SeenUnmarked(p) : ~Marked(d)
NoHeal  == \A p \in Procs : pc[p] # "heal"
NoHalf  ==
  \A d \in Shared : /\ dir[d].build = "this" => dir[d].parts \in {{}, Parts}
                    /\ Marked(d) => Usable(d)
HomeOk  ==
  \A p \in Procs : /\ \A d \in Dirs : Has(p, d) => AsUnpacked(d)
                   /\ pc[p] = "contents" => Marked(look[p])
Calm    == Owner /\ Inside /\ Unseen /\ NoHeal /\ NoHalf /\ HomeOk

LEMMA CalmLockIs == CalmLock <=> (calm => Calm)
  BY DEF CalmLock, Calm, Owner, Inside, Unseen, NoHeal, NoHalf, HomeOk

(* Of two processes one has the lock at most.                              *)
LEMMA One ==
  ASSUME Owner, Inside, NEW p \in Procs, NEW q \in Procs, p # q,
         Swapping(p) \/ LookAgain(p)
  PROVE  ~Swapping(q) /\ ~LookAgain(q)
  BY DEF Owner, Inside

LEMMA CalmStep ==
  ASSUME TypeOK, BuiltWhole, HomesOwn, Calm, NEW p \in Procs, Step(p), calm'
  PROVE  Calm'
<1>t. TypeOK'  BY TypeStep DEF Next
<1>r. Tries + 1 # 0  BY Rounds
<1> USE <1>t, <1>r, Names, Rounds DEF TypeOK, files, own, Goto
<1>1. CASE Locate(p)
  <2>1. Owner'  BY <1>1 DEF Locate, Calm, Owner, Inside, Swapping, LookAgain, Asked
  <2>2. Inside'  BY <1>1 DEF Locate, Calm, Owner, Inside, Swapping, LookAgain, Asked
  <2>3. Unseen'
    BY <1>1 DEF Locate, Calm, Owner, Inside, Unseen, Swapping, LookAgain, Asked,
       SeenUnmarked, Marked
  <2>4. NoHeal'  BY <1>1 DEF Locate, Calm, Owner, Inside, NoHeal, Swapping, LookAgain, Asked
  <2>5. NoHalf'  BY <1>1 DEF Locate, Calm, Owner, Inside, NoHalf, Marked, Usable, Swapping, LookAgain, Asked
  <2>6. HomeOk'
    BY <1>1 DEF Locate, Calm, Owner, Inside, HomeOk, Swapping, LookAgain, Asked, Has,
       AsUnpacked, Complete, Whole, Marked
  <2> QED  BY <2>1, <2>2, <2>3, <2>4, <2>5, <2>6 DEF Calm
<1>2. CASE ReadMarker(p)
  <2>0. look[p] \in Shared
    OBVIOUS
  <2>1. Owner'
    BY <1>2, <2>0 DEF ReadMarker, Calm, Owner, Inside, Swapping, LookAgain, Asked,
       Next_directory
  <2>2. Inside'
    BY <1>2, <2>0 DEF ReadMarker, Calm, Owner, Inside, Swapping, LookAgain, Asked,
       Next_directory
  <2>3. Unseen'
    <3>1. ASSUME NEW q \in Procs, NEW d \in SeenUnmarked(q)' PROVE ~Marked(d)'
      <4>1. CASE q # p
        BY <1>2, <3>1, <4>1 DEF ReadMarker, Calm, Unseen, SeenUnmarked, Swapping,
           LookAgain, Asked, Marked, Next_directory
      <4>2. CASE q = p /\ Marked(look[p])
        BY <1>2, <3>1, <4>2 DEF ReadMarker, Calm, Unseen, SeenUnmarked, Swapping,
           LookAgain, Asked, Marked
      <4>3. CASE q = p /\ ~Marked(look[p]) /\ look[p] = "cache"
        BY <1>2, <3>1, <4>3 DEF ReadMarker, Calm, Unseen, SeenUnmarked, Swapping,
           LookAgain, Asked, Marked, Next_directory
      <4>4. CASE q = p /\ ~Marked(look[p]) /\ look[p] = "fallback"
        <5>1. CASE Asked(p)
          <6>1. LookAgain(p)  BY <1>2, <5>1 DEF ReadMarker, LookAgain
          <6>2. SeenUnmarked(p) = {"cache"}
            BY <1>2, <4>4, <6>1 DEF ReadMarker, SeenUnmarked, Swapping
          <6>3. ~Marked("cache") /\ ~Marked("fallback")  BY <4>4, <6>2 DEF Calm, Unseen
          <6>4. dir' = dir  BY <1>2 DEF ReadMarker
          <6>5. SeenUnmarked(q)' \subseteq Shared  BY DEF SeenUnmarked, Shared
          <6>6. d \in Shared  BY <3>1, <6>5
          <6> QED  BY <6>3, <6>4, <6>6 DEF Marked, Shared
        <5>2. CASE ~Asked(p)
          <6>1. pc'[p] = "lock"  BY <1>2, <4>4, <5>2 DEF ReadMarker, Next_directory
          <6>2. SeenUnmarked(q)' = {}
            BY <4>4, <6>1 DEF SeenUnmarked, Swapping, LookAgain
          <6> QED  BY <3>1, <6>2
        <5> QED  BY <5>1, <5>2
      <4> QED  BY <4>1, <4>2, <4>3, <4>4 DEF Shared
    <3> QED  BY <3>1 DEF Unseen
  <2>4. NoHeal'
    BY <1>2, <2>0 DEF ReadMarker, Calm, Owner, Inside, NoHeal, Swapping, LookAgain,
       Asked, Next_directory
  <2>5. NoHalf'
    BY <1>2, <2>0 DEF ReadMarker, Calm, Owner, Inside, NoHalf, Marked, Usable, Swapping, LookAgain,
       Asked, Next_directory
  <2>6. HomeOk'
    BY <1>2, <2>0 DEF ReadMarker, Calm, Owner, Inside, HomeOk, Swapping, LookAgain,
       Asked, Has, AsUnpacked, Complete, Whole, Marked, Next_directory
  <2> QED  BY <2>1, <2>2, <2>3, <2>4, <2>5, <2>6 DEF Calm
<1>3. CASE LookAtContents(p)
  <2>0. Marked(look[p]) /\ Usable(look[p]) /\ AsUnpacked(look[p])
    <3>1. pc[p] = "contents" /\ look[p] \in Shared  BY <1>3 DEF LookAtContents
    <3>2. Marked(look[p])  BY <3>1 DEF Calm, HomeOk
    <3>3. Usable(look[p])  BY <3>1, <3>2 DEF Calm, NoHalf
    <3>4. dir[look[p]] \in Contents /\ dir[look[p]].parts # {}
      BY <3>1, <3>2 DEF Marked
    <3>5. AsUnpacked(look[p])
      <4>1. CASE dir[look[p]].build = "this"
        <5>1. dir[look[p]].parts = Parts  BY <3>1, <3>4, <4>1 DEF Calm, NoHalf
        <5> QED  BY <3>4, <4>1, <5>1 DEF Contents, AsUnpacked, Complete, Whole
      <4>2. CASE dir[look[p]].build # "this"
        BY <3>2, <3>4, <4>2 DEF Contents, Marked, AsUnpacked
      <4> QED  BY <4>1, <4>2
    <3> QED  BY <3>2, <3>3, <3>5
  <2>1. Owner'
    BY <1>3, <2>0 DEF LookAtContents, Calm, Owner, Inside, Swapping, LookAgain,
       Asked, Next_directory, Usable, Parts
  <2>2. Inside'
    BY <1>3, <2>0 DEF LookAtContents, Calm, Owner, Inside, Swapping, LookAgain,
       Asked, Next_directory, Usable, Parts
  <2>3. Unseen'
    BY <1>3, <2>0 DEF LookAtContents, Calm, Owner, Inside, Unseen, Swapping,
       LookAgain, Asked, SeenUnmarked, Marked, Next_directory, Usable, Parts
  <2>4. NoHeal'
    BY <1>3, <2>0 DEF LookAtContents, Calm, Owner, Inside, NoHeal, Swapping,
       LookAgain, Asked, Next_directory, Usable, Parts
  <2>5. NoHalf'
    BY <1>3, <2>0 DEF LookAtContents, Calm, Owner, Inside, NoHalf, Marked, Usable, Swapping,
       LookAgain, Asked, Next_directory, Usable, Parts
  <2>6. HomeOk'
    BY <1>3, <2>0 DEF LookAtContents, Calm, Owner, Inside, HomeOk, Swapping,
       LookAgain, Asked, Has, AsUnpacked, Complete, Whole, Marked, Next_directory, Usable, Parts
  <2> QED  BY <2>1, <2>2, <2>3, <2>4, <2>5, <2>6 DEF Calm
<1>4. CASE CreateLock(p)
  <2>1. Owner'  BY <1>4 DEF CreateLock, Calm, Owner, Inside, Swapping, LookAgain, Asked
  <2>2. Inside'  BY <1>4 DEF CreateLock, Calm, Owner, Inside, Swapping, LookAgain, Asked
  <2>3. Unseen'
    BY <1>4 DEF CreateLock, Calm, Owner, Inside, Unseen, Swapping, LookAgain, Asked,
       SeenUnmarked, Marked
  <2>4. NoHeal'  BY <1>4 DEF CreateLock, Calm, Owner, Inside, NoHeal, Swapping, LookAgain, Asked
  <2>5. NoHalf'  BY <1>4 DEF CreateLock, Calm, Owner, Inside, NoHalf, Marked, Usable, Swapping, LookAgain, Asked
  <2>6. HomeOk'
    BY <1>4 DEF CreateLock, Calm, Owner, Inside, HomeOk, Swapping, LookAgain, Asked,
       Has, AsUnpacked, Complete, Whole, Marked
  <2> QED  BY <2>1, <2>2, <2>3, <2>4, <2>5, <2>6 DEF Calm
<1>5. CASE LockTaken(p)
  <2>1. Owner'  BY <1>5 DEF LockTaken, Calm, Owner, Inside, Swapping, LookAgain, Asked
  <2>2. Inside'  BY <1>5 DEF LockTaken, Calm, Owner, Inside, Swapping, LookAgain, Asked
  <2>3. Unseen'
    BY <1>5 DEF LockTaken, Calm, Owner, Inside, Unseen, Swapping, LookAgain, Asked,
       SeenUnmarked, Marked
  <2>4. NoHeal'  BY <1>5 DEF LockTaken, Calm, Owner, Inside, NoHeal, Swapping, LookAgain, Asked
  <2>5. NoHalf'  BY <1>5 DEF LockTaken, Calm, Owner, Inside, NoHalf, Marked, Usable, Swapping, LookAgain, Asked
  <2>6. HomeOk'
    BY <1>5 DEF LockTaken, Calm, Owner, Inside, HomeOk, Swapping, LookAgain, Asked,
       Has, AsUnpacked, Complete, Whole, Marked
  <2> QED  BY <2>1, <2>2, <2>3, <2>4, <2>5, <2>6 DEF Calm
<1>6. CASE BreakLock(p)
  <2>1. Owner'  BY <1>6 DEF BreakLock, Calm, Owner, Inside, Swapping, LookAgain, Asked
  <2>2. Inside'  BY <1>6 DEF BreakLock, Calm, Owner, Inside, Swapping, LookAgain, Asked
  <2>3. Unseen'
    BY <1>6 DEF BreakLock, Calm, Owner, Inside, Unseen, Swapping, LookAgain, Asked,
       SeenUnmarked, Marked
  <2>4. NoHeal'  BY <1>6 DEF BreakLock, Calm, Owner, Inside, NoHeal, Swapping, LookAgain, Asked
  <2>5. NoHalf'  BY <1>6 DEF BreakLock, Calm, Owner, Inside, NoHalf, Marked, Usable, Swapping, LookAgain, Asked
  <2>6. HomeOk'
    BY <1>6 DEF BreakLock, Calm, Owner, Inside, HomeOk, Swapping, LookAgain, Asked,
       Has, AsUnpacked, Complete, Whole, Marked
  <2> QED  BY <2>1, <2>2, <2>3, <2>4, <2>5, <2>6 DEF Calm
<1>7. CASE GiveUp(p)
  <2>1. Owner'  BY <1>7 DEF GiveUp, Calm, Owner, Inside, Swapping, LookAgain, Asked
  <2>2. Inside'  BY <1>7 DEF GiveUp, Calm, Owner, Inside, Swapping, LookAgain, Asked
  <2>3. Unseen'
    BY <1>7 DEF GiveUp, Calm, Owner, Inside, Unseen, Swapping, LookAgain, Asked,
       SeenUnmarked, Marked
  <2>4. NoHeal'  BY <1>7 DEF GiveUp, Calm, Owner, Inside, NoHeal, Swapping, LookAgain, Asked
  <2>5. NoHalf'  BY <1>7 DEF GiveUp, Calm, Owner, Inside, NoHalf, Marked, Usable, Swapping, LookAgain, Asked
  <2>6. HomeOk'
    BY <1>7 DEF GiveUp, Calm, Owner, Inside, HomeOk, Swapping, LookAgain, Asked, Has,
       AsUnpacked, Complete, Whole, Marked
  <2> QED  BY <2>1, <2>2, <2>3, <2>4, <2>5, <2>6 DEF Calm
<1>8. CASE Unpack(p)
  <2>1. Owner'  BY <1>8 DEF Unpack, Calm, Owner, Inside, Swapping, LookAgain, Asked
  <2>2. Inside'  BY <1>8 DEF Unpack, Calm, Owner, Inside, Swapping, LookAgain, Asked
  <2>3. Unseen'
    BY <1>8 DEF Unpack, Calm, Owner, Inside, Unseen, Swapping, LookAgain, Asked,
       SeenUnmarked, Marked
  <2>4. NoHeal'  BY <1>8 DEF Unpack, Calm, Owner, Inside, NoHeal, Swapping, LookAgain, Asked
  <2>5. NoHalf'  BY <1>8 DEF Unpack, Calm, Owner, Inside, NoHalf, Marked, Usable, Swapping, LookAgain, Asked
  <2>6. HomeOk'
    BY <1>8 DEF Unpack, Calm, Owner, Inside, HomeOk, Swapping, LookAgain, Asked, Has,
       AsUnpacked, Complete, Whole, Marked, HomesOwn, Places, Ended
  <2> QED  BY <2>1, <2>2, <2>3, <2>4, <2>5, <2>6 DEF Calm
<1>9. CASE UnpackFails(p)
  <2>1. Owner'
    BY <1>9 DEF UnpackFails, Calm, Owner, Inside, Swapping, LookAgain, Asked,
       HomesOwn, Places, Ended
  <2>2. Inside'
    BY <1>9 DEF UnpackFails, Calm, Owner, Inside, Swapping, LookAgain, Asked,
       HomesOwn, Places, Ended
  <2>3. Unseen'
    BY <1>9 DEF UnpackFails, Calm, Owner, Inside, Unseen, Swapping, LookAgain, Asked,
       SeenUnmarked, Marked, HomesOwn, Places, Ended
  <2>4. NoHeal'
    BY <1>9 DEF UnpackFails, Calm, Owner, Inside, NoHeal, Swapping, LookAgain, Asked,
       HomesOwn, Places, Ended
  <2>5. NoHalf'
    BY <1>9 DEF UnpackFails, Calm, Owner, Inside, NoHalf, Marked, Usable, Swapping, LookAgain, Asked,
       HomesOwn, Places, Ended
  <2>6. HomeOk'
    BY <1>9 DEF UnpackFails, Calm, Owner, Inside, HomeOk, Swapping, LookAgain, Asked,
       Has, AsUnpacked, Complete, Whole, Marked, HomesOwn, Places, Ended
  <2> QED  BY <2>1, <2>2, <2>3, <2>4, <2>5, <2>6 DEF Calm
<1>10. CASE RemovePart(p)
  <2>0. dir[look[p]].build # "this" /\ ~Marked(look[p])
    <3>1. ~Marked(look[p]) /\ dir[look[p]].parts # {}
      BY <1>10 DEF RemovePart, Calm, NoHeal, Unseen, SeenUnmarked, Swapping
    <3> QED  BY <3>1 DEF Calm, NoHalf, Marked, Parts
  <2>1. Owner'  BY <1>10, <2>0 DEF RemovePart, Calm, Owner, Inside, Swapping, LookAgain, Asked
  <2>2. Inside'  BY <1>10, <2>0 DEF RemovePart, Calm, Owner, Inside, Swapping, LookAgain, Asked
  <2>3. Unseen'
    BY <1>10, <2>0 DEF RemovePart, Calm, Owner, Inside, Unseen, Swapping, LookAgain,
       Asked, SeenUnmarked, Marked
  <2>4. NoHeal'
    BY <1>10, <2>0 DEF RemovePart, Calm, Owner, Inside, NoHeal, Swapping, LookAgain,
       Asked
  <2>5. NoHalf'
    BY <1>10, <2>0 DEF RemovePart, Calm, Owner, Inside, NoHalf, Marked, Usable, Swapping, LookAgain,
       Asked
  <2>6. HomeOk'
    BY <1>10, <2>0 DEF RemovePart, Calm, Owner, Inside, HomeOk, Swapping, LookAgain,
       Asked, Has, AsUnpacked, Complete, Whole, Marked
  <2> QED  BY <2>1, <2>2, <2>3, <2>4, <2>5, <2>6 DEF Calm
<1>11. CASE ClearedAway(p)
  <2>1. Owner'  BY <1>11 DEF ClearedAway, Calm, Owner, Inside, Swapping, LookAgain, Asked
  <2>2. Inside'  BY <1>11 DEF ClearedAway, Calm, Owner, Inside, Swapping, LookAgain, Asked
  <2>3. Unseen'
    BY <1>11 DEF ClearedAway, Calm, Owner, Inside, Unseen, Swapping, LookAgain,
       Asked, SeenUnmarked, Marked
  <2>4. NoHeal'  BY <1>11 DEF ClearedAway, Calm, Owner, Inside, NoHeal, Swapping, LookAgain, Asked
  <2>5. NoHalf'  BY <1>11 DEF ClearedAway, Calm, Owner, Inside, NoHalf, Marked, Usable, Swapping, LookAgain, Asked
  <2>6. HomeOk'
    BY <1>11 DEF ClearedAway, Calm, Owner, Inside, HomeOk, Swapping, LookAgain,
       Asked, Has, AsUnpacked, Complete, Whole, Marked
  <2> QED  BY <2>1, <2>2, <2>3, <2>4, <2>5, <2>6 DEF Calm
<1>12. CASE Swap(p)
  <2>0. /\ dir[p] = Whole \/ dir[p].build = "short"
        /\ AsUnpacked(p) /\ "entries" \in dir[p].parts
        /\ dir[look[p]].parts = {} => ~Complete(look[p]) /\ ~Marked(look[p])
    <3>1. dir[p] \in {Whole} \cup Short  BY <1>12 DEF Swap, BuiltWhole
    <3>2. dir[p] = Whole \/ (dir[p].build = "short" /\ "entries" \in dir[p].parts)
      BY <3>1, Kinds
    <3> QED  BY <3>2 DEF AsUnpacked, Complete, Whole, Parts, Marked
  <2>1. Owner'
    BY <1>12, <2>0 DEF Swap, Calm, Owner, Inside, Swapping, LookAgain, Asked,
       HomesOwn, Whole, Gone
  <2>2. Inside'
    BY <1>12, <2>0 DEF Swap, Calm, Owner, Inside, Swapping, LookAgain, Asked,
       HomesOwn, Whole, Gone
  <2>3. Unseen'
    BY <1>12, <2>0 DEF Swap, Calm, Owner, Inside, Unseen, Swapping, LookAgain, Asked,
       SeenUnmarked, Marked, HomesOwn, Whole, Gone
  <2>4. NoHeal'
    BY <1>12, <2>0 DEF Swap, Calm, Owner, Inside, NoHeal, Swapping, LookAgain, Asked,
       HomesOwn, Whole, Gone
  <2>5. NoHalf'
    <3>1. ASSUME NEW d \in Shared
          PROVE  \/ dir'[d] = dir[d]
                 \/ d = look[p] /\ dir'[d] = dir[p]
      BY <1>12, <3>1 DEF Swap
    <3>2. /\ dir[p].build = "this" => dir[p].parts \in {{}, Parts}
          /\ "entries" \in dir[p].parts
      BY <2>0 DEF Whole
    <3> QED  BY <3>1, <3>2 DEF Calm, NoHalf, Marked, Usable
  <2>6. HomeOk'
    BY <1>12, <2>0 DEF Swap, Calm, Owner, Inside, HomeOk, Swapping, LookAgain, Asked,
       Has, AsUnpacked, Complete, Whole, Marked, HomesOwn, Whole, Gone
  <2> QED  BY <2>1, <2>2, <2>3, <2>4, <2>5, <2>6 DEF Calm
<1>13. CASE Release(p)
  <2>1. Owner'  BY <1>13 DEF Release, Calm, Owner, Inside, Swapping, LookAgain, Asked
  <2>2. Inside'  BY <1>13 DEF Release, Calm, Owner, Inside, Swapping, LookAgain, Asked
  <2>3. Unseen'
    BY <1>13 DEF Release, Calm, Owner, Inside, Unseen, Swapping, LookAgain, Asked,
       SeenUnmarked, Marked
  <2>4. NoHeal'  BY <1>13 DEF Release, Calm, Owner, Inside, NoHeal, Swapping, LookAgain, Asked
  <2>5. NoHalf'  BY <1>13 DEF Release, Calm, Owner, Inside, NoHalf, Marked, Usable, Swapping, LookAgain, Asked
  <2>6. HomeOk'
    BY <1>13 DEF Release, Calm, Owner, Inside, HomeOk, Swapping, LookAgain, Asked,
       Has, AsUnpacked, Complete, Whole, Marked
  <2> QED  BY <2>1, <2>2, <2>3, <2>4, <2>5, <2>6 DEF Calm
<1>14. CASE Starts(p)
  <2>1. Owner'  BY <1>14 DEF Starts, Calm, Owner, Inside, Swapping, LookAgain, Asked, Found, Usable
  <2>2. Inside'  BY <1>14 DEF Starts, Calm, Owner, Inside, Swapping, LookAgain, Asked, Found, Usable
  <2>3. Unseen'
    BY <1>14 DEF Starts, Calm, Owner, Inside, Unseen, Swapping, LookAgain, Asked,
       SeenUnmarked, Marked, Found, Usable
  <2>4. NoHeal'
    BY <1>14 DEF Starts, Calm, Owner, Inside, NoHeal, Swapping, LookAgain, Asked,
       Found, Usable
  <2>5. NoHalf'
    BY <1>14 DEF Starts, Calm, Owner, Inside, NoHalf, Marked, Usable, Swapping, LookAgain, Asked,
       Found, Usable
  <2>6. HomeOk'
    BY <1>14 DEF Starts, Calm, Owner, Inside, HomeOk, Swapping, LookAgain, Asked,
       Has, AsUnpacked, Complete, Whole, Marked, Found, Usable
  <2> QED  BY <2>1, <2>2, <2>3, <2>4, <2>5, <2>6 DEF Calm
<1>15. CASE NoHome(p)
  <2>1. Owner'  BY <1>15 DEF NoHome, Calm, Owner, Inside, Swapping, LookAgain, Asked, Found
  <2>2. Inside'  BY <1>15 DEF NoHome, Calm, Owner, Inside, Swapping, LookAgain, Asked, Found
  <2>3. Unseen'
    BY <1>15 DEF NoHome, Calm, Owner, Inside, Unseen, Swapping, LookAgain, Asked,
       SeenUnmarked, Marked, Found
  <2>4. NoHeal'  BY <1>15 DEF NoHome, Calm, Owner, Inside, NoHeal, Swapping, LookAgain, Asked, Found
  <2>5. NoHalf'  BY <1>15 DEF NoHome, Calm, Owner, Inside, NoHalf, Marked, Usable, Swapping, LookAgain, Asked, Found
  <2>6. HomeOk'
    BY <1>15 DEF NoHome, Calm, Owner, Inside, HomeOk, Swapping, LookAgain, Asked,
       Has, AsUnpacked, Complete, Whole, Marked, Found
  <2> QED  BY <2>1, <2>2, <2>3, <2>4, <2>5, <2>6 DEF Calm
<1>16. CASE InitFails(p)
  <2>0. /\ pc' = [pc EXCEPT ![p] = "failed"] /\ pc[p] = "init"
        /\ UNCHANGED <<dir, lock, look, bLocked, tries, home>>
    BY <1>16 DEF InitFails
  <2>1. Owner' /\ Inside' /\ Unseen' /\ NoHeal'
    BY <2>0 DEF Calm, Owner, Inside, Unseen, NoHeal, Swapping, LookAgain, Asked,
       SeenUnmarked, Marked
  <2>2. NoHalf' /\ HomeOk'
    BY <2>0 DEF Calm, NoHalf, HomeOk, Has, AsUnpacked, Complete, Marked, Usable
  <2> QED  BY <2>1, <2>2 DEF Calm
<1>17. CASE Healed(p)
  <2>1. Owner'  BY <1>17 DEF Healed, Calm, Owner, Inside, Swapping, LookAgain, Asked
  <2>2. Inside'  BY <1>17 DEF Healed, Calm, Owner, Inside, Swapping, LookAgain, Asked
  <2>3. Unseen'
    BY <1>17 DEF Healed, Calm, Owner, Inside, Unseen, Swapping, LookAgain, Asked,
       SeenUnmarked, Marked
  <2>4. NoHeal'  BY <1>17 DEF Healed, Calm, Owner, Inside, NoHeal, Swapping, LookAgain, Asked
  <2>5. NoHalf'  BY <1>17 DEF Healed, Calm, Owner, Inside, NoHalf, Marked, Usable, Swapping, LookAgain, Asked
  <2>6. HomeOk'
    BY <1>17 DEF Healed, Calm, Owner, Inside, HomeOk, Swapping, LookAgain, Asked,
       Has, AsUnpacked, Complete, Whole, Marked
  <2> QED  BY <2>1, <2>2, <2>3, <2>4, <2>5, <2>6 DEF Calm
<1> QED
  BY <1>1, <1>2, <1>3, <1>4, <1>5, <1>6, <1>7, <1>8, <1>9, <1>10, <1>11, <1>12,
     <1>13, <1>14, <1>15, <1>16, <1>17 DEF Step

LEMMA CalmLockStep ==
  TypeOK /\ BuiltWhole /\ HomesOwn /\ CalmLock /\ [Next]_vars => CalmLock'
<1> SUFFICES ASSUME TypeOK, BuiltWhole, HomesOwn, CalmLock, [Next]_vars, calm'
             PROVE  Calm'
  BY CalmLockIs, PTL
<1>1. ASSUME NEW p \in Procs, Step(p) PROVE Calm'
  <2>1. calm
    BY <1>1 DEF Step, Locate, ReadMarker, LookAtContents, CreateLock, LockTaken, BreakLock, GiveUp,
                Unpack, UnpackFails, RemovePart, ClearedAway, Swap, Release, Starts, NoHome,
                InitFails, Healed, TypeOK
  <2>2. Calm  BY <2>1, CalmLockIs
  <2> QED  BY <1>1, <2>2, CalmStep
<1>2. ASSUME NEW p \in Procs, Crash(p) PROVE Calm'
  BY <1>2 DEF Crash
<1>3. CASE LockAges \/ UNCHANGED vars
  <2>1. UNCHANGED <<dir, lock, own, calm>>  BY <1>3 DEF LockAges, vars, files
  <2>2. Calm  BY <2>1, CalmLockIs
  <2> QED  BY <2>1, <2>2 DEF own, Calm, Owner, Inside, Unseen, NoHeal, NoHalf, HomeOk, Swapping,
             LookAgain, Asked, SeenUnmarked, Marked, Usable, Has, AsUnpacked, Complete
<1> QED  BY <1>1, <1>2, <1>3 DEF Next

LEMMA InitIInv == Init => IInv
<1> SUFFICES ASSUME Init PROVE IInv  OBVIOUS
<1>1. TypeOK  BY TypeInit
<1>2. /\ lock = NoLock /\ pc = [p \in Procs |-> "locate"]
      /\ bLocked = [p \in Procs |-> FALSE] /\ home = [p \in Procs |-> "none"]
  BY Zenon DEF Init
<1>3. \A d \in Dirs \ {"cache"} : dir[d] = Gone  BY DEF Init
<1>4. \/ dir["cache"] \in {Gone, Whole, [parts |-> Parts, build |-> "old"]} \cup Short
      \/ opened = {"cache"}
  <2>1. \/ dir \in [Dirs -> {Gone, Whole, [parts |-> Parts, build |-> "old"]} \cup Short]
        \/ opened = {"cache"}
    BY DEF Init
  <2> QED  BY <2>1 DEF Dirs, Shared
<1>5. LockWillGo  BY <1>1, <1>2 DEF LockWillGo
<1>6. \A d \in Shared : dir[d].build = "this" => dir[d].parts \in {{}, Parts} \/ d \in opened
  BY <1>3, <1>4, Kinds DEF Shared, Dirs, Gone, Whole
<1>7. BuiltWhole  BY <1>2, <1>6 DEF BuiltWhole
<1>8. HomesOwn  BY <1>2, Names DEF HomesOwn, Dirs
<1>9. CalmLock
  <2>1. ASSUME calm PROVE opened = {}  BY <2>1 DEF Init
  <2>2. ASSUME calm PROVE NoHalf
    <3>1. \A d \in Shared : dir[d] \in {Gone, Whole, [parts |-> Parts, build |-> "old"]} \cup Short
      BY <1>3, <1>4, <2>1, <2>2 DEF Shared, Dirs
    <3>2. \A d \in Shared : Marked(d) => Usable(d)
      BY <3>1, Kinds DEF Marked, Usable, Gone, Whole, Parts
    <3> QED  BY <1>6, <2>1, <2>2, <3>2 DEF NoHalf
  <2>3. Owner /\ Inside /\ NoHeal /\ HomeOk
    BY <1>2, Names DEF Owner, Inside, NoHeal, HomeOk, Swapping, LookAgain, Has
  <2>4. Unseen  BY <1>2 DEF Unseen, SeenUnmarked, Swapping, LookAgain
  <2> QED  BY <2>2, <2>3, <2>4, CalmLockIs DEF Calm
<1> QED  BY <1>5, <1>7, <1>8, <1>9 DEF IInv

LEMMA StepIInv == IInv /\ [Next]_vars => IInv'
  BY LockStep, BuiltStep, HomesStep, CalmLockStep DEF IInv, LockWillGo

LEMMA Inductive == Spec => []IInv
  BY InitIInv, StepIInv, PTL DEF Spec

-----------------------------------------------------------------------------
(* Every variable keeps its type, and a lock directory is always one that  *)
(* a process is going to remove, unless it was broken into or its owner    *)
(* died: no way out of ExtractEmbeddedRuntime forgets it.                  *)
THEOREM LockGoes == Spec => []LockWillGo
<1>1. IInv => LockWillGo  BY DEF IInv
<1> QED  BY <1>1, Inductive, PTL

(* The unpacked runtime shows up under a shared name only as a whole: one  *)
(* that would be taken and is not whole is one that a remove_all has begun *)
(* to take apart, or that a full disk cut short and nobody asked.          *)
THEOREM BuiltInPrivate == Spec => []PartialOnlyByRemoval
<1>1. IInv => PartialOnlyByRemoval
  <2> SUFFICES ASSUME IInv, NEW d \in Shared, Matches(d), ~Complete(d),
                      d \notin opened, dir[d].build # "short"
               PROVE  FALSE
    BY DEF PartialOnlyByRemoval
  <2>1. dir[d] \in Contents  BY Names DEF IInv, LockWillGo, TypeOK
  <2>2. dir[d].build = "this" /\ dir[d].parts = Parts
    BY <2>1, dir[d].build # "short" DEF IInv, BuiltWhole, Matches, Marked, Contents
  <2>3. dir[d] = Whole  BY <2>1, <2>2 DEF Contents, Whole
  <2> QED  BY <2>3 DEF Complete
<1> QED  BY <1>1, Inductive, PTL

(* With the lock held by one process at a time, and the caches looked at   *)
(* again under it, no process that runs loses a part of a whole runtime to *)
(* another's clearing away.                                                *)
THEOREM CalmRunning == Spec => []CalmHomes
<1>1. IInv => CalmHomes  BY DEF IInv, CalmLock, CalmHomes, Has
<1> QED  BY <1>1, Inductive, PTL
=============================================================================
