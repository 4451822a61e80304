---------------------------- MODULE RuntimeCache ----------------------------
(***************************************************************************)
(* The unpacked Python runtime under the temp directory: several processes *)
(* of one build, each in EmbedPythonInit (embed_python.cpp), which finds a *)
(* home through ExtractEmbeddedRuntime (embedded_runtime.cpp).  The cache  *)
(* directory, its hash-suffixed fallback and the lock directory are shared *)
(* through the file system; rename is atomic, remove_all and "look at the  *)
(* marker, then at the files" are not.  A directory is the set of its      *)
(* parts: the manifest, the entries CacheContentsUsable looks for, and     *)
(* everything else.                                                        *)
(***************************************************************************)
EXTENDS Naturals, FiniteSets

CONSTANTS
  Procs,        (* the processes                                            *)
  Tries,        (* how often create_directory of the lock is tried: 50      *)
  MaxCrashes,   (* bound: how many processes are killed                     *)
  Environment   (* TRUE when CURLBOLT_PYHOME names a usable runtime         *)

ASSUME RuntimeAssumption ==
  /\ Tries \in Nat \ {0} /\ MaxCrashes \in Nat /\ Environment \in BOOLEAN
  /\ IsFiniteSet(Procs)
  /\ Procs \cap {"nobody", "cache", "fallback", "none", "env"} = {}

VARIABLES
  dir,        (* the directories                                            *)
  lock,       (* who made the lock directory, NoLock when there is none     *)
  stale,      (* it is older than kCacheLockStaleSec                        *)
  pc, look,   (* where a process stands; the directory it is at             *)
  bLocked,    (* it made the lock directory                                 *)
  tries,      (* rounds of AcquireCacheLock                                 *)
  nAttempt,   (* of EmbedPythonInit: 0 or 1                                 *)
  home,       (* strHome                                                    *)
  (* history *)
  opened,     (* directories a remove_all was started on since their rename *)
  calm        (* no lock timed out or was broken, none healed, none died    *)

files == <<dir, lock, stale>>
own   == <<pc, look, bLocked, tries, nAttempt, home>>
vars  == <<files, own, opened, calm>>

NoLock  == "nobody"
Shared  == {"cache", "fallback"}
Dirs    == Shared \cup Procs                 (* p is the directory .tmp-<p> *)
Parts   == {"manifest", "entries", "rest"}
Homes   == Dirs \cup {"none", "env"}
Contents == [parts : SUBSET Parts, build : {"this", "old", "short"}]

(* No directory: no parts.  "old" is what another build left, "short" what *)
(* this one unpacked when the disk took not all of it and nobody noticed:  *)
(* no file is looked at after it is closed, and the manifest not at all.   *)
Gone    == [parts |-> {}, build |-> "this"]
Whole   == [parts |-> Parts, build |-> "this"]
Short   == {[parts |-> Parts \ {lost}, build |-> "short"] : lost \in {"manifest", "rest"}}
Complete(d) == dir[d] = Whole

(* What MatchingCache takes for a runtime that may be used.                *)
Marked(d)  == "manifest" \in dir[d].parts /\ dir[d].build # "old"
Usable(d)  == "entries" \in dir[d].parts     (* CacheContentsUsable         *)
Matches(d) == Marked(d) /\ Usable(d)

(* What is there before: nothing, a cache, whole or short, another         *)
(* build's, or one that a cleaner or an interrupted run left half removed. *)
Init ==
  /\ \/ /\ dir \in [Dirs -> {Gone, Whole, [parts |-> Parts, build |-> "old"]} \cup Short]
        /\ opened = {}
     \/ /\ dir \in [Dirs -> {Gone, [parts |-> Parts \ {"rest"}, build |-> "this"]}]
        /\ opened = {"cache"}
  /\ \A d \in Dirs \ {"cache"} : dir[d] = Gone
  /\ lock = NoLock /\ stale = FALSE
  /\ pc = [p \in Procs |-> "locate"] /\ look = [p \in Procs |-> "cache"]
  /\ bLocked = [p \in Procs |-> FALSE] /\ tries = [p \in Procs |-> 0]
  /\ nAttempt = [p \in Procs |-> 0] /\ home = [p \in Procs |-> "none"]
  /\ calm = (opened = {})

Goto(p, l) == pc' = [pc EXCEPT ![p] = l]

-----------------------------------------------------------------------------
(* MatchingCache, before the lock and again after it.                      *)

Locate(p) ==
  /\ pc[p] = "locate"
  /\ Goto(p, "marker")
  /\ look' = [look EXCEPT ![p] = "cache"]
  /\ tries' = [tries EXCEPT ![p] = 0]
  /\ UNCHANGED <<files, bLocked, nAttempt, home, opened, calm>>

(* Where the loop over the two directories goes on.  tries is Tries + 1    *)
(* once AcquireCacheLock has returned.                                     *)
Asked(p) == tries[p] = Tries + 1
Next_directory(p) ==
  IF look[p] = "cache"
    THEN Goto(p, "marker") /\ look' = [look EXCEPT ![p] = "fallback"]
    ELSE Goto(p, IF Asked(p) THEN "extract" ELSE "lock") /\ UNCHANGED look

ReadMarker(p) ==
  /\ pc[p] = "marker"
  /\ IF Marked(look[p]) THEN Goto(p, "contents") /\ UNCHANGED look
                        ELSE Next_directory(p)
  /\ UNCHANGED <<files, bLocked, tries, nAttempt, home, opened, calm>>

LookAtContents(p) ==
  /\ pc[p] = "contents"
  /\ IF Usable(look[p])
       THEN /\ home' = [home EXCEPT ![p] = look[p]]
            /\ Goto(p, "release") /\ UNCHANGED look
       ELSE Next_directory(p) /\ UNCHANGED home
  /\ UNCHANGED <<files, bLocked, tries, nAttempt, opened, calm>>

-----------------------------------------------------------------------------
(* AcquireCacheLock: rounds of create_directory, then of a look at the age.*)

(* Mutant of CreateLock: the second look under the lock is left out.       *)
CreateLock_noRecheck(p) ==
  /\ pc[p] = "lock" /\ tries[p] < Tries /\ lock = NoLock
  /\ lock' = p /\ stale' = FALSE
  /\ bLocked' = [bLocked EXCEPT ![p] = TRUE]
  /\ tries' = [tries EXCEPT ![p] = Tries + 1]
  /\ Goto(p, "extract")
  /\ UNCHANGED <<dir, look, nAttempt, home, opened, calm>>

CreateLock(p) ==
  /\ pc[p] = "lock" /\ tries[p] < Tries /\ lock = NoLock
  /\ lock' = p /\ stale' = FALSE
  /\ bLocked' = [bLocked EXCEPT ![p] = TRUE]
  /\ tries' = [tries EXCEPT ![p] = Tries + 1]
  /\ Goto(p, "marker") /\ look' = [look EXCEPT ![p] = "cache"]
  /\ UNCHANGED <<dir, nAttempt, home, opened, calm>>

LockTaken(p) ==
  /\ pc[p] = "lock" /\ tries[p] < Tries /\ lock # NoLock
  /\ tries' = [tries EXCEPT ![p] = @ + 1]
  /\ Goto(p, IF stale THEN "break" ELSE "lock")
  /\ UNCHANGED <<files, look, bLocked, nAttempt, home, opened, calm>>

(* Its age was read before: by now the lock may be another process's.      *)
BreakLock(p) ==
  /\ pc[p] = "break"
  /\ lock' = NoLock /\ stale' = FALSE
  /\ calm' = FALSE
  /\ Goto(p, "lock")
  /\ UNCHANGED <<dir, look, bLocked, tries, nAttempt, home, opened>>

(* Mutant of GiveUp: a waiter stays.                                       *)
GiveUp_never(p) ==
  /\ pc[p] = "lock" /\ tries[p] = Tries
  /\ tries' = [tries EXCEPT ![p] = 0]
  /\ UNCHANGED <<files, pc, look, bLocked, nAttempt, home, opened, calm>>

(* "Lock failure is not fatal."                                            *)
GiveUp(p) ==
  /\ pc[p] = "lock" /\ tries[p] = Tries
  /\ tries' = [tries EXCEPT ![p] = Tries + 1]
  /\ Goto(p, "marker") /\ look' = [look EXCEPT ![p] = "cache"]
  /\ calm' = FALSE
  /\ UNCHANGED <<files, bLocked, nAttempt, home, opened>>

-----------------------------------------------------------------------------
(* Unpacking and the swap.                                                 *)

(* Mutant of Unpack: into the cache itself, the manifest first.            *)
Unpack_inPlace(p) ==
  /\ pc[p] = "extract"
  /\ dir' = [dir EXCEPT !["cache"] = [parts |-> Parts \ {"rest"}, build |-> "this"],
                        ![p] = Whole]
  /\ Goto(p, "clear") /\ look' = [look EXCEPT ![p] = "cache"]
  /\ opened' = opened \ {"cache"}
  /\ UNCHANGED <<lock, stale, bLocked, tries, nAttempt, home, calm>>

(* The blob goes into the directory of this process, the manifest last.    *)
(* Each file exists; what it lost as it was closed nobody asks.            *)
Unpack(p) ==
  /\ pc[p] = "extract"
  /\ \E unpacked \in {Whole} \cup Short : dir' = [dir EXCEPT ![p] = unpacked]
  /\ Goto(p, "clear") /\ look' = [look EXCEPT ![p] = "cache"]
  /\ UNCHANGED <<lock, stale, bLocked, tries, nAttempt, home, opened, calm>>

(* Mutant of UnpackFails: one of the early returns keeps the lock.         *)
UnpackFails_keepsLock(p) ==
  /\ pc[p] = "extract"
  /\ dir' = [dir EXCEPT ![p] = Gone]
  /\ bLocked' = [bLocked EXCEPT ![p] = FALSE]
  /\ Goto(p, "release")
  /\ UNCHANGED <<lock, stale, look, tries, nAttempt, home, opened, calm>>

(* The file, its hash or its format is bad, or the disk is full: the lock  *)
(* is released and there is no home.                                       *)
UnpackFails(p) ==
  /\ pc[p] = "extract"
  /\ dir' = [dir EXCEPT ![p] = Gone]
  /\ Goto(p, "release")
  /\ UNCHANGED <<lock, stale, look, bLocked, tries, nAttempt, home, opened, calm>>

(* remove_all(look[p]), one entry after another in no order.  Files that a *)
(* process has mapped stay on Windows, and end it.                         *)
RemovePart(p) ==
  /\ pc[p] \in {"clear", "heal"}
  /\ \E part \in dir[look[p]].parts :
       dir' = [dir EXCEPT ![look[p]] = [parts |-> @.parts \ {part}, build |-> @.build]]
  /\ opened' = opened \cup {look[p]}
  /\ UNCHANGED <<lock, stale, own, calm>>

InUse(d) ==
  \/ \E q \in Procs : pc[q] = "ready" /\ home[q] = d
  \/ dir[d].build = "old"

Removed(p) == dir[look[p]].parts = {} \/ InUse(look[p])

ClearedAway(p) ==
  /\ pc[p] = "clear" /\ Removed(p)
  /\ Goto(p, "rename")
  /\ UNCHANGED <<files, look, bLocked, tries, nAttempt, home, opened, calm>>

(* A directory that has anything in it is not replaced.  After the second  *)
(* failure the temp directory is the home.                                 *)
Swap(p) ==
  /\ pc[p] = "rename"
  /\ LET d == look[p]
     IN  \/ /\ dir[d].parts = {}
            /\ dir' = [dir EXCEPT ![d] = dir[p], ![p] = Gone]
            /\ opened' = opened \ {d}
            /\ home' = [home EXCEPT ![p] = d]
            /\ Goto(p, "release") /\ UNCHANGED look
         \/ /\ dir[d].parts # {} /\ d = "cache"
            /\ Goto(p, "clear") /\ look' = [look EXCEPT ![p] = "fallback"]
            /\ UNCHANGED <<dir, opened, home>>
         \/ /\ dir[d].parts # {} /\ d = "fallback"
            /\ home' = [home EXCEPT ![p] = p]
            /\ Goto(p, "release")
            /\ UNCHANGED <<dir, opened, look>>
  /\ UNCHANGED <<lock, stale, bLocked, tries, nAttempt, calm>>

(* ReleaseCacheLock removes the directory, whoever made it.                *)
Release(p) ==
  /\ pc[p] = "release"
  /\ IF bLocked[p] THEN lock' = NoLock /\ stale' = FALSE
                   ELSE UNCHANGED <<lock, stale>>
  /\ bLocked' = [bLocked EXCEPT ![p] = FALSE]
  /\ Goto(p, "init")
  /\ UNCHANGED <<dir, look, tries, nAttempt, home, opened, calm>>

-----------------------------------------------------------------------------
(* EmbedPythonInit with the home that was found.                           *)

(* RuntimeHomeUsable at the end of LocateRuntimeHome, or the environment.  *)
Found(p) ==
  IF home[p] \in Dirs /\ Usable(home[p]) THEN home[p]
  ELSE IF Environment THEN "env" ELSE "none"

Starts(p) ==
  /\ pc[p] = "init" /\ Found(p) # "none"
  /\ home' = [home EXCEPT ![p] = Found(p)]
  /\ Goto(p, "ready")
  /\ UNCHANGED <<files, look, bLocked, tries, nAttempt, opened, calm>>

NoHome(p) ==
  /\ pc[p] = "init" /\ Found(p) = "none"
  /\ home' = [home EXCEPT ![p] = "none"]
  /\ Goto(p, "failed")
  /\ UNCHANGED <<files, look, bLocked, tries, nAttempt, opened, calm>>

(* Py_InitializeFromConfig misses a file; it needs no manifest.  A cache   *)
(* is removed, once.                                                       *)
InitFails(p) ==
  /\ pc[p] = "init" /\ Found(p) \in Dirs /\ ~({"entries", "rest"} \subseteq dir[Found(p)].parts)
  /\ IF nAttempt[p] = 0 /\ home[p] \in Shared
       THEN Goto(p, "heal") /\ look' = [look EXCEPT ![p] = home[p]] /\ calm' = FALSE
       ELSE Goto(p, "failed") /\ UNCHANGED <<look, calm>>
  /\ UNCHANGED <<files, bLocked, tries, nAttempt, home, opened>>

Healed(p) ==
  /\ pc[p] = "heal" /\ Removed(p)
  /\ nAttempt' = [nAttempt EXCEPT ![p] = 1]
  /\ home' = [home EXCEPT ![p] = "none"]
  /\ Goto(p, "locate")
  /\ UNCHANGED <<files, look, bLocked, tries, opened, calm>>

-----------------------------------------------------------------------------
(* The environment.                                                        *)

Ended == {"ready", "failed", "dead"}

Crash(p) ==
  /\ pc[p] \notin Ended
  /\ Cardinality({q \in Procs : pc[q] = "dead"}) < MaxCrashes
  /\ Goto(p, "dead")
  /\ calm' = FALSE
  /\ UNCHANGED <<files, look, bLocked, tries, nAttempt, home, opened>>

LockAges ==
  /\ lock # NoLock /\ ~stale
  /\ stale' = TRUE
  /\ UNCHANGED <<dir, lock, own, opened, calm>>

Step(p) ==
  \/ Locate(p) \/ ReadMarker(p) \/ LookAtContents(p)
  \/ CreateLock(p) \/ LockTaken(p) \/ BreakLock(p) \/ GiveUp(p)
  \/ Unpack(p) \/ UnpackFails(p) \/ RemovePart(p) \/ ClearedAway(p)
  \/ Swap(p) \/ Release(p)
  \/ Starts(p) \/ NoHome(p) \/ InitFails(p) \/ Healed(p)

Next == (\E p \in Procs : Step(p) \/ Crash(p)) \/ LockAges

Spec     == Init /\ [][Next]_vars
FairSpec == Spec /\ \A p \in Procs : WF_vars(Step(p))

-----------------------------------------------------------------------------
(* Every variable has its type.                                            *)
Places == {"locate", "marker", "contents", "lock", "break", "extract", "clear", "rename",
           "release", "init", "heal"} \cup Ended
TypeOK ==
  /\ dir \in [Dirs -> Contents]
  /\ lock \in Procs \cup {NoLock} /\ stale \in BOOLEAN
  /\ pc \in [Procs -> Places]
  /\ look \in [Procs -> Shared] /\ bLocked \in [Procs -> BOOLEAN]
  /\ tries \in [Procs -> 0 .. Tries + 1] /\ nAttempt \in [Procs -> 0 .. 1]
  /\ home \in [Procs -> Homes] /\ opened \subseteq Dirs /\ calm \in BOOLEAN

(* The inductive invariant of RuntimeCacheProofs.  A directory is taken    *)
(* apart by remove_all alone, and what a process swaps in is whole, but    *)
(* for what the disk did not take.  It has no home before that, and never  *)
(* another's temp directory.                                               *)
BuiltWhole ==
  /\ \A d \in Shared : dir[d].build = "this" => dir[d].parts \in {{}, Parts} \/ d \in opened
  /\ \A p \in Procs : pc[p] \in {"clear", "rename"} => dir[p] \in {Whole} \cup Short
HomesOwn ==
  /\ \A p \in Procs : pc[p] \in Places \ ({"release", "init", "heal"} \cup Ended)
                      => home[p] = "none"
  /\ \A p, q \in Procs : home[p] = q => p = q

(* While all is calm, the lock excludes: its owner is the one process that *)
(* is past it, and has seen that the directories it is going to remove     *)
(* hold nothing a process could have for its home.                         *)
Swapping(p)  == pc[p] \in {"extract", "clear", "rename"}
LookAgain(p) == pc[p] \in {"marker", "contents"} /\ Asked(p)
SeenUnmarked(p) ==
  IF Swapping(p) THEN Shared
  ELSE IF LookAgain(p) /\ look[p] = "fallback" THEN {"cache"} ELSE {}
Has(p, d) == pc[p] \in {"release", "init", "ready"} /\ home[p] = d
AsUnpacked(d) == Complete(d) \/ dir[d].build = "short"
CalmLock ==
  calm =>
    /\ \A p \in Procs : bLocked[p] <=> lock = p
    /\ \A p \in Procs : Swapping(p) \/ LookAgain(p) => bLocked[p]
    /\ \A p \in Procs : \A d \in SeenUnmarked(p) : ~Marked(d)
    /\ \A p \in Procs : pc[p] # "heal"
    /\ \A d \in Shared : /\ dir[d].build = "this" => dir[d].parts \in {{}, Parts}
                         /\ Marked(d) => Usable(d)
    /\ \A p \in Procs : /\ \A d \in Dirs : Has(p, d) => AsUnpacked(d)
                        /\ pc[p] = "contents" => Marked(look[p])

(* A lock directory nobody is going to remove is one that was broken into  *)
(* or whose owner died: no way out of ExtractEmbeddedRuntime forgets it.   *)
LockWillGo == TypeOK /\ (lock # NoLock => bLocked[lock] \/ ~calm)

(* "No half-built cache is ever visible" as far as building goes: a shared *)
(* directory MatchingCache would take without all its files is one that    *)
(* somebody began to remove, or that a full disk cut short unnoticed.      *)
PartialOnlyByRemoval ==
  \A d \in Shared : Matches(d) /\ ~Complete(d) => d \in opened \/ dir[d].build = "short"

(* As long as every waiter got the lock in its ten seconds and nobody died *)
(* or had to heal, each process that runs has a whole runtime under it.    *)
(* Not so one whose unpacking was cut short: without its manifest it is no *)
(* cache to the next process, which removes it while the first runs.       *)
CalmHomes ==
  calm => \A p \in Procs : pc[p] = "ready" /\ home[p] \in Dirs => AsUnpacked(home[p])

IInv == LockWillGo /\ BuiltWhole /\ HomesOwn /\ CalmLock

(* A dead owner, a slow one or a heap of stale directories keep nobody     *)
(* from an answer.                                                         *)
EveryoneAnswers == \A p \in Procs : <>(pc[p] \in Ended)
=============================================================================
