--------------------------- MODULE VideoTaskProofs --------------------------
(***************************************************************************)
(* Theorems about VideoTask and the PyWorker it uses, for any set of tasks *)
(* and any of them canceled at any moment.  PyIInv is kept by every step   *)
(* of the worker and of its callers; IInv by every step of a task.         *)
(***************************************************************************)
EXTENDS VideoTask, FunctionTheorems, SequenceTheorems, TLAPS

LEMMA NoJobIsNone == NoJob \notin JobIds
  BY DEF NoJob, JobIds

LEMMA JobParts ==
  ASSUME NEW j \in JobIds
  PROVE  j[1] \in Callers /\ j[2] \in Nat /\ j[2] > 0 /\ j[3] \in Kinds
  BY DEF JobIds

LEMMA NoAnswerIsOne == NoAnswer \in Answers
  BY DEF NoAnswer, Answers

LEMMA PyStarts == Init => PyIInv
<1> SUFFICES ASSUME Init PROVE PyIInv  OBVIOUS
<1>1. PyTypeOK
  <2>1. call \in [Callers -> [job : JobIds \cup {NoJob}, answer : Answers,
                              at : {"idle", "waiting", "read", "remove", "over"}]]
    BY DEF Init, PyInit, Idle, NoAnswer, Answers
  <2>2. jobs \in Seq(JobIds) /\ DOMAIN rc = {}  BY DEF Init, PyInit
  <2>3. result \in Answers  BY DEF Init, PyInit, NoAnswer, Answers
  <2> QED  BY <2>1, <2>2, <2>3 DEF Init, PyInit, PyTypeOK
<1>2. JobsAccounted
  BY <1>1 DEF Init, PyInit, JobsAccounted
<1>3. ParserOrBackup /\ AtWork  BY DEF Init, PyInit, ParserOrBackup, AtWork
<1>4. NumbersGrow  BY DEF Init, PyInit, NumbersGrow, Idle
<1> QED  BY <1>2, <1>3, <1>4 DEF PyIInv

(* The number of a new job is larger than those of its caller before it,   *)
(* so it is neither queued nor run.                                        *)
LEMMA NewJob ==
  ASSUME PyIInv, NEW c \in Callers, NEW kind \in Kinds
  PROVE  /\ NextJob(c, kind) \in JobIds /\ NextJob(c, kind)[1] = c
         /\ NextJob(c, kind) \notin DOMAIN rc
         /\ call[c].job # NoJob => NextJob(c, kind)[2] = call[c].job[2] + 1
<1>1. call[c].job \in JobIds \cup {NoJob}
  BY DEF PyIInv, JobsAccounted, PyTypeOK
<1>2. CASE call[c].job = NoJob
  BY <1>2 DEF NextJob, JobIds, PyIInv, NumbersGrow
<1>3. CASE call[c].job # NoJob
  <2>1. call[c].job[2] \in Nat /\ call[c].job[2] > 0  BY <1>1, <1>3, JobParts
  <2>2. NextJob(c, kind) = <<c, call[c].job[2] + 1, kind>>  BY <1>3 DEF NextJob
  <2>3. NextJob(c, kind) \in JobIds  BY <2>1, <2>2 DEF JobIds
  <2>4. NextJob(c, kind) \notin DOMAIN rc
    BY <2>1, <2>2 DEF PyIInv, NumbersGrow
  <2> QED  BY <2>1, <2>2, <2>3, <2>4
<1> QED  BY <1>2, <1>3

LEMMA SubmitPy ==
  ASSUME PyIInv, NEW c \in Callers, NEW kind \in Kinds, NEW canceled \in BOOLEAN,
         Submit(c, kind, canceled)
  PROVE  PyIInv'
<1> DEFINE j == NextJob(c, kind)
<1>1. /\ j \in JobIds /\ j[1] = c /\ j \notin DOMAIN rc
      /\ call[c].job # NoJob => j[2] = call[c].job[2] + 1
  BY NewJob
<1>2. /\ jobs' = Append(jobs, j)
      /\ rc' = [i \in DOMAIN rc \cup {j} |-> IF i = j THEN "open" ELSE rc[i]]
      /\ call' = [call EXCEPT ![c] =
           [job |-> j, at |-> IF canceled THEN "over" ELSE "waiting", answer |-> NoAnswer]]
      /\ UNCHANGED <<cur, script, stop, result, parser, backup>>
  BY DEF Submit, disk
<1>3. IF started THEN UNCHANGED <<worker, started, exited>>
                 ELSE worker' = "wait" /\ started' = TRUE /\ exited' = FALSE
  BY DEF Submit
<1>4. /\ jobs \in Seq(JobIds) /\ j # NoJob /\ j # cur
      /\ \A i \in DOMAIN jobs : jobs[i] # j
  BY <1>1, NoJobIsNone DEF PyIInv, JobsAccounted, PyTypeOK, AtWork
<1> HIDE DEF j
<1>5. /\ jobs' \in Seq(JobIds) /\ Len(jobs') = Len(jobs) + 1
      /\ DOMAIN jobs = 1 .. Len(jobs) /\ DOMAIN jobs' = 1 .. Len(jobs) + 1
      /\ Len(jobs) \in Nat
      /\ \A i \in 1 .. Len(jobs) : jobs'[i] = jobs[i]
      /\ jobs'[Len(jobs) + 1] = j
  BY <1>1, <1>2, <1>4
<1>6. PyTypeOK'
  <2>1. NoAnswer \in Answers  BY DEF NoAnswer, Answers
  <2>2. call' \in [Callers -> [job : JobIds \cup {NoJob}, answer : Answers,
                               at : {"idle", "waiting", "read", "remove", "over"}]]
    BY <1>1, <1>2, <2>1 DEF PyIInv, JobsAccounted, PyTypeOK
  <2>3. /\ DOMAIN rc' \subseteq JobIds
        /\ \A i \in DOMAIN rc' : rc'[i] \in {"open", "done", "raised"}
    BY <1>1, <1>2 DEF PyIInv, JobsAccounted, PyTypeOK
  <2> QED  BY <1>2, <1>3, <1>5, <2>2, <2>3 DEF PyIInv, JobsAccounted, PyTypeOK
<1>7. JobsAccounted'
  <2>1. \A i, k \in DOMAIN jobs' : jobs'[i] = jobs'[k] => i = k
    BY <1>4, <1>5 DEF PyIInv, JobsAccounted
  <2>2. \A i \in DOMAIN jobs' : jobs'[i] \in DOMAIN rc' /\ jobs'[i] # cur'
    BY <1>2, <1>4, <1>5 DEF PyIInv, JobsAccounted
  <2>3. \A i \in DOMAIN rc' :
          rc'[i] = "open" <=> i = cur' \/ \E k \in DOMAIN jobs' : jobs'[k] = i
    <3> SUFFICES ASSUME NEW i \in DOMAIN rc'
                 PROVE  rc'[i] = "open" <=> i = cur' \/ \E k \in DOMAIN jobs' : jobs'[k] = i
      OBVIOUS
    <3>1. CASE i = j  BY <3>1, <1>2, <1>5
    <3>2. CASE i # j
      <4>1. i \in DOMAIN rc /\ rc'[i] = rc[i]  BY <3>2, <1>2
      <4>2. (\E k \in DOMAIN jobs' : jobs'[k] = i) <=> \E k \in DOMAIN jobs : jobs[k] = i
        BY <3>2, <1>5
      <4> QED  BY <4>1, <4>2, <1>2 DEF PyIInv, JobsAccounted
    <3> QED  BY <3>1, <3>2
  <2>4. started' <=> worker' # "none"  BY <1>3 DEF PyIInv, JobsAccounted
  <2> QED  BY <1>6, <2>1, <2>2, <2>3, <2>4 DEF JobsAccounted
<1>8. ParserOrBackup'  BY <1>2 DEF PyIInv, ParserOrBackup
<1>9. AtWork'  BY <1>2, <1>3 DEF PyIInv, AtWork, JobsAccounted
<1>10. NumbersGrow'
  <2>1. call'[c].job = j /\ \A d \in Callers : d # c => call'[d] = call[d]
    BY <1>2 DEF PyIInv, JobsAccounted, PyTypeOK
  <2>2. \A d \in Callers : call'[d].job # NoJob => call'[d].job[1] = d
    BY <1>1, <2>1 DEF PyIInv, NumbersGrow
  <2>3. \A i \in DOMAIN rc' :
          call'[i[1]].job # NoJob /\ i[2] <= call'[i[1]].job[2]
    <3> SUFFICES ASSUME NEW i \in DOMAIN rc'
                 PROVE  call'[i[1]].job # NoJob /\ i[2] <= call'[i[1]].job[2]
      OBVIOUS
    <3>1. i \in JobIds /\ i[1] \in Callers /\ i[2] \in Nat /\ j[2] \in Nat
      BY <1>1, <1>6, JobParts DEF PyTypeOK
    <3>2. CASE i = j  BY <3>1, <3>2, <1>1, <1>4, <2>1
    <3>3. CASE i # j
      <4>1. i \in DOMAIN rc  BY <3>3, <1>2
      <4>2. call[i[1]].job # NoJob /\ i[2] <= call[i[1]].job[2]
        BY <4>1 DEF PyIInv, NumbersGrow
      <4>3. call[i[1]].job \in JobIds
        BY <3>1, <4>2 DEF PyIInv, JobsAccounted, PyTypeOK
      <4>4. call[i[1]].job[2] \in Nat  BY <4>3, JobParts
      <4>5. CASE i[1] # c  BY <4>2, <4>5, <3>1, <2>1
      <4>6. CASE i[1] = c  BY <4>2, <4>4, <4>6, <3>1, <2>1, <1>1, <1>4
      <4> QED  BY <4>5, <4>6
    <3> QED  BY <3>2, <3>3
  <2> QED  BY <2>2, <2>3 DEF NumbersGrow
<1> QED  BY <1>7, <1>8, <1>9, <1>10 DEF PyIInv

(* A caller that waits, reads or gives up touches its call and, removing   *)
(* it, the file.                                                           *)
LEMMA AwaitPy ==
  ASSUME PyIInv, NEW c \in Callers, Await(c)
  PROVE  PyIInv'
<1>1. /\ UNCHANGED <<jobs, worker, cur, script, started, stop, exited, parser, backup>>
      /\ result' \in {result, NoAnswer}
  BY DEF Await, Woken, TimesOut, ReadResult, RemoveResult, thread, disk
<1>r. /\ DOMAIN rc' \subseteq DOMAIN rc
      /\ \A j \in DOMAIN rc' : rc'[j] = rc[j]
      /\ \A j \in DOMAIN rc : rc[j] = "open" => j \in DOMAIN rc'
  <2>1. CASE Woken(c)  BY <2>1 DEF Woken, Forget
  <2>2. CASE UNCHANGED rc  BY <2>2
  <2> QED  BY <2>1, <2>2 DEF Await, TimesOut, ReadResult, RemoveResult, thread
<1>2. \E at \in {"idle", "waiting", "read", "remove", "over"}, a \in Answers :
        call' = [call EXCEPT ![c] = [job |-> call[c].job, at |-> at, answer |-> a]]
  <2>1. /\ call[c] \in [job : JobIds \cup {NoJob}, answer : Answers,
                        at : {"idle", "waiting", "read", "remove", "over"}]
        /\ result \in Answers
    BY DEF PyIInv, JobsAccounted, PyTypeOK
  <2>2. \A at : [call[c] EXCEPT !.at = at] = [job |-> call[c].job, at |-> at, answer |-> call[c].answer]
    BY <2>1
  <2>3. CASE Woken(c)  BY <2>1, <2>2, <2>3 DEF Woken, MoveOn
  <2>4. CASE TimesOut(c)  BY <2>1, <2>2, <2>4 DEF TimesOut, MoveOn
  <2>5. CASE ReadResult(c)  BY <2>1, <2>5 DEF ReadResult
  <2>6. CASE RemoveResult(c)  BY <2>1, <2>2, <2>6 DEF RemoveResult, MoveOn
  <2> QED  BY <2>3, <2>4, <2>5, <2>6 DEF Await
<1>3. /\ call' \in [Callers -> [job : JobIds \cup {NoJob}, answer : Answers,
                                at : {"idle", "waiting", "read", "remove", "over"}]]
      /\ \A d \in Callers : call'[d].job = call[d].job
  BY <1>2 DEF PyIInv, JobsAccounted, PyTypeOK
<1>4. result' \in Answers
  BY <1>1, NoAnswerIsOne DEF PyIInv, JobsAccounted, PyTypeOK
<1>5. PyTypeOK'
  <2>1. DOMAIN rc' \subseteq JobIds /\ \A j \in DOMAIN rc' : rc'[j] \in {"open", "done", "raised"}
    BY <1>r DEF PyIInv, JobsAccounted, PyTypeOK
  <2> QED  BY <1>1, <1>3, <1>4, <2>1 DEF PyIInv, JobsAccounted, PyTypeOK
<1>6. JobsAccounted'
  <2>1. \A i \in DOMAIN jobs : jobs[i] \in DOMAIN rc'
    BY <1>r DEF PyIInv, JobsAccounted
  <2>2. \A j \in DOMAIN rc' :
          rc'[j] = "open" <=> j = cur \/ \E i \in DOMAIN jobs : jobs[i] = j
    BY <1>r DEF PyIInv, JobsAccounted
  <2> QED  BY <1>1, <1>5, <2>1, <2>2 DEF PyIInv, JobsAccounted
<1>7. NumbersGrow'
  <2>1. \A i \in DOMAIN rc : i[1] \in Callers
    BY JobParts DEF PyIInv, JobsAccounted, PyTypeOK
  <2> QED  BY <1>r, <1>3, <2>1 DEF PyIInv, NumbersGrow
<1>8. ParserOrBackup' /\ AtWork'
  <2>1. cur # NoJob => cur \in DOMAIN rc'
    BY <1>r DEF PyIInv, AtWork, JobsAccounted
  <2> QED  BY <1>1, <2>1 DEF PyIInv, ParserOrBackup, AtWork
<1> QED  BY <1>6, <1>7, <1>8 DEF PyIInv

(* The worker, between two scripts.                                        *)
LEMMA LoopPy ==
  ASSUME PyIInv, Loop
  PROVE  PyIInv'
<1>1. CASE Take
  <2> DEFINE j == Head(jobs)
  <2>1. /\ worker = "wait" /\ jobs # <<>> /\ cur' = j /\ jobs' = Tail(jobs)
        /\ worker' = "run" /\ script' = "begin"
        /\ UNCHANGED <<started, stop, exited, rc, result, parser, backup, call>>
    BY <1>1 DEF Take, disk
  <2>2. /\ jobs \in Seq(JobIds) /\ Len(jobs) \in Nat /\ Len(jobs) > 0
        /\ DOMAIN jobs = 1 .. Len(jobs) /\ j = jobs[1]
        /\ jobs' \in Seq(JobIds) /\ DOMAIN jobs' = 1 .. Len(jobs) - 1
        /\ \A i \in DOMAIN jobs' : jobs'[i] = jobs[i + 1]
    BY <2>1 DEF PyIInv, JobsAccounted, PyTypeOK
  <2>3. j \in JobIds /\ j \in DOMAIN rc  BY <2>2 DEF PyIInv, JobsAccounted, PyTypeOK
  <2> HIDE DEF j
  <2>4. cur = NoJob  BY <2>1 DEF PyIInv, AtWork
  <2>5. PyTypeOK'  BY <2>1, <2>2, <2>3 DEF PyIInv, JobsAccounted, PyTypeOK
  <2>6. \A i, k \in DOMAIN jobs' : jobs'[i] = jobs'[k] => i = k
    BY <2>2 DEF PyIInv, JobsAccounted
  <2>7. \A i \in DOMAIN jobs' : jobs'[i] \in DOMAIN rc' /\ jobs'[i] # cur'
    BY <2>1, <2>2 DEF PyIInv, JobsAccounted
  <2>8. \A i \in DOMAIN rc' :
          rc'[i] = "open" <=> i = cur' \/ \E k \in DOMAIN jobs' : jobs'[k] = i
    <3> SUFFICES ASSUME NEW i \in DOMAIN rc
                 PROVE  rc[i] = "open" <=> i = j \/ \E k \in DOMAIN jobs' : jobs'[k] = i
      BY <2>1
    <3>1. i # cur  BY <2>4, NoJobIsNone DEF PyIInv, JobsAccounted, PyTypeOK
    <3>2. rc[i] = "open" <=> \E k \in DOMAIN jobs : jobs[k] = i
      BY <3>1 DEF PyIInv, JobsAccounted
    <3>3. (\E k \in DOMAIN jobs : jobs[k] = i)
          <=> i = j \/ \E k \in DOMAIN jobs' : jobs'[k] = i
      <4>1. ASSUME NEW k \in DOMAIN jobs, jobs[k] = i, i # j
            PROVE  \E m \in DOMAIN jobs' : jobs'[m] = i
        <5>1. k - 1 \in DOMAIN jobs' /\ jobs'[k - 1] = jobs[k]  BY <4>1, <2>2
        <5> QED  BY <5>1, <4>1
      <4>2. ASSUME NEW k \in DOMAIN jobs', jobs'[k] = i
            PROVE  \E m \in DOMAIN jobs : jobs[m] = i
        <5>1. k + 1 \in DOMAIN jobs /\ jobs'[k] = jobs[k + 1]  BY <2>2
        <5> QED  BY <5>1, <4>2
      <4>3. 1 \in DOMAIN jobs /\ jobs[1] = j  BY <2>2
      <4> QED  BY <4>1, <4>2, <4>3
    <3> QED  BY <3>2, <3>3
  <2>9. started' <=> worker' # "none"  BY <2>1 DEF PyIInv, JobsAccounted
  <2>10. JobsAccounted'  BY <2>5, <2>6, <2>7, <2>8, <2>9 DEF JobsAccounted
  <2>11. ParserOrBackup'
    <3>1. script = "none"  BY <2>1 DEF PyIInv, AtWork, JobsAccounted, PyTypeOK
    <3> QED  BY <3>1, <2>1 DEF PyIInv, ParserOrBackup
  <2>12. AtWork'  BY <2>1, <2>3, NoJobIsNone DEF AtWork
  <2>13. NumbersGrow'  BY <2>1 DEF PyIInv, NumbersGrow
  <2> QED  BY <2>10, <2>11, <2>12, <2>13 DEF PyIInv
<1>2. CASE Leave \/ MarkIdle
  <2>1. /\ worker \in {"wait", "leaving"} /\ worker' \in {"leaving", "none"}
        /\ started' \in BOOLEAN /\ exited' \in BOOLEAN
        /\ started' <=> worker' # "none"
        /\ UNCHANGED <<jobs, cur, script, stop, rc, result, parser, backup, call>>
    BY <1>2 DEF Leave, MarkIdle, disk, PyIInv, JobsAccounted, PyTypeOK
  <2>2. PyTypeOK'  BY <2>1 DEF PyIInv, JobsAccounted, PyTypeOK
  <2>3. JobsAccounted'  BY <2>1, <2>2 DEF PyIInv, JobsAccounted
  <2>4. ParserOrBackup' /\ AtWork'  BY <2>1 DEF PyIInv, ParserOrBackup, AtWork
  <2>5. NumbersGrow'  BY <2>1 DEF PyIInv, NumbersGrow
  <2> QED  BY <2>3, <2>4, <2>5 DEF PyIInv
<1> QED  BY <1>1, <1>2 DEF Loop

(* The end of a script.                                                    *)
LEMMA FinishPy ==
  ASSUME PyIInv, worker = "run", NEW code \in {"done", "raised"},
         NEW answer \in Answers, Finish(code, answer),
         parser' \in BOOLEAN, backup' \in BOOLEAN, parser' \/ backup'
  PROVE  PyIInv'
<1>1. /\ result' = answer /\ worker' = "wait" /\ cur' = NoJob /\ script' = "none"
      /\ UNCHANGED <<jobs, started, stop, exited, call>>
  BY DEF Finish
<1>2. cur # NoJob /\ cur \in DOMAIN rc  BY DEF PyIInv, AtWork
<1>3. /\ DOMAIN rc' \subseteq DOMAIN rc
      /\ cur \in DOMAIN rc' => rc'[cur] = code
      /\ \A j \in DOMAIN rc : j # cur => j \in DOMAIN rc' /\ rc'[j] = rc[j]
  <2>1. rc' = [rc EXCEPT ![cur] = code] \/ Forget(cur)  BY DEF Finish
  <2> QED  BY <2>1, <1>2 DEF Forget
<1>4. PyTypeOK'  BY <1>1, <1>3 DEF PyIInv, JobsAccounted, PyTypeOK
<1>5. JobsAccounted'
  <2>1. \A i \in DOMAIN jobs : jobs[i] \in DOMAIN rc' /\ jobs[i] # cur'
    BY <1>1, <1>3, NoJobIsNone DEF PyIInv, JobsAccounted, PyTypeOK
  <2>2. \A j \in DOMAIN rc' :
          rc'[j] = "open" <=> j = cur' \/ \E i \in DOMAIN jobs : jobs[i] = j
    <3> SUFFICES ASSUME NEW j \in DOMAIN rc', j \in DOMAIN rc
                 PROVE  rc'[j] = "open" <=> j = NoJob \/ \E i \in DOMAIN jobs : jobs[i] = j
      BY <1>1, <1>3
    <3>1. j # NoJob  BY NoJobIsNone DEF PyIInv, JobsAccounted, PyTypeOK
    <3>2. CASE j = cur  BY <3>1, <3>2, <1>3 DEF PyIInv, JobsAccounted
    <3>3. CASE j # cur  BY <3>1, <3>3, <1>3 DEF PyIInv, JobsAccounted
    <3> QED  BY <3>2, <3>3
  <2>3. started' <=> worker' # "none"  BY <1>1 DEF PyIInv, JobsAccounted
  <2> QED  BY <1>1, <1>4, <2>1, <2>2, <2>3 DEF PyIInv, JobsAccounted
<1>6. ParserOrBackup'  BY DEF ParserOrBackup
<1>7. AtWork'  BY <1>1 DEF AtWork
<1>8. NumbersGrow'  BY <1>1, <1>3 DEF PyIInv, NumbersGrow
<1> QED  BY <1>5, <1>6, <1>7, <1>8 DEF PyIInv

(* A rename of an update leaves the job where it is.                       *)
LEMMA RenamePy ==
  ASSUME PyIInv, worker = "run",
         UNCHANGED <<jobs, worker, cur, started, stop, exited, rc, result, call>>,
         parser' \in BOOLEAN, backup' \in BOOLEAN,
         \/ script' = "moved" /\ ~parser' /\ backup'
         \/ script' \in {"placed", "added"} /\ parser'
  PROVE  PyIInv'
<1>1. PyTypeOK'  BY DEF PyIInv, JobsAccounted, PyTypeOK
<1>2. JobsAccounted'  BY <1>1 DEF PyIInv, JobsAccounted
<1>3. ParserOrBackup' /\ AtWork'  BY DEF PyIInv, ParserOrBackup, AtWork
<1>4. NumbersGrow'  BY DEF PyIInv, NumbersGrow
<1> QED  BY <1>2, <1>3, <1>4 DEF PyIInv

LEMMA ScriptsPy ==
  ASSUME PyIInv, Scripts
  PROVE  PyIInv'
<1>1. /\ worker = "run" => cur \in JobIds
      /\ result \in Answers
      /\ \A ok \in BOOLEAN : worker = "run" => [job |-> cur, ok |-> ok] \in Answers
      /\ parser \in BOOLEAN /\ backup \in BOOLEAN /\ (parser \/ backup)
      /\ script = "moved" => backup
      /\ script \in {"placed", "added"} => parser
  BY DEF PyIInv, JobsAccounted, PyTypeOK, AtWork, Answers, ParserOrBackup
<1>2. ASSUME NEW ok \in BOOLEAN, RunScript(ok) PROVE PyIInv'
  <2>1. /\ worker = "run" /\ UNCHANGED <<parser, backup>>
        /\ Finish("raised", result) \/ Finish("done", [job |-> cur, ok |-> ok])
    BY <1>2 DEF RunScript, Running
  <2> QED  BY <2>1, <1>1, FinishPy
<1>3. ASSUME NEW ok \in BOOLEAN, NoUpdate(ok) PROVE PyIInv'
  <2>1. /\ worker = "run" /\ UNCHANGED <<parser, backup>>
        /\ Finish("done", [job |-> cur, ok |-> ok])
    BY <1>3 DEF NoUpdate, Running
  <2> QED  BY <2>1, <1>1, FinishPy
<1>4. CASE MoveOldAway
  <2>1. /\ worker = "run" /\ backup' = TRUE /\ parser' = FALSE /\ script' = "moved"
        /\ UNCHANGED <<jobs, worker, cur, started, stop, exited, rc, result, call>>
    BY <1>4 DEF MoveOldAway, Running
  <2> QED  BY <2>1, RenamePy
<1>5. CASE AddNew \/ MoveNewIn
  <2>1. /\ worker = "run" /\ backup' = backup /\ parser' = TRUE
        /\ script' \in {"placed", "added"}
        /\ UNCHANGED <<jobs, worker, cur, started, stop, exited, rc, result, call>>
    BY <1>5 DEF AddNew, MoveNewIn, Running
  <2> QED  BY <2>1, <1>1, RenamePy
<1>6. CASE RollBack
  <2>1. /\ worker = "run" /\ script = "moved"
        /\ (parser' = TRUE /\ backup' = FALSE) \/ UNCHANGED <<parser, backup>>
        /\ Finish("done", [job |-> cur, ok |-> FALSE])
    BY <1>6 DEF RollBack, Running
  <2>2. parser' \in BOOLEAN /\ backup' \in BOOLEAN /\ (parser' \/ backup')
    BY <2>1, <1>1
  <2> QED  BY <2>1, <2>2, <1>1, FinishPy
<1>7. ASSUME NEW ok \in BOOLEAN, Compile(ok) PROVE PyIInv'
  <2>1. /\ worker = "run" /\ script \in {"placed", "added"}
        /\ parser' = parser /\ backup' \in {FALSE, backup}
        /\ Finish("done", [job |-> cur, ok |-> ok])
    BY <1>7 DEF Compile, Running
  <2>2. parser' \in BOOLEAN /\ backup' \in BOOLEAN /\ (parser' \/ backup')
    BY <2>1, <1>1
  <2> QED  BY <2>1, <2>2, <1>1, FinishPy
<1> QED  BY <1>2, <1>3, <1>4, <1>5, <1>6, <1>7 DEF Scripts

LEMMA PyKept ==
  ASSUME PyIInv, UNCHANGED <<jobs, worker, cur, script, started, exited, rc, disk, call>>,
         stop' \in BOOLEAN
  PROVE  PyIInv'
<1>1. PyTypeOK'  BY DEF PyIInv, JobsAccounted, PyTypeOK, disk
<1>2. JobsAccounted'  BY <1>1 DEF PyIInv, JobsAccounted
<1>3. ParserOrBackup' /\ AtWork'  BY DEF PyIInv, ParserOrBackup, AtWork, disk
<1>4. NumbersGrow'  BY DEF PyIInv, NumbersGrow
<1> QED  BY <1>2, <1>3, <1>4 DEF PyIInv

(* What a task does with the worker is to submit to it.                    *)
LEMMA StepPy ==
  ASSUME PyIInv, TypeOK, NEW t \in Callers, Step(t)
  PROVE  PyIInv'
<1>1. /\ mode \in {"tasks", "update", "verify"}
      /\ asked[t] \in BOOLEAN /\ stop \in BOOLEAN
  BY TaskAssumption DEF TypeOK, PyIInv, JobsAccounted, PyTypeOK
<1>2. CASE UNCHANGED pyVars  BY <1>1, <1>2, PyKept DEF pyVars, thread
<1>3. CASE Parse(t)
  <2>1. Submit(t, "parse", asked[t])  BY <1>3 DEF Parse
  <2> QED  BY <2>1, <1>1, SubmitPy DEF Kinds
<1>4. CASE Update(t)
  <2>1. Submit(t, "update", FALSE)  BY <1>4 DEF Update
  <2> QED  BY <2>1, SubmitPy DEF Kinds
<1>5. CASE CliCall(t)
  <2>1. Submit(t, mode, FALSE) /\ mode \in Kinds  BY <1>1, <1>5 DEF CliCall, Kinds
  <2> QED  BY <2>1, SubmitPy
<1>6. UNCHANGED pyVars \/ Parse(t) \/ Update(t) \/ CliCall(t)
  BY DEF Step, Start, NoPython, Parsed, ParseFailed, Updated, BeginStream,
         CheckpointStops, StreamDone, StreamFails, BeginMerge, MergeOk, MergeFails,
         Cleanup, CliAnswer
<1> QED  BY <1>2, <1>3, <1>4, <1>5, <1>6

LEMMA NextPy ==
  ASSUME PyIInv, TypeOK, [Next]_vars
  PROVE  PyIInv'
<1>1. stop \in BOOLEAN  BY DEF PyIInv, JobsAccounted, PyTypeOK
<1>2. ASSUME NEW t \in Callers, Step(t) PROVE PyIInv'  BY <1>2, StepPy
<1>3. ASSUME NEW t \in Callers, Cancel(t) PROVE PyIInv'
  BY <1>1, <1>3, PyKept DEF Cancel, pyVars, thread
<1>4. ASSUME NEW t \in Callers, Await(t) PROVE PyIInv'  BY <1>4, AwaitPy
<1>5. CASE Python  BY <1>5, LoopPy, ScriptsPy DEF Python
<1>6. CASE StopWorker
  <2>1. stop' \in BOOLEAN /\ UNCHANGED <<jobs, worker, cur, script, started, exited, rc, disk, call>>
    BY <1>1, <1>6 DEF StopWorker
  <2> QED  BY <2>1, PyKept
<1>7. CASE Joined \/ Detached
  BY <1>1, <1>7, PyKept DEF Joined, Detached, pyVars, thread
<1>8. CASE UNCHANGED vars  BY <1>1, <1>8, PyKept DEF vars, pyVars, thread
<1> QED  BY <1>2, <1>3, <1>4, <1>5, <1>6, <1>7, <1>8 DEF Next

-----------------------------------------------------------------------------
(* The tasks.                                                              *)

LEMMA TasksStart == Init => IInv
<1> SUFFICES ASSUME Init PROVE IInv  OBVIOUS
<1>1. /\ mode \in Modes /\ main = "waits"
      /\ pc = [t \in Callers |-> "start"] /\ idx = [t \in Callers |-> 1]
      /\ track = [t \in Callers |-> [i \in 1 .. 2 |-> "none"]]
      /\ merged = [t \in Callers |-> [e \in Exts |-> "none"]]
  BY DEF Init
<1>2. TypeOK
  <2>1. pc \in [Callers -> Places]  BY <1>1 DEF Places, Early
  <2>2. /\ track \in [Callers -> [1 .. 2 -> {"none", "part", "full"}]]
        /\ merged \in [Callers -> [Exts -> {"none", "part", "full"}]]
    BY <1>1
  <2>3. /\ asked \in [Callers -> BOOLEAN] /\ m_cancel \in [Callers -> BOOLEAN]
        /\ ext \in [Callers -> Exts] /\ page \in [Callers -> Callers \cup {NoPage}]
        /\ attempt \in [Callers -> 1 .. 2] /\ streams \in [Callers -> 0 .. 2]
        /\ idx \in [Callers -> 1 .. 2]
    BY DEF Init, Exts
  <2>4. /\ outcome \in [Callers -> Outcomes \cup {"none"}]
        /\ path \in [Callers -> {"none", "track"} \cup Exts]
    BY DEF Init
  <2> QED  BY <1>1, <2>1, <2>2, <2>3, <2>4 DEF TypeOK
<1>3. OutputIsWhole  BY <1>1, <1>2 DEF OutputIsWhole, Settled
<1>4. \A t \in Callers : Stands(t)  BY <1>1 DEF Stands, Early
<1> QED  BY <1>3, <1>4 DEF IInv

(* What one task's step writes, and what of the others it leaves.          *)
LEMMA Others ==
  ASSUME IInv, NEW t \in Callers,
         TypeOK', mode' = mode,
         \A u \in Callers : u # t =>
           /\ pc'[u] = pc[u] /\ idx'[u] = idx[u] /\ ext'[u] = ext[u] /\ path'[u] = path[u]
           /\ track'[u] = track[u] /\ merged'[u] = merged[u] /\ outcome'[u] = outcome[u],
         Stands(t)', Settled(t)'
  PROVE  IInv'
<1>1. ASSUME NEW u \in Callers, u # t PROVE Stands(u)' /\ Settled(u)'
  <2>1. Stands(u) /\ Settled(u)  BY DEF IInv, OutputIsWhole
  <2>2. /\ pc'[u] = pc[u] /\ idx'[u] = idx[u] /\ ext'[u] = ext[u] /\ path'[u] = path[u]
        /\ track'[u] = track[u] /\ merged'[u] = merged[u] /\ outcome'[u] = outcome[u]
    BY <1>1
  <2>3. Stands(u)'  BY <2>1, <2>2 DEF Stands
  <2>4. Settled(u)'  BY <2>1, <2>2 DEF Settled
  <2> QED  BY <2>3, <2>4
<1>2. \A u \in Callers : Stands(u)' /\ Settled(u)'  BY <1>1
<1> QED  BY <1>2 DEF IInv, OutputIsWhole

LEMMA EndsType ==
  ASSUME TypeOK, NEW t \in Callers, NEW how \in Outcomes, Ends(t, how)
  PROVE  /\ pc' \in [Callers -> Places] /\ outcome' \in [Callers -> Outcomes \cup {"none"}]
         /\ pc'[t] = "ended" /\ outcome'[t] \in {how, "Canceled"}
         /\ \A u \in Callers : u # t => pc'[u] = pc[u] /\ outcome'[u] = outcome[u]
  BY DEF Ends, Goto, TypeOK, Places, Outcomes

LEMMA GotoType ==
  ASSUME TypeOK, NEW t \in Callers, NEW l \in Places, Goto(t, l)
  PROVE  /\ pc' \in [Callers -> Places] /\ pc'[t] = l
         /\ \A u \in Callers : u # t => pc'[u] = pc[u]
  BY DEF Goto, TypeOK

(* The steps that only move a task on, or end it, before its tracks are    *)
(* merged.                                                                 *)
LEMMA Moves ==
  ASSUME IInv, NEW t \in Callers,
         mode' = mode, UNCHANGED <<main, idx, track, merged, ext, path>>,
         attempt' \in [Callers -> 1 .. 2], asked' \in [Callers -> BOOLEAN],
         m_cancel' \in [Callers -> BOOLEAN], streams' \in [Callers -> 0 .. 2],
         page' \in [Callers -> Callers \cup {NoPage}],
         \/ /\ pc[t] \in Early /\ UNCHANGED outcome
            /\ Goto(t, "parse") \/ Goto(t, "parsing") \/ Goto(t, "update")
               \/ Goto(t, "updating") \/ Goto(t, "stream")
         \/ /\ pc[t] \in Early \cup {"stream", "download", "merge"}
            /\ Ends(t, "Error") \/ Ends(t, "Canceled")
               \/ (mode # "tasks" /\ Ends(t, "Done"))
  PROVE  IInv'
<1>1. TypeOK /\ Stands(t)  BY DEF IInv, OutputIsWhole
<1>2. /\ pc' \in [Callers -> Places] /\ outcome' \in [Callers -> Outcomes \cup {"none"}]
      /\ \A u \in Callers : u # t => pc'[u] = pc[u] /\ outcome'[u] = outcome[u]
      /\ \/ pc[t] \in Early /\ pc'[t] \in Early \cup {"stream"}
         \/ /\ pc[t] \in Early \cup {"stream", "download", "merge"} /\ pc'[t] = "ended"
            /\ mode = "tasks" => outcome'[t] # "Done"
  <2>1. CASE /\ pc[t] \in Early /\ UNCHANGED outcome
             /\ \E l \in {"parse", "parsing", "update", "updating", "stream"} : Goto(t, l)
    <3>1. {"parse", "parsing", "update", "updating", "stream"} \subseteq Places
      BY DEF Places, Early
    <3>2. PICK l \in {"parse", "parsing", "update", "updating", "stream"} : Goto(t, l)
      BY <2>1
    <3>3. l \in Early \cup {"stream"}  BY DEF Early
    <3> QED  BY <1>1, <2>1, <3>1, <3>2, <3>3, GotoType DEF TypeOK
  <2>2. CASE /\ pc[t] \in Early \cup {"stream", "download", "merge"}
             /\ \E how \in Outcomes : Ends(t, how) /\ (mode = "tasks" => how # "Done")
    <3>1. PICK how \in Outcomes : Ends(t, how) /\ (mode = "tasks" => how # "Done")
      BY <2>2
    <3> QED  BY <1>1, <2>2, <3>1, EndsType DEF Outcomes
  <2> QED  BY <2>1, <2>2 DEF Outcomes
<1>3. TypeOK'  BY <1>1, <1>2 DEF TypeOK
<1>4. Stands(t)'
  <2>1. CASE pc[t] \in Early /\ pc'[t] \in Early \cup {"stream"}
    BY <2>1, <1>1 DEF Stands, Early, TypeOK
  <2>2. CASE pc'[t] = "ended"  BY <2>2 DEF Stands, Early
  <2> QED  BY <1>2, <2>1, <2>2
<1>5. Settled(t)'
  <2>1. CASE pc'[t] \in Early \cup {"stream"}  BY <2>1 DEF Settled, Early
  <2>2. CASE /\ pc[t] \in Early \cup {"stream", "download", "merge"} /\ pc'[t] = "ended"
             /\ mode = "tasks" => outcome'[t] # "Done"
    BY <2>2, <1>1 DEF Stands, Settled
  <2> QED  BY <1>2, <2>1, <2>2
<1> QED  BY <1>2, <1>3, <1>4, <1>5, Others

LEMMA StepTasks ==
  ASSUME IInv, PyIInv, NEW t \in Callers, Step(t)
  PROVE  IInv'
<1>1. TypeOK /\ Stands(t) /\ Settled(t)  BY DEF IInv, OutputIsWhole
<1>2. CASE Start(t) \/ NoPython(t) \/ Parse(t) \/ Parsed(t) \/ ParseFailed(t)
           \/ Update(t) \/ Updated(t) \/ CheckpointStops(t) \/ StreamFails(t) \/ CliAnswer(t)
  <2>1. mode' = mode /\ UNCHANGED <<main, idx, track, merged, ext, path>>
    BY <1>2 DEF Start, NoPython, Parse, Parsed, ParseFailed, Update, Updated,
                CheckpointStops, StreamFails, CliAnswer
  <2>2. attempt' \in [Callers -> 1 .. 2] /\ asked' \in [Callers -> BOOLEAN]
    <3>1. CASE Updated(t)  BY <1>1, <3>1 DEF TypeOK, Updated
    <3>2. CASE ~Updated(t)
      BY <1>1, <1>2, <3>2 DEF TypeOK, Start, NoPython, Parse, Parsed, ParseFailed, Update,
                  CheckpointStops, StreamFails, CliAnswer
    <3> QED  BY <3>1, <3>2
  <2>3. m_cancel' \in [Callers -> BOOLEAN]
    <3>1. CASE Parse(t)  BY <1>1, <3>1 DEF TypeOK, Parse
    <3>2. CASE ~Parse(t)
      BY <1>1, <1>2, <3>2 DEF TypeOK, Start, NoPython, Parsed, ParseFailed, Update, Updated,
                  CheckpointStops, StreamFails, CliAnswer
    <3> QED  BY <3>1, <3>2
  <2>4. streams' \in [Callers -> 0 .. 2] /\ page' \in [Callers -> Callers \cup {NoPage}]
    <3>1. CASE Parsed(t)
      <4>1. call[t].answer \in Answers /\ call[t].answer # NoAnswer
        BY <3>1 DEF PyIInv, JobsAccounted, PyTypeOK, Parsed, Succeeded
      <4>2. call[t].answer.job \in JobIds  BY <4>1 DEF Answers
      <4>3. call[t].answer.job[1] \in Callers  BY <4>2, JobParts
      <4> QED  BY <1>1, <3>1, <4>3 DEF TypeOK, Parsed
    <3>2. CASE ~Parsed(t)
      BY <1>1, <1>2, <3>2 DEF TypeOK, Start, NoPython, Parse, ParseFailed, Update, Updated,
                  CheckpointStops, StreamFails, CliAnswer
    <3> QED  BY <3>1, <3>2
  <2> DEFINE GoesOn == /\ pc[t] \in Early /\ UNCHANGED outcome
                       /\ Goto(t, "parse") \/ Goto(t, "parsing") \/ Goto(t, "update")
                          \/ Goto(t, "updating") \/ Goto(t, "stream")
             GivesUp == /\ pc[t] \in Early \cup {"stream", "download", "merge"}
                        /\ Ends(t, "Error") \/ Ends(t, "Canceled")
                           \/ (mode # "tasks" /\ Ends(t, "Done"))
  <2>5. GoesOn \/ GivesUp
    <3>1. CASE Start(t)  BY <3>1 DEF Start, Early
    <3>2. CASE NoPython(t)  BY <3>2 DEF NoPython, Early
    <3>3. CASE Parse(t)  BY <3>3 DEF Parse, Early
    <3>4. CASE Parsed(t)  BY <3>4 DEF Parsed, Early
    <3>5. CASE ParseFailed(t)  BY <3>5 DEF ParseFailed, Early
    <3>6. CASE Update(t)  BY <3>6 DEF Update, Early
    <3>7. CASE Updated(t)  BY <3>7 DEF Updated, Early
    <3>8. CASE CheckpointStops(t)  BY <3>8 DEF CheckpointStops, Early
    <3>9. CASE StreamFails(t)  BY <3>9 DEF StreamFails, Early
    <3>10. CASE CliAnswer(t)  BY <3>10 DEF CliAnswer, Early
    <3> QED  BY <1>2, <3>1, <3>2, <3>3, <3>4, <3>5, <3>6, <3>7, <3>8, <3>9, <3>10
  <2> QED  BY <2>1, <2>2, <2>3, <2>4, <2>5, Moves
<1>3. CASE BeginStream(t)
  <2>1. /\ pc[t] = "stream" /\ Goto(t, "download") /\ SetTrack(t, idx[t], "part") /\ Stage(t)
        /\ UNCHANGED <<mode, main, attempt, asked, streams, page, idx, merged, ext, outcome, path>>
    BY <1>3 DEF BeginStream
  <2>2. /\ pc' \in [Callers -> Places] /\ pc'[t] = "download"
        /\ \A u \in Callers : u # t => pc'[u] = pc[u]
    BY <1>1, <2>1, GotoType DEF Places
  <2>3. /\ track' \in [Callers -> [1 .. 2 -> {"none", "part", "full"}]]
        /\ track'[t] = [track[t] EXCEPT ![idx[t]] = "part"]
        /\ \A u \in Callers : u # t => track'[u] = track[u]
    BY <1>1, <2>1 DEF SetTrack, TypeOK
  <2>4. m_cancel' \in [Callers -> BOOLEAN]  BY <1>1, <2>1 DEF Stage, TypeOK
  <2>5. TypeOK'  BY <1>1, <2>1, <2>2, <2>3, <2>4 DEF TypeOK
  <2>6. Stands(t)'  BY <1>1, <2>1, <2>2, <2>3 DEF Stands, Early, TypeOK
  <2>7. Settled(t)'  BY <2>2 DEF Settled
  <2> QED  BY <2>1, <2>2, <2>3, <2>5, <2>6, <2>7, Others
<1>4. CASE StreamDone(t)
  <2>1. /\ pc[t] = "download" /\ SetTrack(t, idx[t], "full")
        /\ m_cancel' \in [Callers -> BOOLEAN]
        /\ UNCHANGED <<mode, main, attempt, asked, streams, page, merged, ext>>
    BY <1>1, <1>4 DEF StreamDone, Stage, TypeOK
  <2>2. \/ /\ idx' = [idx EXCEPT ![t] = @ + 1] /\ idx[t] < streams[t]
           /\ Goto(t, "stream") /\ UNCHANGED <<outcome, path>>
        \/ Goto(t, "merge") /\ UNCHANGED <<idx, outcome, path>>
        \/ /\ idx[t] = 1 /\ path' = [path EXCEPT ![t] = "track"]
           /\ Ends(t, "Done") /\ UNCHANGED idx
    BY <1>1, <1>4 DEF StreamDone
  <2>3. /\ track' \in [Callers -> [1 .. 2 -> {"none", "part", "full"}]]
        /\ track'[t] = [track[t] EXCEPT ![idx[t]] = "full"]
        /\ \A u \in Callers : u # t => track'[u] = track[u]
    BY <1>1, <2>1 DEF SetTrack, TypeOK
  <2>4. /\ idx[t] \in 1 .. 2 /\ streams[t] \in 0 .. 2
        /\ \A i \in 1 .. 2 : i >= idx[t] => track[t][i] # "full"
        /\ \A e \in Exts : merged[t][e] = "none"
    BY <1>1, <2>1 DEF Stands, TypeOK
  <2>5. CASE /\ idx' = [idx EXCEPT ![t] = @ + 1] /\ idx[t] < streams[t]
             /\ Goto(t, "stream") /\ UNCHANGED <<outcome, path>>
    <3>1. /\ pc' \in [Callers -> Places] /\ pc'[t] = "stream"
          /\ \A u \in Callers : u # t => pc'[u] = pc[u]
      BY <1>1, <2>5, GotoType DEF Places
    <3>2. /\ idx' \in [Callers -> 1 .. 2] /\ idx'[t] = idx[t] + 1
          /\ \A u \in Callers : u # t => idx'[u] = idx[u]
      BY <1>1, <2>4, <2>5 DEF TypeOK
    <3>3. TypeOK'  BY <1>1, <2>1, <2>3, <2>5, <3>1, <3>2 DEF TypeOK
    <3>4. \A i \in 1 .. 2 : i >= idx'[t] => track'[t][i] # "full"
      BY <1>1, <2>3, <2>4, <3>2 DEF TypeOK
    <3>5. Stands(t)'  BY <2>1, <2>4, <3>1, <3>4 DEF Stands, Early
    <3>6. Settled(t)'  BY <3>1 DEF Settled
    <3> QED  BY <2>1, <2>3, <2>5, <3>1, <3>2, <3>3, <3>5, <3>6, Others
  <2>6. CASE Goto(t, "merge") /\ UNCHANGED <<idx, outcome, path>>
    <3>1. /\ pc' \in [Callers -> Places] /\ pc'[t] = "merge"
          /\ \A u \in Callers : u # t => pc'[u] = pc[u]
      BY <1>1, <2>6, GotoType DEF Places
    <3>2. TypeOK'  BY <1>1, <2>1, <2>3, <2>6, <3>1 DEF TypeOK
    <3>3. Stands(t)'  BY <2>1, <2>4, <3>1 DEF Stands, Early
    <3>4. Settled(t)'  BY <3>1 DEF Settled
    <3> QED  BY <2>1, <2>3, <2>6, <3>1, <3>2, <3>3, <3>4, Others
  <2>7. CASE /\ idx[t] = 1 /\ path' = [path EXCEPT ![t] = "track"]
             /\ Ends(t, "Done") /\ UNCHANGED idx
    <3>1. /\ pc' \in [Callers -> Places] /\ outcome' \in [Callers -> Outcomes \cup {"none"}]
          /\ pc'[t] = "ended"
          /\ \A u \in Callers : u # t => pc'[u] = pc[u] /\ outcome'[u] = outcome[u]
      BY <1>1, <2>7, EndsType DEF Outcomes
    <3>2. /\ path' \in [Callers -> {"none", "track"} \cup Exts] /\ path'[t] = "track"
          /\ \A u \in Callers : u # t => path'[u] = path[u]
      BY <1>1, <2>7 DEF TypeOK
    <3>3. TypeOK'  BY <1>1, <2>1, <2>3, <2>7, <3>1, <3>2 DEF TypeOK
    <3>4. Stands(t)'  BY <3>1 DEF Stands, Early
    <3>5. track'[t][1] = "full"  BY <1>1, <2>3, <2>7 DEF TypeOK
    <3>6. Settled(t)'  BY <2>1, <2>4, <3>2, <3>5 DEF Settled
    <3> QED  BY <2>1, <2>3, <2>7, <3>1, <3>2, <3>3, <3>4, <3>6, Others
  <2> QED  BY <2>2, <2>5, <2>6, <2>7
<1>5. CASE BeginMerge(t)
  <2>1. /\ pc[t] = "merge" /\ Goto(t, "merging") /\ Stage(t)
        /\ UNCHANGED <<mode, main, attempt, asked, streams, page, idx, track, outcome, path>>
    BY <1>5 DEF BeginMerge
  <2>2. PICK e \in Exts : ext' = [ext EXCEPT ![t] = e] /\ SetMerged(t, e, "part")
    BY <1>5 DEF BeginMerge
  <2>3. /\ pc' \in [Callers -> Places] /\ pc'[t] = "merging"
        /\ \A u \in Callers : u # t => pc'[u] = pc[u]
    BY <1>1, <2>1, GotoType DEF Places
  <2>4. /\ merged' \in [Callers -> [Exts -> {"none", "part", "full"}]]
        /\ merged'[t] = [merged[t] EXCEPT ![e] = "part"]
        /\ ext' \in [Callers -> Exts] /\ ext'[t] = e
        /\ \A u \in Callers : u # t => merged'[u] = merged[u] /\ ext'[u] = ext[u]
    BY <1>1, <2>2 DEF SetMerged, TypeOK
  <2>5. m_cancel' \in [Callers -> BOOLEAN]  BY <1>1, <2>1 DEF Stage, TypeOK
  <2>6. TypeOK'  BY <1>1, <2>1, <2>3, <2>4, <2>5 DEF TypeOK
  <2>7. Stands(t)'  BY <1>1, <2>1, <2>3, <2>4 DEF Stands, Early, TypeOK
  <2>8. Settled(t)'  BY <2>3 DEF Settled
  <2> QED  BY <2>1, <2>3, <2>4, <2>6, <2>7, <2>8, Others
<1>6. CASE MergeOk(t)
  <2>1. /\ pc[t] = "merging" /\ Goto(t, "cleanup") /\ SetMerged(t, ext[t], "full")
        /\ path' = [path EXCEPT ![t] = ext[t]]
        /\ UNCHANGED <<mode, main, attempt, asked, m_cancel, streams, page, idx, track, ext, outcome>>
    BY <1>6 DEF MergeOk
  <2>2. /\ pc' \in [Callers -> Places] /\ pc'[t] = "cleanup"
        /\ \A u \in Callers : u # t => pc'[u] = pc[u]
    BY <1>1, <2>1, GotoType DEF Places
  <2>3. /\ merged' \in [Callers -> [Exts -> {"none", "part", "full"}]]
        /\ merged'[t] = [merged[t] EXCEPT ![ext[t]] = "full"]
        /\ path' \in [Callers -> {"none", "track"} \cup Exts] /\ path'[t] = ext[t]
        /\ \A u \in Callers : u # t => merged'[u] = merged[u] /\ path'[u] = path[u]
    BY <1>1, <2>1 DEF SetMerged, TypeOK
  <2>4. TypeOK'  BY <1>1, <2>1, <2>2, <2>3 DEF TypeOK
  <2>5. /\ ext[t] \in Exts /\ merged'[t][ext[t]] = "full"
        /\ \A e \in Exts : e # ext[t] => merged'[t][e] = "none"
    BY <1>1, <2>1, <2>3 DEF Stands, TypeOK
  <2>6. Stands(t)'  BY <2>2, <2>3, <2>5 DEF Stands, Early
  <2>7. Settled(t)'  BY <2>2 DEF Settled
  <2> QED  BY <2>1, <2>2, <2>3, <2>4, <2>6, <2>7, Others
<1>7. CASE MergeFails(t)
  <2>1. /\ pc[t] = "merging"
        /\ UNCHANGED <<mode, main, attempt, asked, m_cancel, streams, page, idx, track, path>>
        /\ \A e \in Exts : e # ext[t] => merged[t][e] = "none"
    BY <1>1, <1>7 DEF MergeFails, Stands
  <2>2. CASE ~m_cancel[t] /\ ext[t] = "mp4"
    <3>1. /\ merged' = [merged EXCEPT ![t] = [mp4 |-> "none", mkv |-> "part"]]
          /\ ext' = [ext EXCEPT ![t] = "mkv"] /\ UNCHANGED <<pc, outcome>>
      BY <1>7, <2>2 DEF MergeFails
    <3>2. [mp4 |-> "none", mkv |-> "part"] \in [Exts -> {"none", "part", "full"}]
      BY DEF Exts
    <3>3. /\ merged' \in [Callers -> [Exts -> {"none", "part", "full"}]]
          /\ merged'[t] = [mp4 |-> "none", mkv |-> "part"]
          /\ ext' \in [Callers -> Exts] /\ ext'[t] = "mkv"
          /\ \A u \in Callers : u # t => merged'[u] = merged[u] /\ ext'[u] = ext[u]
      BY <1>1, <3>1, <3>2 DEF TypeOK, Exts
    <3>4. TypeOK'  BY <1>1, <2>1, <3>1, <3>3 DEF TypeOK
    <3>5. Stands(t)'  BY <2>1, <3>1, <3>3 DEF Stands, Early, Exts
    <3>6. Settled(t)'  BY <2>1, <3>1 DEF Settled
    <3> QED  BY <2>1, <3>1, <3>3, <3>4, <3>5, <3>6, Others
  <2>3. CASE ~(~m_cancel[t] /\ ext[t] = "mp4")
    <3>1. /\ SetMerged(t, ext[t], "none") /\ UNCHANGED ext
          /\ \E how \in {"Canceled", "Error"} : Ends(t, how)
      BY <1>7, <2>3 DEF MergeFails
    <3>2. PICK how \in {"Canceled", "Error"} : Ends(t, how)  BY <3>1
    <3>3. /\ pc' \in [Callers -> Places] /\ outcome' \in [Callers -> Outcomes \cup {"none"}]
          /\ pc'[t] = "ended" /\ outcome'[t] # "Done"
          /\ \A u \in Callers : u # t => pc'[u] = pc[u] /\ outcome'[u] = outcome[u]
      BY <1>1, <3>2, EndsType DEF Outcomes
    <3>4. /\ merged' \in [Callers -> [Exts -> {"none", "part", "full"}]]
          /\ merged'[t] = [merged[t] EXCEPT ![ext[t]] = "none"]
          /\ \A u \in Callers : u # t => merged'[u] = merged[u]
      BY <1>1, <3>1 DEF SetMerged, TypeOK
    <3>5. TypeOK'  BY <1>1, <2>1, <3>1, <3>3, <3>4 DEF TypeOK
    <3>6. Stands(t)'  BY <3>3 DEF Stands, Early
    <3>7. \A e \in Exts : merged'[t][e] = "none"  BY <1>1, <2>1, <3>4 DEF TypeOK
    <3>8. Settled(t)'  BY <3>3, <3>7 DEF Settled
    <3> QED  BY <2>1, <3>1, <3>3, <3>4, <3>5, <3>6, <3>8, Others
  <2> QED  BY <2>2, <2>3
<1>8. CASE Cleanup(t)
  <2>1. /\ pc[t] = "cleanup" /\ Ends(t, "Done")
        /\ track' = [track EXCEPT ![t] = [i \in 1 .. 2 |-> "none"]]
        /\ UNCHANGED <<mode, main, attempt, asked, m_cancel, streams, page, idx, merged, ext, path>>
    BY <1>8 DEF Cleanup
  <2>2. /\ pc' \in [Callers -> Places] /\ outcome' \in [Callers -> Outcomes \cup {"none"}]
        /\ pc'[t] = "ended"
        /\ \A u \in Callers : u # t => pc'[u] = pc[u] /\ outcome'[u] = outcome[u]
    BY <1>1, <2>1, EndsType DEF Outcomes
  <2>3. /\ track' \in [Callers -> [1 .. 2 -> {"none", "part", "full"}]]
        /\ \A u \in Callers : u # t => track'[u] = track[u]
    BY <1>1, <2>1 DEF TypeOK
  <2>4. TypeOK'  BY <1>1, <2>1, <2>2, <2>3 DEF TypeOK
  <2>5. Stands(t)'  BY <2>2 DEF Stands, Early
  <2>6. Settled(t)'  BY <1>1, <2>1 DEF Stands, Settled
  <2> QED  BY <2>1, <2>2, <2>3, <2>4, <2>5, <2>6, Others
<1>9. CASE CliCall(t)
  <2>1. /\ mode # "tasks" /\ \A u \in Callers : pc[u] = "start"
        /\ pc' = [u \in Callers |-> IF u = t THEN "updating" ELSE "ended"]
        /\ UNCHANGED <<mode, main, attempt, asked, m_cancel, streams, page, idx, track, merged,
                       ext, outcome, path>>
    BY <1>9 DEF CliCall
  <2>2. pc' \in [Callers -> Places]  BY <2>1 DEF Places, Early
  <2>3. TypeOK'  BY <1>1, <2>1, <2>2 DEF TypeOK
  <2>4. ASSUME NEW u \in Callers PROVE Stands(u)' /\ Settled(u)'
    <3>1. Stands(u)  BY DEF IInv
    <3>2. pc'[u] \in {"updating", "ended"}  BY <2>1
    <3>3. Stands(u)'  BY <2>1, <3>1, <3>2 DEF Stands, Early
    <3>4. Settled(u)'  BY <2>1, <3>1 DEF Stands, Settled, Early
    <3> QED  BY <3>3, <3>4
  <2> QED  BY <2>3, <2>4 DEF IInv, OutputIsWhole
<1> QED  BY <1>2, <1>3, <1>4, <1>5, <1>6, <1>7, <1>8, <1>9 DEF Step

LEMMA NextTasks ==
  ASSUME IInv, PyIInv, [Next]_vars
  PROVE  IInv'
<1>1. TypeOK  BY DEF IInv, OutputIsWhole
<1>2. ASSUME NEW t \in Callers, Step(t) PROVE IInv'  BY <1>2, StepTasks
<1>3. ASSUME UNCHANGED <<pc, outcome, mode, idx, track, merged, ext, path,
                         attempt, m_cancel, streams, page>>,
             main' \in {"waits", "stopping", "gone"}, asked' \in [Callers -> BOOLEAN]
      PROVE  IInv'
  <2>1. TypeOK'  BY <1>1, <1>3 DEF TypeOK
  <2>2. ASSUME NEW u \in Callers PROVE Stands(u)' /\ Settled(u)'
    <3>1. Stands(u) /\ Settled(u)  BY DEF IInv, OutputIsWhole
    <3>2. Stands(u)'  BY <1>3, <3>1 DEF Stands
    <3>3. Settled(u)'  BY <1>3, <3>1 DEF Settled
    <3> QED  BY <3>2, <3>3
  <2> QED  BY <2>1, <2>2 DEF IInv, OutputIsWhole
<1>4. ASSUME NEW t \in Callers, Cancel(t) PROVE IInv'
  <2>1. asked' \in [Callers -> BOOLEAN]  BY <1>1, <1>4 DEF Cancel, TypeOK
  <2> QED  BY <1>1, <1>3, <1>4, <2>1 DEF Cancel, TypeOK
<1>5. CASE UNCHANGED <<taskVars, mode>> /\ main' \in {"waits", "stopping", "gone"}
  BY <1>1, <1>3, <1>5 DEF taskVars, TypeOK
<1>6. main \in {"waits", "stopping", "gone"}  BY <1>1 DEF TypeOK
<1>7. CASE Python \/ StopWorker \/ Joined \/ Detached
  BY <1>5, <1>6, <1>7 DEF Python, StopWorker, Joined, Detached
<1>8. CASE UNCHANGED vars  BY <1>5, <1>6, <1>8 DEF vars
<1> QED  BY <1>2, <1>4, <1>5, <1>6, <1>7, <1>8 DEF Next

LEMMA Invariants == Spec => [](PyIInv /\ IInv)
<1>1. Init => PyIInv /\ IInv  BY PyStarts, TasksStart
<1>2. PyIInv /\ IInv /\ [Next]_vars => (PyIInv /\ IInv)'
  <2> SUFFICES ASSUME PyIInv, IInv, [Next]_vars PROVE PyIInv' /\ IInv'  OBVIOUS
  <2>1. TypeOK  BY DEF IInv, OutputIsWhole
  <2> QED  BY <2>1, NextPy, NextTasks
<1> QED  BY <1>1, <1>2, PTL DEF Spec

(* No job is lost between SubmitPythonJob and the loop, whichever of the   *)
(* two locks each of them has just given up.                               *)
THEOREM PyJobs == Spec => []JobsAccounted
<1>1. PyIInv => JobsAccounted  BY DEF PyIInv
<1> QED  BY <1>1, Invariants, PTL

(* Wherever an update is, there is a parser or the one it put aside.       *)
THEOREM ParserKept == Spec => []ParserOrBackup
<1>1. PyIInv => ParserOrBackup  BY DEF PyIInv
<1> QED  BY <1>1, Invariants, PTL

(* Success names a whole file and no torn _full file is left.              *)
THEOREM OutputWhole == Spec => []OutputIsWhole
<1>1. IInv => OutputIsWhole  BY DEF IInv
<1> QED  BY <1>1, Invariants, PTL

(* A whole track is removed by Cleanup only, which stands behind the merge.*)
LEMMA TrackStep ==
  ASSUME IInv, Next, NEW u \in Callers, NEW i \in 1 .. 2,
         track[u][i] = "full", track'[u][i] # "full"
  PROVE  \E e \in Exts : merged[u][e] = "full"
<1>1. TypeOK /\ Stands(u)  BY DEF IInv, OutputIsWhole
<1>2. track' # track  OBVIOUS
<1>3. PICK t \in Callers : BeginStream(t) \/ StreamDone(t) \/ Cleanup(t)
  BY <1>2 DEF Next, Step, Cancel, Python, StopWorker, Joined, Detached, taskVars,
     Start, NoPython, Parse, Parsed, ParseFailed, Update, Updated, CheckpointStops,
     StreamFails, BeginMerge, MergeOk, MergeFails, CliCall, CliAnswer
<1>4. CASE BeginStream(t)
  <2>1. pc[t] = "stream" /\ track' = [track EXCEPT ![t] = [track[t] EXCEPT ![idx[t]] = "part"]]
    BY <1>4 DEF BeginStream, SetTrack
  <2>2. t = u /\ i = idx[u]  BY <1>1, <2>1 DEF TypeOK
  <2> QED  BY <1>1, <2>1, <2>2 DEF Stands, TypeOK
<1>5. CASE StreamDone(t)
  <2>1. track' = [track EXCEPT ![t] = [track[t] EXCEPT ![idx[t]] = "full"]]
    BY <1>5 DEF StreamDone, SetTrack
  <2> QED  BY <1>1, <2>1 DEF TypeOK
<1>6. CASE Cleanup(t)
  <2>1. pc[t] = "cleanup" /\ track' = [track EXCEPT ![t] = [k \in 1 .. 2 |-> "none"]]
    BY <1>6 DEF Cleanup
  <2>2. t = u  BY <1>1, <2>1 DEF TypeOK
  <2> QED  BY <1>1, <2>1, <2>2 DEF Stands
<1> QED  BY <1>3, <1>4, <1>5, <1>6

(* A whole track goes only when the merged file is whole.                  *)
THEOREM TracksSafe == Spec => TracksKept
<1>1. IInv /\ [Next]_vars =>
        [\A t \in Callers : \A i \in 1 .. 2 :
           track[t][i] = "full" /\ track'[t][i] # "full" =>
             \E e \in Exts : merged[t][e] = "full"]_vars
  BY TrackStep
<1> QED  BY <1>1, Invariants, PTL DEF Spec, TracksKept
=============================================================================
