----------------------------- MODULE QueueFile -----------------------------
(***************************************************************************)
(* CTaskQueue::Save and CTaskQueue::Load (infra/taskqueue.cpp): what a     *)
(* queue file holds and what a queue makes of it.  A file is a sequence of *)
(* characters, where a number and the header count as one; the file is not *)
(* flushed before it is renamed, so that after a power loss it may end     *)
(* anywhere.                                                               *)
(***************************************************************************)
EXTENDS TaskQueue, SequencesExt, FiniteSetsExt

CONSTANT Texts   (* what a URL, a path and an error message may be         *)

Header  == <<"burst-queue-v1">>
Missing == <<"no such file">>

(***************************************************************************)
(* Fields and lines.                                                       *)
(***************************************************************************)
Escapes == ("\\" :> "\\") @@ ("\t" :> "t") @@ ("\n" :> "n") @@ ("\r" :> "r")

(* Mutant of EscapeField: the backslash itself is not escaped.             *)
EscapeField_bare(str) ==
  FlattenSeq([i \in DOMAIN str |->
    IF str[i] \in DOMAIN Escapes \ {"\\"} THEN <<"\\", Escapes[str[i]]>> ELSE <<str[i]>>])

EscapeField(str) ==
  FlattenSeq([i \in DOMAIN str |->
    IF str[i] \in DOMAIN Escapes THEN <<"\\", Escapes[str[i]]>> ELSE <<str[i]>>])

(* The text, or none where an escape is invalid.                           *)
UnescapeField(str) ==
  LET Read(s, c) ==
        IF s.escaped
        THEN {[out |-> Append(s.out, e), escaped |-> FALSE] :
                e \in {e \in DOMAIN Escapes : Escapes[e] = c}}
        ELSE IF c = "\\" THEN {[s EXCEPT !.escaped = TRUE]}
                          ELSE {[s EXCEPT !.out = Append(@, c)]}
      Step(sofar, c) == UNION {Read(s, c) : s \in sofar}
      ends == FoldLeft(Step, {[out |-> <<>>, escaped |-> FALSE]}, str)
  IN {s.out : s \in {s \in ends : ~s.escaped}}

(* std::getline until the end: nothing follows the last delimiter.         *)
SplitFields(str, delim) ==
  LET Ends(s) == IF s.last = <<>> THEN s.done ELSE Append(s.done, s.last)
      Step(sofar, c) ==
        {IF c = delim THEN [done |-> Append(s.done, s.last), last |-> <<>>]
                      ELSE [s EXCEPT !.last = Append(@, c)] : s \in sofar}
  IN CHOOSE fields \in {Ends(s) : s \in FoldLeft(Step, {[done |-> <<>>, last |-> <<>>]}, str)} :
       TRUE

Number(n) == <<ToString(n)>>
Atoi(field) == CHOOSE n \in 0..9 : Number(n) = field   \* one digit is enough

(* The order of the fields; the numbers that only ride along are given to  *)
(* all tasks alike.                                                        *)
Line(tTask) ==
  LET Sep(field) == field \o <<"\t">>
  IN Sep(Number(tTask.dwId)) \o Sep(EscapeField(tTask.strUrl))
       \o Sep(EscapeField(tTask.strOutput))
       \o Sep(Number(4)) \o Sep(Number(0)) \o Sep(Number(0))
       \o Sep(Number(tTask.emState)) \o Sep(EscapeField(tTask.strError))
       \o Sep(Number(8)) \o Number(9) \o <<"\n">>

(* One that has too few fields, or an escape that is none, is no task.     *)
Parse(fields) ==
  {[dwId |-> Atoi(fields[1]), strUrl |-> url, strOutput |-> output,
    emState |-> Atoi(fields[7]), strError |-> error] :
     url \in UnescapeField(fields[2]), output \in UnescapeField(fields[3]),
     error \in UnescapeField(fields[8])}

ParseLine(line) ==
  UNION {IF Len(fields) < 10 THEN {} ELSE Parse(fields) : fields \in {SplitFields(line, "\t")}}

(***************************************************************************)
(* Save writes a temporary file and renames it.  It may fail or be killed  *)
(* before that; and where the first rename fails, the old file is removed  *)
(* before the second.                                                      *)
(***************************************************************************)
Written(vecTasks) ==
  Header \o <<"\n">> \o FlattenSeq([i \in DOMAIN vecTasks |-> Line(vecTasks[i])])
Save(disk, vecTasks) == {disk, Written(vecTasks), Missing}

(***************************************************************************)
(* Load.  The entries are a map, which a sequence in the order of the ids  *)
(* stands for; a file that cannot be opened leaves the queue as it is, and *)
(* one line that is no task empties it.                                    *)
(***************************************************************************)
Load(disk, queue) ==
  LET Step(sofar, line) ==
        IF line = <<>> THEN sofar
        ELSE {Append(loaded, t) : loaded \in sofar, t \in ParseLine(line)}
      Rest(lines) == FoldLeft(Step, IF lines # <<>> /\ Head(lines) = Header THEN {<<>>} ELSE {},
                              IF lines = <<>> THEN <<>> ELSE Tail(lines))
      NextId(loaded) == Max({queue.m_dwNextId} \cup {loaded[i].dwId + 1 : i \in DOMAIN loaded})
      all == UNION {Rest(lines) : lines \in {SplitFields(disk, "\n")}}
  IN IF disk = Missing THEN [bOk |-> FALSE] @@ queue
     ELSE CHOOSE after \in
            {[bOk |-> TRUE, entries |-> loaded, m_dwNextId |-> NextId(loaded)] : loaded \in all}
            \cup (IF all = {} THEN {[bOk |-> FALSE, entries |-> <<>>,
                                     m_dwNextId |-> queue.m_dwNextId]} ELSE {}) : TRUE

-----------------------------------------------------------------------------

(* The numbers of the states.                                              *)
TTaskState == [Pending |-> 0, Running |-> 1, Done |-> 2, Error |-> 3, Canceled |-> 4]

(* Queues of up to two tasks that Save can meet; a task gets its id from   *)
(* m_dwNextId, and states are those numbers.                               *)
Queues ==
  LET Task(id, url, error, state) ==
        [dwId |-> id, strUrl |-> url, strOutput |-> url, emState |-> state, strError |-> error]
  IN {[entries |-> <<>>, m_dwNextId |-> 1]}
     \cup {[entries |-> <<Task(1, url, error, 3)>>, m_dwNextId |-> 2] : url, error \in Texts}
     \cup {[entries |-> <<Task(1, <<"x">>, <<>>, 1), Task(2, url, <<>>, 0)>>,
            m_dwNextId |-> 3] : url \in Texts}

(* Whatever the texts hold, and however a Save over an older file ends, a  *)
(* Load brings back one of the two queues, or finds no file; of a file     *)
(* that was cut short it makes nothing, or the first of the tasks, never   *)
(* another task; and no entry has the id that the next AddTask gives.      *)
TextsComeBack ==
  \A new \in Queues :
    /\ \A old, at \in {q \in Queues : \A i \in DOMAIN q.entries : q.entries[i].strUrl = <<"x">>} :
         \A disk \in Save(Written(old.entries), new.entries) :
           LET after == Load(disk, at)
           IN /\ after.entries \in IF disk = Missing THEN {at.entries}
                                   ELSE {old.entries, new.entries}
              /\ after.bOk = (disk # Missing)
              /\ \A i \in DOMAIN after.entries : after.entries[i].dwId < after.m_dwNextId
    /\ \A n \in 0..Len(Written(new.entries)) :
         LET after == Load(SubSeq(Written(new.entries), 1, n), new)
         IN IsPrefix(after.entries, new.entries) /\ (after.entries # <<>> => after.bOk)

(* The same of the queue that is being used: a new queue that loads what   *)
(* Save writes of the entries st has their tasks and states, and hands out *)
(* the same id next.                                                       *)
Snapshot(st) ==
  [t \in 1..Cardinality({t \in TaskIds : st[t] # "Absent"}) |->
     [dwId |-> t, strUrl |-> <<"x">>, strOutput |-> <<>>, emState |-> TTaskState[st[t]],
      strError |-> <<>>]]
Reloaded ==
  {<<st, Load(Written(Snapshot(st)), [entries |-> <<>>, m_dwNextId |-> 1])>> :
     st \in {f \in [TaskIds -> States] :
               \A t \in TaskIds \ {1} : f[t] # "Absent" => f[t - 1] # "Absent"}}

(* "Persist tasks to a file (atomic temp + rename)", "corrupt data resets  *)
(* the queue to empty" (taskqueue.h:76 and 79): what Save writes of any    *)
(* state of the queue is what Load reads, even if the file is cut short or *)
(* a text has the characters that the file is made of.                     *)
SavedComesBack ==
  /\ dwNextId = 1 => TextsComeBack
  /\ <<emState, [bOk |-> TRUE, entries |-> Snapshot(emState),
                 m_dwNextId |-> dwNextId]>> \in Reloaded
=============================================================================
