----------------------------- MODULE TaskModel -----------------------------
(***************************************************************************)
(* CTaskModel (gui/taskmodel.cpp) between the window's thread (gui/ui.cpp, *)
(* main_gui.cpp) and the executors on the pool.  The queue below it is     *)
(* taken at the level of TaskLifecycle, with the calls this module makes:  *)
(* each is one step, as in TaskQueue.  m_mutex protects the maps and the   *)
(* engine; a call of the window that takes it twice, or takes the queue's  *)
(* mutex before it, is as many steps wherever an executor can come between *)
(* them and be noticed.  Of a row's snapshot and log nothing is kept: they *)
(* are only drawn.                                                         *)
(***************************************************************************)
EXTENDS TaskLifecycle

CONSTANTS
  Rows,      (* model ids: one row, and one TModelTask object, for each     *)
  Urls,      (* what may be typed into the form                             *)
  Videos,    (* the URLs IsVideoUrl takes for a video page                  *)
  Renames    (* bound: how often a row's video gets its final name          *)

ASSUME ModelAssumption ==
  /\ Tasks \subseteq Nat \ {0} /\ Slots \in Nat \ {0}
  /\ Rows \subseteq Nat \ {0} /\ IsFiniteSet(Rows)
  /\ Videos \subseteq Urls /\ Renames \in Nat

VARIABLES
  (* CTaskModel *)
  mapTasks,      (* the rows in m_mapTasks                                  *)
  task,          (* the TModelTask of each row; it outlives the entry       *)
  queueToModel,  (* m_mapQueueToModel, 0 for no entry                       *)
  engine,        (* m_pChunkEngine: 1 while there is one, else 0            *)
  (* the window's thread *)
  ui,            (* where it stands in a frame                              *)
  shown,         (* the states Rows() gave for this frame, "none" for none  *)
  target,        (* the row DeleteTask is working on, 0 for none            *)
  (* the executors, and what they write *)
  exec,          (* where RunTaskBody stands for each queue task            *)
  uses,          (* tOpts.pChunkEngine of each execution                    *)
  file,          (* the target and its .curlbolt.part, for each path        *)
  (* history *)
  deleted        (* the rows on which Delete was clicked                    *)

queue == <<status, asked>>
model == <<mapTasks, task, queueToModel, engine>>
vars  == <<queue, model, ui, shown, target, exec, uses, file, deleted>>

(* A file's strOutput is its path.  A video's is a base name, from which   *)
(* the names of its files are made; the number says how often the final    *)
(* path of a success has taken the place of the base name.                 *)
Paths   == Urls \X {"plain", "stamped"} \X (0..Renames)
NoTask  == [dwQueueTaskId |-> 0, path |-> <<>>, bPendingRemove |-> FALSE]
Nothing == [m \in Rows |-> "none"]

Active  == {q \in Tasks : status[q] \in {"Pending", "Running"}}
Unused(q) == status[q] = "Absent" /\ \A p \in Tasks : p < q => status[p] # "Absent"

ModelInit ==
  /\ Init
  /\ mapTasks = {} /\ task = [m \in Rows |-> NoTask]
  /\ queueToModel = [q \in Tasks |-> 0]
  /\ engine = 0
  /\ ui = "tick" /\ shown = Nothing /\ target = 0
  /\ exec = [q \in Tasks |-> "idle"] /\ uses = [q \in Tasks |-> 0]
  /\ file = [p \in Paths |-> "none"]
  /\ deleted = {}

-----------------------------------------------------------------------------
(* The queue's half of a call.                                             *)

(* DispatchLocked at the end of a queue method that made st of the states: *)
(* the oldest pending tasks get the free slots.                            *)
Dispatched(st) ==
  LET waiting == {q \in Tasks : st[q] = "Pending"}
      free    == Slots - Cardinality({q \in Tasks : st[q] = "Running"})
  IN  [q \in Tasks |->
         IF q \in waiting /\ Cardinality({p \in waiting : p < q}) < free
           THEN "Running" ELSE st[q]]

QueueAdd(q) ==
  /\ Unused(q)
  /\ status' = Dispatched([status EXCEPT ![q] = "Pending"])
  /\ UNCHANGED asked

QueueCancel(ids) ==
  /\ status' = [q \in Tasks |->
       IF q \in ids /\ status[q] = "Pending" THEN "Canceled" ELSE status[q]]
  /\ asked' = asked \cup {q \in ids : status[q] = "Running"}

-----------------------------------------------------------------------------
(* The window's thread.                                                    *)

(* Mutant of OnUiTick: whether the queue is idle is not asked.             *)
OnUiTick_always ==
  /\ ui = "tick"
  /\ ui' = "reset"
  /\ UNCHANGED <<queue, model, shown, target, exec, uses, file, deleted>>

(* OnUiTick looks at the queue under its mutex, and destroys the engine    *)
(* later, under m_mutex.                                                   *)
OnUiTick ==
  /\ ui = "tick"
  /\ ui' = IF Active = {} THEN "reset" ELSE "form"
  /\ UNCHANGED <<queue, model, shown, target, exec, uses, file, deleted>>

ResetEngine ==
  /\ ui = "reset"
  /\ engine' = 0
  /\ ui' = "form"
  /\ UNCHANGED <<queue, mapTasks, task, queueToModel, shown, target,
                 exec, uses, file, deleted>>

(* A new engine only when there is none.                                   *)
EnsureChunkEngine == engine' = 1

(* AddTaskFromForm: a video's name is always stamped, a file's when it is  *)
(* already taken on the disk.  Nobody looks whether a task not yet started *)
(* has it.                                                                 *)
TargetOf(url) ==
  IF url \notin Videos /\ file[<<url, "plain", 0>>] = "none"
  THEN <<url, "plain", 0>> ELSE <<url, "stamped", 0>>

(* Mutant of AddTask: the row's queue id is not entered for the executor.  *)
AddTask_unmapped(url, q, m) ==
  /\ ui = "form" /\ m = 1 + Cardinality({r \in Rows : task[r] # NoTask})
  /\ EnsureChunkEngine
  /\ QueueAdd(q)
  /\ task' = [task EXCEPT ![m] =
       [dwQueueTaskId |-> q, path |-> TargetOf(url), bPendingRemove |-> FALSE]]
  /\ mapTasks' = mapTasks \cup {m}
  /\ ui' = "list"
  /\ UNCHANGED <<queueToModel, shown, target, exec, uses, file, deleted>>

(* AddFileTask and AddVideoTask: all of it under m_mutex, so an executor   *)
(* the queue starts at once finds its row only after the maps have it.     *)
AddTask(url, q, m) ==
  /\ ui = "form" /\ m = 1 + Cardinality({r \in Rows : task[r] # NoTask})
  /\ EnsureChunkEngine
  /\ QueueAdd(q)
  /\ task' = [task EXCEPT ![m] =
       [dwQueueTaskId |-> q, path |-> TargetOf(url), bPendingRemove |-> FALSE]]
  /\ mapTasks' = mapTasks \cup {m}
  /\ queueToModel' = [queueToModel EXCEPT ![q] = m]
  /\ ui' = "list"
  /\ UNCHANGED <<shown, target, exec, uses, file, deleted>>

NoAdd ==
  /\ ui = "form"
  /\ ui' = "list"
  /\ UNCHANGED <<queue, model, shown, target, exec, uses, file, deleted>>

(* Rows(): what this frame draws, and so what its buttons are made of.     *)
ShowRows ==
  /\ ui = "list"
  /\ shown' = [m \in Rows |-> IF m \in mapTasks
                              THEN status[task[m].dwQueueTaskId] ELSE "none"]
  /\ ui' = "buttons"
  /\ UNCHANGED <<queue, model, target, exec, uses, file, deleted>>

EndFrame == ui' = "tick" /\ shown' = Nothing

NoClick ==
  /\ ui = "buttons"
  /\ EndFrame
  /\ UNCHANGED <<queue, model, target, exec, uses, file, deleted>>

(* RenderProgressRow: the buttons of a row, by the state it was drawn in.  *)
Click(m, states) == ui = "buttons" /\ shown[m] \in states

(* Mutant of RowStop: Stop that also marks the row, as Delete does.        *)
RowStop_marks(m) ==
  /\ Click(m, {"Pending", "Running"})
  /\ IF m \in mapTasks THEN QueueCancel({task[m].dwQueueTaskId})
                       ELSE UNCHANGED queue
  /\ task' = [task EXCEPT ![m].bPendingRemove = TRUE]
  /\ EndFrame
  /\ UNCHANGED <<mapTasks, queueToModel, engine, target, exec, uses,
                 file, deleted>>

(* The Stop button: CTaskModel::CancelTask.                                *)
RowStop(m) ==
  /\ Click(m, {"Pending", "Running"})
  /\ IF m \in mapTasks THEN QueueCancel({task[m].dwQueueTaskId})
                       ELSE UNCHANGED queue
  /\ EndFrame
  /\ UNCHANGED <<model, target, exec, uses, file, deleted>>

(* ResumeTask: a new queue task for the row.  The old queue id keeps its   *)
(* entry in m_mapQueueToModel, and no engine is made.                      *)
ResumeTask(m, q) ==
  /\ Click(m, {"Canceled"}) /\ m \in mapTasks
  /\ QueueAdd(q)
  /\ task' = [task EXCEPT ![m].dwQueueTaskId = q]
  /\ queueToModel' = [queueToModel EXCEPT ![q] = m]
  /\ EndFrame
  /\ UNCHANGED <<mapTasks, engine, target, exec, uses, file, deleted>>

RemoveTask(m) ==
  /\ Click(m, {"Done", "Error"}) /\ m \in mapTasks
  /\ mapTasks' = mapTasks \ {m}
  /\ queueToModel' = [queueToModel EXCEPT ![task[m].dwQueueTaskId] = 0]
  /\ EndFrame
  /\ UNCHANGED <<queue, task, engine, target, exec, uses, file, deleted>>

(* ClearFinished reads the queue before it locks the maps; a task that is  *)
(* terminal in between stays so.                                           *)
ClearFinished ==
  /\ ui = "buttons"
  /\ LET done == {m \in mapTasks : status[task[m].dwQueueTaskId] \in Terminal} IN
       /\ mapTasks' = mapTasks \ done
       /\ queueToModel' = [q \in Tasks |->
            IF \E m \in done : task[m].dwQueueTaskId = q THEN 0 ELSE queueToModel[q]]
  /\ EndFrame
  /\ UNCHANGED <<queue, task, engine, target, exec, uses, file, deleted>>

(* DeleteTask, offered for all but finished rows.  It looks at a snapshot  *)
(* of the queue, and only then chooses between its two ways.               *)
DeleteTask(m) ==
  /\ Click(m, {"Pending", "Running", "Canceled"})
  /\ deleted' = deleted \cup {m}
  /\ IF m \notin mapTasks THEN EndFrame /\ UNCHANGED target
     ELSE /\ target' = m
          /\ ui' = IF status[task[m].dwQueueTaskId] = "Pending"
                   THEN "cancel" ELSE "mark"
          /\ shown' = Nothing
  /\ UNCHANGED <<queue, model, exec, uses, file>>

(* Still queued, says the snapshot: cancel, erase the row, then delete.    *)
DeleteCancels ==
  /\ ui = "cancel"
  /\ QueueCancel({task[target].dwQueueTaskId})
  /\ ui' = "erase"
  /\ UNCHANGED <<model, shown, target, exec, uses, file, deleted>>

DeleteErases ==
  /\ ui = "erase"
  /\ mapTasks' = mapTasks \ {target}
  /\ queueToModel' = [queueToModel EXCEPT ![task[target].dwQueueTaskId] = 0]
  /\ ui' = "artifacts"
  /\ UNCHANGED <<queue, task, engine, shown, target, exec, uses, file,
                 deleted>>

DeleteArtifacts(path) == file' = [file EXCEPT ![path] = "none"]

DeleteRemoves ==
  /\ ui = "artifacts"
  /\ DeleteArtifacts(task[target].path)
  /\ target' = 0
  /\ EndFrame
  /\ UNCHANGED <<queue, model, exec, uses, deleted>>

(* Otherwise the executor is asked to clean up, whether or not there is    *)
(* one.                                                                    *)
DeleteMarks ==
  /\ ui = "mark"
  /\ task' = [task EXCEPT ![target].bPendingRemove = TRUE]
  /\ ui' = "stop"
  /\ UNCHANGED <<queue, mapTasks, queueToModel, engine, shown, target,
                 exec, uses, file, deleted>>

DeleteStops ==
  /\ ui = "stop"
  /\ QueueCancel({task[target].dwQueueTaskId})
  /\ target' = 0
  /\ EndFrame
  /\ UNCHANGED <<model, exec, uses, file, deleted>>

(* main: the window is closed; CancelAll, WaitAll, and the destructors.    *)
CloseWindow ==
  /\ ui = "tick"
  /\ QueueCancel(Tasks)
  /\ ui' = "waiting"
  /\ UNCHANGED <<model, shown, target, exec, uses, file, deleted>>

Destroy ==
  /\ ui = "waiting" /\ Active = {}
  /\ engine' = 0
  /\ ui' = "gone"
  /\ UNCHANGED <<queue, mapTasks, task, queueToModel, shown, target,
                 exec, uses, file, deleted>>

-----------------------------------------------------------------------------
(* An executor: RunTaskBody for queue task q.                              *)

RowOf(q) == queueToModel[q]

(* It looks its row up under m_mutex; without one it returns FALSE.        *)
LookUp(q) ==
  /\ status[q] = "Running" /\ exec[q] = "idle"
  /\ exec' = [exec EXCEPT ![q] = IF RowOf(q) \in mapTasks THEN "found" ELSE "failed"]
  /\ UNCHANGED <<queue, model, ui, shown, target, uses, file, deleted>>

(* The object a later step holds: the row may leave the maps meanwhile.    *)
Object(q) == CHOOSE m \in Rows : task[m].dwQueueTaskId = q

TakeEngine(q) ==
  /\ exec[q] = "found"
  /\ uses' = [uses EXCEPT ![q] = engine]
  /\ exec' = [exec EXCEPT ![q] = "run"]
  /\ UNCHANGED <<queue, model, ui, shown, target, file, deleted>>

(* TaskExecRun makes its file and fills it, or leaves it as it is.         *)
WriteFile(q) ==
  /\ exec[q] = "run" /\ file[task[Object(q)].path] = "none"
  /\ file' = [file EXCEPT ![task[Object(q)].path] = "partial"]
  /\ UNCHANGED <<queue, model, ui, shown, target, exec, uses, deleted>>

(* What the row calls its output after a success: TaskExecRun's final      *)
(* path, which for a file is the one it had.                               *)
FinalPath(p) == IF p[1] \in Videos THEN <<p[1], p[2], p[3] + 1>> ELSE p

(* The file is whole under the old name, and strOutput is overwritten: of  *)
(* a video, DeleteArtifacts and a Resume no longer see it.                 *)
ExecSucceeds(q) ==
  LET m == Object(q) IN
  /\ exec[q] = "run" /\ file[task[m].path] # "none"
  /\ FinalPath(task[m].path) \in Paths
  /\ file' = [file EXCEPT ![task[m].path] = "full"]
  /\ task' = [task EXCEPT ![m].path = FinalPath(@)]
  /\ exec' = [exec EXCEPT ![q] = "succeeded"]
  /\ uses' = [uses EXCEPT ![q] = 0]
  /\ UNCHANGED <<queue, mapTasks, queueToModel, engine, ui, shown,
                 target, deleted>>

ExecFails(q) ==
  /\ exec[q] = "run"
  /\ exec' = [exec EXCEPT ![q] = "ended"]
  /\ uses' = [uses EXCEPT ![q] = 0]
  /\ UNCHANGED <<queue, model, ui, shown, target, file, deleted>>

(* Mutant of CheckRemove: the mark is not looked at after a success.       *)
CheckRemove_failedOnly(q) ==
  /\ exec[q] \in {"succeeded", "ended"}
  /\ IF task[Object(q)].bPendingRemove /\ exec[q] = "ended"
     THEN /\ DeleteArtifacts(task[Object(q)].path)
          /\ exec' = [exec EXCEPT ![q] = IF exec[q] = "succeeded" THEN "dropOk" ELSE "dropFailed"]
     ELSE /\ exec' = [exec EXCEPT ![q] = IF exec[q] = "succeeded" THEN "ok" ELSE "failed"]
          /\ UNCHANGED file
  /\ UNCHANGED <<queue, model, ui, shown, target, uses, deleted>>

(* The last lines of RunTaskBody: bPendingRemove is read without the lock. *)
(* On a mark the artifacts go, a success's too, and then the row.          *)
CheckRemove(q) ==
  /\ exec[q] \in {"succeeded", "ended"}
  /\ IF task[Object(q)].bPendingRemove
     THEN /\ DeleteArtifacts(task[Object(q)].path)
          /\ exec' = [exec EXCEPT ![q] = IF exec[q] = "succeeded" THEN "dropOk" ELSE "dropFailed"]
     ELSE /\ exec' = [exec EXCEPT ![q] = IF exec[q] = "succeeded" THEN "ok" ELSE "failed"]
          /\ UNCHANGED file
  /\ UNCHANGED <<queue, model, ui, shown, target, uses, deleted>>

DropRow(q) ==
  /\ exec[q] \in {"dropOk", "dropFailed"}
  /\ mapTasks' = mapTasks \ {Object(q)}
  /\ queueToModel' = [queueToModel EXCEPT ![q] = 0]
  /\ exec' = [exec EXCEPT ![q] = IF exec[q] = "dropOk" THEN "ok" ELSE "failed"]
  /\ UNCHANGED <<queue, task, engine, ui, shown, target, uses, file, deleted>>

(* Back in CTaskQueue::RunTask.                                            *)
Return(q) ==
  /\ exec[q] \in {"ok", "failed"} /\ status[q] = "Running"
  /\ status' = Dispatched([status EXCEPT ![q] =
       IF q \in asked THEN "Canceled" ELSE IF exec[q] = "ok" THEN "Done" ELSE "Error"])
  /\ exec' = [exec EXCEPT ![q] = "over"]
  /\ UNCHANGED <<asked, model, ui, shown, target, uses, file, deleted>>

-----------------------------------------------------------------------------

DeleteGoesOn ==
  DeleteCancels \/ DeleteErases \/ DeleteRemoves \/ DeleteMarks \/ DeleteStops

(* Every frame runs to its end without a click.                            *)
UiRuns ==
  \/ OnUiTick \/ ResetEngine \/ NoAdd \/ ShowRows \/ NoClick
  \/ DeleteGoesOn
  \/ Destroy

User ==
  \/ \E url \in Urls, q \in Tasks, m \in Rows : AddTask(url, q, m)
  \/ \E m \in Rows : RowStop(m) \/ RemoveTask(m) \/ DeleteTask(m)
  \/ \E m \in Rows, q \in Tasks : ResumeTask(m, q)
  \/ ClearFinished
  \/ CloseWindow

Executor(q) ==
  \/ LookUp(q) \/ TakeEngine(q) \/ WriteFile(q) \/ ExecSucceeds(q) \/ ExecFails(q)
  \/ CheckRemove(q) \/ DropRow(q) \/ Return(q)

ModelNext == UiRuns \/ User \/ (\E q \in Tasks : Executor(q))

(* The pool runs its threads, an executor ends, as its transfers have      *)
(* timeouts, and a Delete once begun is finished.  Nothing says that       *)
(* another frame is drawn.                                                 *)
ModelSpec ==
  /\ ModelInit /\ [][ModelNext]_vars
  /\ WF_vars(DeleteGoesOn) /\ \A q \in Tasks : WF_vars(Executor(q))

-----------------------------------------------------------------------------

ModelTypeOK ==
  /\ status \in [Tasks -> DOMAIN Moves] /\ asked \subseteq Tasks
  /\ mapTasks \subseteq Rows
  /\ task \in [Rows -> {NoTask} \cup
       [dwQueueTaskId : Tasks, path : Paths, bPendingRemove : BOOLEAN]]
  /\ queueToModel \in [Tasks -> Rows \cup {0}]
  /\ engine \in {0, 1}
  /\ ui \in {"tick", "reset", "form", "list", "buttons", "cancel", "erase",
             "artifacts", "mark", "stop", "waiting", "gone"}
  /\ shown \in [Rows -> DOMAIN Moves \cup {"none"}]
  /\ target \in Rows \cup {0}
  /\ exec \in [Tasks -> {"idle", "found", "run", "succeeded", "ended",
                         "dropOk", "dropFailed", "ok", "failed", "over"}]
  /\ uses \in [Tasks -> {0, 1}]
  /\ file \in [Paths -> {"none", "partial", "full"}]
  /\ deleted \subseteq Rows

(* taskmodel.cpp:550: the engine is destroyed only while no execution uses *)
(* it, although the queue is asked under one mutex and the engine reset    *)
(* under another, and the executors took a raw pointer.  (The destruction  *)
(* itself shows it: a later engine is another, whatever its number here.)  *)
EngineInUse == \A q \in Tasks : exec[q] = "run" /\ uses[q] # 0 => uses[q] = engine
EngineOutlivesTasks == ModelTypeOK /\ EngineInUse

(* A task the queue has yet to finish is the current task of a row the     *)
(* user sees and can stop, unless Delete was clicked there, although the   *)
(* buttons are made of an older snapshot; so no row leaves the list before *)
(* its task is over, and none has two executions that write its file.      *)
ActiveTaskHasRow ==
  \A q \in Active : \E m \in Rows :
    /\ task[m].dwQueueTaskId = q
    /\ m \in deleted \/ (m \in mapTasks /\ queueToModel[q] = m)

(* Stop keeps partials, and so do Resume, Remove, Clear and exit: a file   *)
(* disappears only for a row on which Delete was clicked.                  *)
OnlyDeleteDeletes ==
  [][\A p \in Paths : file[p] # "none" /\ file'[p] = "none" =>
       \E m \in deleted : task[m].path = p]_vars

(* taskmodel.cpp:206: a row marked while its task runs, before the         *)
(* executor looks at the mark, goes, without the window waiting for it,    *)
(* and a file's target and partial with it.  Of a video only the row: one  *)
(* that succeeds although it is marked has its final name by then, and     *)
(* DeleteArtifacts (taskmodel.cpp:556) looks for names made from that one. *)
MarkedRowGoes ==
  \A m \in Rows :
    ( /\ task[m].bPendingRemove /\ m \in mapTasks
      /\ \E q \in Tasks : /\ task[m].dwQueueTaskId = q /\ status[q] = "Running"
                         /\ exec[q] \in {"idle", "found", "run"} )
    ~> ( /\ m \notin mapTasks
         /\ \/ task[m] = NoTask \/ task[m].path[1] \in Videos
            \/ file[task[m].path] = "none" )
=============================================================================
