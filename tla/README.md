# Burst Download in TLA+

A model of `burst-download` (C++17: a multi-threaded, chunked HTTP downloader
over libcurl with a command line, an ImGui window and a video mode), checked
with TLC and proved with TLAPS: every safety property that the runs check is a
theorem but one, `SavedComesBack`. Paths are those of the repository; `infra`,
`engine`, `workflow` are directories of `src/`.

1. [The system](#1-the-system)
2. [The modules](#2-the-modules-and-the-code)
3. [The runs](#3-the-runs)
4. [Fairness](#4-fairness)
5. [What is proved](#5-what-is-proved)
6. [Disagreements found](#6-disagreements-between-the-code-and-what-it-says)
7. [Not modelled](#7-what-is-not-modelled-and-why)
8. [What could come next](#8-what-could-come-next)

## 1. The system

```
   CLI (entry, workflow)          GUI (gui/ui.cpp)
          |                            |  clicks, one tick per frame
          |                       CTaskModel (gui/taskmodel.cpp)
          +-------------+--------------+
                        v
     CTaskQueue  -- Submit(RunTask) -->  CThreadPool
     (infra/taskqueue.cpp)               (infra/threadpool.cpp)
                        |  executor, on a pool thread
                        v
     TaskExecRun (infra/taskexec.cpp) --> VideoDownloader --> Python worker,
                        |                 (engine/download_video.cpp)  avmerge
                        v
     Ccurl (engine/Ccurl.cpp)  -- SubmitChunk, fnDone -->  CCurlMultiEngine
        |        ^                                        (engine/curlmulti.cpp)
        v        |
     target file (mmap), <target>.curlbolt.part
```

| Component | State it keeps | Operations | What makes it correct |
|---|---|---|---|
| `CThreadPool` | FIFO of jobs, outstanding counter, shutdown flag, one condition variable | `Submit`, `WorkerLoop`, `Shutdown`, `PendingCount` | no job lost, run twice or dropped at shutdown; no wakeup lost; shutdown joins |
| `CTaskQueue` | entries with a state and a cancel flag, running counter, executor | `AddTask`, `Start`, `CancelTask`, `CancelAll`, `WaitAll`, `RunTask`, `Snapshot`, `Save`, `Load` | slots exact and never exceeded, no idle slot beside a pending task, oldest first, terminal states final, `WaitAll` returns |
| `CCurlMultiEngine` | lanes: pending and retry queues, active transfers; shutdown flag | `SubmitChunk`, `SubmitChunkDelayed`, `DriverLoop`, `Shutdown`, `ActiveCount` | an accepted job is reported exactly once, a canceled one although its transfer stalls, none after shutdown |
| `Ccurl`, transfer | chunk list (offset, success, attempt, lane), chunks left, cancel and range-denied flags | `Download_Task`, `SubmitChunkAttempt`, `OnChunkDone`, `File_Write`, `ChunkStatusHeader`, `Cancel` | returns, alone with its chunks; success means complete and in place; retries bounded |
| `Ccurl`, resume | the target file, the meta beside it, part layout | `File_Init`, `LoadPartMeta`, `SavePartMeta`, `FlushMapping`, `ClearPartMeta` | the meta is never ahead of the file; no mixture of contents; stopped downloads continue |
| `TaskExecRun` | none between calls | `RunFileExec`, `RunVideoExec` | canceled keeps partials, a failure may delete them |
| `CTaskModel` | rows, map from queue ids to rows, the engine | add, cancel, resume, delete, remove, clear, `RunTaskBody`, `OnUiTick` | a row shows its own task; Delete deletes what it says and nothing later; the engine outlives its tasks |
| Python worker | job queue, started/exited/stop flags, thread handle, the answer file, the parser directory | `SubmitPythonJob`, `PythonWorkerLoop`, `RunOnPythonThread`, `UpdateParserAt`, `StopPythonThread` | no job is lost; waits are bounded; a parser is always there or can come back |
| Embedded runtime | cache directory, `mkdir` lock | `ExtractEmbeddedRuntime`, `AcquireCacheLock` | concurrent processes never use a half-extracted runtime |
| `VideoDownloader`, `MergeMp4` | tracks and the merged file | `Run`, merge with a fallback container | success names a whole file; tracks go only after a whole merge |
| Command line, batch workflow, names | options; results of a batch; files in the directory | `CliParseArgs`, `RunCli`, `RunWorkflow`, `UrlBaseName`, `SanitizeFileName` | names stay in their directory, nothing of others is overwritten, the exit code tells the outcome |

What is hard here is the interplay. Each queue is guarded by its own mutex, and
what happens between an unlock and the next lock is another thread's; a chunk is
used in turn by the thread that submits it and by the driver of its lane; a
cancel is a flag that two mechanisms poll; the engine refuses work once closed,
in the middle of a retry; the file is trusted, after a crash, on the word of a
small text file written at another time; and several processes share one
unpacked runtime through nothing but a directory that serves as a lock.
`PROJECT.json` lists the hazards at their lines, with the property that watches
each or the reason why none does.

## 2. The modules and the code

| Module | Models | Kind |
|---|---|---|
| `ThreadPool` | `infra/threadpool.cpp` | component, used by `TaskQueue` |
| `TaskLifecycle` | what users of the queue rely on | abstract specification |
| `TaskQueue` | `infra/taskqueue.cpp`, `task.cpp` over `ThreadPool` | component, composed |
| `QueueFile`, `MCTaskQueue` | `Save` and `Load` of the queue | operators over `TaskQueue`'s state |
| `TaskQueueProofs` | theorems about `ThreadPool` and `TaskQueue` | proofs |
| `ChunkService` | what an owner of chunks relies on | abstract specification |
| `CurlMulti`, `MCCurlMulti` | `engine/curlmulti.cpp` | component |
| `ChunkTransfer`, `MCChunkTransfer` | `Ccurl::Download_Task` over `CurlMulti` | component, composed |
| `ChunkTransferProofs` | theorems about `CurlMulti` and `ChunkTransfer` | proofs |
| `Download` | what callers of `Ccurl` rely on | abstract specification |
| `Layout` | how `File_Init` parts a file | operators |
| `Resume`, `MCResume` | `Ccurl::File_Init` and the meta, over sessions and crashes | component |
| `ResumeProofs` | theorems about `Resume` and `Layout` | proofs |
| `Probe` | `Ccurl::Init`, `get_Download_FileSize`, `Check_Range_Support` | component, used by `FileTask` |
| `FileTask`, `MCFileTask` | `RunFileExec` and `Ccurl` with a thread or a pool job per chunk | component, composed |
| `FileTaskProofs` | theorems about `FileTask`, `Probe` and `Layout` | proofs |
| `TaskModel`, `MCTaskModel` | `gui/taskmodel.cpp` over `TaskLifecycle` | component, composed |
| `TaskModelProofs` | theorems about `TaskModel` | proofs |
| `RuntimeCache`, `MCRuntimeCache` | `engine/embedded_runtime.cpp`, several processes | component |
| `RuntimeCacheProofs` | theorems about `RuntimeCache` | proofs |
| `PyWorker` | the worker thread and the parser update of `engine/embed_python.cpp` | component, used by `VideoTask` |
| `VideoTask`, `MCVideoTask` | `RunVideoExec`, `engine/download_video.cpp`, `avmerge.cpp`, the end of the process | component, composed |
| `VideoTaskProofs` | theorems about `VideoTask` and `PyWorker` | proofs |
| `PathUtil` | `infra/pathutil.cpp`, `workflow/naming.cpp` | operators |
| `Workflow`, `MCWorkflow` | `infra/cli_parse.cpp`, `entry/cli_main.cpp`, `workflow/workflow.cpp` | component |
| `WorkflowProofs` | theorems about `Workflow` and `PathUtil` | proofs |

**Variables** carry the names of the fields they stand for (`m_dwRunning` is
`dwRunning`, `m_deqPending` is `deqPending`). **Actions** are the stretches of
code between two points where another thread may run: a method that holds its
mutex throughout is one action (`AddTask` includes the `DispatchLocked` it ends
with, and that includes the `Submit` calls made under the pool's own mutex); a
method that takes a lock twice is two. Definitions named `X_something` with the
comment "Mutant of X" are wrong on purpose; no specification uses them.

* **ThreadPool.** A worker is at `take` (awake or in `waitSet`), `body`, `done`
  or `exited`. The wait on `m_cvWork` is an explicit set, so that `notify_one`
  may wake any sleeper and a notification nobody waits for is lost, as it is in
  C++. `Shutdown` is three steps: flag, notify, joins.
* **TaskQueue.** The job of a task is the task's id. `RunTask` is the half of
  `CTaskQueue::RunTask` under the mutex; before it the executor runs, unlocked.
  An executor may throw (`RunTaskThrows`): the code then leaves the task running
  and its slot taken, and so does the model.
* **QueueFile.** A file is a sequence of characters in which a number counts as
  one. `Save(disk, entries)` is the set of files a `Save` may leave, a crash
  included; `Load(disk, at)` the queue that comes of it. `SavedComesBack` applies
  both to the entries of every reachable state, and to texts with escapes, cut
  anywhere.
* **CurlMulti.** A job is in one `place`: with its owner, inside `SubmitChunk`
  before the lock, in one of the two queues, in one of the vectors of the
  driver's cycle, in the active map, or in its `fnDone`. The phases of a driver
  are the numbered comments of `DriverLoop`. `SubmitChunk` is two steps, since
  the shutdown flag may be set between its two tests.
* **ChunkTransfer** extends `CurlMulti` with the owner of the jobs. `main` is
  the thread in `Download_Task`; `OnChunkDone` has one alternative per ending.
  Data is reduced to places: `offset` counts the bytes written of a chunk,
  `stream` is the place where the next byte of the response belongs, `wrong`
  remembers chunks in which the two differed. The one delicate statement of
  `SubmitChunkAttempt`, the write-back of the lane after the job was queued, is
  a step of its own. File output, progress printing and logging are left out.
* **Download** is the promise of `Ccurl` to those who call it: a file is laid out
  once and written, started over at most once and then as one stream, whole only
  with every place written, never written once the download was stopped or has
  ended. `ChunkTransfer` and `FileTask` are shown to keep it. In both, `Outcome`
  reads the phase off the place of the main thread, `have` are the places the
  chunks' offsets count (`Covered`), `ranged` tells whether parts are asked for by
  their place, `right` whether `wrong` is empty, and `stopping` is `m_cancel`.
  `ChunkTransfer` begins with the file laid out; in `FileTask` the length is 0
  until it is, and a file that was deleted has no places.
* **Resume.** The bytes of a file are the versions of the remote content they
  were taken from, `"nul"` is the byte `File_Init` writes to extend the file.
  `cache` is the file as processes see it, `disk` what a power loss leaves;
  `Flush` and `SavePartMeta` copy one to the other. `meta.of` is the version
  whose headers the meta carries, a history value no action reads. A failing
  `File_Init` is the failure of its last call, the mapping; a kill leaves the
  pages to the system, a power loss keeps any subset of the unflushed ones.
  `outdated` and `misled` are history too: a session for content of another
  length has written while the meta lay there, and this session has taken over
  such a meta. The code can tell neither, and the two properties except both.
* **Probe, FileTask.** One file task without an engine. Every request may be
  answered by a 200, a 206, a 404 or nothing, a HEAD with any length of
  `HeadLens`. `main` is the thread in `RunFileExec`, `at[c]` the thread of chunk
  `c`; `Downloading(c)` are its steps, `Header`, `Write` and `Progress` the
  callbacks libcurl makes in it. `wrong` and the counting of bytes are as in
  `ChunkTransfer`. A thread that cannot be created is `SpawnFails`.
* **TaskModel.** The queue below is `TaskLifecycle`, which `TaskQueue` is shown
  to implement. `ui` is where the window's thread stands in a frame: it draws
  from a snapshot (`shown`) that is older than the click. `DeleteTask` and an
  executor are several steps each, since they take two mutexes in turn. `engine` is whether
  there is one, `uses[q]` whether execution `q` holds it: a destroyed engine under
  an execution shows as the two differing. A row's `path` is its `strOutput`,
  which a video's success overwrites with the final name (`FinalPath`); the
  files stay under the names made from the old one.
* **RuntimeCache.** A directory is the set of its parts: the manifest, the
  entries `CacheContentsUsable` looks for, the rest. `remove_all` takes parts away
  one by one in any order, `rename` is atomic, a process may be killed between
  any two steps. The age of the lock is read before the lock is removed
  (`LockTaken`, `BreakLock`), so a fresh lock can be broken. An
  unpacking may be cut short unnoticed (`Short`), since no file is looked at after
  it was closed and `WriteMarker` reports nothing. `opened` and `calm` are history
  values no action reads.
* **PyWorker.** `started`, `exited`, `stop` are the flags of the file;
  `Leave` and `MarkIdle` are the two locks the worker takes on its way out.
  `call[c]` is a caller in `RunOnPythonThread`: it may be woken, time out, or not
  wait at all when it is canceled; the job goes on in each case. `result` is the
  one answer file of the process. The script of an update is its renames, and
  each may raise: the first, the second, and the one that takes the first back;
  so may what follows them (`Compile`). Of `yt_dlp` and its backup the model keeps
  whether they are there.
* **VideoTask.** `pc` are the stages of `RunVideoExec` and `VideoDownloader::Run`
  for each of several tasks; `asked` is the task's cancel flag, `m_cancel` the
  downloader's copy of it, which is made in callbacks only. A download is one
  step with the endings of `Download`: the whole file, or not; it may be whole
  although a cancel was copied, when no callback came after it. `main` stops
  the worker when all tasks have ended and detaches it when that takes too long.
* **PathUtil, Workflow.** A name is a sequence of marks: a character, an encoded
  octet, or a word the functions do not look into. `CliParseArgs` is a step per
  argument, `RunCli`, the executors of a batch and the exit code are steps of
  `main`. `files` tells of each file who wrote it and whether it is whole; the
  clock `now` ticks at any time, so that two stamps may or may not be equal.

## 3. The runs

| Run | Bounds | What it shows |
|---|---|---|
| `taskqueue` | 3 tasks, 2 slots, 2 workers, 7 texts | queue and pool agree at all times, implement `TaskLifecycle`, every wait ends, and what `Save` writes is what `Load` reads |
| `curlmulti` | 2 jobs, 2 lanes, 3 result codes | no job is lost or reported twice, whatever meets a submit, a retry, a cancel or a shutdown |
| `chunks` | 2 chunks of 2 bytes, 1 lane, 5 result codes | `Download_Task` returns, alone with its chunks, what it calls a success is full and, with Range, in place, and it implements `Download` |
| `resume` | 4 versions of 4 bytes (2 with an ETag) and one of 3, up to 2 parts, 3 sessions, a file of 0 or 3 bytes there before | the meta is never ahead of the disk; a complete file is of one version but for its last byte, unless a meta of another length intervened; a stop loses nothing |
| `filetask` | a body of 3 bytes in 2 parts, HEAD tells 2, 3 or 4, 3 attempts | a complete file is the body, no thread outlives its list, a cancel keeps what is needed to resume, the task returns, and it implements `Download` |
| `taskmodel` | 2 rows, 3 queue tasks, 1 slot, a file's URL and a video's, 3 final names | the engine outlives its users, an active task has its row, only Delete deletes, a marked row goes and a file with it |
| `runtime` | 2 processes, 2 rounds for the lock, 1 kill | what is half there was made so by a removal or by an unpacking that was cut short, no lock is forgotten, no running process loses a whole runtime while the lock holds, everybody gets an answer |
| `video` | 2 tasks, one of them canceled at any time, and the process started for tasks, `--update-parser` or `--verify-runtime` | no job is lost, the parser or its backup is there, success names a whole file, tracks are kept, the process ends |
| `workflow` | 4 arguments, URLs of up to 3 marks, 2 stamps, names of up to 4 marks, 4 sets of files there before | names stay in their directory, a task with a name of its own loses its file to no other of the batch, what was there under `-o` is left alone, the exit code is true |
| `nonrange_retry` | 2 chunks of 1 byte, 1 lane | disagreement, section 6 |
| `resume_last_byte` | as `resume`, up to 3 parts | disagreement, section 6 |
| `video_page` | as `video`, tasks only, without fairness | disagreement, section 6 |

Four properties are conjunctions: `PoolKeepsJobs` is `OutstandingCounts`,
`WakeupsSuffice` and `NoJobDropped`; `CallsReturn` is `WaitAllReturns` and
`ShutdownReturns` of the queue; `NothingWaits` is `CanceledComesBack` and
`ShutdownReturns` of the engine; `ReturnsAlone` contains that the chunks left are
counted exactly. Where a module has no type invariant of its own among the
properties, it is a conjunct of one: `SlotAccounting`, `EngineOutlivesTasks`,
`ReturnsAlone`, `MetaTrue`, `LockWillGo`, `JobsAccounted`, `OutputIsWhole`,
`ThreadsJoined`, `DefaultNamesSafe`.

Why the bounds are enough. In `taskqueue` three tasks over two slots make a task
wait for a slot, two workers make jobs wait for a worker, and a dispatch may
start none, one or two tasks; the texts hold each character that is escaped, and
one that looks like an escape. In `curlmulti` two jobs share a lane or not; a third
adds no new meeting, as a driver treats the jobs of a vector one by one. In
`chunks` a chunk of two bytes can break off in the middle, two chunks on one lane
make the driver's callback of one delay the other, and the code's own bound of
three attempts is kept. Lanes do not share state but the shutdown flag and the
round-robin counter, which `curlmulti` covers with two. In `resume` three bytes in
two parts give a last part that is longer than the other, four bytes parts that
break off in the middle, and three sessions are the least with which a stop, a
change of content and a change back can meet, or a meta lie beside a file that a
shorter content overwrites. In `filetask` three bytes in two parts give parts of unequal length,
and a length that is too short, right or too long. In `taskmodel` three queue
tasks let one row be resumed while the other is added, and rename a video three times
at most, so that `Renames` cuts nothing off; one slot lets a task be found pending,
two rows of one URL may share a name. In `runtime` two rounds for the lock are enough to find it
taken, break it and get it, or to give up; a third process adds a second waiter,
which the owner does not tell from the first. In `video` two tasks are enough for one
to meet the other's answer, job or update. In `workflow` two equal URLs, one
without a base name and every short one meet every combination of the options
that decide about a name.

`Resume.cfg` sets `StableHeaders`: the server does not begin or cease to send an
ETag. With `FALSE`, `CompleteButLastByte` fails, since `LoadPartMeta` compares
neither validator when the meta has an ETag and the server now sends none.

Deadlock is checked in `taskqueue`, `filetask` and `workflow`, whose
specifications say where they may stop. The other runs switch it off because
their systems stop: an engine that has been shut down, a task that has returned,
a window that was closed, processes that have their answer, a bounded number of
sessions that are over.

Each property of a passing run has a mutant in `PROJECT.json`: a plausible slip
in one definition, with which TLC finds that property violated.

## 4. Fairness

Only what the code's scheduling gives is assumed. Threads that are not blocked
run (weak fairness of a worker's, a driver's, the submitting thread's, a
process's steps); a callback returns; a delay passes. Nobody is obliged to call
the API: adding, starting, canceling, waiting, clicking and shutting down are
never fair.

* `TaskQueue`: an executor ends, because its transfers have timeouts; it may end
  badly.
* `CurlMulti`: no transfer is assumed to end. `CanceledComesBack` and
  `ShutdownReturns` hold although every transfer stalls for ever. Where
  `TaskReturns` of `ChunkTransfer` needs it, `TransfersEnd` (libcurl's low-speed
  timeout, `--timeout`, on by default) is in the formula, not in the
  specification. It is strong fairness because a lane is in its perform phase
  again and again, not all the time.
* `FileTask`: a request ends (`CURLOPT_TIMEOUT` of the probes,
  `CURLOPT_LOW_SPEED_TIME` of the chunks); what it brings is not assumed.
* `TaskModel`: an executor ends, and a Delete once begun is finished
  (`DeleteGoesOn`). Nothing says that another frame is drawn.
* `RuntimeCache`: each process that is not killed goes on; nothing is assumed of
  the others, of the lock's age or of its owner.
* `VideoTask`: tasks, callers and the worker's loop go on; of a script nothing is
  assumed, it may hold the worker for ever.

## 5. What is proved

TLAPS checks the following for every value of the constants that satisfies the
assumptions named in the modules (`PoolAssumption`, `QueueAssumption`,
`EngineAssumption`, `TransferAssumption`, `ResumeAssumption`, `ModelAssumption`,
`RuntimeAssumption`, `TaskAssumption`, `FileTaskAssumption`, `ProbeAssumption`,
`PathUtilAssumption`, `WorkflowAssumption`: finite non-empty sets of workers, at
least one slot, one lane, one chunk and one attempt, as the constructors clamp
them, the two codes the driver itself makes up among the codes, ids that begin at
one, contents that are not empty, which `File_Init` refuses, and have a longest,
lengths that are positive, processes that are not named like a directory, marks
among which are those the functions on names write themselves, stamps that are
made of none that these functions look for, as digits are).

`MetaIsTrue` and `CompleteIsServed` have a hypothesis besides, `ValidatorsTell`:
the server keeps sending an ETag or keeps sending none, and two contents of one
length differ in what it sends. Nothing is asked of contents of different
length. Without it the two are false, since the code has nothing else to tell
contents apart by. `GoesOn` needs no such thing.

| Theorem | Module | States |
|---|---|---|
| `PoolKeeps` | `TaskQueueProofs` | `PoolKeepsJobs` always holds of the pool on its own |
| `SlotsRespected`, `NoIdleSlot` | `TaskQueueProofs` | `SlotAccounting`, `WorkConserving` always hold |
| `JobsKept`, `RunOnce` | `TaskQueueProofs` | `PoolKeepsJobs`, `ExecutedOnce` always hold of queue and pool together |
| `RefinesLifecycle` | `TaskQueueProofs` | `Spec` implements `TaskLifecycle` |
| `EngineTypeCorrect`, `NothingStranded`, `VectorsEmptied` | `ChunkTransferProofs` | `EngineTypeOK`, `NoJobStranded`, `CycleEmptied` always hold |
| `RefinesService` | `ChunkTransferProofs` | `EngineSpec` implements `ChunkService` |
| `TaskReturnsAlone`, `ChunksFull` | `ChunkTransferProofs` | `ReturnsAlone`, `SuccessIsFull` always hold |
| `ChunksNotStranded` | `ChunkTransferProofs` | `NoJobStranded` holds of the engine under a download |
| `ServiceUnderDownload` | `ChunkTransferProofs` | the engine under a download implements `ChunkService` |
| `IsDownload` | `ChunkTransferProofs` | `Spec` of `ChunkTransfer` implements `Download` |
| `MetaIsTrue`, `CompleteIsServed` | `ResumeProofs` | `MetaTrue`, `CompleteButLastByte` always hold, given `ValidatorsTell` |
| `GoesOn` | `ResumeProofs` | no step breaks `ResumesWhereStopped` |
| `NoThreadLeft`, `CompleteIsWhole`, `StopKeeps` | `FileTaskProofs` | `ThreadsJoined`, `CompleteIsBody`, `KeptForResume` always hold |
| `IsDownload` | `FileTaskProofs` | `Spec` of `FileTask` implements `Download` |
| `EngineOutlives`, `ActiveHasRow` | `TaskModelProofs` | `EngineOutlivesTasks`, `ActiveTaskHasRow` always hold |
| `DeletesOnly` | `TaskModelProofs` | no step breaks `OnlyDeleteDeletes` |
| `UsesLifecycle` | `TaskModelProofs` | `ModelSpec` implements `TaskLifecycle` |
| `LockGoes`, `BuiltInPrivate`, `CalmRunning` | `RuntimeCacheProofs` | `LockWillGo`, `PartialOnlyByRemoval`, `CalmHomes` always hold |
| `PyJobs`, `ParserKept` | `VideoTaskProofs` | `JobsAccounted`, `ParserOrBackup` always hold |
| `OutputWhole`, `TracksSafe` | `VideoTaskProofs` | `OutputIsWhole` always holds, no step breaks `TracksKept` |
| `NamesSafe`, `KeepsOwnFile`, `ExitTrue` | `WorkflowProofs` | `DefaultNamesSafe`, `OwnFile`, `ExitTells` always hold |
| `LeavesGivenFile` | `WorkflowProofs` | no step breaks `GivenFileKept` |
| `NewFilesSafe` | `WorkflowProofs` | without `-o` no step makes a file with an unsafe name, a video's included |
| `JobsLimited` | `WorkflowProofs` | no more tasks run at once than `-j` says |
| `BatchUsesLifecycle` | `WorkflowProofs` | `Spec` of the batch implements `TaskLifecycle` |

**ThreadPool.** `PoolIInv` adds `LeaveAfterFlag` (a worker leaves its loop only
after the flag; otherwise `Submit` could queue a job for workers that are gone)
and `SleepAtHead` (who sleeps is at the head of the loop; otherwise a wakeup
could go to nobody). The hinge is that a `Submit` of n jobs wakes n sleepers or
all: the sets `Awake` and `Busy` grow and shrink by one, which the library's
facts about cardinalities turn into numbers.

**TaskQueue.** The inductive invariant `IInv` adds two facts to the properties.
`HeldIsTask` (a worker in a body holds a task) is what makes `emState[held[w]]`
meaningful in `RunTask`; `IdsInOrder` (exactly the ids below `m_dwNextId` have an
entry) is what makes `AddTask` start from an absent entry, and what lets "the
lowest pending id" imply that every older task has left Pending. The proof's
hinge is the lemma `Dispatched`, which says once what a run of the dispatch loop
does with the arguments it is given: `AddTask`, `Start` and `RunTask` each only
establish its hypotheses. `JobsKept` cites the lemmas about the pool's single
steps. `RunOnce` needs `Once(st)`, the same statement for any assignment of
states, because a dispatch submits the jobs of the states it is about to set.
The refinement is step by step under the identity mapping
(`status <- emState`, `asked <- bCancel`).

**CurlMulti.** `EngineIInv` adds `LaneKnown` (a job that has left its owner's
hands has a lane) and `FlagFirst` (a driver leaves only after the flag). Without
`FlagFirst`, a retry could be accepted into a lane that has been left; without
`CycleEmptied`, `ExitOrLoop` could leave a job in a vector; without `LaneKnown`,
"every driver has left" would not imply "no job is in the engine", which is what
`ShutdownJoin` needs to map to `Closed`. Both proofs are about `Happens`: what may
happen to the engine, each of its actions with any arguments, whoever its owners
are. `HappensIInv` and `HappensRefines` say so once, `NextHappens` that the
engine's own next-state relation is an instance.

**ChunkTransfer.** `TransferIInv` is `EngineIInv` and the download's own part.
`TransferHappens` shows that every step of the download is one of `Happens`: the
first follows from `HappensIInv`, and from `HappensRefines` that the engine
implements `ChunkService` under this owner too. The second adds `CurKnown` (where the
thread stands in its loop over the chunks: a chunk may be pushed only while it
is one) and `Placed` (no chunk has more bytes than belong to it, and with Range
the stream of a running transfer and the chunk's offset agree). `ReturnsAlone`
rests on `Counted`: the counter is the cardinality of the set of chunks that
their owner does not have, which a submit and a report change by one element, so
that zero means nobody. `SuccessIsFull` rests on `Placed`.

`IsDownload` maps each step to one of `Download`: the restart without Range to
`StartOver`, a driver's write to `Write`, the end to `Finish` or `GiveUp`, all that
the engine does besides to a stutter. What has to be shown is that no driver
writes late: who writes is a transfer that runs, a chunk in a transfer is not with
its owner, and the thread returns only when it has all of them back (`Alone`); the
write callback itself looks at `m_cancel`. `DeniedInRange` says that a download
starts over from its parts only, hence once. `PartOfPlace` finds the part a place
lies in, by its quotient; with it `CoveredPlaces` turns full chunks into every
place of the file, for any number and length of parts.

**Resume.** `ResumeIInv` speaks of two lists of parts by one operator, `Holds`:
the bytes a list counts are those of a version. `MetaHolds` says it of the meta,
for the pages and for the disk, `SessionHolds` of the session's own list.
`MetaShape` ties the meta's headers to the version it was written for, which
turns "`LoadPartMeta` found nothing changed" into "it is the same version"; this
is where `ValidatorsTell` is used. `PartsCover` (each place of a file is in one
of its parts) turns a session whose parts are all written into a complete file,
for any length and number of parts.

`StopIInv` is a smaller invariant for `GoesOn`: a session that was stopped left the
meta of its version with what it wrote, and a file that is long enough, so that
`LoadPartMeta` has nothing to object if the same version is served.

**FileTask.** `IInv` adds `Listed` (when there is a list of chunks, none is empty),
`LengthTold` (a length is taken once, and a 206 tells the true one), `Threads` (a
thread runs only for a chunk `RunChunks` has come to, and only while it waits),
`InStep` and `Placed` (with Range, what a request has brought is where the chunk's
offset is), `AllFull` and `Kept`. `PartsCover` then makes full chunks a full file.
The proof found one bound of the type invariant wrong that no run had met: with
a single chunk and a length that is told too long, a resumed count exceeds the
body; `download_len` is now bounded by the longer of the two.

`IsDownload` needs a `DeniedInRange` of its own and, of `IInv`, `Listed`, `Placed`
and above all `Threads`: who writes has a main thread that waits for it. A probe is a
stutter of `Download`, but for the new instance, which forgets a cancel that came
before it (`Forget`). An engine shared by all tasks and a thread per chunk thereby
promise their callers the same.

**TaskModel.** `ModelIInv` adds `QueueInv` (ids are handed out upwards, slots are
kept), `RowsKnown` (each row has a queue task of its own, and only a row on which
Delete was clicked is marked), `ShownTrue` (a row drawn as ended has ended, which
an older snapshot cannot get wrong since the end of a task is final), `Deleting`,
`ResetIdle` (between the look at the queue and the reset of the engine no task
becomes active, since only the same thread adds any) and, of the executors,
`ExecRuns` and `Dropping`. `DispatchedKeeps` is about the dispatch: that the
oldest pending tasks, as many as there are free slots, never are too many rests
on the greatest element of a bounded set of ids, which comes from the library's
well-founded orders. The queue of this model is thereby shown to be used only in
the ways `TaskLifecycle` describes, and `RefinesLifecycle` shows that `TaskQueue`
behaves so.

**RuntimeCache.** `IInv` adds `BuiltWhole` (a shared directory of this build is
empty, whole, being removed or was cut short; what a process is about to swap in
is as it was unpacked), `HomesOwn` (no home
before the swap, and no process lives in another's temporary directory) and
`CalmLock`: as long as no lock timed out or was broken and nobody died, the lock
excludes, and its owner has seen that what it is about to remove is nobody's.
The last is the point: it rests on the second look at both directories, which
the code takes under the lock; the mutant `CreateLock_noRecheck` leaves it out.

**VideoTask.** `PyIInv` adds to the worker's properties `AtWork` (it holds a job
exactly while it runs, and what an update has moved is where its script stands) and `NumbersGrow` (a caller's jobs are numbered upwards, so that a new
one is neither queued nor run). `IInv` adds `Stands(t)`: what tracks and merged
files can be at each stage. `StepPy` and `StepTasks` have a case per action;
`IInv` needs `PyIInv` in one place, where the answer a task takes must be one
that some job wrote.

**PathUtil, Workflow.** What the functions on names return is said by places: each
is a part of its argument, a map of its marks, or an insertion, and the lemmas
(`BaseName`, `Decoded`, `Sanitized`, `StampIs`, `Suffixed`) say which. The first and
the last place of a mark come from well-founded orders. What remains clean, is no
device and is longer than `..` is safe. `IInv` of the batch has `Its(t)`, what there
is of a task's file at each of its states while no other task that began has its
name (`Solo`), `Aside` (no task that began has the name of what was there under
`-o`), and `Settled` (the exit code is computed once, of tasks that have ended).
`Step(t)` is what the steps of a task have in common: they change its state, its
path and the files of its name; `OtherKeeps` is proved of it once, so that each
action owes only its own task's part. `SlotsKept`, that `-j` is respected, is the
hinge of `BatchUsesLifecycle`. With `RefinesLifecycle`, `UsesLifecycle` and this, the
queue, the window and the command line meet at `TaskLifecycle`: `TaskQueue` behaves
so, and both of its users stay within that behaviour.

Left to TLC, since the prover cannot state or find them: what needs fairness
(`CallsReturn`, `NothingWaits`, `TaskReturns` of `ChunkTransfer` and of `FileTask`,
`MarkedRowGoes`, `EveryoneAnswers`, `ProcessExits`), and `SavedComesBack`, which holds
by induction over a text, through folds. Every other property of a passing run
is stated by a theorem.

## 6. Disagreements between the code and what it says

Three are runs that are expected to violate their property; `PROJECT.json`
("findings") quotes the lines.

* **`nonrange_retry`.** Without Range, a retry asks for the whole body again but
  writes it at the offset the failed attempt reached. The task reports "download
  complete, size verified" for a file whose tail is a copy of its head.
* **`resume_last_byte`.** Every session writes a zero byte in the last place of
  the file, also when the last chunk is complete and will be skipped.
* **`video_page`.** All parses of a process leave their answer in one file. A
  caller reads it after its job has ended, under no lock; the next job may have
  overwritten it, and the task downloads the other task's page.

Others were met while modelling and are in the models as the code has them, or
outside of them:

* `Ccurl.cpp:711` stores the lane of a chunk after its job was queued; if the
  first attempt fails before, the engine refuses the retry and a transient
  failure becomes a failed chunk.
* `Ccurl.cpp:1244`: a longer file of the target's name is not truncated.
* `Ccurl.cpp:1018`: a meta of another length is ignored, not removed, while the
  file is overwritten; if that session is killed, a later one for the first
  content trusts the meta. `Resume` does the same (`outdated`, `misled`).
* `Ccurl.cpp:1482` takes the length of a HEAD that was not answered with 200,
  against the comment at 1391-1393.
* `Ccurl.cpp:296,312-318`: the progress of a resumed task loses or counts twice
  the bytes of earlier sessions, against `progress.h:24`.
* `taskmodel.cpp:198-204`: Delete of a row whose task has just ended only marks
  it, and nobody looks at the mark again, against `README.md:242`;
  `MarkedRowGoes` speaks of marks that come before the executor looks.
* `taskmodel.cpp:452,556`: a video's success overwrites the base name the names
  of its files are made from. A Delete that meets such a success removes the row
  and leaves the files, against `README.md:242`, and a Resume of a video that was
  stopped in its last moment starts again under another name.
* `embedded_runtime.cpp:126-131,378`: nobody asks whether the files and the marker
  were written. A runtime whose marker was lost on a full disk is used by the
  process that unpacked it, and removed under it by the next one; `CalmHomes`
  excepts such an unpacking.
* `embedded_runtime.cpp:308-309`: "no half-built cache is ever visible", but a
  half-removed one is; that is why `PartialOnlyByRemoval` says what it says.
* `embed_python.cpp:104-115`: a job that is submitted while the idle worker is
  leaving waits until the next submit starts a worker, or until its deadline.
* `embed_python.cpp`: a process that ends between the two renames of an update
  leaves the parser only under its backup name, where nobody looks for it; so
  does a rollback that fails (`embed_python.cpp:550`), against "atomic replace with
  rollback". `ParserOrBackup` says no more than that one of the two is there.
* `workflow.cpp:90-105`: two targets that are stamped in one second get one
  name, against `README.md:143`; `GivenFileKept` is about the first.
* `taskqueue.cpp:292`: where `rename` fails over an existing file the old one is
  removed first, against "atomic" in `taskqueue.h:76`. `Load` keeps tasks as
  Running that nobody runs.
* `cli_parse.cpp`: a negative number (`-t -3`) is taken for an unknown option;
  in video mode every URL but the first is ignored.

## 7. What is not modelled, and why

* **Remuxing** (`avmerge.cpp`): the packet loop copies FFmpeg's data; only the
  choice of the container, the appearance of the output and the points where a
  cancel is looked at are in `VideoTask`. **SHA-256** is pure and has unit tests
  with published vectors; `FileTask` takes a verification as an outcome.
* **GUI drawing**, themes, dialogs, translation, crash guard: immediate-mode
  output. Its clicks are the environment of `TaskModel`.
* **Third-party code**, packaging scripts and the web page.
* **Python scripts**: what they compute is chosen. `EmbedAutoUpdateParser` and
  `EmbedPythonShutdown` are called by nothing.
* Disk failures, other than those of `File_Init`, `Save` and the unpacking: a
  meta that cannot be written is given up silently (`Ccurl.cpp:1073`).
* The numbers a progress shows.
* Data races on strings that are only shown: `Snapshot` copies an entry while
  its executor writes `strError` and `strOutput`.
* A server that changes content during one session. No request carries
  `If-Range`, so the parts of one session can differ; `Resume` changes content
  between sessions only.
* Flushing at completion: a completed download removes its meta and leaves the
  pages to the system. Nothing in the repository promises more.

## 8. What could come next

1. A refinement of the executors of `TaskQueue` by `FileTask` and `VideoTask`,
   which today meet at the promise "an executor ends".
2. `Resume` as an implementation of `Download` in each session, with what the
   session takes over as its first layout.
