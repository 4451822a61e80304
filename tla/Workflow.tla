------------------------------ MODULE Workflow ------------------------------
(***************************************************************************)
(* The command line (infra/cli_parse.cpp, entry/cli_main.cpp,              *)
(* workflow/workflow.cpp): CliParseArgs reads the arguments one by one,    *)
(* RunCli and RunWorkflow act on the options, name the outputs and run one *)
(* download, a batch of them or a video, and the exit code says how it     *)
(* went.  A download is an executor of TaskQueue and its inside FileTask's *)
(* or VideoTask's; here it is the files it makes.                          *)
(***************************************************************************)
EXTENDS PathUtil, Integers, FiniteSets

CONSTANTS
  Urls, OddUrls,   (* arguments that are URLs; an odd one stands alone      *)
  OutNames,        (* values of -o                                          *)
  Numbers,         (* what atoi makes of the values of -t, -j and --timeout *)
  DefaultThreads, MaxThreads,
  Stamps,          (* the seconds that may pass, as CurrentTimeStamp says it *)
  Earlier,         (* sets of files that may be there before                *)
  MaxArgs          (* bound: arguments on the command line                  *)

(* A stamp is digits and a "_", which no name's rules look for.            *)
ASSUME WorkflowAssumption ==
  /\ Urls \cup OddUrls \cup OutNames \subseteq Seq(Marks)
  /\ Numbers \subseteq Int
  /\ MaxThreads \in Nat /\ DefaultThreads \in 1..MaxThreads
  /\ Stamps \in Seq(Marks \ (Illegal \cup {"."})) /\ Stamps # <<>>
  /\ MaxArgs \in Nat \ {0}

VARIABLES
  main,     (* parse, act, name, run, or exited                             *)
  args,     (* arguments read                                               *)
  ahead,    (* what comes next: any, some argument, or none without a dash  *)
  opts,     (* TCliOptions                                                  *)
  now,      (* the clock, in seconds since the start                        *)
  files,    (* the files: who wrote into each (0: before), and if it is whole *)
  status,   (* the state of each task                                       *)
  path,     (* the file it was given                                        *)
  exit      (* the exit code, 9 before                                      *)

vars == <<main, args, ahead, opts, now, files, status, path, exit>>
runVars == <<now, files, status, path>>

Clamp(v, lo, hi) == IF v < lo THEN lo ELSE IF v > hi THEN hi ELSE v

Tasks  == DOMAIN opts.urls
Stamp  == Stamps[now + 1]
Exists(p) == p \in DOMAIN files
States == {"Pending", "Running", "Open", "Done", "Error"}

Init ==
  /\ main = "parse"
  /\ args = 0
  /\ ahead = "any"
  /\ opts = [action |-> "download", urls |-> <<>>, video |-> <<>>, bVideoMode |-> FALSE,
             out |-> <<>>, bOutputSet |-> FALSE, bVerify |-> FALSE, bContinue |-> FALSE,
             bDeletePartial |-> FALSE, nThreads |-> DefaultThreads, nTimeout |-> 60,
             nJobs |-> 2]
  /\ now = 0
  /\ \E there \in Earlier : files = [p \in there |-> [by |-> {0}, whole |-> TRUE]]
  /\ status = <<>>
  /\ path = <<>>
  /\ exit = 9

Exit(code) == main' = "exited" /\ exit' = code

(***************************************************************************)
(* CliParseArgs.  A value is an argument that does not begin with a dash.  *)
(***************************************************************************)
Read(n) ==
  /\ main = "parse" /\ args + n <= MaxArgs
  /\ args' = args + n
  /\ ahead' = "any"
  /\ UNCHANGED <<main, runVars, exit>>

SetOption(field, value) == opts' = [opts EXCEPT ![field] = value]

TakeVideo(url) ==
  /\ Read(2)
  /\ opts' = [opts EXCEPT !.bVideoMode = TRUE, !.video = url]
TakeOut(name) ==
  /\ Read(2)
  /\ opts' = [opts EXCEPT !.out = name, !.bOutputSet = TRUE]
TakeThreads(v) == Read(2) /\ SetOption("nThreads", Clamp(v, 1, MaxThreads))
TakeJobs(v)    == Read(2) /\ SetOption("nJobs", Clamp(v, 1, 8))
TakeTimeout(v) == Read(2) /\ SetOption("nTimeout", v)
NoTimeout      == Read(1) /\ SetOption("nTimeout", 0)
TakeContinue   == Read(1) /\ SetOption("bContinue", TRUE)
TakeDelete     == Read(1) /\ SetOption("bDeletePartial", TRUE)
TakeCookie     == Read(2) /\ UNCHANGED opts   \* --cookie, --cookies-from-browser
TakeSha256     == Read(2) /\ SetOption("bVerify", TRUE)

(* --verify alone takes whatever follows without a dash for an algorithm.  *)
TakeVerify ==
  /\ main = "parse" /\ args < MaxArgs
  /\ args' = args + 1
  /\ ahead' = "dash"
  /\ SetOption("bVerify", TRUE)
  /\ UNCHANGED <<main, runVars, exit>>

TakeUrl(url) ==
  /\ ahead # "dash"
  /\ Read(1)
  /\ SetOption("urls", Append(opts.urls, url))

TakeOddUrl(url) ==
  /\ args = 0 /\ ahead = "any"
  /\ Read(MaxArgs)
  /\ SetOption("urls", <<url>>)

(* `dl` is the command only when something follows it.                     *)
TakeDl ==
  /\ main = "parse" /\ args = 0 /\ ahead = "any"
  /\ ahead' = "some"
  /\ UNCHANGED <<main, args, opts, runVars, exit>>

(* --update-parser, --verify-runtime and -h end the parsing anywhere, -v   *)
(* and no argument at all only at the beginning.                           *)
TakeAction(action) ==
  /\ main = "parse" /\ args < MaxArgs
  /\ action \in {"update", "verify", "help"} \/ (args = 0 /\ ahead = "any")
  /\ SetOption("action", action)
  /\ main' = "act"
  /\ UNCHANGED <<args, ahead, runVars, exit>>

(* An unknown option, a value or an algorithm that is missing or unknown;  *)
(* and no argument at all.                                                 *)
UsageError ==
  /\ main = "parse"
  /\ Exit(1)
  /\ UNCHANGED <<args, ahead, opts, runVars>>

EndOfArgs ==
  /\ main = "parse" /\ args > 0 /\ ahead # "some"
  /\ main' = "act"
  /\ UNCHANGED <<args, ahead, opts, runVars, exit>>

CliParseArgs ==
  \/ \E url \in Urls : TakeVideo(url) \/ TakeUrl(url)
  \/ \E url \in OddUrls : TakeOddUrl(url)
  \/ \E name \in OutNames : TakeOut(name)
  \/ \E v \in Numbers : TakeThreads(v) \/ TakeJobs(v) \/ TakeTimeout(v)
  \/ NoTimeout \/ TakeContinue \/ TakeDelete \/ TakeCookie \/ TakeSha256
  \/ TakeVerify \/ TakeDl \/ UsageError \/ EndOfArgs
  \/ \E action \in {"version", "help", "update", "verify"} : TakeAction(action)

(***************************************************************************)
(* RunCli: the actions that download nothing (the parser's update and the  *)
(* runtime's verification may fail), and what has nothing to download.     *)
(***************************************************************************)
Inform ==
  /\ main = "act" /\ opts.action # "download"
  /\ \E code \in IF opts.action \in {"update", "verify"} THEN {0, 1} ELSE {0} : Exit(code)
  /\ UNCHANGED <<args, ahead, opts, runVars>>

NothingToDo ==
  /\ main = "act" /\ opts.action = "download"
  /\ IF opts.bVideoMode THEN opts.video = <<>> ELSE opts.urls = <<>>
  /\ Exit(1)
  /\ UNCHANGED <<args, ahead, opts, runVars>>

Batch == Len(opts.urls) > 1

(* -o names one file.                                                      *)
RefuseOut ==
  /\ main = "act" /\ opts.action = "download" /\ ~opts.bVideoMode
  /\ Batch /\ opts.bOutputSet
  /\ Exit(1)
  /\ UNCHANGED <<args, ahead, opts, runVars>>

(* The queue is filled; a single URL is a batch of one that may have -o.   *)
BeginFiles ==
  /\ main = "act" /\ opts.action = "download" /\ ~opts.bVideoMode
  /\ opts.urls # <<>> /\ ~(Batch /\ opts.bOutputSet)
  /\ status' = [t \in Tasks |-> "Pending"]
  /\ path' = [t \in Tasks |-> <<>>]
  /\ main' = "run"
  /\ UNCHANGED <<args, ahead, opts, now, files, exit>>

(***************************************************************************)
(* ExecuteFileTask: the name is made when the task runs.                   *)
(***************************************************************************)
FileName_unchecked(t) ==     \* mutant: -o is taken as it is
  IF ~opts.bOutputSet THEN StampName(DefaultName(opts.urls[t]), Stamp) ELSE opts.out

FileName(t) ==
  IF ~opts.bOutputSet THEN StampName(DefaultName(opts.urls[t]), Stamp)
  ELSE IF Exists(opts.out) /\ ~opts.bContinue THEN StampName(opts.out, Stamp)
  ELSE opts.out

Slots   == IF Batch THEN opts.nJobs ELSE 1
Running == {t \in DOMAIN status : status[t] \in {"Running", "Open"}}

StartTask(t) ==
  /\ main = "run" /\ status[t] = "Pending"
  /\ \A u \in 1..(t - 1) : status[u] # "Pending"
  /\ Cardinality(Running) < Slots
  /\ status' = [status EXCEPT ![t] = "Running"]
  /\ path' = [path EXCEPT ![t] = FileName(t)]
  /\ UNCHANGED <<main, args, ahead, opts, now, files, exit>>

(* File_Init opens the file, after the probe; a task writes into it from   *)
(* then on, whoever else has it open.                                      *)
OpenFile(t) ==
  /\ main = "run" /\ status[t] = "Running"
  /\ status' = [status EXCEPT ![t] = "Open"]
  /\ LET before == IF Exists(path[t]) THEN files[path[t]].by ELSE {}
     IN files' = [p \in DOMAIN files \cup {path[t]} |->
                    IF p = path[t] THEN [by |-> before \cup {t}, whole |-> FALSE] ELSE files[p]]
  /\ UNCHANGED <<main, args, ahead, opts, now, path, exit>>

FileDone(t) ==
  /\ main = "run" /\ status[t] = "Open"
  /\ files' = [p \in DOMAIN files |->
                 IF p = path[t] THEN [files[p] EXCEPT !.whole = TRUE] ELSE files[p]]
  /\ status' = [status EXCEPT ![t] = "Done"]
  /\ UNCHANGED <<main, args, ahead, opts, now, path, exit>>

(* Mutant of FileFails: the failure of one task takes all the files along. *)
FileFails_removesAll(t) ==
  /\ main = "run" /\ status[t] = "Open"
  /\ files' = [p \in {q \in DOMAIN files : 0 \in files[q].by} |-> files[p]]
  /\ status' = [status EXCEPT ![t] = "Error"]
  /\ UNCHANGED <<main, args, ahead, opts, now, path, exit>>

(* It fails in File_Init, which leaves what there is, or in the download,  *)
(* after which --delete-partial removes the name.  The verification needs  *)
(* the mapping and the length only, which a complete download has.         *)
FileFails(t) ==
  /\ main = "run" /\ t \in Running
  /\ \/ UNCHANGED files
     \/ /\ opts.bDeletePartial /\ status[t] = "Open"
        /\ files' = [p \in DOMAIN files \ {path[t]} |-> files[p]]
  /\ status' = [status EXCEPT ![t] = "Error"]
  /\ UNCHANGED <<main, args, ahead, opts, now, path, exit>>

(* WaitAll has returned; nobody cancels a task of the command line.        *)
Count(s) == Cardinality({t \in DOMAIN status : status[t] = s})

ExitCode_lastWins == IF status[Len(status)] = "Done" THEN 0 ELSE 1   \* mutant
ExitCode == IF Count("Error") = 0 THEN 0 ELSE IF Count("Done") > 0 THEN 3 ELSE 1

Report ==
  /\ main = "run" /\ Count("Pending") = 0 /\ Running = {}
  /\ Exit(ExitCode)
  /\ UNCHANGED <<args, ahead, opts, runVars>>

(***************************************************************************)
(* Video mode, which forgets the URLs.                                     *)
(***************************************************************************)
VideoName ==
  IF ~opts.bOutputSet THEN VideoBase(opts.video) \o <<"_", Stamp>>
  ELSE IF \E p \in VideoFiles(opts.out) : Exists(p) THEN opts.out \o <<"_", Stamp>>
  ELSE opts.out

(* What VideoDownloader leaves: the tracks it had, or the one that is the  *)
(* whole video, or the merged file in their place (VideoTask).             *)
Tracks(base)  == {base \o <<".mp4">>, base \o <<".m4a">>}
Written(paths, whole, kept) ==
  [p \in paths \cup kept |-> IF p \in paths THEN [by |-> {1}, whole |-> whole] ELSE files[p]]

RunVideo ==
  /\ main = "act" /\ opts.action = "download" /\ opts.bVideoMode /\ opts.video # <<>>
  /\ \/ \E left \in SUBSET Tracks(VideoName) :
          files' = Written(left, FALSE, DOMAIN files) /\ Exit(1)
     \/ files' = Written({VideoName \o <<".mp4">>}, TRUE, DOMAIN files) /\ Exit(0)
     \/ \E ext \in {".mp4", ".mkv"} :
          /\ files' = Written({VideoName \o <<"_full", ext>>}, TRUE,
                              DOMAIN files \ Tracks(VideoName))
          /\ Exit(0)
  /\ UNCHANGED <<args, ahead, opts, now, status, path>>

-----------------------------------------------------------------------------

Tick ==
  /\ main \in {"act", "run"} /\ now + 1 < Len(Stamps)
  /\ now' = now + 1
  /\ UNCHANGED <<main, args, ahead, opts, files, status, path, exit>>

RunCli ==
  \/ CliParseArgs
  \/ Inform \/ NothingToDo \/ RefuseOut \/ BeginFiles \/ Report \/ RunVideo
  \/ \E t \in DOMAIN status : StartTask(t) \/ OpenFile(t) \/ FileDone(t) \/ FileFails(t)

Next == RunCli \/ Tick \/ (main = "exited" /\ UNCHANGED vars)

Spec == Init /\ [][Next]_vars

-----------------------------------------------------------------------------

TypeOK ==
  /\ main \in {"parse", "act", "run", "exited"}
  /\ args \in 0..MaxArgs /\ ahead \in {"any", "some", "dash"}
  /\ opts.nThreads \in 1..MaxThreads /\ opts.nJobs \in 1..8
  /\ now \in 0..(Len(Stamps) - 1)
  /\ \A p \in DOMAIN files : files[p].by \subseteq 0..MaxArgs
  /\ \A t \in DOMAIN status : status[t] \in States
  /\ exit \in {0, 1, 3, 9}

(* The options stay in their ranges, and a file the user did not name gets *)
(* a name that cannot leave the directory: SanitizeFileName, pathutil.h:22. *)
DefaultNamesSafe ==
  /\ TypeOK
  /\ \A t \in DOMAIN status :
       status[t] # "Pending" /\ ~opts.bOutputSet => SafeName(path[t])

(* The exit code (workflow.h:19, "0 success, 1 failure, 3 partial batch    *)
(* success") tells what is on the disk, when the tasks have names of their *)
(* own: 0 exactly if every URL has its file, 1 exactly if none has.        *)
Whole(t) == Exists(path[t]) /\ files[path[t]].whole /\ t \in files[path[t]].by
Alone(t) == \A u \in DOMAIN path : path[u] = path[t] => u = t
ExitTells ==
  main = "exited" /\ status # <<>> /\ (\A t \in Tasks : Alone(t)) =>
    /\ exit = 0 <=> \A t \in Tasks : Whole(t)
    /\ exit = 1 <=> \A t \in Tasks : ~Whole(t)

(* A download that is reported done has its file, though others of the     *)
(* batch fail and clean up: unless they were given the same name.          *)
OwnFile ==
  \A t \in DOMAIN status : status[t] = "Done" /\ Alone(t) => Whole(t)

(* README.md:143, "with explicit -o, if the target already exists a        *)
(* timestamp is appended instead of overwriting": neither a download nor   *)
(* a video touches what was there under the name it was given.             *)
Untouched(p) == Exists(p) /\ 0 \in files[p].by => p \in DOMAIN files' /\ files'[p] = files[p]
GivenFileKept ==
  [][opts.bOutputSet /\ ~opts.bContinue =>
       \A p \in VideoFiles(opts.out) \cup {opts.out} : Untouched(p)]_vars
=============================================================================
