------------------------------ MODULE Program ------------------------------
(***************************************************************************)
(* The whole program (main(), src/src/main.cpp): the command line decides  *)
(* how many workers there are, main_runner works on one frame after the    *)
(* other until the user types something, and all the while every thread    *)
(* is profiled by Optick, which a client starts and stops over the network *)
(* (OptickServer; any sequence of its commands is possible here).          *)
(*                                                                         *)
(* A frame of the job system is a number of jobs in the workers' deques;   *)
(* workers pop, put back and steal them while main_runner asks one worker  *)
(* after the other, its deque first, whether it is done.  What a job is    *)
(* and when it can be executed, and how workers sleep, is in JobSystem.  A *)
(* deque answers at one moment, as in LockingSystem.                       *)
(***************************************************************************)
EXTENDS OptickCore, Settings

CONSTANTS
  CommandLines,  \* what the user may start the program with
  Workers,       \* the names of the worker threads, in order
  Jobs,          \* the number of jobs of a frame, by the number of workers
  MaxFrames,     \* bound: main_runner begins no more frames
  QuitFrames,    \* bound: the frames in which the user may quit
  MaxCaptures    \* bound: the commands applied while so many captures ran

ASSUME CommandLinesAssumption ==
  \A argv \in CommandLines : argv \in CommandLine /\ Readable(argv)
ASSUME WorkersAssumption ==
  /\ IsInjective(Workers)
  /\ Workers \in Seq(Threads \ {"main", "update"})
  /\ Threads = {"main", "update"} \cup ToSet(Workers)
  /\ Entries = {"MainThread", "Update", "Frame"} \cup ToSet(Workers)
  /\ Len(Workers) >= MaxThreads
ASSUME OwnersAssumption ==
  /\ Owner["MainThread"] = "main" /\ Owner["Update"] = "update" /\ Owner["Frame"] = "update"
  /\ \A w \in ToSet(Workers) : Owner[w] = w
ASSUME JobsAssumption == Jobs \in [1 .. MaxThreads -> Nat]

VARIABLES
  args,         \* argv
  numThreads,
  mainPc,       \* where main() is
  runnerPc,     \* where main_runner is
  workerPc,     \* where each worker thread is
  slot,         \* the storage that Event::Start of a thread read
  queue,        \* the number of jobs in each worker's deque
  current,      \* mCurrentWorkerId
  jobRunning,   \* mJobRunning of each worker
  polled,       \* the workers that AllJobsFinished has found done
  orphans,      \* history: the workers whose job was deleted under them
  dangling,     \* history: whether jobs were deleted that were in a deque
  isRunning,
  told          \* the workers whose mRunning is FALSE

jobVars == <<queue, current, polled, orphans, dangling>>
vars == <<args, numThreads, mainPc, runnerPc, workerPc, slot, queue, current,
          jobRunning, polled, orphans, dangling, isRunning, told, threads, alive, storage,
          tls, on, state, pending, settings, frames, frameNumber, captures, asked,
          cancelled, step, locked, report>>

\* The worker threads of this process.
NumWorkers == IF IsParallel(args) THEN numThreads ELSE 0
Team == {Workers[i] : i \in 1 .. NumWorkers}

WorkerPcs ==
  {"none", "register", "idle", "reorder", "record", "job", "finish", "ended",
   "undefined"}
MainPcs == {"register", "create", "scan", "shutdown", "undefined", "join",
            "joinrunner", "optick", "leave", "static", "over"}
RunnerPcs == {"none", "register", "loop", "scope", "end", "update", "begin", "event",
              "work", "running", "stop", "ended"}

TypeOK ==
  /\ CoreTypeOK
  /\ args \in CommandLines
  /\ mainPc \in MainPcs
  /\ runnerPc \in RunnerPcs
  /\ workerPc \in [ToSet(Workers) -> WorkerPcs]
  /\ slot \in [ToSet(Workers) -> Entries \cup {None}]
  /\ queue \in [ToSet(Workers) -> Nat]
  /\ current \in 0 .. numThreads - 1
  /\ jobRunning \in [ToSet(Workers) -> BOOLEAN]
  /\ polled \in 0 .. NumWorkers
  /\ orphans \subseteq Team
  /\ dangling \in BOOLEAN
  /\ isRunning \in BOOLEAN
  /\ told \subseteq Team

Init ==
  /\ CoreInit
  /\ args \in CommandLines
  /\ numThreads = GetNumThreads(args)
  /\ mainPc = "register"
  /\ runnerPc = "none"
  /\ workerPc = [w \in ToSet(Workers) |-> "none"]
  /\ slot = [w \in ToSet(Workers) |-> None]
  /\ queue = [w \in ToSet(Workers) |-> 0]
  /\ current = 0
  /\ jobRunning = [w \in ToSet(Workers) |-> FALSE]
  /\ polled = 0
  /\ orphans = {}
  /\ dangling = FALSE
  /\ isRunning = TRUE
  /\ told = {}

\* No thread has a step after the behaviour of the process has become undefined.
Defined ==
  mainPc # "undefined" /\ \A w \in Team : workerPc[w] # "undefined"

-----------------------------------------------------------------------------
(* main().                                                                 *)

MainGoes(from, to) == mainPc = from /\ mainPc' = to

MainFrame ==
  Defined /\ UNCHANGED <<args, numThreads, slot, current, polled, orphans, dangling>>

\* OPTICK_THREAD("MainThread").
MainRegister ==
  /\ MainGoes("register", "create")
  /\ RegisterThread("MainThread")
  /\ MainFrame
  /\ UNCHANGED <<runnerPc, workerPc, queue, jobRunning, isRunning, told>>
  /\ UNCHANGED <<stateVars, frameVars, dumpVars>>

\* new JobSystem(numThreads) in a parallel run, and main_runner.
CreateThreads ==
  /\ MainGoes("create", "scan")
  /\ workerPc' = [w \in ToSet(Workers) |-> IF w \in Team THEN "register" ELSE "none"]
  /\ runnerPc' = "register"
  /\ MainFrame
  /\ UNCHANGED <<queue, jobRunning, isRunning, told>>
  /\ UNCHANGED coreVars

\* The user types something.
Quit ==
  /\ MainGoes("scan", "shutdown")
  /\ frameNumber \in QuitFrames
  /\ isRunning' = FALSE
  /\ MainFrame
  /\ UNCHANGED <<runnerPc, workerPc, queue, jobRunning, told>>
  /\ UNCHANGED coreVars

\* jobSystem->ShutDown(), on the null pointer in a serial run; the next worker's
\* Shutdown up to the join, whatever the worker does.
ShutDown ==
  /\ IF IsParallel(args)
     THEN /\ MainGoes("shutdown", "join")
          /\ \E i \in 1 .. NumWorkers :
               /\ Workers[i] \notin told /\ \A k \in 1 .. i - 1 : Workers[k] \in told
               /\ told' = told \cup {Workers[i]}
               /\ jobRunning' = [jobRunning EXCEPT ![Workers[i]] = FALSE]
               /\ queue' = [queue EXCEPT ![Workers[i]] = 0]
     ELSE MainGoes("shutdown", "undefined") /\ UNCHANGED <<told, jobRunning, queue>>
  /\ MainFrame
  /\ UNCHANGED <<runnerPc, workerPc, isRunning>>
  /\ UNCHANGED coreVars

\* Variant: the thread is detached.
Detach ==
  /\ MainGoes("join", IF told = Team THEN "joinrunner" ELSE "shutdown")
  /\ MainFrame
  /\ UNCHANGED <<runnerPc, workerPc, queue, jobRunning, isRunning, told>>
  /\ UNCHANGED coreVars

\* mThread.join(), then the next worker.
Join ==
  /\ MainGoes("join", IF told = Team THEN "joinrunner" ELSE "shutdown")
  /\ \A w \in told : workerPc[w] = "ended"
  /\ MainFrame
  /\ UNCHANGED <<runnerPc, workerPc, queue, jobRunning, isRunning, told>>
  /\ UNCHANGED coreVars

JoinRunner ==
  /\ MainGoes("joinrunner", "optick")
  /\ runnerPc = "ended"
  /\ MainFrame
  /\ UNCHANGED <<runnerPc, workerPc, queue, jobRunning, isRunning, told>>
  /\ UNCHANGED coreVars

\* OPTICK_SHUTDOWN().
ShutdownOptick ==
  /\ MainGoes("optick", "leave")
  /\ Shutdown
  /\ MainFrame
  /\ UNCHANGED <<runnerPc, workerPc, queue, jobRunning, isRunning, told>>
  /\ UNCHANGED <<stateVars, frameVars, dumpVars>>

\* The ThreadScope of main(), then that of OPTICK_FRAME, a static variable.
LeaveScope(from, to) ==
  /\ MainGoes(from, to)
  /\ UnRegisterThread("main")
  /\ MainFrame
  /\ UNCHANGED <<runnerPc, workerPc, queue, jobRunning, isRunning, told>>
  /\ UNCHANGED <<stateVars, frameVars, dumpVars>>

MainNext ==
  \/ MainRegister \/ CreateThreads \/ ShutDown \/ Join \/ JoinRunner
  \/ ShutdownOptick \/ LeaveScope("leave", "static") \/ LeaveScope("static", "over")

-----------------------------------------------------------------------------
(* main_runner.                                                            *)

RunnerGoes(from, to) == runnerPc = from /\ runnerPc' = to

RunnerFrame ==
  /\ Defined
  /\ UNCHANGED <<args, numThreads, mainPc, workerPc, slot, jobRunning, isRunning, told>>

\* OPTICK_THREAD("Update") and the static ThreadScope of OPTICK_FRAME("Frame").
RunnerRegister(from, to, e) ==
  /\ RunnerGoes(from, to)
  /\ RegisterThread(e)
  /\ RunnerFrame
  /\ UNCHANGED jobVars
  /\ UNCHANGED <<stateVars, frameVars, dumpVars>>

Loop ==
  /\ RunnerGoes("loop", IF frameNumber = 0 THEN "scope" ELSE "end")
  /\ isRunning
  /\ frameNumber < MaxFrames
  /\ RunnerFrame
  /\ UNCHANGED jobVars
  /\ UNCHANGED coreVars

\* EndFrame and the call of Optick::Update.
EndFrame ==
  /\ RunnerGoes("end", "update")
  /\ EndUpdateFrame
  /\ step' = "limit"
  /\ RunnerFrame
  /\ UNCHANGED jobVars
  /\ UNCHANGED <<on, state, pending, settings, captures, asked, cancelled>>
  /\ UNCHANGED <<threadVars, dumpVars>>

UpdateStep ==
  /\ runnerPc = "update" /\ step # "idle"
  /\ Update
  /\ captures' <= MaxCaptures
  /\ RunnerFrame
  /\ UNCHANGED <<runnerPc, jobVars>>

UpdateReturns ==
  /\ RunnerGoes("update", "begin")
  /\ UpdateDone
  /\ RunnerFrame
  /\ UNCHANGED jobVars

BeginFrame ==
  /\ RunnerGoes("begin", "event")
  /\ BeginUpdateFrame
  /\ RunnerFrame
  /\ UNCHANGED jobVars
  /\ UNCHANGED <<threadVars, stateVars, dumpVars>>

JobsPerFrame == Jobs[numThreads]

\* The jobs that AddJob gives to w, one worker after the other in turn.
Dealt(w) ==
  Cardinality({k \in 0 .. JobsPerFrame - 1 : Workers[((current + k) % numThreads) + 1] = w})

\* The event of the frame; UpdateParallel adds the jobs to the workers' deques,
\* UpdateSerial does them here.
StartFrame ==
  /\ RunnerGoes("event", "work")
  /\ IF tls["update"] = None
     THEN UNCHANGED <<threads, alive, storage, tls>>
     ELSE AddEvent("update", tls["update"])
  /\ IF IsParallel(args)
     THEN /\ queue' = [w \in ToSet(Workers) |-> queue[w] + Dealt(w)]
          /\ current' = (current + JobsPerFrame) % numThreads
     ELSE UNCHANGED <<queue, current>>
  /\ RunnerFrame
  /\ UNCHANGED <<polled, orphans, dangling>>
  /\ UNCHANGED <<stateVars, frameVars, dumpVars>>

\* JobSystem::AllJobsFinished, from the first worker on each time: the size of
\* the deque of the next worker.
PollSize ==
  /\ runnerPc = "work" /\ polled < NumWorkers
  /\ IF queue[Workers[polled + 1]] > 0
     THEN polled' = 0 /\ UNCHANGED runnerPc
     ELSE runnerPc' = "running" /\ UNCHANGED polled
  /\ RunnerFrame
  /\ UNCHANGED <<queue, current, orphans, dangling>>
  /\ UNCHANGED coreVars

\* Variant: only the sizes count.
PollSizesOnly ==
  /\ RunnerGoes("running", "work")
  /\ polled' = polled + 1
  /\ RunnerFrame
  /\ UNCHANGED <<queue, current, orphans, dangling>>
  /\ UNCHANGED coreVars

\* Then its mJobRunning.
PollRunning ==
  /\ RunnerGoes("running", "work")
  /\ polled' = IF jobRunning[Workers[polled + 1]] THEN 0 ELSE polled + 1
  /\ RunnerFrame
  /\ UNCHANGED <<queue, current, orphans, dangling>>
  /\ UNCHANGED coreVars

\* A worker that holds a job.
Busy(w) == workerPc[w] \in {"reorder", "record", "job", "finish"}

\* AllJobsFinished has answered yes: the jobs are deleted, those that a worker
\* holds and those in a deque too.
FinishFrame ==
  /\ RunnerGoes("work", "stop")
  /\ polled = NumWorkers
  /\ polled' = 0
  /\ orphans' = orphans \cup {w \in Team : Busy(w)}
  /\ dangling' = (dangling \/ \E w \in Team : queue[w] > 0)
  /\ RunnerFrame
  /\ UNCHANGED <<queue, current>>
  /\ UNCHANGED coreVars

\* The destructor of the frame's event.
StopFrame ==
  /\ RunnerGoes("stop", "loop")
  /\ IF tls["update"] = None
     THEN UNCHANGED <<threads, alive, storage, tls>>
     ELSE FinishEvent("update", tls["update"])
  /\ RunnerFrame
  /\ UNCHANGED jobVars
  /\ UNCHANGED <<stateVars, frameVars, dumpVars>>

\* The loop ends, and the thread.
RunnerUnregister ==
  /\ RunnerGoes("loop", "ended")
  /\ ~isRunning
  /\ UnRegisterThread("update")
  /\ RunnerFrame
  /\ UNCHANGED jobVars
  /\ UNCHANGED <<stateVars, frameVars, dumpVars>>

RunnerNext ==
  \/ RunnerRegister("register", "loop", "Update")
  \/ RunnerRegister("scope", "end", "Frame")
  \/ Loop \/ EndFrame \/ UpdateStep \/ UpdateReturns \/ BeginFrame
  \/ StartFrame \/ PollSize \/ PollRunning \/ FinishFrame \/ StopFrame \/ RunnerUnregister

-----------------------------------------------------------------------------
(* The workers.                                                            *)

WorkerGoes(w, from, to) ==
  /\ Defined /\ workerPc[w] = from
  /\ workerPc' = [workerPc EXCEPT ![w] = to]
  /\ UNCHANGED <<args, numThreads, mainPc, runnerPc, isRunning, told, current,
                 polled, orphans, dangling>>

\* OPTICK_THREAD(workerName).
WorkerRegister(w) ==
  /\ WorkerGoes(w, "register", "idle")
  /\ RegisterThread(w)
  /\ UNCHANGED <<slot, queue, jobRunning>>
  /\ UNCHANGED <<stateVars, frameVars, dumpVars>>

\* mJobRunning is set before the deque is asked; Shutdown may clear it in
\* between.
Announce(w) ==
  \E b \in (IF w \in told THEN BOOLEAN ELSE {TRUE}) :
    jobRunning' = [jobRunning EXCEPT ![w] = b]

\* The jobs of a frame exist as long as main_runner waits for them.
JobsExist == runnerPc \in {"work", "running"}

\* GetJob: w gets a job from its own deque or steals it from v; the OPTICK_EVENT
\* of the job reads Core::storage.
TakeJob(w, v) ==
  /\ WorkerGoes(w, "idle", "record")
  /\ JobsExist /\ queue[v] > 0
  /\ queue' = [queue EXCEPT ![v] = @ - 1]
  /\ Announce(w)
  /\ slot' = [slot EXCEPT ![w] = tls[w]]
  /\ UNCHANGED coreVars

\* GetJobFromOwnQueue pops a job that cannot be executed yet; others may be
\* behind it.
Reorder(w) ==
  /\ WorkerGoes(w, "idle", "reorder")
  /\ JobsExist /\ queue[w] > 1
  /\ queue' = [queue EXCEPT ![w] = @ - 1]
  /\ Announce(w)
  /\ UNCHANGED slot
  /\ UNCHANGED coreVars

\* It goes back to the end, unless it is deleted: then CanExecute reads a job
\* that is none.
PutBack(w) ==
  /\ IF w \in orphans
     THEN WorkerGoes(w, "reorder", "undefined") /\ UNCHANGED <<queue, jobRunning>>
     ELSE /\ WorkerGoes(w, "reorder", "idle")
          /\ queue' = [queue EXCEPT ![w] = @ + 1]
          /\ jobRunning' = [jobRunning EXCEPT ![w] = FALSE]
  /\ UNCHANGED slot
  /\ UNCHANGED coreVars

\* A worker asks a job in a deque that has been deleted.
TouchDeleted(w) ==
  /\ WorkerGoes(w, "idle", "undefined")
  /\ dangling /\ \E v \in Team : queue[v] > 0
  /\ UNCHANGED <<slot, queue, jobRunning>>
  /\ UNCHANGED coreVars

Record(w) ==
  /\ WorkerGoes(w, "record", "job")
  /\ IF slot[w] = None
     THEN UNCHANGED <<threads, alive, storage, tls>>
     ELSE AddEvent(w, slot[w])
  /\ UNCHANGED <<slot, queue, jobRunning>>
  /\ UNCHANGED <<stateVars, frameVars, dumpVars>>

\* The function of the job returns; Job::Finish writes to the job.
Return(w, from) ==
  IF w \in orphans
  THEN WorkerGoes(w, from, "undefined") /\ UNCHANGED jobRunning
  ELSE WorkerGoes(w, from, "idle") /\ jobRunning' = [jobRunning EXCEPT ![w] = FALSE]

\* Event::Stop reads Core::storage again.
StopJob(w) ==
  /\ IF slot[w] # None /\ tls[w] # None
     THEN WorkerGoes(w, "job", "finish") /\ UNCHANGED <<slot, jobRunning>>
     ELSE Return(w, "job") /\ slot' = [slot EXCEPT ![w] = None]
  /\ UNCHANGED queue
  /\ UNCHANGED coreVars

Finish(w) ==
  /\ Return(w, "finish")
  /\ FinishEvent(w, slot[w])
  /\ slot' = [slot EXCEPT ![w] = None]
  /\ UNCHANGED queue
  /\ UNCHANGED <<stateVars, frameVars, dumpVars>>

\* JobWorker::Run ends, and the thread.
WorkerUnregister(w) ==
  /\ WorkerGoes(w, "idle", "ended")
  /\ w \in told
  /\ UnRegisterThread(w)
  /\ UNCHANGED <<slot, queue, jobRunning>>
  /\ UNCHANGED <<stateVars, frameVars, dumpVars>>

WorkerNext(w) ==
  \/ WorkerRegister(w) \/ Reorder(w) \/ PutBack(w) \/ TouchDeleted(w)
  \/ (\E v \in Team : TakeJob(w, v))
  \/ Record(w) \/ StopJob(w) \/ Finish(w) \/ WorkerUnregister(w)

Next == MainNext \/ Quit \/ RunnerNext \/ \E w \in Team : WorkerNext(w)

Spec == Init /\ [][Next]_vars

\* One poll finds only so many messages.
RunnerProceeds == RunnerNext /\ (step = "events" => step' # "events")

\* Threads that can run do, and a worker tests mRunning after every attempt to
\* get a job.  Nothing makes the user type.
FairSpec ==
  /\ Spec
  /\ WF_vars(MainNext) /\ WF_vars(RunnerProceeds)
  /\ \A w \in ToSet(Workers) : WF_vars(w \in Team /\ WorkerNext(w))
  /\ \A w \in ToSet(Workers) : SF_vars(w \in Team /\ WorkerUnregister(w))

-----------------------------------------------------------------------------
(* Properties.                                                             *)

\* Where each thread records its events.
Running(t) ==
  CASE t = "main" -> mainPc \in {"create", "scan", "shutdown", "join", "joinrunner"}
    [] t = "update" -> runnerPc \notin {"none", "register", "ended"}
    [] OTHER -> workerPc[t] \notin {"none", "register", "ended"}

\* GetNumThreads (main.cpp:222-255) creates at least one worker and leaves one
\* hardware thread to main_runner if there are two.
NumThreadsInRange == numThreads \in 1 .. MaxThreads

\* Between two calls of Activate every registered thread records exactly while
\* the state is START_CAPTURE and the Start that led there asked for a mode, in
\* the storage it registered last, whenever it registered (optick_core.cpp:
\* 1342-1357 races with 1470-1471, and 1231-1233 inserts the stop that a dump
\* needs; the mode of a later Start changes nothing).
ThreadsFollowState ==
  step # "activate" =>
    /\ on <=> state = "start" /\ asked
    /\ \A t \in Threads : Running(t) => tls[t] = IF on THEN LastEntry(t) ELSE None

\* With one worker, and until the user quits, the yes of AllJobsFinished means
\* that no job is left in its deque and that it holds none, although the two are
\* asked at different moments and jobs are put back meanwhile (job_system.cpp:
\* 24-36, job_worker.cpp:67, 111, 165).  With two it does not.
WaitSuffices ==
  isRunning /\ NumWorkers <= 1 => orphans = {} /\ ~dangling

\* No thread uses an event or a storage that a dump, an activation or Shutdown
\* has freed (optick_core.cpp:246-265, core.h:260-279): nothing but the wait for
\* the jobs and the joins keeps them apart.  A worker whose job was deleted may
\* stop an event that is gone.  And no entry is alive through which Activate
\* would write Core::storage of a worker that has ended (1484-1495).
NoStaleEvent ==
  \A w \in Team :
    /\ workerPc[w] = "ended" => Registered(w) = {}
    /\ workerPc[w] = "record" /\ slot[w] # None => slot[w] \in ToSet(threads)
    /\ workerPc[w] = "finish" => Open(w, slot[w]) # 0 \/ w \in orphans

\* The events sent under a thread's index are that thread's, though threads
\* register and end during a dump (optick_core.cpp:1009-1094, 1476-1500).
EventsMatchBoard ==
  \A i \in DOMAIN report.events : \A event \in report.events[i] :
    event.by = Owner[report.list[i]]

\* The frames of a report, and the events of the threads still alive, are those
\* of the last capture (optick_core.cpp:1025-1093, 1342-1357).  The frames of a
\* capture that was cancelled stay for the next report (1250-1252).
OneCapture ==
  step = "dump" =>
    /\ ~cancelled => \A i \in DOMAIN report.frames : report.frames[i].capture = captures
    /\ \A i \in DOMAIN report.events : report.list[i] \in alive =>
         \A event \in report.events[i] : event.capture = captures

ReportSound == EventsMatchBoard /\ OneCapture

\* No step drops an event of the last capture but the dump that sends it,
\* Shutdown, and the end of a thread between the end of the capture and its dump
\* (optick_core.cpp:885-925, 1476-1500): a thread that ends during a capture is
\* in the report.  Only the last event of a worker whose job was deleted while it
\* worked on it may be dropped.
Dropped(e) == {event \in ToSet(storage[e]) : event.capture = captures
                  /\ Len(storage'[e]) < Len(storage[e])}
NoEventDropped ==
  [][\A e \in Entries : \A event \in Dropped(e) :
       \/ step = "dump" /\ report'.list[Len(report'.events)] = e
            /\ (event \in Last(report'.events) \/ cancelled)
       \/ mainPc' = "leave" /\ mainPc = "optick"
       \/ ~on /\ e \notin alive'
       \/ event.by \in orphans /\ event = Last(storage[e])]_vars

\* After the user typed something the program ends, unless it is serial, a worker
\* has used a job that was deleted, or main_runner waits for jobs that were added
\* too late (FrameEnds in JobSystem): no lock of Optick is held for ever.
QuitEnds ==
  ~isRunning ~> \/ mainPc = "over" \/ ~Defined
                \/ JobsExist /\ \E w \in told : queue[w] > 0

=============================================================================
