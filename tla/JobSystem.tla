----------------------------- MODULE JobSystem -----------------------------
(***************************************************************************)
(* The control of the job system: the loop of every worker thread          *)
(* (JobWorker::Run and what it calls, src/src/job_worker.cpp) and the loop *)
(* of the main_runner thread (UpdateParallel, src/src/main.cpp, with       *)
(* JobSystem::AddJob and AllJobsFinished, src/src/job_system.cpp), in the  *)
(* default configuration of defines.h apart from the choice of the deque.  *)
(*                                                                         *)
(* The deques are not here.  An action that uses a deque takes what the    *)
(* deque answered as its argument; LockingSystem and LocklessSystem        *)
(* conjoin it with the deque operation that gives this answer.  The jobs   *)
(* are those of JobGraph.                                                  *)
(***************************************************************************)
EXTENDS Integers, Sequences

CONSTANTS
  Jobs, NoJob,
  NumWorkers,   \* JobSystem::mNumWorkers
  Frames,       \* what UpdateParallel may build: the order "new" of the
                \* constructors, the dependants "deps" of each job, and the
                \* order "add" of the calls of AddJob
  MaxDeletes,   \* bound: the frames whose jobs are deleted; the next one
                \* ends where they would be
  QuitFrames    \* those in which the user may type anything

Workers == 0 .. NumWorkers - 1

\* The same jobs are constructed and added, each once; a constructor can name
\* only jobs that exist.
WellFormed(f) ==
  /\ f.new \in Seq(Jobs)
  /\ f.add \in Seq(Jobs)
  /\ Len(f.new) > 0
  /\ Len(f.add) = Len(f.new)
  /\ \A i, k \in DOMAIN f.new : f.new[i] = f.new[k] => i = k
  /\ \A i, k \in DOMAIN f.add : f.add[i] = f.add[k] => i = k
  /\ {f.add[i] : i \in DOMAIN f.add} = {f.new[i] : i \in DOMAIN f.new}
  /\ f.deps \in [Jobs -> SUBSET Jobs]
  /\ \A i \in DOMAIN f.new : \A d \in f.deps[f.new[i]] :
       \E k \in 1 .. i - 1 : f.new[k] = d

ASSUME NoJobAssumption == NoJob \notin Jobs
ASSUME NumWorkersAssumption == NumWorkers \in Nat \ {0}
ASSUME MaxDeletesAssumption == MaxDeletes \in Nat
ASSUME FramesAssumption == \A f \in Frames : WellFormed(f)
ASSUME QuitFramesAssumption == QuitFrames \subseteq Frames

VARIABLES
  dependants, unfinished, created, shared, done, phase, hand, pending,
                \* the jobs, as in JobGraph
  pc,           \* where each worker is in JobWorker::Run
  popped,       \* the job a worker took without asking CanExecute, or NoJob
  allowOpen,    \* allowOpenDependencies of GetJobFromOwnQueue
  target,       \* the loop counter of JobSystem::WakeThreads, per caller
  jobRunning,   \* JobWorker::mJobRunning
  running,      \* JobWorker::mRunning
  attached,     \* the workers whose JobSystem pointer is set
  mainPc,       \* where main_runner is
  frame,        \* the frame it builds
  index,        \* its loop counter
  current,      \* JobSystem::mCurrentWorkerId
  deletes,      \* history: the frames deleted so far
  isRunning,    \* isRunning of main()
  quitPc,       \* where main() is, from scanf_s on
  quitIndex     \* the worker that it shuts down

graphVars == <<dependants, unfinished, created, shared, done, phase, hand, pending>>
workerVars == <<pc, popped, allowOpen, target, jobRunning>>
mainVars == <<mainPc, frame, index, current, deletes, attached>>
quitVars == <<running, isRunning, quitPc, quitIndex>>

Graph == INSTANCE JobGraph WITH Threads <- Workers

WorkerPcs ==
  {"loop", "check", "wake", "notify", "wait", "testing", "blocking",
   "asleep", "announce", "size",
   "popfront", "recheck", "pushback", "resize", "repop", "steal",
   "execute", "retire", "yield", "stopped"}

MainPcs ==
  {"attach", "loop", "create", "add", "notify", "poll", "pollrunning", "delete", "ended"}

QuitPcs == {"waiting", "halt", "silence", "clear", "notify", "join", "joinmain", "over"}

ControlTypeOK ==
  /\ Graph!TypeOK
  /\ pc \in [Workers -> WorkerPcs]
  /\ popped \in [Workers -> Jobs \cup {NoJob}]
  /\ allowOpen \in [Workers -> BOOLEAN]
  /\ target \in [Workers -> Workers]
  /\ jobRunning \in [Workers -> BOOLEAN]
  /\ running \in [Workers -> BOOLEAN]
  /\ attached \subseteq Workers
  /\ mainPc \in MainPcs
  /\ frame \in Frames
  /\ index \in Nat
  /\ current \in Workers
  /\ deletes \in 0 .. MaxDeletes
  /\ isRunning \in BOOLEAN
  /\ quitPc \in QuitPcs
  /\ quitIndex \in Workers

ControlInit ==
  /\ Graph!Init
  /\ pc = [w \in Workers |-> "loop"]
  /\ popped = [w \in Workers |-> NoJob]
  /\ allowOpen = [w \in Workers |-> FALSE]
  /\ target = [w \in Workers |-> 0]
  /\ jobRunning = [w \in Workers |-> FALSE]
  /\ running = [w \in Workers |-> TRUE]
  /\ attached = {}
  /\ mainPc = "attach"
  /\ frame \in Frames
  /\ index = 0
  /\ current = 0
  /\ deletes = 0
  /\ isRunning = TRUE
  /\ quitPc = "waiting"
  /\ quitIndex = 0

-----------------------------------------------------------------------------
(* A worker that looks for work to do: JobWorker::Run.                     *)

Goto(w, next) == pc' = [pc EXCEPT ![w] = next]

\* while (mRunning)
Loop(w) ==
  /\ pc[w] = "loop"
  /\ Goto(w, IF running[w] THEN "check" ELSE "stopped")
  /\ UNCHANGED <<popped, allowOpen, target, jobRunning, quitVars, mainVars>>

\* Variant: a worker without work sleeps and wakes nobody.
CheckAndSleep(w, executable) ==
  /\ pc[w] = "check"
  /\ Goto(w, IF executable THEN "announce" ELSE "wait")
  /\ UNCHANGED <<popped, allowOpen, target, jobRunning, quitVars, mainVars>>

\* HasExecutableJobs of its own deque; WakeThreads is called when there is none.
Check(w, executable) ==
  /\ pc[w] = "check"
  /\ Goto(w, IF executable THEN "announce"
             ELSE IF w \in attached THEN "wake" ELSE "wait")
  /\ UNCHANGED <<popped, allowOpen, target, jobRunning, quitVars, mainVars>>

\* The rest of WakeThreads after the worker it is at.  (Variant: the counter is
\* not set back.)
LastTarget(w) == target[w] = NumWorkers - 1
NextTargetBeyond(w) == target' = [target EXCEPT ![w] = @ + 1]
NextTarget(w) == target' = [target EXCEPT ![w] = (@ + 1) % NumWorkers]
AfterTarget(w) == IF LastTarget(w) THEN "wait" ELSE "wake"

\* JobWorker::WakeUp of the next worker: HasExecutableJobs of its deque.
WakeUp(w, executable) ==
  /\ pc[w] = "wake"
  /\ IF executable
     THEN Goto(w, "notify") /\ UNCHANGED target
     ELSE Goto(w, AfterTarget(w)) /\ NextTarget(w)
  /\ UNCHANGED <<popped, allowOpen, jobRunning, quitVars, mainVars>>

\* mAwakeMutex of i is held while i tests the condition and until it sleeps.
AwakeMutexFree(i) == pc[i] \notin {"testing", "blocking"}

\* notify_one: i has to lock mAwakeMutex and to test the condition again.
Awakened(i, pcs) == [pcs EXCEPT ![i] = IF @ = "asleep" THEN "wait" ELSE @]

\* The notification of JobWorker::WakeUp.
WakeNotify(w) ==
  /\ pc[w] = "notify"
  /\ AwakeMutexFree(target[w])
  /\ pc' = Awakened(target[w], [pc EXCEPT ![w] = AfterTarget(w)])
  /\ NextTarget(w)
  /\ UNCHANGED <<popped, allowOpen, jobRunning, quitVars, mainVars>>

\* JobWorker::WaitForJob locks mAwakeMutex.
LockAwake(w) ==
  /\ pc[w] = "wait"
  /\ Goto(w, "testing")
  /\ UNCHANGED <<popped, allowOpen, target, jobRunning, quitVars, mainVars>>

\* The condition of the wait.
TestCondition(w, executable) ==
  /\ pc[w] = "testing"
  /\ Goto(w, IF executable \/ ~running[w] THEN "announce" ELSE "blocking")
  /\ UNCHANGED <<popped, allowOpen, target, jobRunning, quitVars, mainVars>>

\* The condition variable releases the mutex and the thread sleeps.
Sleep(w) ==
  /\ pc[w] = "blocking"
  /\ Goto(w, "asleep")
  /\ UNCHANGED <<popped, allowOpen, target, jobRunning, quitVars, mainVars>>

\* A condition variable may wake its thread for no reason.
SpuriousWakeup(w) ==
  /\ pc[w] = "asleep"
  /\ Goto(w, "wait")
  /\ UNCHANGED <<popped, allowOpen, target, jobRunning, quitVars, mainVars>>

\* Variant: mJobRunning is not set before GetJob.
AnnounceNothing(w) ==
  /\ pc[w] = "announce"
  /\ Goto(w, "size")
  /\ UNCHANGED <<popped, allowOpen, target, jobRunning, quitVars, mainVars>>

\* mJobRunning = true, before GetJob.
Announce(w) ==
  /\ pc[w] = "announce"
  /\ jobRunning' = [jobRunning EXCEPT ![w] = TRUE]
  /\ Goto(w, "size")
  /\ UNCHANGED <<popped, allowOpen, target, quitVars, mainVars>>

-----------------------------------------------------------------------------
(* JobWorker::GetJob.                                                      *)

ReadSize(w, size) ==
  /\ pc[w] = "size"
  /\ allowOpen' = [allowOpen EXCEPT ![w] = size > 1]
  /\ Goto(w, "popfront")
  /\ UNCHANGED <<popped, target, jobRunning, quitVars, mainVars>>

\* The first PopFront, that may answer a job with open dependencies.
PopOwn(w, job) ==
  /\ pc[w] = "popfront"
  /\ popped' = [popped EXCEPT ![w] = job]
  /\ Goto(w, IF job = NoJob THEN "steal" ELSE "recheck")
  /\ UNCHANGED <<allowOpen, target, jobRunning, quitVars, mainVars>>

\* CanExecute of the job in popped decides if it is executed or put back.
Recheck(w) ==
  /\ pc[w] = "recheck"
  /\ \/ /\ Graph!Claim(w, popped[w])
        /\ popped' = [popped EXCEPT ![w] = NoJob]
        /\ Goto(w, "execute")
     \/ /\ ~Graph!CanExecute(popped[w])
        /\ Goto(w, "pushback")
        /\ UNCHANGED <<popped, graphVars>>
  /\ UNCHANGED <<allowOpen, target, jobRunning, quitVars, mainVars>>

\* The job has been put back.
PutBack(w) ==
  /\ pc[w] = "pushback"
  /\ popped' = [popped EXCEPT ![w] = NoJob]
  /\ Goto(w, "resize")
  /\ UNCHANGED <<allowOpen, target, jobRunning, quitVars, mainVars>>

ReadSizeAgain(w, size) ==
  /\ pc[w] = "resize"
  /\ Goto(w, IF size > 1 THEN "repop" ELSE "steal")
  /\ UNCHANGED <<popped, allowOpen, target, jobRunning, quitVars, mainVars>>

\* The second PopFront answers executable jobs only.
PopOwnAgain(w, job) ==
  /\ pc[w] = "repop"
  /\ Goto(w, IF job = NoJob THEN "steal" ELSE "execute")
  /\ UNCHANGED <<popped, allowOpen, target, jobRunning, quitVars, mainVars>>

\* StealJobFromOtherQueue asks one other worker, if there is one.
MaySteal(w) == w \in attached /\ NumWorkers >= 2

NothingToSteal(w) ==
  /\ pc[w] = "steal"
  /\ ~MaySteal(w)
  /\ Goto(w, "yield")
  /\ UNCHANGED <<popped, allowOpen, target, jobRunning, quitVars, mainVars>>

Steal(w, job) ==
  /\ pc[w] = "steal"
  /\ MaySteal(w)
  /\ Goto(w, IF job = NoJob THEN "yield" ELSE "execute")
  /\ UNCHANGED <<popped, allowOpen, target, jobRunning, quitVars, mainVars>>

-----------------------------------------------------------------------------
(* The rest of JobWorker::Run.                                             *)

\* job->Execute().
Execute(w) ==
  /\ pc[w] = "execute"
  /\ \/ Graph!Start(w)
     \/ Graph!Finish(w)
     \/ \E d \in Jobs : Graph!Signal(w, d)
  /\ UNCHANGED <<workerVars, quitVars, mainVars>>

\* Execute returns; what the worker does to the job last, the test of
\* IsFinished for the log, is part of this step.
Executed(w) ==
  /\ pc[w] = "execute"
  /\ Graph!Return(w)
  /\ Goto(w, "retire")
  /\ UNCHANGED <<popped, allowOpen, target, jobRunning, quitVars, mainVars>>

\* mJobRunning = false, with or without a job.
Retire(w) ==
  /\ pc[w] \in {"retire", "yield"}
  /\ jobRunning' = [jobRunning EXCEPT ![w] = FALSE]
  /\ Goto(w, "loop")
  /\ UNCHANGED <<popped, allowOpen, target, quitVars, mainVars>>

-----------------------------------------------------------------------------
(* main_runner.                                                            *)

\* The loop index <= last of main_runner goes on at stay, then at next.
MainLoop(last, stay, next) ==
  /\ index' = IF index = last THEN 0 ELSE index + 1
  /\ mainPc' = IF index = last THEN next ELSE stay

\* The constructor of JobSystem, with all the workers already running.
Attach ==
  /\ mainPc = "attach"
  /\ attached' = attached \cup {index}
  /\ MainLoop(NumWorkers - 1, "attach", "loop")
  /\ UNCHANGED <<workerVars, quitVars, frame, current, deletes>>

\* while (isRunning), around the frames.
NextFrame ==
  /\ mainPc = "loop"
  /\ mainPc' = IF isRunning THEN "create" ELSE "ended"
  /\ UNCHANGED <<workerVars, quitVars, frame, index, current, deletes, attached>>

\* UpdateParallel constructs the jobs of a frame.
Create ==
  /\ mainPc = "create"
  /\ LET j == frame.new[index + 1] IN Graph!Construct(j, frame.deps[j])
  /\ MainLoop(Len(frame.new) - 1, "create", "add")
  /\ UNCHANGED <<workerVars, quitVars, frame, current, deletes, attached>>

\* JobSystem::AddJob has pushed the job into the deque of the current worker.
Pushed ==
  /\ mainPc = "add"
  /\ mainPc' = "notify"
  /\ IF shared THEN UNCHANGED graphVars ELSE Graph!Share
  /\ UNCHANGED <<workerVars, quitVars, frame, index, current, deletes, attached>>

\* Variant: AddJob does not notify.
NotifyNobody ==
  /\ mainPc = "notify"
  /\ current' = (current + 1) % NumWorkers
  /\ MainLoop(Len(frame.add) - 1, "add", "poll")
  /\ UNCHANGED <<workerVars, quitVars, frame, deletes, attached>>

\* It notifies that worker and goes on to the next one.
NotifyWorker ==
  /\ mainPc = "notify"
  /\ AwakeMutexFree(current)
  /\ pc' = Awakened(current, pc)
  /\ current' = (current + 1) % NumWorkers
  /\ MainLoop(Len(frame.add) - 1, "add", "poll")
  /\ UNCHANGED <<popped, allowOpen, target, jobRunning, quitVars, frame, deletes, attached>>

\* AllJobsFinished asks each worker in turn, the size of its deque first, and
\* starts again at the first one when the answer is no.
PollSize(size) ==
  /\ mainPc = "poll"
  /\ IF size > 0
     THEN index' = 0 /\ UNCHANGED mainPc
     ELSE mainPc' = "pollrunning" /\ UNCHANGED index
  /\ UNCHANGED <<workerVars, quitVars, frame, current, deletes, attached>>

\* Variant: only the sizes count.
PollSizesOnly ==
  /\ mainPc = "pollrunning"
  /\ MainLoop(NumWorkers - 1, "poll", "delete")
  /\ UNCHANGED <<workerVars, quitVars, frame, current, deletes, attached>>

PollRunning ==
  /\ mainPc = "pollrunning"
  /\ IF jobRunning[index]
     THEN index' = 0 /\ mainPc' = "poll"
     ELSE MainLoop(NumWorkers - 1, "poll", "delete")
  /\ UNCHANGED <<workerVars, quitVars, frame, current, deletes, attached>>

\* The jobs are deleted, whatever the workers do with them.
DeleteJobs ==
  /\ mainPc = "delete"
  /\ deletes < MaxDeletes
  /\ deletes' = deletes + 1
  /\ frame' \in Frames
  /\ mainPc' = "loop"
  /\ Graph!Reset
  /\ UNCHANGED <<phase, hand, pending, workerVars, quitVars, index, current, attached>>

-----------------------------------------------------------------------------
(* main() after the user has typed something: JobSystem::ShutDown and the  *)
(* JobWorker::Shutdown of each worker.                                     *)

\* The user quits, at the earliest when main_runner exists.
Quit ==
  /\ frame \in QuitFrames
  /\ quitPc = "waiting"
  /\ mainPc # "attach"
  /\ isRunning' = FALSE
  /\ quitPc' = "halt"
  /\ UNCHANGED <<workerVars, mainVars, running, quitIndex>>

\* Variant: the deque is cleared while mRunning is still TRUE.
HaltNot ==
  /\ quitPc = "halt"
  /\ quitPc' = "silence"
  /\ UNCHANGED <<workerVars, mainVars, running, isRunning, quitIndex>>

\* mRunning = false.
Halt ==
  /\ quitPc = "halt"
  /\ running' = [running EXCEPT ![quitIndex] = FALSE]
  /\ quitPc' = "silence"
  /\ UNCHANGED <<workerVars, mainVars, isRunning, quitIndex>>

\* mJobRunning = false, whatever the worker does.
Silence ==
  /\ quitPc = "silence"
  /\ jobRunning' = [jobRunning EXCEPT ![quitIndex] = FALSE]
  /\ quitPc' = "clear"
  /\ UNCHANGED <<pc, popped, allowOpen, target, mainVars, running, isRunning, quitIndex>>

\* The deque has been cleared.
Cleared ==
  /\ quitPc = "clear"
  /\ quitPc' = "notify"
  /\ UNCHANGED <<workerVars, mainVars, running, isRunning, quitIndex>>

\* Variant: the notification of Shutdown without mAwakeMutex.
NotifyStopUnlocked ==
  /\ quitPc = "notify"
  /\ pc' = Awakened(quitIndex, pc)
  /\ quitPc' = "join"
  /\ UNCHANGED <<popped, allowOpen, target, jobRunning, mainVars,
                 running, isRunning, quitIndex>>

\* The worker is woken up to see it.
NotifyStop ==
  /\ quitPc = "notify"
  /\ AwakeMutexFree(quitIndex)
  /\ pc' = Awakened(quitIndex, pc)
  /\ quitPc' = "join"
  /\ UNCHANGED <<popped, allowOpen, target, jobRunning, mainVars,
                 running, isRunning, quitIndex>>

\* mThread.join(), then the next worker, then main_runner.join().
Join ==
  /\ \/ /\ quitPc = "join"
        /\ pc[quitIndex] = "stopped"
        /\ quitIndex' = (quitIndex + 1) % NumWorkers
        /\ quitPc' = IF quitIndex = NumWorkers - 1 THEN "joinmain" ELSE "halt"
     \/ /\ quitPc = "joinmain"
        /\ mainPc = "ended"
        /\ quitPc' = "over"
        /\ UNCHANGED quitIndex
  /\ UNCHANGED <<workerVars, mainVars, running, isRunning>>

=============================================================================
