# Verification of the AGD job system

This directory holds TLA+ models of the job system in `src/src/` and of the
profiler `src/optick/` that it is built with, the TLC configurations that check
them on small instances, and TLAPS proofs of what holds for every instance. The
sources are C++17 for Windows; the paths below are relative to the repository.

## 1. The system

A frame of a game is eight jobs with dependencies between them. `UpdateParallel`
(`src/src/main.cpp`), run again and again by the thread *main_runner*, builds the
jobs, hands them round robin to the workers of a `JobSystem`, polls until
`AllJobsFinished` and deletes them. Each `JobWorker` is a thread with a deque of
its own. It takes jobs from the front; a job with open dependencies goes to the
back ("reordering"); with nothing to do it steals from the back of another
deque; with no executable job in its deque it wakes the others and sleeps on a
condition variable. The thread of `main()` blocks in `scanf_s`; when the user
types something it stops and joins the workers and then main_runner.

| Component | State | Operations | Used by |
|---|---|---|---|
| `Job` (job.h, job.cpp) | `mUnfinishedJobs` (atomic), `mDependants` | constructor, `CanExecute`, `Execute`, `Finish`, `IsFinished` | main_runner constructs and deletes, workers test and execute |
| `LockingDeque` (locking_deque.h) | a vector under a mutex | `Size`, `HasExecutableJobs`, `Clear`, `PushFront`, `PushBack`, `PopFront`, `PopBack` | owner at the front, thieves at the back, main_runner adds at the front |
| `LocklessDeque` (lockless_deque.h), the default | `mFront`, `mBack` (atomic), `mEntries[16]` (not atomic, not initialised) | the same; add is `PushBack` | the same; `HTL_EXTRA_LOCKS` puts a mutex around all but `Size` and `Clear` |
| `JobWorker` (job_worker.h/.cpp) | `mRunning`, `mJobRunning`, `mAwakeMutex` and condition, deque, `JobSystem` pointer | `Run`, `GetJob`, `WaitForJob`, `WakeUp`, `AddJob`, `AllJobsFinished`, `Shutdown` | its own thread; `JobSystem` on behalf of main_runner, main and other workers |
| `JobSystem` (job_system.h/.cpp) | `mCurrentWorkerId`, the workers | `AddJob`, `AllJobsFinished`, `WakeThreads`, `GetRandomWorkerThreadId`, `ShutDown` | main_runner, main, the workers |
| main_runner, main (main.cpp) | `isRunning`, the jobs of the frame | `UpdateParallel`, the frame loop, quit | |
| `GetNumThreads`, `ArgumentParser`, `Random` | none | pure functions of the command line and of `rand()` | main, the thieves |
| Optick `Core` (optick_core.cpp/.h, optick.h) | the registered threads and their storages, `currentMode`, `currentState`, `pendingState`, the frames | `RegisterThread`, `UnRegisterThread`, `Update`, `Activate`, `DumpFrames`, `Shutdown`, `Event::Start`, `Event::Stop` | every thread records; main_runner calls `Update` once a frame (`OPTICK_FRAME`); main shuts it down |
| Optick server (optick_server.cpp, optick_message.cpp, optick_serialization.cpp) | the sockets, `networkStream` | `Server::Update`, `IMessage::Create`, `MessageFactory` | `Core::Update`; the client is another program |
| Optick event storage (optick_memory.h, `DumpEvents`) | the chunks of a `MemoryPool` | `Add`, `Clear`, `ForEach`, the scopes of a dump | one thread records, main_runner clears and dumps |
| Optick tracer (optick_core.win.h) | the kernel session, the consumer thread, `ETWRuntime` | `ETW::Start`, `ETW::Stop`, `OnRecordEvent` | `Core::Activate`, Windows, other programs |
| logger, job functions, the rest of Optick | | | see section 7 |

Optick is a profiler that another program, the client, switches on and off over
TCP. While a capture runs, each registered thread writes events into its own
storage through a thread-local pointer and without a lock. `Core::Update`, called
by main_runner between two frames, reads the client's messages and moves a small
state machine (START, STOP, DUMP, CANCEL) from `currentState` to `pendingState`:
it sets or clears the thread-local pointers of all threads, or sends the frames
and events and frees them.

What is hard in it:

* every access of a `LocklessDeque` may interleave with one of any other thread;
  the exchanges compare an index, the entries are plain memory;
* answers are used after they may have become stale: `Size`, `HasExecutableJobs`,
  `CanExecute` after a pop, `AllJobsFinished` over several workers;
* a job that is being reordered is in no deque;
* nobody is notified when `Finish` makes a job executable; wakeups depend on the
  order of tests, locks and notifications;
* dependencies and FIFO queues can wait for each other (main.cpp:24-42);
* the buffer has 16 entries and the boundaries go down only when it is emptied;
* the user may quit at any moment, and `Shutdown` writes what the worker and
  main_runner are using;
* Optick records without locks: only the wait for the jobs and the joins at the
  end keep a recording worker and a dump apart;
* threads register and end at any moment of a capture, and `currentMode` changes
  before the lock is taken under which the threads learn of it;
* messages arrive in pieces, from clients of other versions, over connections that
  break in the middle of one; the stream outlives the connection;
* the pool's memory is reused or not initialised, a capture ends while events are open;
* there is one kernel session on the machine, a start can fail at several places,
  and the events name the core, not the thread.

What makes it correct: the counter of a job means what job.h:20-23 says; a job
runs after its predecessors and exactly once; a job is never lost, in two deques
or forgotten by the wait; the wait ends, and when it does no worker has a job;
no worker sleeps on an executable job for ever or on a stop; the buffer is large
enough and only written entries are read. Of Optick: the commands applied are
those the client sent, in order; a thread records exactly while a capture runs; no
thread uses memory that a dump has freed; the report holds the events of the last
capture, each once, under the right thread and in scopes that nest; and no lock or
consumer keeps the program from ending.

## 2. Modules

```
JobGraph            the jobs of a frame, executed by any threads
  JobGraphProofs    its theorems
  MCJobGraph
JobSystem           control of workers, main_runner and main (INSTANCEs JobGraph)
  JobSystemProofs   what its steps do to the threads, the jobs and the frame
  LockingSystem     + LockingDeque, one step per operation
    LockingProofs     its types, JobGraph, that no job is lost or doubled; with one
                      worker the wait and the deletions
    MCLockingSystem
  LocklessSystem    + LocklessDeque, one step per access
    LocklessProofs    both builds: its types, JobGraph, the owner of mFront; with
                      HTL_EXTRA_LOCKS no job is lost, doubled or executed twice
    MCLocklessSystem
LocklessDeque       the operations of LocklessDeque, one step per access
  DequeUse          one such deque between all its users
    DequeUseProofs    HTL_EXTRA_LOCKS: it is a JobDeque
    MCDequeUse
JobDeque            abstract deque, implemented by DequeUse with extra locks
Settings            command line, number of threads, choice of the victim
OptickCore          Optick's Core: threads, storages, states, dumps
  Program           main, main_runner, the workers and Core together (+ Settings)
    ProgramProofs   their theorems
    MCProgram
OptickServer        the client's messages and how the server reads them
  OptickServerProofs  its theorems
  MCOptickServer
EventStorage        one thread's events in memory and in the scopes of a dump
  MCEventStorage
Tracer              the Windows tracer
  TracerProofs        its theorems
  MCTracer
```

**JobGraph** is class `Job`. `unfinished` is `mUnfinishedJobs`, `dependants` is
`mDependants`; `done` is a history variable. Threads go through `Claim` (they have
seen `CanExecute`), `Start` (the function), `Finish` (the `fetch_sub`), one
`Signal` per dependant in any order, and `Return`. The module does not say that a
job is given to one thread only: with the default deque it is not, and the
promises of the counters must survive that. `Delete` has the guard that the wait
in `UpdateParallel` is meant to establish, so JobGraph is the abstract
specification of the whole system as well.

**JobSystem** has one program counter for each worker (`pc`), one for main_runner
(`mainPc`) and one for main (`quitPc`). A step reads or writes one shared
variable; the exceptions are listed in section 5. It knows no deque: an action that
uses a deque has the answer as its argument, and the two systems below conjoin it
with the operation that answers. The frame is a record of the constant `Frames`:
the order of the constructors, the dependants and the order of `AddJob`.
`WellFormed` asks what C++ asks, that a constructor names existing jobs. A mutex
is modelled by the places in which it is held (`AwakeMutexFree`), a condition
variable by the place `"asleep"`, which `notify_one` or a spurious wakeup ends.

**LockingSystem** adds `deques`, a sequence for each worker. `LockingDeque` holds
its mutex through each operation, so an operation is one step together with the
local control step that follows it.

**LocklessDeque** has for each thread a record `call`: the step the operation is
at, and its local variables. Reading an entry that was never written, or touching one behind
the buffer, has no defined outcome; the model stops that thread there, and the
properties `ReadsWritten` and `WithinBounds` say when it happens.
**LocklessSystem** is the system with it, for both values of `ExtraLocks`.

**DequeUse** isolates one deque, with an owner, main_runner and thieves
that call their operations in any order, and **JobDeque** is what they should see:
a sequence of jobs. The refinement mapping is `Contents`: the slots
between the boundaries without the one that is reserved and not stored. A pop takes
place at its compare-and-exchange, a push when it stores; resets and scans
are invisible. The failing exchanges are not part of `DequeUse`;
`SwapsSucceed` is the invariant that justifies this under the mutex.

**Settings** translates `ArgumentParser`, `GetNumThreads` and `Random` into
operators. An argument is a record with what `std::stoi` makes of it; the
conversion of `int` to `uint32_t` is `% Unsigned`. `-t` as the last argument reads
`argv[argc]` and `-t` before a word throws: `Readable` excludes both, and
`Program` assumes it of its command lines.

**OptickCore** is `Core`: `threads`, `alive` (`ThreadEntry::isAlive`), `storage`
(the events of each entry), `tls` (the thread-local `Core::storage`), the states,
and `frames`. `step` is the place in `Core::Update`, which runs on main_runner; it
is cut at each lock region, so that `SetMode` (`currentMode`) and `ActivateThreads`
(the loop under `threadsLock`) are two steps and a dump is one step per thread that
it sends and one per entry that `CleanupThreadsAndFibers` removes, with `locked` in between.
`Registered` are the places of a thread's living entries in `threads`:
`UnRegisterThread` takes the first and `Activate` ends with the last. A timestamp is the number of the frame in which it is
taken, which is all that `CalculateRange` and the filter of `DumpEvents` tell
apart. A report has the set of the events of each entry; their
order and scopes are those of EventStorage. An event knows, as history, the thread and the capture it was recorded in.

**Program** puts the threads around it: main from `OPTICK_THREAD` to the
destructors of its scopes, main_runner with the phases of `OPTICK_FRAME`, and
workers that register, take a job, read the thread-local pointer, write the event,
stop it and end. The job system is reduced to what Core can notice. A deque (`queue`) is
a number of jobs; a worker takes one of its own or another's (`TakeJob`), or takes one out and
puts it back (`Reorder`, `PutBack`); main_runner asks the workers one after the other, each
for its size and then for `mJobRunning` (`PollSize`, `PollRunning`), and deletes. With two
workers the answer can be early. Then the history `orphans` has the workers whose job was
deleted under them and `dangling` says that a deleted job is in a deque; a
worker that uses a deleted job goes to `"undefined"`, after which no thread has a step.
So what is said of Optick (`NoStaleEvent`, `NoEventDropped`) is said of the program as it is, with
the workers in `orphans` as a named exception. The commands
are any sequence, and the settings of a Start any of `Starts`: nobody checks its mode, and
with OFF the state becomes START_CAPTURE while nobody records (`asked` is the mode with which it was
entered). That the commands are the client's is what OptickServer checks.

**OptickServer** is `Server` with its client. The stream is a sequence of 32-bit words. A
word is its message and its place in it (`Word`), which says what `IMessage::Create` finds there: a mark,
a length, a type or a field.
The client sends word by word; a connection may break after any of them, and
`Accept` takes the next one and forgets what is left unread on the old. A script may have a
message of an unknown type or a start message with one setting less, or one more behind the
password, as a client of another version sends it. The last setting this version reads is the length of
the password. Clients have none, but of a start message that is too short or cut it is a word of
another message (`Foreign`): a length announces as many words (`Password`), other fields
any number, and a negative one, a mark for instance, makes `resize` throw (`Throw`) where
nobody catches.

**EventStorage** is the `MemoryPool` of one thread, chunk by chunk, and the
function that `Core::DumpEvents` maps over it. The entries of a new chunk hold
arbitrary times, those of a reused one their old times. The history `log` is what
the program did, which pool and scopes are compared with.

**Tracer** is class `ETW` between `Core::Activate` and `Core::DumpFrames`. Windows
is external: threads run on cores, are switched, enter and leave system calls, and
another program may take the kernel session. `OnRecordEvent` sees the events later, in
order, and attributes calls to threads by core.

Names that start as an action of the code and say *Variant* in their comment
(`CheckAndSleep`, `EndDumpLocked`, ...) are plausible faults. Nothing uses them; they
are there to be put in the place of the definition below them, to see that a property
notices.

## 3. Runs

The state counts of the passing runs are those of a complete exploration.

| Run | Instance | Shows |
|---|---|---|
| `job_graph` | 4 jobs, every graph, 3 threads, symmetry (248k states) | `CountersExact`, `DependencyOrder`, `NeverStuck`, `FinishedForever` although jobs are executed repeatedly |
| `locking_one_worker` | the 8 jobs of `UpdateParallel`, 1 worker, 2 deleted frames and a third (21k states) | `HeldJobIsAnnounced`, the wait is sound (`AllJobsDone`), the system implements JobGraph |
| `locking_two_workers` | 2 workers; the 8 jobs, or 2 jobs and the user quits at any moment (127k) | `InOnePlace`, and under fairness `FrameEnds`, `ExecutableIsTaken` and `WorkersStop`: every worker told to stop stops |
| `deque_extra_locks` | one deque, 3 jobs, 5 entries, 2 thieves, symmetry (203k) | DequeUse implements JobDeque, `ReadsWritten`, `SwapsSucceed` |
| `lockless_extra_locks` | 5 jobs in two orders, 2 workers, `HTL_EXTRA_LOCKS` (144k) | the system as with LockingDeque: `InOnePlace`, `CounterMeaning`, `FrameEnds` |
| `lockless_default` | default build, 2 workers, two frames of 5 jobs and one of 3 in which the user quits (1307k) | what remains true: `DependencyOrder`; `FrontIsOwned` until the worker is told to stop, after which `Clear` makes the "should not happen" branch of `PopFront` reachable |
| `server` | 6 clients, 3 settings, 2 broken connections (130k) | `CommandsFaithful`, `HearsUntilDamaged`, and under fairness `AllApplied` |
| `program` | serial, 1 worker with 2 jobs or 2 workers with one, 4 frames, 2 captures of 2 frames or without a mode and their cancellation, quit (253k) | `ThreadsFollowState`, `WaitSuffices` for one worker, `NoStaleEvent` and `NoEventDropped` but for what a worker overlooked by the wait of several leaves open, `ReportSound`, `NumThreadsInRange`, and under fairness `QuitEnds` |
| `event_storage` | chunks of 2 events, 3 events in each of 2 captures, a clock of 5 (1283k) | `PoolKeepsEvents`, `SentOnce`, `ScopesNest` for every time slice |
| `tracer` | 2 cores, 2 registered threads and a stranger, 2 captures, 2 calls, symmetry (3669k) | `SyscallsMatched`, `NothingLeft` |
| `lockless_overflow` | the 8 jobs, 1 worker, default build | **violated**: `WithinBounds` |
| `locking_early_delete` | the 8 jobs, 2 workers | **violated**: `AllJobsDone` |

The two violations:

* *lockless_overflow*: one worker; every job put back uses a new entry, and the
  deque is never empty in between. The ninth job put back is stored in
  `mEntries[16]`.
* *locking_early_delete*: `AllJobsFinished` finds worker 0 idle; worker 0 then
  steals the last job of worker 1; worker 1 is asked and has nothing. main_runner
  deletes the jobs while worker 0 executes one. This needs no lock-free deque.

More faults were met that have no run of their own:

* In the default build `PopFront` moves only `mFront` and `PopBack` only `mBack`.
  With one job left both exchanges succeed and two workers execute it:
  `CounterMeaning` with `ExtraLocks = FALSE`. This is the counter below 0 of which
  job.cpp:36 knows. Dependencies are still respected, because only the thread that
  reaches 0 exactly signals.
* In the default build `Size` can answer 0 between its two reads although a job
  is there, so that `AllJobsDone` fails with one worker too.
* The early answer reaches the profiler. A worker whose job was deleted still has its
  event open; a dump that comes now frees it unsent (`DumpEvents` sends what has ended), and
  `Event::Stop` then writes into memory that was given back. `NoStaleEvent` and
  `NoEventDropped` name these workers (`orphans`). The worker's next access, in
  `Job::Finish`, is to the deleted job.
* With two workers a job that is put back between the two questions, for the size and for
  `mJobRunning`, is deleted in its deque, where the next worker that looks finds it: `dangling`.
  With one worker that takes a `Shutdown` that clears the flag.
* A Start with the mode OFF is accepted. The state is START_CAPTURE, nobody records, further
  Starts change nothing, and the Stop sends a report without events (`ThreadsFollowState`
  has `asked` for this).
* A start message that is too short makes the program end: the mark of the next message is read
  as a negative length of the password (optick_serialization.cpp:166).
* `Shutdown` clears the deque and `mJobRunning` while the worker executes. A job
  that main_runner adds after that is executed by nobody, main_runner polls
  `Size() > 0` for ever and main waits in `main_runner.join()`; that is why
  `FrameEnds` ends with "or the user has quit" and `QuitEnds` has its exception. Or
  main_runner deletes the job in use, the other exception of `QuitEnds` (`~Defined`).
* In serial mode `main()` calls `ShutDown` on a null pointer when the user quits
  (main.cpp:323; main.cpp:314 for input `d`): the place `"undefined"` of Program.
* `Server` stays deaf after a message cut short or one with too few words: a mark is
  taken for a length, or the stream's state is bad for ever. `HearsUntilDamaged`
  says that nothing less causes it.
* The frames of a cancelled capture are in the report of the next one, and a thread
  that ends between the end of a capture and its dump loses its events; `OneCapture`
  and `NoEventDropped` name these exceptions.
* A start of the tracer that fails after `StartTrace` leaves the kernel session of
  the machine running until somebody stops it; `NothingLeft` names the exception.
* `Socket::Send` disconnects when it succeeds, and `Disconnect` closes a socket only
  if it is invalid (optick_server.cpp:173, 235); together they do nothing.

### Bounds

* `MaxDeletes`: the frames that are deleted. After each deletion the jobs are new
  and the deques empty, but `mCurrentWorkerId`, the boundaries of the deques and the
  state of the workers remain; two deletions let a frame begin in whatever state the last
  one left. It is 0 where a deletion would be unsound already (two workers,
  the default build, quit), since a worker that uses a deleted job is
  undefined; main_runner then stops at `"delete"`, the reason for
  `CHECK_DEADLOCK FALSE` in the runs in which the other threads can end, too.
* `NumWorkers` is 1 or 2: with two, stealing, waking, and both ends of a deque are used at
  once; a third worker adds a second thief, which `deque_extra_locks` has.
* `QuitFrames`: the frames in which the user may quit. Quitting in every state of the
  large frames multiplies the states by the places of main; the small ones have workers
  in each of theirs.
* Jobs: `UpdateParallelFrames` is the graph of the source. `TwoJobFrames` is a
  job and the one that waits for it. The frames of `MCLocklessSystem` have three or five of
  the eight jobs, in orders chosen for what they make possible: in `ReorderFrame` worker 0
  puts two jobs back, fails and steals; in `ResetFrame` a job is added after a reset of the
  boundaries; in `JoinFrame` one of the two predecessors of a job can be executed twice.
* `Capacity` is the 16 of the source, 5 in `deque_extra_locks`, where a put back at
  index 4 is followed by a reset.
* `Scripts` and `MaxReconnects`: each script has the combinations of two or three
  messages that matter, a shorter, a longer or an unknown one before and after a good one;
  the second broken connection meets a stream that the first has damaged.
  `Settings` is 3, so that the length of the password of a cut or an older message can fall on
  a mark, a length and the ids of the next.
* Program: `MaxFrames` and `MaxCaptures` let a capture start, stop, be dumped or
  cancelled, and another one follow in all of these states; `Hardware` 3 allows two
  workers. `Jobs`: one worker has two jobs, of which it may put one back; two workers
  share one, so that one of them can only steal, and `mCurrentWorkerId` goes round. `QuitFrames`: the user may quit until
  the second frame begins; a capture can run, wait for its dump or be cancelled by then, and
  an early deletion be under way. `Starts` has a limit that is reached, and a mode that is OFF;
  `Stop` ends a capture before the limit.
* EventStorage: chunks of 2 and 3 events a capture fill one chunk, begin a second
  and meet both again; `Garbage` has a time before and one after the events.
* Tracer: two calls, two threads and a third party on two cores let a call begin on one core and
  end on the other while another call is open; `MaxBuffer` is how far the consumer is behind.

### Fairness

`FairSpec` of the job systems is strong fairness for main_runner, for main and
for each worker. A
thread of an operating system runs again and again, job functions return, and a
thread that waits for a mutex which is free infinitely often gets it; the last
is more than C++ promises and what the platform's mutexes do, and the reason for
SF in place of WF (`AwakeMutexFree` is enabled and disabled again by a worker that tests its
condition in a loop). Nothing is assumed of spurious wakeups or the user. In the
model a thread stopped by an undefined access has no step, so fairness says nothing of it.

`FairSpec` of Program is weak fairness for main, main_runner and the workers, and none
for `Quit`. For the end of a worker it is strong: `JobWorker::Run` tests `mRunning` after each
attempt to get a job (job_worker.cpp:92), so a worker that comes back to `"idle"` again
and again after it was told does not miss the test for ever. For main_runner it says also that the loop over the messages of one
poll ends (`RunnerProceeds`): a client does not send faster than the loop reads.
OptickServer has weak fairness for the server, which main_runner calls in each frame, and for
the client that goes on sending; connections need not break.

## 4. Proofs

Eight modules hold theorems or lemmas. `JobSystemProofs` has lemmas only, for both
systems: what a step of the control does to the types (`ControlMoveKeeps`), to the jobs
(`JobMove`, a step of JobGraph, and `JobsInv`, the invariant of `JobGraphProofs`) and
to what main_runner has constructed and added (`BuildInv`, `Added`).

`JobGraphProofs` proves the five properties of `JobGraph`, and that the error branch of
`JobWorker::Run` is dead (`ExecutedIsFinished`), for every finite set of jobs, every graph the constructor can build and any set of threads, from
`JobsAssumption` (the jobs are finitely many and none is the null pointer).

The properties are not inductive. `IInv` is

* `TypeOK`;
* `GraphInv`: the graph has only created jobs, and every set of jobs contains one
  without a predecessor in the set. This is how "by only providing dependencies in
  ctor [...] we prevent creating circular dependencies" (job.cpp:9-11) is put;
* `CounterInv`: `CountersExact`, for jobs that are not created yet too;
* `ThreadInv`: a thread that claimed a job has seen it without open predecessors,
  one that signals owes only dependants of a job that is done;
* `OwedOnce`: no two threads owe the same decrement. Without it a second execution
  could take a counter down twice; it holds since only one `fetch_sub` answers 0;
* `BuildingInv`: nothing is executed before the first `AddJob`.

`InitInv`, one lemma for each action and `StepInv` give `Invariance`; the
properties follow from `IInv`, `NeverStuck` from `GraphInv` by taking the jobs
left as the set. `FinishedForever` is an action property, proved for each step
from `IInv`.

`LockingProofs` proves the
invariants of `LockingSystem`, from the assumptions of `JobSystem`: there is a
worker, the null pointer is no job, and every frame is well formed. The layers are

* `GraphInv`, the types of the jobs, and that a job in a hand exists;
* `ControlInv`: the types of the rest, that `popped` is set in the two places
  between the pop and the decision and nowhere else, and that the loop counter of main_runner
  stays within the workers or the frame. With `GraphInv` it gives `TypeCorrect`;
* `HeldInv`: a job is in a hand only while its worker executes, and from
  `"size"` to `"yield"` `mJobRunning` is set. It gives
  `HeldJobIsAnnouncedThm`, with early deletions and without them. Once
  the user quits `Shutdown` clears the flag under the worker and it is false;
* `PlaceInv`: no deque has a job twice, no two places share one (`Separate`), what is
  done is nowhere (`DoneGone`), and what main_runner has pushed and is not done is
  somewhere (`AddedInv`). The lemmas on sequences say what `Tail`, `SubSeq`,
  `Append` and prefixing do to the set of entries; one lemma for each way a job takes
  (deque to `popped` and back, `popped` or deque to hand, hand to done) keeps `PlaceInv`.
  The cardinalities of `InOnePlace` appear only at the end. `InOnePlaceThm` and
  `TypeCorrect` assume `MaxDeletes = 0`, since with two workers a deletion may
  come too early (`locking_early_delete`);
* `OneInv`, with one worker: a job that is put back was not the only one, since
  `ReadSize` saw two and nobody but the worker takes any. So the deque that
  `AllJobsFinished` has found empty is still empty when it asks `mJobRunning`. This
  gives `AllJobsDoneThm`, for any number of frames and deletions, and with it
  `OneWorkerRefinesJobGraph`: the deletion, which tests nothing, meets the guard of
  `Delete` of JobGraph; the other steps are steps of JobGraph or stutter.

`PlaceInv` and `OneInv` have been checked with TLC, too, on the instances of
`locking_two_workers` (without a deletion) and `locking_one_worker`.

`DequeUseProofs` proves that with `ExtraLocks` DequeUse implements JobDeque
(`DequeIsAtomic`), for every `Capacity` and any number of thieves. Its `IInv` says that one
thread at a time is inside an operation (`Exclusive`), that each operation is called
by those who may (`OwnCall`), and that what the operation has read of the boundaries and the
entry is still so (`PushInv`, `ScanInv`, `FrontInv`, `BackInv`); `DequeInv` is about
the boundaries and the slots between them. `ReadsWritten` and `SwapsSucceed` follow.
For the refinement the lemmas say what each step does to `Contents`: the store
appends, a successful exchange takes the first or last, all others leave it.

`LocklessProofs` is about the system with these deques, in both builds, from
`MaxDeletes = 0` and finitely many jobs. The races of the default build are all there, so its
`IInv` says only what survives them: the types (`TypeInv`; that `mBack` does not go below 0 is
`BackPositive`), that a thread is inside the operation its control called
(`CallsInv`), that nobody but the owner moves `mFront` of a worker that
runs (`FrontKept`), which job a hand has inside a pop that tests `CanExecute`
(`HandInv`), and that the entries are jobs that main_runner has added (`KnownInv`). `OpMoves`
and `OpWrites` give what an operation does to its locals and to the memory, so that the
records need not be looked into again. The results are `TypeCorrect`, `JobGraphSpecThm`
(the steps of the workers are steps of JobGraph or stutter), `DependencyOrderThm` from it,
and `FrontIsOwnedThm`.

The second part of `LocklessProofs` adds the mutex, `ExtraLocks`. `LockedInv` is

* `LockInv`: one thread holds the mutex of a deque (`Exclusive`), what it has read is still so
  (`HeldInv`), and what is between the boundaries is inside the buffer (`BoundsInv`). The
  lemma `OthersStay` is why: an operation works on one deque and leaves
  the others and their users alone;
* `PlaceInv`: `Content` is the jobs of each deque, `Holding` the job of each worker, in
  the locals of its pop, in `popped` or in its hand. `Placed` says that they share no job and have all
  that are added and not done; it is a statement about four sets without the steps of the
  program, kept by `TakePlaced`, `GivePlaced`, `AddPlaced`, `DonePlaced` and `DropPlaced`, the five ways
  a job can go. `Distinct`: no deque has a job twice. `FreshInv`: a job that is done is in the hand of
  the worker that still signals;
* `OnceInv`: the counter of a job that is done is 0, since with `FreshInv` nobody can execute it again.

An overflow of the buffer needs no exception: the thread that stores
behind it has no further step. `LockedInv` holds until the user quits, and so do `InOnePlaceThm` and
`CounterMeaningThm`: `Clear` takes no mutex and may run inside any operation. In a
run without a quit that is all of it.

`ProgramProofs` shows that `GetNumThreads` answers between 1 and the maximum for every
readable command line and every machine, negative and huge numbers included
(`NumThreadsFit`, by `FitInRange`), and that a victim exists and is not the thief for
every value of `rand()` (`VictimIsAnother`). It carries the first
over to the program: the command line and the machine never change (`SettingsStay`), so
`NumThreadsInRange` holds in all its runs.

The same module proves `TypeOK`, `ThreadsFollowState`, `WaitSuffices` and `NoStaleEvent` of Program. The assumptions
are those of OptickCore and Program: the names of the threads and entries, that
each worker owns the entry of its name, main one and main_runner two, and that there are as
many names as workers the machine allows. Bounds play no part: any number of workers, jobs,
frames and captures, any settings of a Start. The inductive invariant `IInv`, which TLC has checked
on the instance of `program`, is

* `Typed`: the types;
* `ThreadsExist`: which threads there are while main() is where it is;
* `JobsWaitedFor`: a worker that holds a job while main_runner does not wait for one is in
  `orphans`, and one in `orphans` is still with it or past the end of its deque. This is all
  that is left of the wait when there are several workers, and what
  the exceptions rest on: an activation clears a storage under nobody else;
* `OneWorkerWaits`, for one worker until the user quits: the worker announces what it holds, and
  between the two questions its deque stays empty, since it puts a job back only if there is
  another. It gives `WaitSufficesThm`;
* `ModeFollows`: the mode is that of the state entered and of `asked` or, inside `Activate`, of the one
  being entered, and a dump runs with the mode off;
* `EntriesFollow`: an entry is in the list at most once and not before its thread
  registers it, a worker runs exactly while its entry is alive, and `Frame` comes after `Update`,
  so that the entry that is activated last is the one registered last (`LastEntryIs`);
* `StoragesFollow`: `Core::storage` of a thread is one of its own entries, null before
  it registers, and between two calls of `Activate` the right one;
* `EventsOpen`: the storage of a busy worker has the event that it will stop, unless the worker is
  in `orphans`.

The lemmas of a section of their own say what appending and removing do to the list; `Registering`,
`UnRegistering`, `CleaningUp`, `Adding` and `Finishing` what an operation of Core does, and
there is one lemma for main, main_runner and a worker in each part.

`ReportSound` and `NoEventDropped` need to know what is in the storages and on its way
into a report. `SentInv`, checked with TLC on the same instance, adds to `IInv`

* `EventsFit`: an event in a storage is its owner's; if the thread is alive it is of the
  last capture, and if it is of the last capture, it is inside one of the frames to be
  sent (`EventKept`). The last event of a worker in `orphans` need not be (`Loose`): it may begin when
  the frames of its capture are gone;
* `FramesFollow`: the frames are those of the last capture unless it was cancelled, none
  are left after the dump, and the state `"stop"` lasts until the dump begins;
* `DumpFollows`: only entries in the list have events; the list stays as it was when the
  dump began until all of it is sent, and nothing is left of what it has sent;
* `OneOpen`: the events without an end are those of the threads that are inside one, one
  each, or of a worker in `orphans`, the last in its storage. A dump sends only what has ended, so
  this is why it leaves nothing behind.

A step is put into one of the `Kinds` by what it does in Optick (registers, leaves, begins
or ends an event, a step of `Update`), and the parts are proved for each kind.
`NoEventDroppedThm` is an action property and follows from the invariant before the step.

`TracerProofs` proves `NothingLeft` from `ControlInv`, which says at which places of
`Core` there is a consumer and a session, and `SyscallsMatched` for any number of cores,
threads and captures. Windows tells the tracer a core where it needs a thread, so the
proof follows the events on their way:

* `ViewInv`: there is a history of what ran on each core before each event of the buffer;
  it ends with what runs now, and the consumer's idea of a core, if it has one, is where
  it begins;
* `CallsInv`: each call is entered once, and the entries that wait for an exit are of
  different calls;
* `ExitsInv`, `OpenInv`: between a call and its exit nothing happens on its core, be the
  exit in the buffer or still to come, unless the thread was switched out. So the last
  entry of the core is the one that the exit belongs to.

`OptickServerProofs` proves `CommandsFaithful` and `HearsUntilDamaged` for every set of
scripts, any number of settings and of broken connections. `IInv`, checked with TLC on
small instances, is

* `PathInv`: from one word to the next, in the stream, from the stream to the wire that is
  read, along the wires and on to the place the client has reached, only messages that are
  lost are missing (`Chain`, `Path`);
* the password is the client's own as long as nothing is damaged (`OwnPassword`), so nothing is
  read for it;
* in `PathInv`, `AppliedInv`: a command applied is before the head of the stream; and `CountInv`,
  as long as nothing is damaged: the head is where a message begins, or in the field that
  a newer client's message has more, and all readable ones before it have been applied;
* `Hears`: a client that is not damaged is still heard.

That a run of words without a gap is one message needs induction over positions. It is
done by taking the first or the last position at which it fails (`WFMin` with
`NatLessThanWellFounded`), which the provers can follow.

Only model-checked:

* all liveness properties: fairness and ENABLED are out of the prover's reach;
* `PoolKeepsEvents`, `SentOnce` and `ScopesNest` of EventStorage: the pool is a
  `FlattenSeq` of chunks and a dump is a fold over it. What these give is induction over
  their recursive definitions;
* `InOnePlace` and `TypeOK` with deletions and two workers need an order of
  `AllJobsFinished` that the code does not have;
* what remains of `InOnePlace` and `CounterMeaning` with `ExtraLocks` while `Shutdown`
  clears.

## 5. Abstractions

* `Size`, `HasExecutableJobs` and the reading of `mRunning` in the condition of
  the wait are one step with the branch that follows. So are the reads inside
  `Recheck`; between them no variable is read twice.
* In the wait of a worker the condition reads the deque and then `mRunning`. The
  model reads `mRunning` with the end of the scan.
* The loop of `Finish` takes the dependants in any order; the code takes
  them in the order of the vector. Job functions are one step and touch nothing.
* `IsFinished` after `Execute` (for the log) is part of `Return`.
* Atomics are sequentially consistent, as in the source; the plain array
  `mEntries` is read and written in single steps, with every interleaving. Other
  effects of the data race on it are not modelled.
* The configuration is that of defines.h (`HTL_TEST_DEPENDENCIES`,
  `HTL_WAIT_FOR_AVAILABLE_JOBS`), with either deque and with or without `HTL_EXTRA_LOCKS`.
* The counters `mFront`, `mBack` and `mUnfinishedJobs` are unbounded integers; they are
  bounded by the jobs of a frame and reset with each, far from 32 bits.

* Optick: between two places where a lock is taken or given back, `Core::Update` is
  one step; other threads see only what the locks and the thread-local
  pointers show.
* The clock of Core and Program is the number of the frame, enough for the
  comparisons of `CalculateRange` and `DumpEvents`; EventStorage has a clock of its own,
  in which two events may have the same time.
* OptickServer: what `recv` hands over ends with a word. A half word stays in
  the stream until the rest comes, as a half message does.
* Program: a deque answers at one moment, as in LockingSystem; what the default deque does beyond that is in
  LocklessSystem. The question for the size and the pop that follows are one step, and so are
  the announcement (`mJobRunning`) and the pop: between them the worker holds nothing. The jobs of
  a frame are added in one step. Which jobs can be executed is not in this module: any job
  may be taken, and any may be put back if there is another. What a worker
  does with a deleted job ends the behaviour; what the processor would do is not defined.
* EventStorage has one frame type.
* Tracer: the consumer receives the events in order and Windows loses none.

## 6. Plan

Done: JobGraph, JobSystem, both systems with their quits, the deques and
their refinement, Settings, Optick's Core with the program around it, its server,
storage and tracer; the proofs of section 4. What is left, in this order:

1. Model:
   * the configuration without `HTL_WAIT_FOR_AVAILABLE_JOBS` (waiting on `Size`),
     as a constant of JobSystem; `FrameEnds` must hold there too, while
     workers spin;
   * `HTL_SORT_JOBS` as the order of `add`, with its claim that every
     thread can start directly;
   * the lifetime of jobs: scans of other deques against deletion.
2. Prove:
   * EventStorage: `PoolKeepsEvents` for every size of a chunk, with the pool as a function of
     positions in place of `FlattenSeq`; then `SentOnce` and `ScopesNest`, with the dump as steps.
3. Three workers with `LockingDeque`.

## 7. Not modelled

The map names about an eighth of the lines of `src/`. Most of the
rest is not the program's own logic, or not in the program that is built:

* `src/optick/src/optick_miniz.cpp` and `.h` (3,900 lines): a vendored
  compression library. It is used when a capture is saved to a file (`saveCb` in
  optick_server.cpp), which only `SaveCapture` asks for; the job system does not call it.
* Optick's GPU support (`optick_gpu*`): `OPTICK_ENABLE_GPU` needs the headers of
  D3D12 or Vulkan, and the job system draws nothing.
* The tracers of other platforms (`optick_core.linux.h`, `.macos.h`, `.freebsd.h`,
  ...): the job system uses `scanf_s` and Windows threads.
* Symbols and callstacks (`SymbolEngine`, `CallstackCollector`): they read
  the image and ask dbghelp; a capture with `AUTOSAMPLING` differs in its data only.
* Optick's interfaces that the job system does not call: fibers, tags and
  attachments, push and pop events, the C API, `StartCapture`, `StopCapture` and `SaveCapture`.
* What Optick sends: serialization, the description board, the summary, the sockets'
  ports and addresses. Formats, that a client on the other side would have to read.
* `thread_safe_logger.h`, `Print` and all logging: output.
* `UpdateSerial` and the job functions: no shared state.
* `SetThreadAffinity`: no influence on behaviour.
