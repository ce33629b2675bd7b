--------------------------- MODULE LockingSystem ---------------------------
(***************************************************************************)
(* The job system built with LockingDeque (src/src/locking_deque.h, that   *)
(* is without HTL_USING_LOCKLESS).  Every operation of a deque holds its   *)
(* mutex from the first read to the last write, so each is one step.       *)
(***************************************************************************)
EXTENDS JobSystem, FiniteSets

VARIABLE deques   \* LockingDeque::mJobDeque of each worker, front first

vars == <<graphVars, workerVars, mainVars, quitVars, deques>>

TypeOK ==
  /\ ControlTypeOK
  /\ deques \in [Workers -> Seq(Jobs)]

Init ==
  /\ ControlInit
  /\ deques = [w \in Workers |-> <<>>]

Entries(q) == {q[i] : i \in DOMAIN q}

-----------------------------------------------------------------------------
(* LockingDeque.                                                           *)

HasExecutableJobs(i) == \E j \in Entries(deques[i]) : Graph!CanExecute(j)

Clear(i) == deques' = [deques EXCEPT ![i] = <<>>]

PushFront(i, j) == deques' = [deques EXCEPT ![i] = <<j>> \o @]

PushBack(i, j) == deques' = [deques EXCEPT ![i] = Append(@, j)]

\* What PopFront and PopBack answer, and what they take away.
FrontJob(i, open) ==
  LET q == deques[i]
  IN IF q # <<>> /\ (open \/ Graph!CanExecute(Head(q))) THEN Head(q) ELSE NoJob

PopFront(i, open) ==
  deques' = [deques EXCEPT ![i] = IF FrontJob(i, open) = NoJob THEN @ ELSE Tail(@)]

BackJob(i) ==
  LET q == deques[i]
  IN IF q # <<>> /\ Graph!CanExecute(q[Len(q)]) THEN q[Len(q)] ELSE NoJob

\* Variant: PopBack answers the back and removes the front.
PopWrongEnd(i) ==
  deques' = [deques EXCEPT ![i] = IF BackJob(i) = NoJob THEN @ ELSE Tail(@)]

PopBack(i) ==
  deques' = [deques EXCEPT ![i] = IF BackJob(i) = NoJob THEN @
                                  ELSE SubSeq(@, 1, Len(@) - 1)]

\* The caller executes the job it got, if it got one.
ClaimIfAny(w, j) == IF j = NoJob THEN UNCHANGED graphVars ELSE Graph!Claim(w, j)

-----------------------------------------------------------------------------
(* The threads.                                                            *)

\* Steps that neither use a deque nor a job.
ControlStep(w) ==
  /\ \/ Loop(w) \/ LockAwake(w) \/ Sleep(w) \/ WakeNotify(w) \/ Announce(w)
     \/ NothingToSteal(w) \/ Retire(w)
  /\ UNCHANGED <<graphVars, deques>>

\* Steps that read a deque.
LookStep(w) ==
  /\ \/ Check(w, HasExecutableJobs(w))
     \/ WakeUp(w, HasExecutableJobs(target[w]))
     \/ TestCondition(w, HasExecutableJobs(w))
     \/ ReadSize(w, Len(deques[w]))
     \/ ReadSizeAgain(w, Len(deques[w]))
  /\ UNCHANGED <<graphVars, deques>>

PopStep(w) ==
  /\ PopOwn(w, FrontJob(w, allowOpen[w]))
  /\ PopFront(w, allowOpen[w])
  /\ UNCHANGED graphVars

PushBackStep(w) ==
  /\ PutBack(w)
  /\ PushBack(w, popped[w])
  /\ UNCHANGED graphVars

PopAgainStep(w) ==
  /\ PopOwnAgain(w, FrontJob(w, FALSE))
  /\ PopFront(w, FALSE)
  /\ ClaimIfAny(w, FrontJob(w, FALSE))

\* GetRandomWorkerThreadId answers any worker but the one that asks.
StealStep(w) ==
  \E victim \in Workers \ {w} :
    /\ Steal(w, BackJob(victim))
    /\ PopBack(victim)
    /\ ClaimIfAny(w, BackJob(victim))

JobStep(w) ==
  /\ Recheck(w) \/ Execute(w) \/ Executed(w)
  /\ UNCHANGED deques

WorkerNext(w) ==
  \/ ControlStep(w) \/ LookStep(w) \/ JobStep(w)
  \/ PopStep(w) \/ PushBackStep(w) \/ PopAgainStep(w) \/ StealStep(w)

AddStep ==
  /\ Pushed
  /\ PushFront(current, frame.add[index + 1])

MainNext ==
  \/ AddStep
  \/ (Create \/ DeleteJobs) /\ UNCHANGED deques
  \/ /\ Attach \/ NextFrame \/ NotifyWorker \/ PollSize(Len(deques[index])) \/ PollRunning
     /\ UNCHANGED <<graphVars, deques>>

QuitNext ==
  \/ Cleared /\ Clear(quitIndex) /\ UNCHANGED graphVars
  \/ (Halt \/ Silence \/ NotifyStop \/ Join) /\ UNCHANGED <<graphVars, deques>>

Next ==
  \/ MainNext
  \/ QuitNext
  \/ Quit /\ UNCHANGED <<graphVars, deques>>
  \/ \E w \in Workers :
       WorkerNext(w) \/ (SpuriousWakeup(w) /\ UNCHANGED <<graphVars, deques>>)

Spec == Init /\ [][Next]_vars

\* Every thread is scheduled.  A thread that waits for mAwakeMutex gets it in
\* the end even if the owner takes it again and again.
FairSpec ==
  /\ Spec
  /\ SF_vars(MainNext)
  /\ SF_vars(QuitNext)
  /\ \A w \in Workers : SF_vars(WorkerNext(w))

-----------------------------------------------------------------------------

\* Where a job is: in a deque, in the hand of a worker that has not decided, or
\* with a thread that executes it.
InDeque(j) == {i \in Workers : j \in Entries(deques[i])}
Holders(j) == {w \in Workers : popped[w] = j}
Executors(j) == {w \in Workers : hand[w] = j}

\* The reordering and the stealing of jobs lose no job and double none: from
\* its AddJob until its function has returned a job is in one place, and only a
\* worker that finishes it holds it after that; until the user quits, when the
\* jobs that wait are thrown away.
InOnePlace ==
  /\ \A i \in Workers : \A k, l \in DOMAIN deques[i] :
       deques[i][k] = deques[i][l] => k = l
  /\ \A j \in created :
       LET places == Cardinality(InDeque(j)) + Cardinality(Holders(j))
                       + Cardinality(Executors(j))
       IN IF j \in done THEN InDeque(j) \cup Holders(j) = {} /\ places <= 1
          ELSE places <= 1
               /\ (isRunning /\ mainPc \notin {"create", "add", "notify"} => places = 1)

\* A worker that holds a job shows mJobRunning ("fake job running",
\* job_worker.cpp:110): there is no moment in which AllJobsFinished overlooks it.
HeldJobIsAnnounced ==
  \A w \in Workers : popped[w] # NoJob \/ hand[w] # NoJob => jobRunning[w]

\* When AllJobsFinished has answered yes, every job is done and no worker has
\* one any more ("All jobs done", main.cpp:213).
AllJobsDone ==
  mainPc = "delete" => done = created /\ \A w \in Workers : hand[w] = NoJob

\* Every frame comes to its end, the deletion of its jobs, and all of them are
\* executed, until the user quits.
FrameEnds == mainPc = "add" ~> (mainPc = "delete" /\ done = created) \/ ~isRunning

\* A worker does not sleep on an executable job for ever, though the thread
\* that made the job executable notifies nobody.
ExecutableIsTaken ==
  \A w \in Workers :
    (pc[w] = "asleep" /\ HasExecutableJobs(w))
      ~> (pc[w] # "asleep" \/ ~HasExecutableJobs(w))

\* A worker that is told to stop does so, even if it was about to fall asleep.
WorkersStop == \A w \in Workers : ~running[w] ~> pc[w] = "stopped"

\* The frame as the jobs see it: construction, sharing, executions in the order
\* of the dependencies, and a deletion of finished jobs that nobody executes.
JobGraphSpec == Graph!Spec

=============================================================================
