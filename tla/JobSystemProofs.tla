--------------------------- MODULE JobSystemProofs ---------------------------
(***************************************************************************)
(* What the control of the job system keeps whatever the deques answer:    *)
(* the types of its variables, what main_runner has constructed and added, *)
(* and that what happens to the jobs is a behaviour of JobGraph.           *)
(***************************************************************************)
EXTENDS JobSystem, FiniteSets, TLAPS

\* The theorems about the jobs.
GraphProofs == INSTANCE JobGraphProofs WITH Threads <- Workers

-----------------------------------------------------------------------------
(* The steps, with any answer of a deque.                                  *)

\* The steps of a worker.
WorkerMove(w) ==
  \/ Loop(w) \/ LockAwake(w) \/ Sleep(w) \/ WakeNotify(w) \/ SpuriousWakeup(w)
  \/ Announce(w) \/ Retire(w) \/ NothingToSteal(w) \/ PutBack(w)
  \/ Recheck(w) \/ Execute(w) \/ Executed(w)
  \/ \E found \in BOOLEAN : Check(w, found) \/ WakeUp(w, found) \/ TestCondition(w, found)
  \/ \E n \in Nat : ReadSize(w, n) \/ ReadSizeAgain(w, n)
  \/ \E j \in Jobs \cup {NoJob} : PopOwn(w, j) \/ PopOwnAgain(w, j) \/ Steal(w, j)

MainMove ==
  \/ Attach \/ NextFrame \/ Create \/ Pushed \/ NotifyWorker \/ PollRunning \/ DeleteJobs
  \/ \E n \in Nat : PollSize(n)

QuitMove == Quit \/ Halt \/ Silence \/ Cleared \/ NotifyStop \/ Join

NoMove == UNCHANGED <<workerVars, mainVars, quitVars>>

ControlMove == (\E w \in Workers : WorkerMove(w)) \/ MainMove \/ QuitMove \/ NoMove

-----------------------------------------------------------------------------
(* The types of the threads.                                               *)

\* A worker has a job in popped until it has decided what to do with it.
WorkerInv ==
  /\ pc \in [Workers -> WorkerPcs]
  /\ popped \in [Workers -> Jobs \cup {NoJob}]
  /\ allowOpen \in [Workers -> BOOLEAN]
  /\ target \in [Workers -> Workers]
  /\ jobRunning \in [Workers -> BOOLEAN]
  /\ \A w \in Workers : popped[w] # NoJob <=> pc[w] \in {"recheck", "pushback"}

\* main() is at the worker it shuts down, which has been told to stop.
QuitInv ==
  /\ running \in [Workers -> BOOLEAN]
  /\ isRunning \in BOOLEAN
  /\ quitPc \in QuitPcs
  /\ quitIndex \in Workers
  /\ quitPc \in {"silence", "clear", "notify", "join"} => ~running[quitIndex]

\* The loop counter of main_runner points at a worker or a job.
MainInv ==
  /\ attached \subseteq Workers
  /\ mainPc \in MainPcs
  /\ frame \in Frames
  /\ index \in Nat
  /\ current \in Workers
  /\ deletes \in 0 .. MaxDeletes
  /\ mainPc \in {"attach", "poll", "pollrunning"} => index < NumWorkers
  /\ mainPc \in {"loop", "delete", "ended"} => index = 0
  /\ mainPc \in {"create", "add", "notify"} => index < Len(frame.add)

ThreadsInv == WorkerInv /\ MainInv /\ QuitInv

LEMMA NumWorkersFacts ==
  /\ NumWorkers \in Nat /\ NumWorkers >= 1 /\ 0 \in Workers
  /\ \A n \in Nat : (n + 1) % NumWorkers \in Workers
BY NumWorkersAssumption DEF Workers

\* The frame is a sequence of jobs to construct and one as long to add.
LEMMA FrameFacts ==
  ASSUME NEW f \in Frames
  PROVE  /\ f.add \in Seq(Jobs) /\ Len(f.add) \in Nat \ {0} /\ Len(f.new) = Len(f.add)
         /\ DOMAIN f.add = 1 .. Len(f.add) /\ DOMAIN f.new = 1 .. Len(f.add)
<1>1. WellFormed(f)
  BY FramesAssumption
<1>2. f.add \in Seq(Jobs) /\ f.new \in Seq(Jobs) /\ Len(f.new) > 0
      /\ Len(f.add) = Len(f.new)
  BY <1>1 DEF WellFormed
<1> QED BY <1>2

LEMMA InitThreads == ControlInit => ThreadsInv
<1> SUFFICES ASSUME ControlInit
             PROVE  ThreadsInv
  OBVIOUS
<1>1. WorkerInv /\ QuitInv
  BY NumWorkersFacts DEF ControlInit, WorkerInv, QuitInv, WorkerPcs, QuitPcs
<1>2. MainInv
  BY NumWorkersFacts, MaxDeletesAssumption DEF ControlInit, MainInv, MainPcs
<1> QED BY <1>1, <1>2 DEF ThreadsInv

LEMMA TargetKept ==
  ASSUME WorkerInv, NEW w \in Workers, NextTarget(w)
  PROVE  target' \in [Workers -> Workers]
<1>1. target[w] \in Nat
  BY DEF WorkerInv, Workers
<1> QED BY <1>1, NumWorkersFacts DEF WorkerInv, NextTarget

\* notify_one changes only where a sleeping worker is.
LEMMA AwakenedKeeps ==
  ASSUME WorkerInv, NEW i \in Workers, pc' = Awakened(i, pc),
         UNCHANGED <<popped, allowOpen, target, jobRunning>>
  PROVE  WorkerInv'
BY DEF WorkerInv, Awakened, WorkerPcs

\* A worker's step leaves main_runner and main alone.
LEMMA WorkerMoveFrame ==
  ASSUME NEW w \in Workers, WorkerMove(w)
  PROVE  UNCHANGED <<mainVars, quitVars>>
BY DEF WorkerMove, Loop, LockAwake, Sleep, WakeNotify, SpuriousWakeup, Announce, Retire,
     NothingToSteal, PutBack, Recheck, Execute, Executed, Check, WakeUp, TestCondition,
     ReadSize, ReadSizeAgain, PopOwn, PopOwnAgain, Steal

LEMMA WorkerMoveKeeps ==
  ASSUME WorkerInv, NEW w \in Workers, WorkerMove(w)
  PROVE  WorkerInv'
<1>1. CASE WakeNotify(w)
  <2>1. pc' \in [Workers -> WorkerPcs]
    BY <1>1 DEF WakeNotify, Awakened, AfterTarget, WorkerInv, WorkerPcs
  <2>2. \A v \in Workers : pc'[v] \in {"recheck", "pushback"}
                           <=> pc[v] \in {"recheck", "pushback"}
    BY <1>1 DEF WakeNotify, Awakened, AfterTarget, WorkerInv
  <2> QED BY <1>1, <2>1, <2>2, TargetKept DEF WakeNotify, WorkerInv
<1>2. CASE Loop(w) \/ LockAwake(w) \/ Sleep(w) \/ SpuriousWakeup(w) \/ NothingToSteal(w)
  BY <1>2 DEF Loop, LockAwake, Sleep, SpuriousWakeup, NothingToSteal, Goto, WorkerInv,
       WorkerPcs
<1>3. CASE Announce(w) \/ Retire(w)
  BY <1>3 DEF Announce, Retire, Goto, WorkerInv, WorkerPcs
<1>4. CASE PutBack(w) \/ Recheck(w) \/ Executed(w)
  BY <1>4 DEF PutBack, Recheck, Executed, Goto, WorkerInv, WorkerPcs
<1>5. CASE Execute(w)
  BY <1>5 DEF Execute, workerVars, WorkerInv
<1>6. ASSUME NEW found \in BOOLEAN, WakeUp(w, found)
      PROVE  WorkerInv'
  <2>1. pc' \in [Workers -> WorkerPcs]
    BY <1>6 DEF WakeUp, Goto, AfterTarget, WorkerInv, WorkerPcs
  <2>2. \A v \in Workers : pc'[v] \in {"recheck", "pushback"}
                           <=> pc[v] \in {"recheck", "pushback"}
    BY <1>6 DEF WakeUp, Goto, AfterTarget, WorkerInv
  <2>3. target' \in [Workers -> Workers]
    BY <1>6, TargetKept DEF WakeUp, WorkerInv
  <2> QED BY <1>6, <2>1, <2>2, <2>3 DEF WakeUp, WorkerInv
<1>7. ASSUME NEW found \in BOOLEAN, Check(w, found) \/ TestCondition(w, found)
      PROVE  WorkerInv'
  BY <1>7 DEF Check, TestCondition, Goto, WorkerInv, WorkerPcs
<1>8. ASSUME NEW n \in Nat, ReadSize(w, n)
      PROVE  WorkerInv'
  <2> DEFINE more == n > 1
  <2>1. more \in BOOLEAN
    OBVIOUS
  <2>2. allowOpen' = [allowOpen EXCEPT ![w] = more]
    BY <1>8 DEF ReadSize
  <2> HIDE DEF more
  <2>3. allowOpen' \in [Workers -> BOOLEAN]
    BY <2>1, <2>2, Zenon DEF WorkerInv
  <2> QED BY <1>8, <2>3 DEF ReadSize, Goto, WorkerInv, WorkerPcs
<1>9. ASSUME NEW n \in Nat, ReadSizeAgain(w, n)
      PROVE  WorkerInv'
  BY <1>9 DEF ReadSizeAgain, Goto, WorkerInv, WorkerPcs
<1>10. ASSUME NEW j \in Jobs \cup {NoJob}, PopOwn(w, j)
       PROVE  WorkerInv'
  BY <1>10 DEF PopOwn, Goto, WorkerInv, WorkerPcs
<1>11. ASSUME NEW j \in Jobs \cup {NoJob}, PopOwnAgain(w, j) \/ Steal(w, j)
       PROVE  WorkerInv'
  BY <1>11 DEF PopOwnAgain, Steal, Goto, WorkerInv, WorkerPcs
<1> QED BY <1>1, <1>2, <1>3, <1>4, <1>5, <1>6, <1>7, <1>8, <1>9, <1>10, <1>11
    DEF WorkerMove

LEMMA MainMoveKeeps ==
  ASSUME ThreadsInv, MainMove
  PROVE  ThreadsInv'
<1> USE DEF ThreadsInv
<1>1. frame.add \in Seq(Jobs) /\ Len(frame.add) \in Nat \ {0}
      /\ Len(frame.new) = Len(frame.add)
  BY FrameFacts DEF MainInv
<1>2. QuitInv'
  BY DEF MainMove, Attach, NextFrame, Create, Pushed, NotifyWorker, PollRunning,
       DeleteJobs, PollSize, quitVars, QuitInv
<1>3. WorkerInv'
  <2>1. CASE NotifyWorker
    BY <2>1, AwakenedKeeps DEF NotifyWorker, MainInv
  <2>2. CASE UNCHANGED workerVars
    BY <2>2 DEF workerVars, WorkerInv
  <2> QED BY <2>1, <2>2 DEF MainMove, Attach, NextFrame, Create, Pushed, PollRunning,
           DeleteJobs, PollSize
<1>4. MainInv'
  <2>1. CASE Attach
    BY <2>1, NumWorkersAssumption DEF Attach, MainLoop, MainInv, MainPcs, Workers
  <2>2. CASE NextFrame
    BY <1>1, <2>2 DEF NextFrame, MainInv, MainPcs
  <2>3. CASE Create
    BY <1>1, <2>3 DEF Create, MainLoop, MainInv, MainPcs
  <2>4. CASE Pushed
    BY <2>4 DEF Pushed, MainInv, MainPcs
  <2>5. CASE NotifyWorker
    <3>1. current \in Nat
      BY DEF MainInv, Workers
    <3> QED BY <1>1, <2>5, <3>1, NumWorkersFacts DEF NotifyWorker, MainLoop, MainInv, MainPcs
  <2>6. CASE DeleteJobs
    BY <2>6, MaxDeletesAssumption DEF DeleteJobs, MainInv, MainPcs
  <2>7. CASE PollRunning \/ \E n \in Nat : PollSize(n)
    BY <2>7, NumWorkersFacts DEF PollSize, PollRunning, MainLoop, MainInv, MainPcs
  <2> QED BY <2>1, <2>2, <2>3, <2>4, <2>5, <2>6, <2>7 DEF MainMove
<1> QED BY <1>2, <1>3, <1>4

LEMMA QuitMoveKeeps ==
  ASSUME ThreadsInv, QuitMove
  PROVE  ThreadsInv'
<1> USE DEF ThreadsInv
<1>1. MainInv'
  BY DEF QuitMove, Quit, Cleared, Halt, Silence, NotifyStop, Join, mainVars, MainInv
<1>2. QuitInv'
  <2>1. quitIndex \in Nat
    BY DEF QuitInv, Workers
  <2>2. CASE Join
    BY <2>1, <2>2, NumWorkersFacts DEF Join, QuitInv, QuitPcs
  <2>3. CASE Quit \/ Cleared \/ Halt \/ Silence \/ NotifyStop
    BY <2>3 DEF Quit, Cleared, Halt, Silence, NotifyStop, QuitInv, QuitPcs
  <2> QED BY <2>2, <2>3 DEF QuitMove
<1>3. WorkerInv'
  <2>1. CASE NotifyStop
    BY <2>1, AwakenedKeeps DEF NotifyStop, QuitInv
  <2>2. CASE Silence
    BY <2>2 DEF Silence, WorkerInv
  <2>3. CASE Quit \/ Cleared \/ Halt \/ Join
    BY <2>3 DEF Quit, Cleared, Halt, Join, workerVars, WorkerInv
  <2> QED BY <2>1, <2>2, <2>3 DEF QuitMove
<1> QED BY <1>1, <1>2, <1>3

LEMMA ControlMoveKeeps ==
  ASSUME ThreadsInv, ControlMove
  PROVE  ThreadsInv'
<1>1. ASSUME NEW w \in Workers, WorkerMove(w)
      PROVE  ThreadsInv'
  <2>1. WorkerInv' /\ UNCHANGED <<mainVars, quitVars>>
    BY <1>1, WorkerMoveFrame, WorkerMoveKeeps DEF ThreadsInv
  <2> QED BY <2>1 DEF ThreadsInv, MainInv, QuitInv, mainVars, quitVars
<1>2. CASE NoMove
  BY <1>2 DEF NoMove, workerVars, mainVars, quitVars, ThreadsInv, WorkerInv, MainInv, QuitInv
<1> QED BY <1>1, <1>2, MainMoveKeeps, QuitMoveKeeps DEF ControlMove

-----------------------------------------------------------------------------
(* The jobs.                                                               *)

\* What happens to the jobs in a step that deletes none.
JobMove ==
  \/ UNCHANGED graphVars
  \/ Create \/ Pushed
  \/ \E w \in Workers : Recheck(w) \/ Execute(w) \/ Executed(w) \/ Graph!Abandon(w)
  \/ \E w \in Workers : \E j : Graph!Claim(w, j)

LEMMA JobsFinite ==
  ASSUME IsFiniteSet(Jobs)
  PROVE  GraphProofs!IsFiniteSet(Jobs) /\ NoJob \notin Jobs
BY NoJobAssumption DEF GraphProofs!IsFiniteSet, IsFiniteSet

\* It is a step of JobGraph.
LEMMA JobMoveRefines ==
  ASSUME Graph!TypeOK, JobMove
  PROVE  [Graph!Next]_(Graph!vars)
<1>1. CASE UNCHANGED graphVars
  BY <1>1 DEF graphVars, Graph!vars, Graph!jobVars, Graph!execVars
<1>2. CASE Create
  <2> DEFINE j == frame.new[index + 1]
  <2>1. Graph!Construct(j, frame.deps[j])
    BY <1>2 DEF Create
  <2>2. j \in Jobs /\ frame.deps[j] \in SUBSET created
    BY <2>1 DEF Graph!Construct
  <2> QED BY <2>1, <2>2 DEF Graph!Next
<1>3. CASE Pushed
  BY <1>1, <1>3 DEF Pushed, Graph!Next
<1>4. ASSUME NEW w \in Workers, NEW j, Graph!Claim(w, j)
      PROVE  [Graph!Next]_(Graph!vars)
  <2>1. j \in Jobs
    BY <1>4 DEF Graph!Claim, Graph!TypeOK
  <2> QED BY <1>4, <2>1 DEF Graph!Next
<1>5. ASSUME NEW w \in Workers,
             Recheck(w) \/ Execute(w) \/ Executed(w) \/ Graph!Abandon(w)
      PROVE  [Graph!Next]_(Graph!vars)
  BY <1>1, <1>4, <1>5 DEF Recheck, Execute, Executed, Graph!Next
<1> QED BY <1>1, <1>2, <1>3, <1>4, <1>5 DEF JobMove

\* The invariant of JobGraph, and what it says of its variables.
JobsInv == GraphProofs!IInv

LEMMA InitJobs ==
  ASSUME IsFiniteSet(Jobs), Graph!Init
  PROVE  JobsInv
<1>1. GraphProofs!Init
  BY DEF Graph!Init, GraphProofs!Init
<1> QED BY <1>1, JobsFinite, GraphProofs!InitInv DEF JobsInv

LEMMA GraphStepKeepsJobs ==
  ASSUME IsFiniteSet(Jobs), JobsInv, [Graph!Next]_(Graph!vars)
  PROVE  JobsInv'
<1>1. [GraphProofs!Next]_(GraphProofs!vars)
  BY DEF Graph!Next, Graph!vars, Graph!execVars, Graph!jobVars, Graph!Construct,
       Graph!Share, Graph!Delete, Graph!Reset, Graph!Claim, Graph!CanExecute,
       Graph!Abandon, Graph!Start, Graph!Finish, Graph!Signal, Graph!Return,
       GraphProofs!Next, GraphProofs!vars, GraphProofs!execVars, GraphProofs!jobVars,
       GraphProofs!Construct, GraphProofs!Share, GraphProofs!Delete, GraphProofs!Reset,
       GraphProofs!Claim, GraphProofs!CanExecute, GraphProofs!Abandon, GraphProofs!Start,
       GraphProofs!Finish, GraphProofs!Signal, GraphProofs!Return
<1> QED BY <1>1, JobsFinite, GraphProofs!StepInv DEF JobsInv

LEMMA JobsFacts ==
  ASSUME JobsInv
  PROVE  /\ Graph!TypeOK
         /\ Graph!DependencyOrder
         /\ \A w \in Workers : hand[w] # NoJob => hand[w] \in created
         /\ \A w \in Workers : phase[w] = "signalling" => hand[w] \in done
         /\ ~shared => done = {} /\ \A w \in Workers : phase[w] = "idle"
<1> USE DEF JobsInv, GraphProofs!IInv, GraphProofs!TypeOK, Graph!TypeOK
<1>1. Graph!TypeOK
  BY DEF GraphProofs!Phases, Graph!Phases
<1>2. Graph!DependencyOrder
  BY DEF GraphProofs!ThreadInv, GraphProofs!OpenPredecessors, GraphProofs!Predecessors,
       Graph!DependencyOrder, Graph!Predecessors
<1> QED BY <1>1, <1>2 DEF GraphProofs!ThreadInv, GraphProofs!BuildingInv

LEMMA JobMoveKeeps ==
  ASSUME IsFiniteSet(Jobs), JobsInv, JobMove
  PROVE  JobsInv'
BY JobsFacts, JobMoveRefines, GraphStepKeepsJobs

-----------------------------------------------------------------------------
(* What main_runner has constructed and added.                             *)

ConstructedCount ==
  IF mainPc \in {"attach", "loop", "ended"} THEN 0
  ELSE IF mainPc = "create" THEN index
  ELSE Len(frame.new)

AddedCount ==
  IF mainPc \in {"attach", "loop", "create", "ended"} THEN 0
  ELSE IF mainPc = "add" THEN index
  ELSE IF mainPc = "notify" THEN index + 1
  ELSE Len(frame.add)

Constructed == {frame.new[k] : k \in 1 .. ConstructedCount}
Added == {frame.add[k] : k \in 1 .. AddedCount}

\* The jobs that exist are those constructed; from the first AddJob on the
\* workers may see them.
BuildInv ==
  /\ created = Constructed
  /\ shared <=> AddedCount > 0

\* A step of the frame, or one that constructs and adds nothing.
BuildMove == Create \/ Pushed \/ UNCHANGED <<created, shared>>

LEMMA JobMoveBuilds ==
  ASSUME JobMove
  PROVE  BuildMove
BY DEF JobMove, BuildMove, graphVars, Recheck, Execute, Executed, Graph!Claim,
       Graph!Abandon, Graph!Start, Graph!Finish, Graph!Signal, Graph!Return, Graph!jobVars

LEMMA FrameDistinct ==
  ASSUME NEW f \in Frames
  PROVE  /\ \A i, k \in 1 .. Len(f.add) : f.add[i] = f.add[k] => i = k
         /\ \A i, k \in 1 .. Len(f.add) : f.new[i] = f.new[k] => i = k
         /\ {f.add[i] : i \in 1 .. Len(f.add)} = {f.new[i] : i \in 1 .. Len(f.add)}
<1>1. DOMAIN f.add = 1 .. Len(f.add) /\ DOMAIN f.new = 1 .. Len(f.add)
  BY FrameFacts
<1> QED BY <1>1, FramesAssumption DEF WellFormed

LEMMA CountFacts ==
  ASSUME MainInv
  PROVE  /\ ConstructedCount \in 0 .. Len(frame.new)
         /\ AddedCount \in 0 .. Len(frame.add)
BY FrameFacts DEF MainInv, ConstructedCount, AddedCount

\* AddJob adds one job more, and no job twice.
LEMMA PushedAdds ==
  ASSUME MainInv, Pushed
  PROVE  /\ frame.add[index + 1] \in Jobs
         /\ frame.add[index + 1] \notin Added
         /\ Added' = Added \cup {frame.add[index + 1]}
         /\ AddedCount' > 0
<1>1. mainPc = "add" /\ mainPc' = "notify" /\ frame' = frame /\ index' = index
  BY DEF Pushed
<1>2. /\ index \in Nat /\ index < Len(frame.add) /\ frame \in Frames
      /\ frame.add \in Seq(Jobs) /\ Len(frame.add) \in Nat
  BY <1>1, FrameFacts DEF MainInv
<1>3. AddedCount = index /\ AddedCount' = index + 1
  BY <1>1 DEF AddedCount
<1>4. Added' = Added \cup {frame.add[index + 1]}
  <2>1. \A k \in 1 .. index + 1 : k \in 1 .. index \/ k = index + 1
    BY <1>2
  <2>2. 1 .. index \subseteq 1 .. index + 1 /\ index + 1 \in 1 .. index + 1
    BY <1>2
  <2>3. Added' = {frame.add[k] : k \in 1 .. index + 1} /\ Added = {frame.add[k] : k \in 1 .. index}
    BY <1>1, <1>3 DEF Added
  <2> QED BY <2>1, <2>2, <2>3
<1>5. frame.add[index + 1] \notin Added
  <2>1. \A k \in 1 .. index : k \in 1 .. Len(frame.add) /\ k # index + 1
    BY <1>2
  <2>2. index + 1 \in 1 .. Len(frame.add)
    BY <1>2
  <2> QED BY <1>2, <1>3, <2>1, <2>2, FrameDistinct DEF Added
<1> QED BY <1>2, <1>3, <1>4, <1>5

\* No other step adds anything.
LEMMA OthersAddNothing ==
  ASSUME ThreadsInv, ControlMove, ~Pushed, ~DeleteJobs
  PROVE  frame' = frame /\ AddedCount' = AddedCount /\ Added' = Added
<1>1. Len(frame.add) \in Nat \ {0} /\ Len(frame.new) = Len(frame.add)
  BY FrameFacts DEF ThreadsInv, MainInv
<1>2. frame' = frame /\ AddedCount' = AddedCount
  <2>1. CASE UNCHANGED mainVars
    BY <2>1 DEF mainVars, AddedCount
  <2>2. CASE MainMove
    BY <1>1, <2>2 DEF MainMove, Attach, NextFrame, Create, NotifyWorker, PollRunning,
         PollSize, MainLoop, ThreadsInv, MainInv, AddedCount
  <2> QED BY <2>1, <2>2, WorkerMoveFrame
      DEF ControlMove, NoMove, QuitMove, Quit, Halt, Silence, Cleared, NotifyStop, Join
<1> QED BY <1>2 DEF Added

LEMMA BuildMoveKeeps ==
  ASSUME ThreadsInv, BuildInv, ControlMove, BuildMove, ~DeleteJobs
  PROVE  BuildInv'
<1>1. /\ Len(frame.add) \in Nat \ {0} /\ Len(frame.new) = Len(frame.add) /\ index \in Nat
      /\ AddedCount \in Nat
  BY FrameFacts, CountFacts DEF ThreadsInv, MainInv
<1>2. CASE Create
  <2>1. /\ mainPc = "create" /\ index < Len(frame.add) /\ frame' = frame
        /\ ConstructedCount = index /\ AddedCount = 0
        /\ created' = created \cup {frame.new[index + 1]} /\ shared' = shared
    BY <1>2 DEF Create, Graph!Construct, ThreadsInv, MainInv, ConstructedCount, AddedCount
  <2>2. ConstructedCount' = index + 1 /\ AddedCount' = 0
    BY <1>1, <1>2, <2>1 DEF Create, MainLoop, ConstructedCount, AddedCount
  <2>3. /\ \A k \in 1 .. index + 1 : k \in 1 .. index \/ k = index + 1
        /\ 1 .. index \subseteq 1 .. index + 1 /\ index + 1 \in 1 .. index + 1
    BY <1>1
  <2>4. Constructed' = Constructed \cup {frame.new[index + 1]}
    BY <2>1, <2>2, <2>3 DEF Constructed
  <2> QED BY <2>1, <2>2, <2>4 DEF BuildInv
<1>3. CASE Pushed
  <2>1. /\ mainPc = "add" /\ mainPc' = "notify" /\ UNCHANGED <<frame, created>> /\ shared'
        /\ AddedCount' > 0
    BY <1>3, PushedAdds DEF Pushed, Graph!Share, graphVars, ThreadsInv
  <2> QED BY <2>1 DEF BuildInv, Constructed, ConstructedCount
<1>4. CASE ~Create /\ ~Pushed
  <2>1. frame' = frame /\ AddedCount' = AddedCount
    BY <1>4, OthersAddNothing
  <2>2. ConstructedCount' = ConstructedCount
    <3>1. CASE UNCHANGED mainVars
      BY <3>1 DEF mainVars, ConstructedCount
    <3>2. CASE MainMove
      BY <1>1, <1>4, <3>2 DEF MainMove, Attach, NextFrame, NotifyWorker, PollRunning,
           PollSize, MainLoop, ThreadsInv, MainInv, ConstructedCount
    <3> QED BY <3>1, <3>2, WorkerMoveFrame
        DEF ControlMove, NoMove, QuitMove, Quit, Halt, Silence, Cleared, NotifyStop, Join
  <2> QED BY <1>4, <2>1, <2>2 DEF BuildInv, BuildMove, Constructed
<1> QED BY <1>2, <1>3, <1>4

LEMMA InitBuild == ControlInit => BuildInv
BY DEF ControlInit, Graph!Init, BuildInv, Constructed, ConstructedCount, AddedCount

\* What is added has been constructed, and at the end all of it is added.
LEMMA AddedIsCreated ==
  ASSUME MainInv, BuildInv
  PROVE  /\ Added \subseteq created /\ Added \subseteq Jobs
         /\ mainPc \notin {"create", "add", "notify"} => created = Added
<1>1. /\ Len(frame.add) \in Nat \ {0} /\ Len(frame.new) = Len(frame.add)
      /\ frame.add \in Seq(Jobs)
      /\ {frame.add[i] : i \in 1 .. Len(frame.add)} = {frame.new[i] : i \in 1 .. Len(frame.add)}
  BY FrameFacts, FrameDistinct DEF MainInv
<1>2. AddedCount \in 0 .. Len(frame.add)
  BY CountFacts
<1>3. Added \subseteq Jobs
  BY <1>1, <1>2 DEF Added
<1>4. CASE mainPc \in {"attach", "loop", "create", "ended"}
  BY <1>3, <1>4 DEF BuildInv, Added, AddedCount, Constructed, ConstructedCount
<1>5. CASE mainPc \notin {"attach", "loop", "create", "ended"}
  <2>1. created = {frame.add[i] : i \in 1 .. Len(frame.add)}
    BY <1>1, <1>5 DEF BuildInv, Constructed, ConstructedCount
  <2>2. \A k \in 1 .. AddedCount : k \in 1 .. Len(frame.add)
    BY <1>1, <1>2
  <2>3. mainPc \in {"poll", "pollrunning", "delete"} => AddedCount = Len(frame.add)
    BY DEF AddedCount
  <2>4. mainPc \notin {"create", "add", "notify"} => mainPc \in {"poll", "pollrunning", "delete"}
    BY <1>5 DEF MainInv, MainPcs
  <2> QED BY <1>3, <2>1, <2>2, <2>3, <2>4 DEF Added
<1> QED BY <1>4, <1>5

=============================================================================
