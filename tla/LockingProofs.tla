---------------------------- MODULE LockingProofs ----------------------------
(***************************************************************************)
(* What LockingSystem promises for every number of workers and every       *)
(* frame: its types, that what happens to the jobs is a behaviour of       *)
(* JobGraph, that no worker holds a job in secret, and that the deques     *)
(* lose no job and double none; with one worker, that the deletion of the  *)
(* jobs comes after their last use.                                        *)
(***************************************************************************)
EXTENDS LockingSystem, JobSystemProofs, FiniteSetTheorems

-----------------------------------------------------------------------------
(* The jobs.                                                               *)

\* A job that is executed exists.
HandsExist == \A w \in Workers : hand[w] # NoJob => hand[w] \in created

GraphInv == Graph!TypeOK /\ HandsExist

LEMMA InitGraph == Init => GraphInv
<1> SUFFICES ASSUME Graph!Init
             PROVE  GraphInv
  BY DEF Init, ControlInit
<1>1. Graph!TypeOK
  <2>1. dependants \in [Jobs -> SUBSET Jobs] /\ unfinished \in [Jobs -> Int]
    BY DEF Graph!Init
  <2>2. phase \in [Workers -> Graph!Phases] /\ hand \in [Workers -> Jobs \cup {NoJob}]
    BY DEF Graph!Init, Graph!Phases
  <2>3. pending \in [Workers -> SUBSET Jobs]
    BY DEF Graph!Init
  <2>4. \A w \in Workers : phase[w] = "idle" <=> hand[w] = NoJob
    BY DEF Graph!Init
  <2> QED BY <2>1, <2>2, <2>3, <2>4 DEF Graph!TypeOK, Graph!Init
<1>2. HandsExist
  BY DEF HandsExist, Graph!Init
<1> QED BY <1>1, <1>2 DEF GraphInv

LEMMA GraphUnchanged ==
  ASSUME GraphInv, UNCHANGED graphVars
  PROVE  GraphInv'
BY DEF GraphInv, HandsExist, Graph!TypeOK, graphVars

LEMMA ConstructKeeps ==
  ASSUME GraphInv, NEW j, NEW deps, Graph!Construct(j, deps)
  PROVE  GraphInv'
BY DEF GraphInv, HandsExist, Graph!TypeOK, Graph!Construct, Graph!execVars

LEMMA ShareKeeps ==
  ASSUME GraphInv, Graph!Share
  PROVE  GraphInv'
BY DEF GraphInv, HandsExist, Graph!TypeOK, Graph!Share, Graph!execVars

LEMMA ClaimKeeps ==
  ASSUME GraphInv, NEW w \in Workers, NEW j, Graph!Claim(w, j)
  PROVE  GraphInv'
BY NoJobAssumption
   DEF GraphInv, HandsExist, Graph!TypeOK, Graph!Phases, Graph!Claim, Graph!jobVars

\* A worker inside Job::Execute.
LEMMA ExecuteKeeps ==
  ASSUME GraphInv, NEW w \in Workers,
         \/ Graph!Start(w)
         \/ Graph!Finish(w)
         \/ \E d \in Jobs : Graph!Signal(w, d)
         \/ Graph!Return(w)
  PROVE  GraphInv'
<1> USE NoJobAssumption DEF GraphInv, HandsExist, Graph!TypeOK, Graph!Phases
<1>1. CASE Graph!Start(w)
  BY <1>1 DEF Graph!Start, Graph!jobVars
<1>2. CASE Graph!Finish(w)
  <2>1. hand[w] \in created /\ hand[w] \in Jobs
    BY <1>2 DEF Graph!Finish
  <2>2. unfinished' \in [Jobs -> Int] /\ done' \subseteq created'
    BY <1>2, <2>1 DEF Graph!Finish
  <2>3. pending' \in [Workers -> SUBSET Jobs]
    BY <1>2, <2>1 DEF Graph!Finish
  <2> QED BY <1>2, <2>2, <2>3 DEF Graph!Finish
<1>3. ASSUME NEW d \in Jobs, Graph!Signal(w, d)
      PROVE  GraphInv'
  BY <1>3 DEF Graph!Signal
<1>4. CASE Graph!Return(w)
  BY <1>4 DEF Graph!Return, Graph!jobVars
<1> QED BY <1>1, <1>2, <1>3, <1>4

\* Every step but a deletion is one of Job or leaves the jobs alone.
LEMMA StepKeepsGraph ==
  ASSUME ~DeleteJobs, GraphInv, [Next]_vars
  PROVE  GraphInv'
<1>1. ASSUME NEW w \in Workers, WorkerNext(w)
      PROVE  GraphInv'
  <2>1. CASE ControlStep(w) \/ LookStep(w) \/ PopStep(w) \/ PushBackStep(w)
    BY <2>1, GraphUnchanged DEF ControlStep, LookStep, PopStep, PushBackStep
  <2>2. CASE JobStep(w)
    BY <2>2, GraphUnchanged, ClaimKeeps, ExecuteKeeps
       DEF JobStep, Recheck, Execute, Executed
  <2>3. CASE PopAgainStep(w) \/ StealStep(w)
    BY <2>3, GraphUnchanged, ClaimKeeps DEF PopAgainStep, StealStep, ClaimIfAny
  <2> QED BY <1>1, <2>1, <2>2, <2>3 DEF WorkerNext
<1>2. CASE MainNext
  <2>1. CASE AddStep
    BY <2>1, GraphUnchanged, ShareKeeps DEF AddStep, Pushed
  <2>2. CASE Create
    BY <2>2, ConstructKeeps DEF Create
  <2>3. CASE UNCHANGED graphVars
    BY <2>3, GraphUnchanged
  <2> QED BY <1>2, <2>1, <2>2, <2>3 DEF MainNext
<1>3. CASE QuitNext \/ (Quit /\ UNCHANGED <<graphVars, deques>>)
  BY <1>3, GraphUnchanged DEF QuitNext
<1>4. CASE \E w \in Workers :
             WorkerNext(w) \/ (SpuriousWakeup(w) /\ UNCHANGED <<graphVars, deques>>)
  <2>1. PICK w \in Workers :
          WorkerNext(w) \/ (SpuriousWakeup(w) /\ UNCHANGED <<graphVars, deques>>)
    BY <1>4
  <2>2. CASE WorkerNext(w)
    BY <2>2, <1>1
  <2>3. CASE SpuriousWakeup(w) /\ UNCHANGED <<graphVars, deques>>
    BY <2>3, GraphUnchanged
  <2> QED BY <2>1, <2>2, <2>3
<1>5. CASE UNCHANGED vars
  BY <1>5, GraphUnchanged DEF vars
<1> QED BY <1>2, <1>3, <1>4, <1>5 DEF Next

-----------------------------------------------------------------------------
(* The types of everything else.                                           *)

DequeInv == deques \in [Workers -> Seq(Jobs)]

ControlInv == WorkerInv /\ MainInv /\ QuitInv /\ DequeInv

LEMMA InitControl == Init => ControlInv
BY InitThreads DEF Init, ThreadsInv, ControlInv, DequeInv

-----------------------------------------------------------------------------
(* The deques.                                                             *)

LEMMA DequePop ==
  ASSUME DequeInv, NEW i \in Workers, NEW open \in BOOLEAN
  PROVE  /\ FrontJob(i, open) \in Jobs \cup {NoJob}
         /\ BackJob(i) \in Jobs \cup {NoJob}
         /\ PopFront(i, open) => DequeInv'
         /\ PopBack(i) => DequeInv'
<1>1. deques[i] \in Seq(Jobs)
  BY DEF DequeInv
<1>2. ASSUME deques[i] # <<>>
      PROVE  /\ Head(deques[i]) \in Jobs /\ deques[i][Len(deques[i])] \in Jobs
             /\ Tail(deques[i]) \in Seq(Jobs)
             /\ SubSeq(deques[i], 1, Len(deques[i]) - 1) \in Seq(Jobs)
  <2>1. Len(deques[i]) \in Nat \ {0}
    BY <1>1, <1>2
  <2>2. SubSeq(deques[i], 1, Len(deques[i]) - 1) \in Seq(Jobs)
    BY <1>1, <2>1
  <2> QED BY <1>1, <1>2, <2>1, <2>2
<1>3. FrontJob(i, open) \in Jobs \cup {NoJob}
  BY <1>2 DEF FrontJob
<1>4. BackJob(i) \in Jobs \cup {NoJob}
  BY <1>2 DEF BackJob
<1>5. FrontJob(i, open) # NoJob => Tail(deques[i]) \in Seq(Jobs)
  BY <1>2 DEF FrontJob
<1>6. BackJob(i) # NoJob => SubSeq(deques[i], 1, Len(deques[i]) - 1) \in Seq(Jobs)
  BY <1>2 DEF BackJob
<1>7. PopFront(i, open) => DequeInv'
  BY <1>5 DEF PopFront, DequeInv
<1>8. PopBack(i) => DequeInv'
  BY <1>6 DEF PopBack, DequeInv
<1> QED BY <1>3, <1>4, <1>7, <1>8

-----------------------------------------------------------------------------
(* Every step is one of the threads and one of the deques.                 *)

LEMMA StepIsMove ==
  ASSUME ControlInv, [Next]_vars
  PROVE  ControlMove
<1> USE DEF ControlInv, ControlMove
<1>1. \A i \in Workers : deques[i] \in Seq(Jobs)
  BY DEF DequeInv
<1>2. \A i \in Workers : Len(deques[i]) \in Nat
  BY <1>1
<1>3. ASSUME NEW w \in Workers, WorkerNext(w)
      PROVE  WorkerMove(w)
  <2>1. CASE ControlStep(w) \/ JobStep(w) \/ PushBackStep(w)
    BY <2>1 DEF ControlStep, JobStep, PushBackStep, WorkerMove
  <2>2. CASE LookStep(w)
    <3>1. \A i : HasExecutableJobs(i) \in BOOLEAN
      BY DEF HasExecutableJobs
    <3> QED BY <1>2, <2>2, <3>1 DEF LookStep, WorkerMove
  <2>3. CASE PopStep(w) \/ PopAgainStep(w)
    <3>1. \A open \in BOOLEAN : FrontJob(w, open) \in Jobs \cup {NoJob}
      BY DequePop
    <3>2. allowOpen[w] \in BOOLEAN
      BY DEF WorkerInv
    <3> QED BY <2>3, <3>1, <3>2 DEF PopStep, PopAgainStep, WorkerMove
  <2>4. CASE StealStep(w)
    <3>1. \A i \in Workers : BackJob(i) \in Jobs \cup {NoJob}
      BY DequePop
    <3> QED BY <2>4, <3>1 DEF StealStep, WorkerMove
  <2> QED BY <1>3, <2>1, <2>2, <2>3, <2>4 DEF WorkerNext
<1>4. CASE MainNext
  <2>1. CASE PollSize(Len(deques[index]))
    <3>1. index \in Workers
      BY <2>1, NumWorkersAssumption DEF PollSize, MainInv, Workers
    <3> QED BY <1>2, <2>1, <3>1 DEF MainMove
  <2> QED BY <1>4, <2>1 DEF MainNext, AddStep, MainMove
<1>5. CASE QuitNext \/ (Quit /\ UNCHANGED <<graphVars, deques>>)
  BY <1>5 DEF QuitNext, QuitMove
<1>6. CASE \E w \in Workers :
             WorkerNext(w) \/ (SpuriousWakeup(w) /\ UNCHANGED <<graphVars, deques>>)
  BY <1>3, <1>6 DEF WorkerMove
<1>7. CASE UNCHANGED vars
  BY <1>7 DEF vars, NoMove
<1> QED BY <1>4, <1>5, <1>6, <1>7 DEF Next

LEMMA StepKeepsDeques ==
  ASSUME ControlInv, [Next]_vars
  PROVE  DequeInv'
<1> USE DEF ControlInv
<1>1. CASE UNCHANGED deques
  BY <1>1 DEF DequeInv
<1>2. ASSUME NEW w \in Workers, WorkerNext(w)
      PROVE  DequeInv'
  <2>1. CASE PopStep(w) \/ PopAgainStep(w)
    <3>1. allowOpen[w] \in BOOLEAN
      BY DEF WorkerInv
    <3> QED BY <2>1, <3>1, DequePop DEF PopStep, PopAgainStep
  <2>2. CASE StealStep(w)
    BY <2>2, DequePop DEF StealStep
  <2>3. CASE PushBackStep(w)
    <3>1. popped[w] \in Jobs
      BY <2>3 DEF PushBackStep, PutBack, WorkerInv
    <3> QED BY <2>3, <3>1 DEF PushBackStep, PushBack, DequeInv
  <2> QED BY <1>1, <1>2, <2>1, <2>2, <2>3 DEF WorkerNext, ControlStep, LookStep, JobStep
<1>3. CASE AddStep
  <2>1. frame.add[index + 1] \in Jobs
    BY <1>3, PushedAdds DEF AddStep
  <2>2. <<frame.add[index + 1]>> \o deques[current] \in Seq(Jobs)
    BY <2>1 DEF MainInv, DequeInv
  <2> QED BY <1>3, <2>2 DEF AddStep, PushFront, DequeInv
<1>4. CASE Clear(quitIndex)
  <2>1. <<>> \in Seq(Jobs)
    OBVIOUS
  <2> QED BY <1>4, <2>1 DEF Clear, DequeInv
<1> QED BY <1>1, <1>2, <1>3, <1>4 DEF Next, MainNext, QuitNext, vars

LEMMA StepKeepsControl ==
  ASSUME ControlInv, [Next]_vars
  PROVE  ControlInv'
BY StepIsMove, StepKeepsDeques, ControlMoveKeeps DEF ControlInv, ThreadsInv

-----------------------------------------------------------------------------
(* What follows from the types.                                            *)

\* The type invariant, as long as no frame's jobs are deleted: a deletion does
\* not look whether a worker has a job in its hand, and only the run shows that
\* none has.
THEOREM TypeCorrect ==
  ASSUME MaxDeletes = 0
  PROVE  Spec => []TypeOK
<1> DEFINE IInv == GraphInv /\ ControlInv
<1>1. Init => IInv
  BY InitGraph, InitControl
<1>2. ASSUME IInv, [Next]_vars
      PROVE  IInv'
  <2>1. ~DeleteJobs
    BY <1>2 DEF DeleteJobs, ControlInv, MainInv
  <2> QED BY <1>2, <2>1, StepKeepsGraph, StepKeepsControl
<1>3. IInv => TypeOK
  BY DEF GraphInv, ControlInv, WorkerInv, MainInv, QuitInv, DequeInv, TypeOK,
         ControlTypeOK
<1> QED BY <1>1, <1>2, <1>3, PTL DEF Spec

-----------------------------------------------------------------------------
(* What the jobs see.                                                      *)

LEMMA StepIsJobMove ==
  ASSUME ~DeleteJobs, [Next]_vars
  PROVE  JobMove
<1>1. ASSUME NEW w \in Workers, WorkerNext(w)
      PROVE  JobMove
  BY <1>1 DEF WorkerNext, ControlStep, LookStep, JobStep, PopStep, PushBackStep,
       PopAgainStep, StealStep, ClaimIfAny, JobMove
<1>2. CASE UNCHANGED graphVars
  BY <1>2 DEF JobMove
<1>3. CASE MainNext
  BY <1>3 DEF MainNext, AddStep, JobMove
<1> QED BY <1>1, <1>2, <1>3 DEF Next, QuitNext, vars

\* Until the jobs are deleted, everything the workers and main_runner do to
\* them, whatever the deques hand to whom, is a behaviour of JobGraph: what
\* JobGraph promises of the counters and the order of the jobs holds here.
THEOREM JobGraphSpecThm ==
  ASSUME MaxDeletes = 0
  PROVE  Spec => JobGraphSpec
<1> DEFINE TInv == GraphInv /\ ControlInv
<1>1. Init => TInv /\ Graph!Init
  BY InitGraph, InitControl DEF Init, ControlInit
<1>2. ASSUME TInv, [Next]_vars
      PROVE  TInv' /\ [Graph!Next]_(Graph!vars)
  <2>1. ~DeleteJobs
    BY <1>2 DEF DeleteJobs, ControlInv, MainInv
  <2> QED BY <1>2, <2>1, StepKeepsGraph, StepKeepsControl, StepIsJobMove, JobMoveRefines
      DEF GraphInv
<1> QED BY <1>1, <1>2, PTL DEF Spec, JobGraphSpec, Graph!Spec

-----------------------------------------------------------------------------
(* No worker holds a job in secret.                                        *)

\* Where a worker is between its announcement and its retirement.
Announced ==
  {"size", "popfront", "recheck", "pushback", "resize", "repop", "steal",
   "execute", "retire", "yield"}

\* Only a worker that executes has a job in its hand, and until the user quits
\* only the worker itself withdraws its announcement.
HeldInv ==
  /\ created \subseteq Jobs
  /\ hand \in [Workers -> Jobs \cup {NoJob}]
  /\ \A w \in Workers : hand[w] # NoJob => pc[w] = "execute"
  /\ \A w \in Workers : pc[w] \in Announced => jobRunning[w]
  /\ quitPc = "waiting"

\* A step that neither moves a job to a hand nor a worker past its announcement.
LEMMA HeldKept ==
  ASSUME HeldInv, created' \subseteq Jobs, UNCHANGED <<hand, jobRunning, quitPc>>,
         \A v \in Workers :
           \/ pc'[v] = pc[v]
           \/ hand[v] = NoJob /\ (pc'[v] \in Announced => pc[v] \in Announced)
  PROVE  HeldInv'
BY DEF HeldInv

LEMMA WorkerKeepsHeld ==
  ASSUME ControlInv, HeldInv, NEW w \in Workers, WorkerNext(w)
  PROVE  HeldInv'
<1>1. WorkerInv
  BY DEF ControlInv
<1>2. hand[w] # NoJob => pc[w] = "execute"
  BY DEF HeldInv
<1>3. created \subseteq Jobs
  BY DEF HeldInv
<1>4. ASSUME NEW j \in Jobs, Graph!Claim(w, j), pc[w] \in Announced,
             Goto(w, "execute"), UNCHANGED <<jobRunning, quitPc>>
      PROVE  HeldInv'
  <2>1. hand' = [hand EXCEPT ![w] = j] /\ created' = created
    BY <1>4 DEF Graph!Claim, Graph!jobVars
  <2>2. pc' = [pc EXCEPT ![w] = "execute"]
    BY <1>4 DEF Goto
  <2> QED BY <1>1, <1>4, <2>1, <2>2 DEF HeldInv, WorkerInv, Announced
<1>5. CASE ControlStep(w)
  <2>1. UNCHANGED <<hand, created>>
    BY <1>5 DEF ControlStep, graphVars
  <2>2. CASE WakeNotify(w)
    BY <1>1, <1>2, <1>3, <2>1, <2>2, HeldKept
       DEF WakeNotify, Awakened, AfterTarget, WorkerInv, Announced, quitVars, HeldInv
  <2>3. CASE Loop(w) \/ LockAwake(w) \/ Sleep(w) \/ NothingToSteal(w)
    BY <1>1, <1>2, <1>3, <2>1, <2>3, HeldKept
       DEF Loop, LockAwake, Sleep, NothingToSteal, Goto, WorkerInv, Announced, quitVars
  <2>4. CASE Announce(w) \/ Retire(w)
    BY <1>1, <2>1, <2>4
       DEF Announce, Retire, Goto, WorkerInv, Announced, quitVars, HeldInv
  <2> QED BY <1>5, <2>2, <2>3, <2>4 DEF ControlStep
<1>6. CASE LookStep(w)
  <2>1. UNCHANGED <<hand, created, jobRunning, quitPc>>
    BY <1>6 DEF LookStep, Check, WakeUp, TestCondition, ReadSize, ReadSizeAgain,
         graphVars, quitVars
  <2>2. CASE WakeUp(w, HasExecutableJobs(target[w]))
    BY <1>1, <1>2, <1>3, <2>1, <2>2, HeldKept
       DEF WakeUp, Goto, AfterTarget, WorkerInv, Announced
  <2>3. CASE Check(w, HasExecutableJobs(w)) \/ TestCondition(w, HasExecutableJobs(w))
    BY <1>1, <1>2, <1>3, <2>1, <2>3, HeldKept
       DEF Check, TestCondition, Goto, WorkerInv, Announced
  <2>4. CASE ReadSize(w, Len(deques[w])) \/ ReadSizeAgain(w, Len(deques[w]))
    BY <1>1, <1>2, <1>3, <2>1, <2>4, HeldKept
       DEF ReadSize, ReadSizeAgain, Goto, WorkerInv, Announced
  <2> QED BY <1>6, <2>2, <2>3, <2>4 DEF LookStep
<1>7. CASE JobStep(w)
  <2>1. CASE Recheck(w)
    <3>1. popped[w] \in Jobs
      BY <1>1, <2>1 DEF Recheck, WorkerInv
    <3>2. CASE Graph!Claim(w, popped[w]) /\ Goto(w, "execute")
      BY <1>4, <2>1, <3>1, <3>2 DEF Recheck, quitVars, Announced
    <3>3. CASE Goto(w, "pushback") /\ UNCHANGED graphVars
      BY <1>1, <1>2, <1>3, <2>1, <3>3, HeldKept
         DEF Recheck, Goto, WorkerInv, Announced, quitVars, graphVars
    <3> QED BY <2>1, <3>2, <3>3 DEF Recheck
  <2>2. CASE Execute(w)
    <3>1. UNCHANGED <<hand, created>>
      BY <2>2 DEF Execute, Graph!Start, Graph!Finish, Graph!Signal, Graph!jobVars
    <3> QED BY <1>3, <2>2, <3>1, HeldKept DEF Execute, workerVars, quitVars
  <2>3. CASE Executed(w)
    BY <1>1, <2>3
       DEF Executed, Graph!Return, Graph!jobVars, Goto, WorkerInv, Announced,
           quitVars, HeldInv
  <2> QED BY <1>7, <2>1, <2>2, <2>3 DEF JobStep
<1>8. CASE PopStep(w) \/ PushBackStep(w)
  BY <1>1, <1>2, <1>3, <1>8, HeldKept
     DEF PopStep, PopOwn, PushBackStep, PutBack, Goto, WorkerInv, Announced, quitVars,
         graphVars
<1>9. CASE PopAgainStep(w)
  <2>1. FrontJob(w, FALSE) \in Jobs \cup {NoJob}
    BY DequePop DEF ControlInv
  <2>2. CASE FrontJob(w, FALSE) = NoJob
    BY <1>1, <1>2, <1>3, <1>9, <2>2, HeldKept
       DEF PopAgainStep, PopOwnAgain, ClaimIfAny, Goto, WorkerInv, Announced, quitVars,
           graphVars
  <2>3. CASE FrontJob(w, FALSE) \in Jobs
    BY <1>4, <1>9, <2>3, NoJobAssumption
       DEF PopAgainStep, PopOwnAgain, ClaimIfAny, Announced, quitVars
  <2> QED BY <2>1, <2>2, <2>3
<1>10. CASE StealStep(w)
  <2>1. PICK victim \in Workers \ {w} :
          Steal(w, BackJob(victim)) /\ ClaimIfAny(w, BackJob(victim))
    BY <1>10 DEF StealStep
  <2>2. BackJob(victim) \in Jobs \cup {NoJob}
    BY DequePop DEF ControlInv
  <2>3. CASE BackJob(victim) = NoJob
    BY <1>1, <1>2, <1>3, <2>1, <2>3, HeldKept
       DEF Steal, ClaimIfAny, Goto, WorkerInv, Announced, quitVars, graphVars
  <2>4. CASE BackJob(victim) \in Jobs
    BY <1>4, <2>1, <2>4, NoJobAssumption DEF Steal, ClaimIfAny, Announced, quitVars
  <2> QED BY <2>2, <2>3, <2>4
<1> QED BY <1>5, <1>6, <1>7, <1>8, <1>9, <1>10 DEF WorkerNext

LEMMA MainKeepsHeld ==
  ASSUME ControlInv, HeldInv, MainNext
  PROVE  HeldInv'
<1>1. UNCHANGED <<hand, jobRunning, quitPc>>
  BY DEF MainNext, AddStep, Pushed, Create, DeleteJobs, Attach, NextFrame,
         NotifyWorker, PollSize, PollRunning, workerVars, quitVars, graphVars,
         Graph!Share, Graph!Construct, Graph!execVars
<1>2. created' \subseteq Jobs
  <2>1. CASE Create
    BY <2>1 DEF Create, Graph!Construct, HeldInv
  <2>2. CASE AddStep
    BY <2>2 DEF AddStep, Pushed, Graph!Share, graphVars, HeldInv
  <2>3. CASE DeleteJobs
    BY <2>3 DEF DeleteJobs, Graph!Reset
  <2>4. CASE UNCHANGED graphVars
    BY <2>4 DEF graphVars, HeldInv
  <2> QED BY <2>1, <2>2, <2>3, <2>4 DEF MainNext
<1>3. CASE UNCHANGED pc
  BY <1>1, <1>2, <1>3, HeldKept
<1>4. CASE NotifyWorker
  <2>1. WorkerInv /\ current \in Workers
    BY DEF ControlInv, MainInv
  <2>2. \A v \in Workers :
          pc'[v] = pc[v] \/ (pc[v] = "asleep" /\ pc'[v] = "wait")
    BY <1>4, <2>1 DEF NotifyWorker, Awakened, WorkerInv
  <2>3. \A v \in Workers : pc[v] = "asleep" => hand[v] = NoJob
    BY DEF HeldInv
  <2> QED BY <1>1, <1>2, <2>2, <2>3, HeldKept DEF Announced
<1> QED BY <1>3, <1>4
    DEF MainNext, AddStep, Pushed, Create, DeleteJobs, Attach, NextFrame, PollSize,
        PollRunning, workerVars

LEMMA StepKeepsHeld ==
  ASSUME QuitFrames = {}, ControlInv, HeldInv, [Next]_vars
  PROVE  HeldInv'
<1>1. ~QuitNext /\ ~Quit
  BY DEF HeldInv, QuitNext, Cleared, Halt, Silence, NotifyStop, Join, Quit
<1>2. CASE UNCHANGED vars
  BY <1>2 DEF vars, graphVars, workerVars, quitVars, HeldInv
<1>3. CASE \E w \in Workers :
             WorkerNext(w) \/ (SpuriousWakeup(w) /\ UNCHANGED <<graphVars, deques>>)
  <2>1. PICK w \in Workers :
          WorkerNext(w) \/ (SpuriousWakeup(w) /\ UNCHANGED <<graphVars, deques>>)
    BY <1>3
  <2>2. CASE WorkerNext(w)
    BY <2>2, WorkerKeepsHeld
  <2>3. CASE SpuriousWakeup(w) /\ UNCHANGED <<graphVars, deques>>
    BY <2>3, HeldKept
       DEF SpuriousWakeup, Goto, ControlInv, WorkerInv, HeldInv, Announced, quitVars,
           graphVars
  <2> QED BY <2>1, <2>2, <2>3
<1>4. CASE MainNext
  BY <1>4, MainKeepsHeld
<1> QED BY <1>1, <1>2, <1>3, <1>4 DEF Next

\* There is no moment before the user quits in which AllJobsFinished overlooks
\* a job that a worker holds, however many workers there are and whatever the
\* frames and their deletions.
THEOREM HeldJobIsAnnouncedThm ==
  ASSUME QuitFrames = {}
  PROVE  Spec => []HeldJobIsAnnounced
<1> DEFINE IInv == ControlInv /\ HeldInv
<1>1. Init => IInv
  BY InitControl
     DEF Init, ControlInit, Graph!Init, HeldInv, Announced
<1>2. ASSUME IInv, [Next]_vars
      PROVE  IInv'
  BY <1>2, StepKeepsControl, StepKeepsHeld
<1>3. IInv => HeldJobIsAnnounced
  BY DEF ControlInv, WorkerInv, HeldInv, HeldJobIsAnnounced, Announced
<1> QED BY <1>1, <1>2, <1>3, PTL DEF Spec

-----------------------------------------------------------------------------
(* Where the jobs are.                                                     *)

\* The jobs in the deque of i, and the places of a job.
Ent(i) == Entries(deques[i])

Somewhere(j) == \E w \in Workers : j \in Ent(w) \/ popped[w] = j \/ hand[w] = j

NoRepeat(q) == \A k, l \in DOMAIN q : q[k] = q[l] => k = l

\* A deque has no job twice.
Distinct == \A i \in Workers : NoRepeat(deques[i])

\* No two places have the same job.
Separate ==
  \A v, w \in Workers : \A j \in Jobs :
    /\ j \in Ent(v) /\ j \in Ent(w) => v = w
    /\ popped[v] = j /\ popped[w] = j => v = w
    /\ hand[v] = j /\ hand[w] = j => v = w
    /\ j \in Ent(v) => popped[w] # j /\ hand[w] # j
    /\ popped[v] = j => hand[w] # j

\* A job that is done is nowhere but with the worker that signals its dependants.
DoneGone ==
  /\ \A w \in Workers : Ent(w) \cap done = {} /\ popped[w] \notin done
  /\ \A w \in Workers : phase[w] = "signalling" => hand[w] \in done

\* Nothing else is in a place, and until the user quits all of it is in one.
AddedInv ==
  /\ done \subseteq Added
  /\ \A j \in Jobs : Somewhere(j) => j \in Added
  /\ isRunning => \A j \in Jobs : j \in Added \ done => Somewhere(j)
  /\ isRunning => quitPc = "waiting"

PlaceInv == Distinct /\ Separate /\ DoneGone /\ AddedInv

IInv == GraphInv /\ ControlInv /\ BuildInv /\ PlaceInv

-----------------------------------------------------------------------------
(* Sequences without repetitions.                                          *)

LEMMA TailRemoves ==
  ASSUME NEW S, NEW q \in Seq(S), q # <<>>, NoRepeat(q)
  PROVE  /\ Head(q) \in Entries(q)
         /\ NoRepeat(Tail(q))
         /\ Entries(Tail(q)) = Entries(q) \ {Head(q)}
<1>1. Len(q) \in Nat \ {0} /\ DOMAIN q = 1 .. Len(q) /\ Head(q) = q[1]
  OBVIOUS
<1>2. Tail(q) \in Seq(S) /\ DOMAIN Tail(q) = 1 .. Len(q) - 1
  BY <1>1
<1>3. \A k \in 1 .. Len(q) - 1 : Tail(q)[k] = q[k + 1]
  BY <1>1
<1>4. Head(q) \in Entries(q)
  BY <1>1 DEF Entries
<1>5. NoRepeat(Tail(q))
  BY <1>1, <1>2, <1>3 DEF NoRepeat
<1>6. ASSUME NEW j \in Entries(q), j # Head(q)
      PROVE  j \in Entries(Tail(q))
  <2>1. PICK k \in 1 .. Len(q) : j = q[k]
    BY <1>1 DEF Entries
  <2>2. k - 1 \in 1 .. Len(q) - 1 /\ Tail(q)[k - 1] = j
    BY <1>1, <1>3, <1>6, <2>1
  <2> QED BY <1>2, <2>2 DEF Entries
<1>7. ASSUME NEW j \in Entries(Tail(q))
      PROVE  j \in Entries(q) \ {Head(q)}
  <2>1. PICK k \in 1 .. Len(q) - 1 : j = Tail(q)[k]
    BY <1>2 DEF Entries
  <2>2. j = q[k + 1] /\ k + 1 \in 1 .. Len(q) /\ k + 1 # 1
    BY <1>1, <1>3, <2>1
  <2> QED BY <1>1, <2>2 DEF Entries, NoRepeat
<1> QED BY <1>4, <1>5, <1>6, <1>7

LEMMA FrontRemoves ==
  ASSUME NEW S, NEW q \in Seq(S), q # <<>>, NoRepeat(q)
  PROVE  /\ q[Len(q)] \in Entries(q)
         /\ NoRepeat(SubSeq(q, 1, Len(q) - 1))
         /\ Entries(SubSeq(q, 1, Len(q) - 1)) = Entries(q) \ {q[Len(q)]}
<1> DEFINE front == SubSeq(q, 1, Len(q) - 1)
<1>1. Len(q) \in Nat \ {0} /\ DOMAIN q = 1 .. Len(q)
  OBVIOUS
<1>2. DOMAIN front = 1 .. Len(q) - 1
  BY <1>1
<1>3. \A k \in 1 .. Len(q) - 1 : front[k] = q[k]
  BY <1>1
<1> HIDE DEF front
<1>4. q[Len(q)] \in Entries(q)
  BY <1>1 DEF Entries
<1>5. NoRepeat(front)
  BY <1>1, <1>2, <1>3 DEF NoRepeat
<1>6. ASSUME NEW j \in Entries(q), j # q[Len(q)]
      PROVE  j \in Entries(front)
  <2>1. PICK k \in 1 .. Len(q) : j = q[k]
    BY <1>1 DEF Entries
  <2>2. k \in 1 .. Len(q) - 1 /\ front[k] = j
    BY <1>1, <1>3, <1>6, <2>1
  <2> QED BY <1>2, <2>2 DEF Entries
<1>7. ASSUME NEW j \in Entries(front)
      PROVE  j \in Entries(q) \ {q[Len(q)]}
  <2>1. PICK k \in 1 .. Len(q) - 1 : j = front[k]
    BY <1>2 DEF Entries
  <2>2. j = q[k]
    BY <1>3, <2>1
  <2>3. k \in DOMAIN q /\ Len(q) \in DOMAIN q /\ k # Len(q)
    <3>1. \A n \in Nat \ {0} : n \in 1 .. n
                              /\ \A m \in 1 .. n - 1 : m \in 1 .. n /\ m # n
      OBVIOUS
    <3> QED BY <1>1, <2>1, <3>1
  <2>4. j \in Entries(q)
    BY <2>2, <2>3 DEF Entries
  <2>5. j # q[Len(q)]
    BY <2>2, <2>3 DEF NoRepeat
  <2> QED BY <2>4, <2>5
<1> QED BY <1>4, <1>5, <1>6, <1>7 DEF front

LEMMA ConsAdds ==
  ASSUME NEW S, NEW q \in Seq(S), NEW j \in S, j \notin Entries(q), NoRepeat(q)
  PROVE  NoRepeat(<<j>> \o q) /\ Entries(<<j>> \o q) = Entries(q) \cup {j}
<1> DEFINE r == <<j>> \o q
<1>1. Len(q) \in Nat /\ DOMAIN q = 1 .. Len(q) /\ DOMAIN r = 1 .. Len(q) + 1
  OBVIOUS
<1>2. r[1] = j /\ \A k \in 1 .. Len(q) : r[k + 1] = q[k]
  BY <1>1
<1> HIDE DEF r
<1>3. \A k \in 1 .. Len(q) : q[k] \in Entries(q)
  BY <1>1 DEF Entries
<1>4. \A k \in 2 .. Len(q) + 1 : k - 1 \in 1 .. Len(q) /\ r[k] = q[k - 1]
  BY <1>1, <1>2
<1>5. NoRepeat(r)
  <2> SUFFICES ASSUME NEW k \in 1 .. Len(q) + 1, NEW l \in 1 .. Len(q) + 1, r[k] = r[l]
               PROVE  k = l
    BY <1>1 DEF NoRepeat
  <2>1. k = 1 \/ k \in 2 .. Len(q) + 1
    BY <1>1
  <2>2. l = 1 \/ l \in 2 .. Len(q) + 1
    BY <1>1
  <2> QED BY <1>1, <1>2, <1>3, <1>4, <2>1, <2>2 DEF NoRepeat
<1>6. Entries(r) = Entries(q) \cup {j}
  <2>1. ASSUME NEW x \in Entries(r)
        PROVE  x \in Entries(q) \cup {j}
    <3>1. PICK k \in 1 .. Len(q) + 1 : x = r[k]
      BY <1>1 DEF Entries
    <3>2. k = 1 \/ k \in 2 .. Len(q) + 1
      BY <1>1
    <3> QED BY <1>2, <1>3, <1>4, <3>1, <3>2
  <2>2. ASSUME NEW x \in Entries(q)
        PROVE  x \in Entries(r)
    <3>1. PICK k \in 1 .. Len(q) : x = q[k]
      BY <1>1 DEF Entries
    <3>2. k + 1 \in DOMAIN r /\ r[k + 1] = x
      BY <1>1, <1>2, <3>1
    <3> QED BY <3>2 DEF Entries
  <2>3. j \in Entries(r)
    BY <1>1, <1>2 DEF Entries
  <2> QED BY <2>1, <2>2, <2>3
<1> QED BY <1>5, <1>6 DEF r

LEMMA AppendAdds ==
  ASSUME NEW S, NEW q \in Seq(S), NEW j \in S, j \notin Entries(q), NoRepeat(q)
  PROVE  NoRepeat(Append(q, j)) /\ Entries(Append(q, j)) = Entries(q) \cup {j}
<1> DEFINE r == Append(q, j)
<1>1. Len(q) \in Nat /\ DOMAIN q = 1 .. Len(q) /\ DOMAIN r = 1 .. Len(q) + 1
  OBVIOUS
<1>2. r[Len(q) + 1] = j /\ \A k \in 1 .. Len(q) : r[k] = q[k]
  BY <1>1
<1> HIDE DEF r
<1>3. \A k \in 1 .. Len(q) : q[k] \in Entries(q)
  BY <1>1 DEF Entries
<1>4. \A k \in 1 .. Len(q) + 1 : k \in 1 .. Len(q) \/ k = Len(q) + 1
  BY <1>1
<1>5. NoRepeat(r)
  BY <1>1, <1>2, <1>3, <1>4 DEF NoRepeat
<1>6. Entries(r) = Entries(q) \cup {j}
  <2>1. \A x \in Entries(r) : x \in Entries(q) \cup {j}
    BY <1>1, <1>2, <1>3, <1>4 DEF Entries
  <2>2. \A x \in Entries(q) : x \in Entries(r)
    BY <1>1, <1>2 DEF Entries
  <2>3. j \in Entries(r)
    BY <1>1, <1>2 DEF Entries
  <2> QED BY <2>1, <2>2, <2>3
<1> QED BY <1>5, <1>6 DEF r

-----------------------------------------------------------------------------
(* The operations of a deque as the places see them.                       *)

\* A deque loses one of its jobs, or gets one it has not.
Taken(i, j) ==
  /\ j \in Ent(i)
  /\ Ent(i)' = Ent(i) \ {j}
  /\ \A k \in Workers \ {i} : Ent(k)' = Ent(k)

Put(i, j) ==
  /\ Ent(i)' = Ent(i) \cup {j}
  /\ \A k \in Workers \ {i} : Ent(k)' = Ent(k)

LEMMA DequeReplaced ==
  ASSUME DequeInv, Distinct, NEW i \in Workers, NEW q, NoRepeat(q),
         deques' = [deques EXCEPT ![i] = q]
  PROVE  /\ Distinct'
         /\ Ent(i)' = Entries(q)
         /\ \A k \in Workers \ {i} : Ent(k)' = Ent(k)
<1>1. deques'[i] = q /\ \A k \in Workers \ {i} : deques'[k] = deques[k]
  BY DEF DequeInv
<1>2. \A k \in Workers : NoRepeat(deques'[k])
  BY <1>1 DEF Distinct
<1> QED BY <1>1, <1>2 DEF Distinct, Ent

LEMMA DequeSame ==
  ASSUME Distinct, UNCHANGED deques
  PROVE  Distinct' /\ \A k \in Workers : Ent(k)' = Ent(k)
BY DEF Distinct, Ent

LEMMA EntriesAreJobs ==
  ASSUME DequeInv, NEW i \in Workers
  PROVE  Ent(i) \subseteq Jobs
<1>1. deques[i] \in Seq(Jobs)
  BY DEF DequeInv
<1> QED BY <1>1 DEF Ent, Entries

\* PopFront and PopBack take the job they answer, and nothing if they answer none.
LEMMA PopTakes ==
  ASSUME DequeInv, Distinct, NEW i \in Workers, NEW open \in BOOLEAN, NEW j,
         \/ PopFront(i, open) /\ j = FrontJob(i, open)
         \/ PopBack(i) /\ j = BackJob(i)
  PROVE  /\ Distinct'
         /\ j = NoJob => UNCHANGED deques
         /\ j # NoJob => Taken(i, j)
<1>1. deques[i] \in Seq(Jobs) /\ NoRepeat(deques[i])
  BY DEF DequeInv, Distinct
<1>2. CASE j = NoJob
  <2>1. deques' = [deques EXCEPT ![i] = deques[i]]
    BY <1>2 DEF PopFront, PopBack
  <2>2. UNCHANGED deques
    BY <2>1 DEF DequeInv
  <2> QED BY <1>2, <2>2, DequeSame
<1>3. CASE j # NoJob /\ PopFront(i, open) /\ j = FrontJob(i, open)
  <2>1. deques[i] # <<>> /\ j = Head(deques[i])
    BY <1>3 DEF FrontJob
  <2>2. deques' = [deques EXCEPT ![i] = Tail(deques[i])]
    BY <1>3 DEF PopFront
  <2>3. j \in Ent(i) /\ NoRepeat(Tail(deques[i])) /\ Entries(Tail(deques[i])) = Ent(i) \ {j}
    BY <1>1, <2>1, TailRemoves DEF Ent
  <2> QED BY <1>3, <2>2, <2>3, DequeReplaced DEF Taken
<1>4. CASE j # NoJob /\ PopBack(i) /\ j = BackJob(i)
  <2> DEFINE front == SubSeq(deques[i], 1, Len(deques[i]) - 1)
  <2>1. deques[i] # <<>> /\ j = deques[i][Len(deques[i])]
    BY <1>4 DEF BackJob
  <2>2. deques' = [deques EXCEPT ![i] = front]
    BY <1>4 DEF PopBack
  <2>3. j \in Ent(i) /\ NoRepeat(front) /\ Entries(front) = Ent(i) \ {j}
    BY <1>1, <2>1, FrontRemoves DEF Ent
  <2> HIDE DEF front
  <2> QED BY <1>4, <2>2, <2>3, DequeReplaced DEF Taken
<1> QED BY <1>2, <1>3, <1>4

LEMMA PushPuts ==
  ASSUME DequeInv, Distinct, NEW i \in Workers, NEW j \in Jobs, j \notin Ent(i),
         PushFront(i, j) \/ PushBack(i, j)
  PROVE  Distinct' /\ Put(i, j)
<1>1. deques[i] \in Seq(Jobs) /\ NoRepeat(deques[i]) /\ j \notin Entries(deques[i])
  BY DEF DequeInv, Distinct, Ent
<1>2. CASE PushFront(i, j)
  <2> DEFINE q == <<j>> \o deques[i]
  <2>1. deques' = [deques EXCEPT ![i] = q]
    BY <1>2 DEF PushFront
  <2>2. NoRepeat(q) /\ Entries(q) = Ent(i) \cup {j}
    BY <1>1, ConsAdds DEF Ent
  <2> HIDE DEF q
  <2> QED BY <2>1, <2>2, DequeReplaced DEF Put
<1>3. CASE PushBack(i, j)
  <2> DEFINE q == Append(deques[i], j)
  <2>1. deques' = [deques EXCEPT ![i] = q]
    BY <1>3 DEF PushBack
  <2>2. NoRepeat(q) /\ Entries(q) = Ent(i) \cup {j}
    BY <1>1, AppendAdds DEF Ent
  <2> HIDE DEF q
  <2> QED BY <2>1, <2>2, DequeReplaced DEF Put
<1> QED BY <1>2, <1>3

-----------------------------------------------------------------------------
(* The ways of a job.                                                      *)

\* What a worker does leaves main_runner and main alone.
OtherThreads ==
  UNCHANGED <<mainPc, frame, index, created, isRunning, quitPc>>

\* What AddedInv and CreatedInv need of such a step.
LEMMA AddedKept ==
  ASSUME AddedInv, OtherThreads,
         done' \subseteq Added,
         \A j \in Jobs : Somewhere(j)' => Somewhere(j),
         \A j \in Jobs \ done' : Somewhere(j) => Somewhere(j)',
         done \subseteq done'
  PROVE  AddedInv'
<1>1. Added' = Added
  BY DEF Added, AddedCount, OtherThreads
<1> QED BY <1>1 DEF AddedInv, OtherThreads

\* No job changes its place.
LEMMA AllStay ==
  ASSUME PlaceInv, OtherThreads, UNCHANGED <<deques, popped, hand, done>>,
         \A w \in Workers : phase'[w] = "signalling" => phase[w] = "signalling"
  PROVE  PlaceInv'
<1>1. Distinct' /\ \A k \in Workers : Ent(k)' = Ent(k)
  BY DequeSame DEF PlaceInv
<1>2. Separate' /\ DoneGone'
  BY <1>1 DEF PlaceInv, Separate, DoneGone
<1>3. AddedInv'
  BY <1>1, AddedKept DEF PlaceInv, AddedInv, Somewhere
<1> QED BY <1>1, <1>2, <1>3 DEF PlaceInv

\* A worker takes a job out of a deque into popped.
LEMMA DequeToPopped ==
  ASSUME PlaceInv, DequeInv, WorkerInv, OtherThreads, UNCHANGED <<hand, done, phase>>,
         NEW w \in Workers, NEW i \in Workers, NEW j \in Jobs,
         Distinct', Taken(i, j), popped[w] = NoJob,
         popped' = [popped EXCEPT ![w] = j]
  PROVE  PlaceInv'
<1>1. popped' \in [Workers -> Jobs \cup {NoJob}] /\ popped'[w] = j
      /\ \A v \in Workers \ {w} : popped'[v] = popped[v]
  BY DEF WorkerInv
<1>2. Separate'
  BY <1>1, NoJobAssumption DEF PlaceInv, Separate, Taken
<1>3. DoneGone'
  BY <1>1 DEF PlaceInv, DoneGone, Taken
<1>4. \A x \in Jobs : Somewhere(x)' <=> Somewhere(x)
  BY <1>1, NoJobAssumption DEF Somewhere, Taken
<1>5. AddedInv'
  BY <1>4, AddedKept DEF PlaceInv, AddedInv
<1> QED BY <1>2, <1>3, <1>5 DEF PlaceInv

\* A worker puts the job of popped into its deque.
LEMMA PoppedToDeque ==
  ASSUME GraphInv, PlaceInv, DequeInv, WorkerInv, OtherThreads,
         UNCHANGED <<hand, done, phase>>,
         NEW w \in Workers, NEW j \in Jobs, popped[w] = j,
         PushBack(w, j), popped' = [popped EXCEPT ![w] = NoJob]
  PROVE  PlaceInv'
<1>1. popped'[w] = NoJob /\ \A v \in Workers \ {w} : popped'[v] = popped[v]
  BY DEF WorkerInv
<1>2. Distinct' /\ Put(w, j)
  BY PushPuts DEF PlaceInv, Separate
<1>3. Separate'
  BY <1>1, <1>2, NoJobAssumption DEF PlaceInv, Separate, Put
<1>4. DoneGone'
  <2>1. NoJob \notin done'
    BY NoJobAssumption DEF GraphInv, Graph!TypeOK
  <2> QED BY <1>1, <1>2, <2>1 DEF PlaceInv, DoneGone, Put
<1>5. \A x \in Jobs : Somewhere(x)' <=> Somewhere(x)
  BY <1>1, <1>2, NoJobAssumption DEF Somewhere, Put
<1>6. AddedInv'
  BY <1>5, AddedKept DEF PlaceInv, AddedInv
<1> QED BY <1>2, <1>3, <1>4, <1>6 DEF PlaceInv

\* A worker takes the job of popped, or one out of a deque, to execute it.
LEMMA PoppedToHand ==
  ASSUME GraphInv, PlaceInv, WorkerInv, OtherThreads, UNCHANGED deques,
         NEW w \in Workers, NEW j \in Jobs, popped[w] = j, Graph!Claim(w, j),
         popped' = [popped EXCEPT ![w] = NoJob]
  PROVE  PlaceInv'
<1>1. popped'[w] = NoJob /\ \A v \in Workers \ {w} : popped'[v] = popped[v]
  BY DEF WorkerInv
<1>2. hand[w] = NoJob /\ hand'[w] = j /\ \A v \in Workers \ {w} : hand'[v] = hand[v]
  BY DEF GraphInv, Graph!TypeOK, Graph!Claim
<1>3. done' = done
      /\ \A v \in Workers : phase'[v] = "signalling" => phase[v] = "signalling" /\ v # w
  BY DEF GraphInv, Graph!TypeOK, Graph!Claim, Graph!jobVars
<1>4. Distinct' /\ \A k \in Workers : Ent(k)' = Ent(k)
  BY DequeSame DEF PlaceInv
<1>5. Separate'
  BY <1>1, <1>2, <1>4, NoJobAssumption DEF PlaceInv, Separate
<1>6. DoneGone'
  <2>1. NoJob \notin done
    BY NoJobAssumption DEF GraphInv, Graph!TypeOK
  <2> QED BY <1>1, <1>2, <1>3, <1>4, <2>1 DEF PlaceInv, DoneGone
<1>7. \A x \in Jobs : Somewhere(x)' <=> Somewhere(x)
  BY <1>1, <1>2, <1>4, NoJobAssumption DEF Somewhere
<1>8. AddedInv'
  BY <1>3, <1>7, AddedKept DEF PlaceInv, AddedInv
<1> QED BY <1>4, <1>5, <1>6, <1>8 DEF PlaceInv

LEMMA DequeToHand ==
  ASSUME GraphInv, PlaceInv, DequeInv, OtherThreads, UNCHANGED popped,
         NEW w \in Workers, NEW i \in Workers, NEW j \in Jobs,
         Distinct', Taken(i, j), Graph!Claim(w, j)
  PROVE  PlaceInv'
<1>1. hand[w] = NoJob /\ hand'[w] = j /\ \A v \in Workers \ {w} : hand'[v] = hand[v]
  BY DEF GraphInv, Graph!TypeOK, Graph!Claim
<1>2. done' = done
      /\ \A v \in Workers : phase'[v] = "signalling" => phase[v] = "signalling" /\ v # w
  BY DEF GraphInv, Graph!TypeOK, Graph!Claim, Graph!jobVars
<1>3. Separate'
  BY <1>1, NoJobAssumption DEF PlaceInv, Separate, Taken
<1>4. DoneGone'
  BY <1>1, <1>2 DEF PlaceInv, DoneGone, Taken
<1>5. \A x \in Jobs : Somewhere(x)' <=> Somewhere(x)
  BY <1>1, NoJobAssumption DEF Somewhere, Taken
<1>6. AddedInv'
  BY <1>2, <1>5, AddedKept DEF PlaceInv, AddedInv
<1> QED BY <1>3, <1>4, <1>6 DEF PlaceInv

\* A worker inside Job::Execute.
LEMMA ExecuteKeepsPlaces ==
  ASSUME GraphInv, PlaceInv, OtherThreads, UNCHANGED <<deques, popped>>,
         NEW w \in Workers,
         \/ Graph!Start(w)
         \/ Graph!Finish(w)
         \/ \E d \in Jobs : Graph!Signal(w, d)
         \/ Graph!Return(w)
  PROVE  PlaceInv'
<1> USE DEF GraphInv, Graph!TypeOK
<1>1. CASE Graph!Start(w)
  BY <1>1, AllStay DEF Graph!Start, Graph!jobVars
<1>2. CASE Graph!Finish(w)
  <2>1. hand[w] # NoJob /\ hand[w] \in Jobs
    BY <1>2 DEF Graph!Finish
  <2>2. done' = done \cup {hand[w]} /\ UNCHANGED hand
        /\ \A v \in Workers : phase'[v] = "signalling" => phase[v] = "signalling" \/ v = w
    BY <1>2 DEF Graph!Finish
  <2>3. Distinct' /\ \A k \in Workers : Ent(k)' = Ent(k)
    BY DequeSame DEF PlaceInv
  <2>4. Separate'
    BY <2>2, <2>3 DEF PlaceInv, Separate
  <2>5. DoneGone'
    BY <2>1, <2>2, <2>3 DEF PlaceInv, DoneGone, Separate
  <2>6. AddedInv'
    <3>1. hand[w] \in Added
      BY <2>1 DEF PlaceInv, AddedInv, Somewhere
    <3>2. \A x \in Jobs : Somewhere(x)' <=> Somewhere(x)
      BY <2>2, <2>3 DEF Somewhere
    <3> QED BY <2>2, <3>1, <3>2, AddedKept DEF PlaceInv, AddedInv
  <2> QED BY <2>3, <2>4, <2>5, <2>6 DEF PlaceInv
<1>3. ASSUME NEW d \in Jobs, Graph!Signal(w, d)
      PROVE  PlaceInv'
  BY <1>3, AllStay DEF Graph!Signal
<1>4. CASE Graph!Return(w)
  <2>1. hand[w] \in done /\ done' = done
    BY <1>4 DEF Graph!Return, Graph!jobVars, PlaceInv, DoneGone
  <2>2. hand'[w] = NoJob /\ \A v \in Workers \ {w} : hand'[v] = hand[v]
    BY <1>4 DEF Graph!Return
  <2>3. \A v \in Workers : phase'[v] = "signalling" => phase[v] = "signalling" /\ v # w
    BY <1>4 DEF Graph!Return
  <2>4. Distinct' /\ \A k \in Workers : Ent(k)' = Ent(k)
    BY DequeSame DEF PlaceInv
  <2>5. Separate'
    BY <2>2, <2>4, NoJobAssumption DEF PlaceInv, Separate
  <2>6. DoneGone'
    BY <2>1, <2>2, <2>3, <2>4 DEF PlaceInv, DoneGone
  <2>7. AddedInv'
    <3>1. \A x \in Jobs : Somewhere(x)' => Somewhere(x)
      BY <2>2, <2>4, NoJobAssumption DEF Somewhere
    <3>2. \A x \in Jobs \ done' : Somewhere(x) => Somewhere(x)'
      BY <2>1, <2>2, <2>4 DEF Somewhere
    <3> QED BY <2>1, <3>1, <3>2, AddedKept DEF PlaceInv, AddedInv
  <2> QED BY <2>4, <2>5, <2>6, <2>7 DEF PlaceInv
<1> QED BY <1>1, <1>2, <1>3, <1>4

-----------------------------------------------------------------------------
(* Every step keeps the places.                                            *)

LEMMA WorkerKeepsPlaces ==
  ASSUME IInv, NEW w \in Workers, WorkerNext(w)
  PROVE  PlaceInv'
<1> USE DEF IInv, ControlInv
<1>1. CASE ControlStep(w)
  <2>1. OtherThreads /\ UNCHANGED <<deques, popped, hand, done, phase>>
    BY <1>1 DEF ControlStep, Loop, LockAwake, Sleep, WakeNotify, Announce, NothingToSteal,
         Retire, OtherThreads, quitVars, mainVars, graphVars
  <2> QED BY <2>1, AllStay
<1>2. CASE LookStep(w)
  <2>1. OtherThreads /\ UNCHANGED <<deques, popped, hand, done, phase>>
    BY <1>2 DEF LookStep, Check, WakeUp, TestCondition, ReadSize, ReadSizeAgain,
         OtherThreads, quitVars, mainVars, graphVars
  <2> QED BY <2>1, AllStay
<1>3. CASE JobStep(w)
  <2>1. CASE Recheck(w)
    <3>1. popped[w] \in Jobs
      BY <2>1 DEF Recheck, WorkerInv
    <3>2. CASE UNCHANGED <<popped, graphVars>>
      <4>1. OtherThreads
        BY <2>1, <3>2 DEF Recheck, OtherThreads, quitVars, mainVars, graphVars
      <4> QED BY <1>3, <3>2, <4>1, AllStay DEF JobStep, graphVars
    <3>3. CASE Graph!Claim(w, popped[w]) /\ popped' = [popped EXCEPT ![w] = NoJob]
      <4>1. OtherThreads
        BY <2>1, <3>3
           DEF Recheck, OtherThreads, quitVars, mainVars, Graph!Claim, Graph!jobVars
      <4> QED BY <1>3, <3>1, <3>3, <4>1, PoppedToHand DEF JobStep
    <3> QED BY <2>1, <3>2, <3>3 DEF Recheck
  <2>2. CASE Execute(w)
    <3>1. OtherThreads
      BY <2>2 DEF Execute, OtherThreads, quitVars, mainVars, Graph!Start, Graph!Finish,
           Graph!Signal, Graph!jobVars
    <3> QED BY <1>3, <2>2, <3>1, ExecuteKeepsPlaces DEF JobStep, Execute, workerVars
  <2>3. CASE Executed(w)
    <3>1. OtherThreads
      BY <2>3 DEF Executed, OtherThreads, quitVars, mainVars, Graph!Return, Graph!jobVars
    <3> QED BY <1>3, <2>3, <3>1, ExecuteKeepsPlaces DEF JobStep, Executed
  <2> QED BY <1>3, <2>1, <2>2, <2>3 DEF JobStep
<1>4. CASE PopStep(w)
  <2> DEFINE j == FrontJob(w, allowOpen[w])
  <2>1. allowOpen[w] \in BOOLEAN /\ j \in Jobs \cup {NoJob}
    BY DequePop DEF WorkerInv
  <2>2. OtherThreads /\ UNCHANGED <<hand, done, phase>> /\ popped[w] = NoJob
        /\ popped' = [popped EXCEPT ![w] = j] /\ PopFront(w, allowOpen[w])
    BY <1>4 DEF PopStep, PopOwn, OtherThreads, quitVars, mainVars, graphVars, WorkerInv
  <2>3. Distinct' /\ (j = NoJob => UNCHANGED deques) /\ (j # NoJob => Taken(w, j))
    BY <2>1, <2>2, PopTakes DEF PlaceInv
  <2> HIDE DEF j
  <2>4. CASE j = NoJob
    <3>1. popped' = popped
      BY <2>2, <2>4 DEF WorkerInv
    <3> QED BY <2>2, <2>3, <2>4, <3>1, AllStay
  <2>5. CASE j \in Jobs
    BY <2>2, <2>3, <2>5, NoJobAssumption, DequeToPopped
  <2> QED BY <2>1, <2>4, <2>5
<1>5. CASE PushBackStep(w)
  <2>1. popped[w] \in Jobs
    BY <1>5 DEF PushBackStep, PutBack, WorkerInv
  <2>2. OtherThreads /\ UNCHANGED <<hand, done, phase>> /\ PushBack(w, popped[w])
        /\ popped' = [popped EXCEPT ![w] = NoJob]
    BY <1>5 DEF PushBackStep, PutBack, OtherThreads, quitVars, mainVars, graphVars
  <2> QED BY <2>1, <2>2, PoppedToDeque
<1>6. ASSUME NEW i \in Workers, NEW open \in BOOLEAN, NEW j \in Jobs \cup {NoJob},
             \/ PopFront(i, open) /\ j = FrontJob(i, open)
             \/ PopBack(i) /\ j = BackJob(i),
             ClaimIfAny(w, j), UNCHANGED <<popped, quitVars, mainVars>>
      PROVE  PlaceInv'
  <2>1. Distinct' /\ (j = NoJob => UNCHANGED deques) /\ (j # NoJob => Taken(i, j))
    BY <1>6, PopTakes DEF PlaceInv
  <2>2. OtherThreads
    BY <1>6 DEF ClaimIfAny, OtherThreads, quitVars, mainVars, graphVars, Graph!Claim,
         Graph!jobVars
  <2>3. CASE j = NoJob
    BY <1>6, <2>1, <2>2, <2>3, AllStay DEF ClaimIfAny, graphVars
  <2>4. CASE j \in Jobs
    BY <1>6, <2>1, <2>2, <2>4, NoJobAssumption, DequeToHand DEF ClaimIfAny
  <2> QED BY <2>3, <2>4
<1>7. CASE PopAgainStep(w)
  <2>1. FrontJob(w, FALSE) \in Jobs \cup {NoJob}
    BY DequePop
  <2> QED BY <1>6, <1>7, <2>1 DEF PopAgainStep, PopOwnAgain
<1>8. CASE StealStep(w)
  <2>1. PICK i \in Workers \ {w} :
          Steal(w, BackJob(i)) /\ PopBack(i) /\ ClaimIfAny(w, BackJob(i))
    BY <1>8 DEF StealStep
  <2>2. BackJob(i) \in Jobs \cup {NoJob}
    BY DequePop
  <2>3. UNCHANGED <<popped, quitVars, mainVars>>
    BY <2>1 DEF Steal
  <2> QED BY <1>6, <2>1, <2>2, <2>3
<1> QED BY <1>1, <1>2, <1>3, <1>4, <1>5, <1>7, <1>8 DEF WorkerNext

\* main_runner pushes each of its jobs once.
LEMMA MainKeepsPlaces ==
  ASSUME ~DeleteJobs, IInv, MainNext
  PROVE  PlaceInv'
<1> USE DEF IInv, ControlInv
<1>1. CASE AddStep
  <2>1. UNCHANGED <<popped, hand, done, phase, created, isRunning, quitPc>>
    BY <1>1 DEF AddStep, Pushed, workerVars, quitVars, graphVars, Graph!Share,
         Graph!execVars
  <2>2. current \in Workers /\ frame.add[index + 1] \in Jobs
    BY <1>1, PushedAdds DEF AddStep, MainInv
  <2>3. PICK i \in Workers, j \in Jobs : i = current /\ j = frame.add[index + 1]
    BY <2>2
  <2>4. j \notin Added /\ Added' = Added \cup {j}
    BY <1>1, <2>3, PushedAdds DEF AddStep
  <2>5. PushFront(i, j)
    BY <1>1, <2>3 DEF AddStep
  <2>6. ~Somewhere(j) /\ j \notin done
    BY <2>4 DEF PlaceInv, AddedInv
  <2>7. Distinct' /\ Put(i, j)
    BY <2>4, <2>5, <2>6, PushPuts DEF PlaceInv, Somewhere
  <2>8. Separate'
    BY <2>1, <2>5, <2>6, <2>7 DEF PlaceInv, Separate, Put, Somewhere
  <2>9. DoneGone'
    BY <2>1, <2>5, <2>6, <2>7 DEF PlaceInv, DoneGone, Put
  <2>10. \A x \in Jobs : Somewhere(x)' <=> Somewhere(x) \/ x = j
    BY <2>1, <2>5, <2>7 DEF Somewhere, Put
  <2>11. AddedInv'
    BY <2>1, <2>4, <2>10 DEF PlaceInv, AddedInv
  <2> QED BY <2>7, <2>8, <2>9, <2>11 DEF PlaceInv
<1>2. CASE ~AddStep
  <2>1. UNCHANGED <<deques, popped, hand, done, phase, isRunning, quitPc>>
    BY <1>2 DEF MainNext, Create, DeleteJobs, Attach, NextFrame, NotifyWorker, PollSize,
         PollRunning, workerVars, quitVars, graphVars, Graph!Construct, Graph!execVars
  <2>2. ~Pushed
    BY <1>2 DEF MainNext, Create, DeleteJobs, Attach, NextFrame, NotifyWorker, PollSize,
         PollRunning, Pushed
  <2>3. Added' = Added
    BY <2>2, StepIsMove, OthersAddNothing DEF Next, ThreadsInv
  <2>4. Distinct' /\ \A k \in Workers : Ent(k)' = Ent(k)
    BY <2>1, DequeSame DEF PlaceInv
  <2>5. Separate' /\ DoneGone'
    BY <2>1, <2>4 DEF PlaceInv, Separate, DoneGone
  <2>6. AddedInv'
    BY <2>1, <2>3, <2>4 DEF PlaceInv, AddedInv, Somewhere
  <2> QED BY <2>4, <2>5, <2>6 DEF PlaceInv
<1> QED BY <1>1, <1>2

\* When jobs are thrown away the user has quit.
LEMMA QuitKeepsPlaces ==
  ASSUME IInv, QuitNext \/ (Quit /\ UNCHANGED <<graphVars, deques>>)
  PROVE  PlaceInv'
<1> USE DEF IInv, ControlInv
<1>1. UNCHANGED <<popped, hand, done, phase, created, mainPc, frame, index>>
  BY DEF QuitNext, Quit, Cleared, Halt, Silence, NotifyStop, Join, workerVars, mainVars,
         graphVars
<1>2. ~isRunning'
  BY DEF QuitNext, Quit, Cleared, Halt, Silence, NotifyStop, Join, PlaceInv, AddedInv
<1>3. Added' = Added
  BY <1>1 DEF Added, AddedCount
<1>4. Distinct' /\ \A k \in Workers : Ent(k)' \subseteq Ent(k)
  <2>1. CASE Clear(quitIndex)
    <3>1. NoRepeat(<<>>) /\ Entries(<<>>) = {}
      BY DEF NoRepeat, Entries
    <3>2. quitIndex \in Workers
      BY DEF QuitInv
    <3> QED BY <2>1, <3>1, <3>2, DequeReplaced DEF Clear, PlaceInv
  <2>2. CASE UNCHANGED deques
    BY <2>2, DequeSame DEF PlaceInv
  <2>3. CASE QuitNext
    BY <2>1, <2>2, <2>3 DEF QuitNext
  <2>4. CASE Quit /\ UNCHANGED <<graphVars, deques>>
    BY <2>2, <2>4
  <2> QED BY <2>3, <2>4
<1>5. Separate' /\ DoneGone'
  BY <1>1, <1>4 DEF PlaceInv, Separate, DoneGone
<1>6. AddedInv'
  BY <1>1, <1>2, <1>3, <1>4 DEF PlaceInv, AddedInv, Somewhere
<1> QED BY <1>3, <1>4, <1>5, <1>6 DEF PlaceInv

LEMMA StepKeepsPlaces ==
  ASSUME ~DeleteJobs, IInv, [Next]_vars
  PROVE  PlaceInv'
<1>1. CASE UNCHANGED vars
  BY <1>1, AllStay
     DEF IInv, vars, graphVars, workerVars, mainVars, quitVars, OtherThreads
<1>2. CASE \E w \in Workers :
             WorkerNext(w) \/ (SpuriousWakeup(w) /\ UNCHANGED <<graphVars, deques>>)
  <2>1. PICK w \in Workers :
          WorkerNext(w) \/ (SpuriousWakeup(w) /\ UNCHANGED <<graphVars, deques>>)
    BY <1>2
  <2>2. CASE WorkerNext(w)
    BY <2>2, WorkerKeepsPlaces
  <2>3. CASE SpuriousWakeup(w) /\ UNCHANGED <<graphVars, deques>>
    BY <2>3, AllStay
       DEF IInv, SpuriousWakeup, graphVars, mainVars, quitVars, OtherThreads
  <2> QED BY <2>1, <2>2, <2>3
<1>3. CASE MainNext
  BY <1>3, MainKeepsPlaces
<1>4. CASE QuitNext \/ (Quit /\ UNCHANGED <<graphVars, deques>>)
  BY <1>4, QuitKeepsPlaces
<1> QED BY <1>1, <1>2, <1>3, <1>4 DEF Next

LEMMA InitPlaces == Init => PlaceInv
<1> SUFFICES ASSUME Init
             PROVE  PlaceInv
  OBVIOUS
<1>1. \A w \in Workers : deques[w] = <<>> /\ popped[w] = NoJob /\ hand[w] = NoJob
                         /\ phase[w] = "idle"
  BY DEF Init, ControlInit, Graph!Init
<1>2. NoRepeat(<<>>) /\ Entries(<<>>) = {}
  BY DEF NoRepeat, Entries
<1>3. \A w \in Workers : Ent(w) = {} /\ NoRepeat(deques[w])
  BY <1>1, <1>2 DEF Ent
<1>4. created = {} /\ done = {} /\ mainPc = "attach" /\ quitPc = "waiting"
  BY DEF Init, ControlInit, Graph!Init
<1>5. Added = {}
  <2>1. AddedCount = 0
    BY <1>4 DEF AddedCount
  <2> QED BY <2>1 DEF Added
<1> QED BY <1>1, <1>3, <1>4, <1>5, NoJobAssumption
    DEF PlaceInv, Distinct, Separate, DoneGone, AddedInv, Somewhere

-----------------------------------------------------------------------------

LEMMA AtMostOne ==
  ASSUME NEW S, \A x, y \in S : x = y
  PROVE  /\ Cardinality(S) \in Nat /\ Cardinality(S) <= 1
         /\ S # {} => Cardinality(S) = 1
<1>1. CASE S = {}
  BY <1>1, FS_EmptySet
<1>2. CASE S # {}
  <2>1. PICK x : x \in S
    BY <1>2
  <2>2. S = {x}
    BY <2>1
  <2>3. Cardinality({x}) = 1
    BY FS_Singleton
  <2> QED BY <1>2, <2>2, <2>3
<1> QED BY <1>1, <1>2

\* A job of the frame is in one place, however many workers reorder and steal.
LEMMA PlaceImpliesOne ==
  ASSUME IInv
  PROVE  InOnePlace
<1> USE DEF IInv, ControlInv
<1>1. \A i \in Workers : \A k, l \in DOMAIN deques[i] :
        deques[i][k] = deques[i][l] => k = l
  BY DEF PlaceInv, Distinct, NoRepeat
<1>2. ASSUME NEW j \in created
      PROVE  LET places == Cardinality(InDeque(j)) + Cardinality(Holders(j))
                             + Cardinality(Executors(j))
             IN IF j \in done THEN InDeque(j) \cup Holders(j) = {} /\ places <= 1
                ELSE places <= 1
                     /\ (isRunning /\ mainPc \notin {"create", "add", "notify"}
                           => places = 1)
  <2>1. j \in Jobs
    BY <1>2 DEF GraphInv, Graph!TypeOK
  <2>2. (\A x, y \in InDeque(j) : x = y) /\ (\A x, y \in Holders(j) : x = y)
        /\ (\A x, y \in Executors(j) : x = y)
    BY <2>1 DEF InDeque, Holders, Executors, PlaceInv, Separate, Ent
  <2>3. /\ InDeque(j) # {} => Holders(j) = {} /\ Executors(j) = {}
        /\ Holders(j) # {} => InDeque(j) = {} /\ Executors(j) = {}
        /\ Executors(j) # {} => InDeque(j) = {} /\ Holders(j) = {}
    BY <2>1 DEF InDeque, Holders, Executors, PlaceInv, Separate, Ent
  <2>4. j \in done => InDeque(j) \cup Holders(j) = {}
    BY <2>1 DEF InDeque, Holders, PlaceInv, DoneGone, Ent
  <2>5. ASSUME isRunning, mainPc \notin {"create", "add", "notify"}, j \notin done
        PROVE  InDeque(j) # {} \/ Holders(j) # {} \/ Executors(j) # {}
    <3>1. j \in Added
      BY <1>2, <2>5, AddedIsCreated
    <3>2. Somewhere(j)
      BY <2>1, <2>5, <3>1 DEF PlaceInv, AddedInv
    <3> QED BY <3>2 DEF Somewhere, InDeque, Holders, Executors, Ent
  <2> DEFINE a == Cardinality(InDeque(j))
             b == Cardinality(Holders(j))
             c == Cardinality(Executors(j))
  <2>6. /\ a \in Nat /\ a <= 1 /\ (InDeque(j) # {} => a = 1) /\ (InDeque(j) = {} => a = 0)
        /\ b \in Nat /\ b <= 1 /\ (Holders(j) # {} => b = 1) /\ (Holders(j) = {} => b = 0)
        /\ c \in Nat /\ c <= 1 /\ (Executors(j) # {} => c = 1)
        /\ (Executors(j) = {} => c = 0)
    BY <2>2, AtMostOne, FS_EmptySet
  <2> HIDE DEF a, b, c
  <2>7. a + b + c <= 1
    BY <2>3, <2>6
  <2>8. InDeque(j) # {} \/ Holders(j) # {} \/ Executors(j) # {} => a + b + c = 1
    BY <2>3, <2>6
  <2> QED BY <2>4, <2>5, <2>7, <2>8 DEF a, b, c
<1> QED BY <1>1, <1>2 DEF InOnePlace

\* The reordering and the stealing lose no job and double none, for every number
\* of workers, every frame and every moment in which the user quits, as long as
\* no jobs are deleted under the workers.
THEOREM InOnePlaceThm ==
  ASSUME MaxDeletes = 0
  PROVE  Spec => []InOnePlace
<1>1. Init => IInv
  BY InitGraph, InitControl, InitBuild, InitPlaces DEF IInv, Init
<1>2. ASSUME IInv, [Next]_vars
      PROVE  IInv'
  <2>1. ~DeleteJobs
    BY <1>2 DEF DeleteJobs, IInv, ControlInv, MainInv
  <2>2. BuildInv'
    BY <1>2, <2>1, StepIsMove, StepIsJobMove, JobMoveBuilds, BuildMoveKeeps
       DEF IInv, ControlInv, ThreadsInv
  <2> QED BY <1>2, <2>1, <2>2, StepKeepsGraph, StepKeepsControl, StepKeepsPlaces DEF IInv
<1> QED BY <1>1, <1>2, PlaceImpliesOne, PTL DEF Spec

-----------------------------------------------------------------------------
(* With one worker and until the user quits AllJobsFinished can be         *)
(* believed: the deletion of the jobs comes after their last use, frame    *)
(* after frame.  With two workers it is not so (the run                    *)
(* locking_early_delete).                                                  *)

\* A job that the worker puts back was not the last one: its deque is not empty
\* in between.
Careful(w) ==
  /\ pc[w] = "popfront" /\ allowOpen[w] => Len(deques[w]) > 1
  /\ pc[w] = "recheck" => deques[w] # <<>> \/ Graph!CanExecute(popped[w])
  /\ pc[w] = "pushback" => deques[w] # <<>>

\* So the answer of AllJobsFinished for the deque is still true when it asks for
\* mJobRunning.
OneInv ==
  /\ isRunning
  /\ \A w \in Workers : Careful(w)
  /\ mainPc \in {"notify", "poll", "pollrunning", "delete"} => shared
  /\ mainPc = "pollrunning" => \A w \in Workers : deques[w] = <<>>
  /\ mainPc = "delete" =>
       /\ done = created
       /\ \A w \in Workers : hand[w] = NoJob /\ popped[w] = NoJob /\ deques[w] = <<>>

OneIInv == IInv /\ HeldInv /\ OneInv

-----------------------------------------------------------------------------
(* The steps of the worker.                                                *)

LEMMA OneWorker ==
  ASSUME NumWorkers = 1
  PROVE  Workers = {0}
BY DEF Workers

\* A step of the worker that leaves every job where it is.
LEMMA StillKeepsOne ==
  ASSUME NumWorkers = 1, OneInv, NEW w \in Workers, OtherThreads, Careful(w)',
         UNCHANGED <<shared, done, hand, popped, deques>>
  PROVE  OneInv'
<1>1. Workers = {w}
  BY OneWorker
<1> QED BY <1>1 DEF OneInv, OtherThreads, Careful

\* A step of the worker that moves a job, before AllJobsFinished has said yes.
LEMMA MoveKeepsOne ==
  ASSUME NumWorkers = 1, OneInv, NEW w \in Workers, OtherThreads, Careful(w)',
         UNCHANGED shared, mainPc # "delete",
         deques[w] = <<>> => deques'[w] = <<>>
  PROVE  OneInv'
<1>1. Workers = {w}
  BY OneWorker
<1> QED BY <1>1 DEF OneInv, OtherThreads, Careful

LEMMA TailOfTwo ==
  ASSUME NEW S, NEW q \in Seq(S), Len(q) > 1
  PROVE  Tail(q) # <<>>
<1>1. Len(q) \in Nat /\ q # <<>>
  OBVIOUS
<1>2. Len(Tail(q)) = Len(q) - 1
  BY <1>1
<1>3. Len(Tail(q)) # 0
  BY <1>1, <1>2
<1>4. Len(<<>>) = 0
  OBVIOUS
<1> QED BY <1>3, <1>4, Zenon

LEMMA WorkerKeepsOne ==
  ASSUME NumWorkers = 1, OneIInv, NEW w \in Workers, WorkerNext(w)
  PROVE  OneInv'
<1> USE DEF OneIInv, IInv, ControlInv
<1>1. Careful(w)
  BY DEF OneInv, Careful
<1>2. mainPc = "delete" => hand[w] = NoJob /\ popped[w] = NoJob /\ deques[w] = <<>>
  BY DEF OneInv, Careful
<1>3. CASE ControlStep(w)
  <2>1. OtherThreads /\ UNCHANGED <<shared, hand, done, popped, deques>>
    BY <1>3 DEF ControlStep, Loop, LockAwake, Sleep, WakeNotify, Announce, NothingToSteal,
         Retire, OtherThreads, quitVars, mainVars, graphVars
  <2>2. pc'[w] \notin {"popfront", "recheck", "pushback"}
    BY <1>3 DEF ControlStep, Loop, LockAwake, Sleep, WakeNotify, Announce, NothingToSteal,
         Retire, Goto, Awakened, AfterTarget, WorkerInv
  <2> QED BY <2>1, <2>2, StillKeepsOne DEF Careful
<1>4. CASE LookStep(w)
  <2>1. OtherThreads /\ UNCHANGED <<shared, hand, done, popped, deques>>
    BY <1>4 DEF LookStep, Check, WakeUp, TestCondition, ReadSize, ReadSizeAgain,
         OtherThreads, quitVars, mainVars, graphVars
  <2>2. CASE ReadSize(w, Len(deques[w]))
    <3>1. pc'[w] = "popfront" /\ allowOpen'[w] = (Len(deques[w]) > 1)
      BY <2>2 DEF ReadSize, Goto, WorkerInv
    <3> QED BY <2>1, <3>1, StillKeepsOne DEF Careful
  <2>3. CASE ~ReadSize(w, Len(deques[w]))
    <3>1. pc'[w] \notin {"popfront", "recheck", "pushback"}
      BY <1>4, <2>3 DEF LookStep, Check, WakeUp, TestCondition, ReadSizeAgain, Goto,
           AfterTarget, WorkerInv
    <3> QED BY <2>1, <3>1, StillKeepsOne DEF Careful
  <2> QED BY <2>2, <2>3
<1>5. CASE JobStep(w)
  <2>1. CASE Recheck(w)
    <3>1. mainPc # "delete"
      BY <1>2, <2>1 DEF Recheck, WorkerInv
    <3>2. CASE Graph!Claim(w, popped[w]) /\ Goto(w, "execute")
      <4>1. pc'[w] = "execute"
        BY <3>2 DEF Goto, WorkerInv
      <4>2. OtherThreads /\ UNCHANGED shared
        BY <2>1, <3>2
           DEF Recheck, OtherThreads, quitVars, mainVars, Graph!Claim, Graph!jobVars
      <4> QED BY <1>5, <3>1, <4>1, <4>2, MoveKeepsOne DEF JobStep, Careful
    <3>3. CASE ~Graph!CanExecute(popped[w]) /\ Goto(w, "pushback")
               /\ UNCHANGED <<popped, graphVars>>
      <4>1. pc'[w] = "pushback" /\ deques[w] # <<>>
        BY <1>1, <2>1, <3>3 DEF Recheck, Goto, Careful, WorkerInv
      <4>2. OtherThreads /\ UNCHANGED shared
        BY <2>1, <3>3 DEF Recheck, OtherThreads, quitVars, mainVars, graphVars
      <4> QED BY <1>5, <3>1, <4>1, <4>2, MoveKeepsOne DEF JobStep, Careful
    <3> QED BY <2>1, <3>2, <3>3 DEF Recheck
  <2>2. CASE Execute(w) \/ Executed(w)
    <3>1. phase[w] # "idle"
      BY <2>2 DEF Execute, Executed, Graph!Start, Graph!Finish, Graph!Signal, Graph!Return
    <3>2. mainPc # "delete"
      BY <1>2, <3>1 DEF GraphInv, Graph!TypeOK
    <3>3. OtherThreads /\ UNCHANGED shared
      BY <2>2 DEF Execute, Executed, OtherThreads, quitVars, mainVars, Graph!Start,
           Graph!Finish, Graph!Signal, Graph!Return, Graph!jobVars
    <3>4. pc'[w] \in {"execute", "retire"}
      BY <2>2 DEF Execute, Executed, Goto, workerVars, WorkerInv
    <3> QED BY <1>5, <3>2, <3>3, <3>4, MoveKeepsOne DEF JobStep, Careful
  <2> QED BY <1>5, <2>1, <2>2 DEF JobStep
<1>6. \A open \in BOOLEAN : deques[w] = <<>> => FrontJob(w, open) = NoJob
  BY DEF FrontJob
<1>7. CASE PopStep(w)
  <2> DEFINE j == FrontJob(w, allowOpen[w])
  <2>1. allowOpen[w] \in BOOLEAN /\ popped[w] = NoJob
    BY <1>7 DEF PopStep, PopOwn, WorkerInv
  <2>2. OtherThreads /\ UNCHANGED <<shared, unfinished, hand, done>>
    BY <1>7 DEF PopStep, PopOwn, OtherThreads, quitVars, mainVars, graphVars
  <2>3. popped'[w] = j /\ pc'[w] = IF j = NoJob THEN "steal" ELSE "recheck"
    BY <1>7 DEF PopStep, PopOwn, Goto, WorkerInv
  <2>4. deques'[w] = IF j = NoJob THEN deques[w] ELSE Tail(deques[w])
    BY <1>7 DEF PopStep, PopFront, DequeInv
  <2>5. CASE j = NoJob
    <3>1. deques' = deques
      BY <1>7, <2>1, <2>5, PopTakes DEF PopStep, PlaceInv
    <3>2. popped' = [popped EXCEPT ![w] = NoJob]
      BY <1>7, <2>5 DEF PopStep, PopOwn
    <3>3. popped' = popped
      BY <2>1, <3>2 DEF WorkerInv
    <3> QED BY <2>2, <2>3, <2>5, <3>1, <3>3, StillKeepsOne DEF Careful
  <2>6. CASE j # NoJob
    <3>1. deques[w] # <<>> /\ deques[w] \in Seq(Jobs)
      BY <1>6, <2>1, <2>6 DEF DequeInv
    <3>2. CASE allowOpen[w]
      <4>1. Len(deques[w]) > 1
        BY <1>1, <1>7, <3>2 DEF Careful, PopStep, PopOwn
      <4>2. Tail(deques[w]) # <<>>
        BY <3>1, <4>1, TailOfTwo
      <4> QED BY <1>2, <2>2, <2>3, <2>4, <2>6, <3>1, <4>2, MoveKeepsOne DEF Careful
    <3>3. CASE ~allowOpen[w]
      <4>1. Graph!CanExecute(j)
        BY <2>6, <3>3 DEF FrontJob
      <4>2. Graph!CanExecute(popped[w])'
        BY <2>2, <2>3, <4>1 DEF Graph!CanExecute
      <4> QED BY <1>2, <2>2, <2>3, <2>4, <2>6, <3>1, <4>2, MoveKeepsOne DEF Careful
    <3> QED BY <3>2, <3>3
  <2> QED BY <2>5, <2>6
<1>8. CASE PushBackStep(w)
  <2>1. deques[w] # <<>> /\ pc'[w] = "resize"
    BY <1>1, <1>8 DEF PushBackStep, PutBack, Goto, Careful, WorkerInv
  <2>2. OtherThreads /\ UNCHANGED shared
    BY <1>8 DEF PushBackStep, PutBack, OtherThreads, quitVars, mainVars, graphVars
  <2> QED BY <1>2, <2>1, <2>2, MoveKeepsOne DEF Careful
<1>9. CASE PopAgainStep(w)
  <2>1. pc'[w] \in {"steal", "execute"} /\ UNCHANGED popped
    BY <1>9 DEF PopAgainStep, PopOwnAgain, Goto, WorkerInv
  <2>2. OtherThreads /\ UNCHANGED <<shared, done>>
    BY <1>9 DEF PopAgainStep, PopOwnAgain, ClaimIfAny, OtherThreads, quitVars, mainVars,
         graphVars, Graph!Claim, Graph!jobVars
  <2>3. CASE deques[w] = <<>>
    <3>1. FrontJob(w, FALSE) = NoJob
      BY <1>6, <2>3
    <3>2. deques' = deques
      BY <1>9, <3>1, PopTakes DEF PopAgainStep, PlaceInv
    <3>3. UNCHANGED hand
      BY <1>9, <3>1 DEF PopAgainStep, ClaimIfAny, graphVars
    <3> QED BY <2>1, <2>2, <3>2, <3>3, StillKeepsOne DEF Careful
  <2>4. CASE deques[w] # <<>>
    BY <1>2, <2>1, <2>2, <2>4, MoveKeepsOne DEF Careful
  <2> QED BY <2>3, <2>4
<1>10. ~StealStep(w)
  BY DEF StealStep, Steal, MaySteal
<1> QED BY <1>3, <1>4, <1>5, <1>7, <1>8, <1>9, <1>10 DEF WorkerNext

-----------------------------------------------------------------------------
(* The steps of main_runner.                                               *)

\* When AllJobsFinished has found the deque empty and the worker at rest, every
\* job of the frame is done.
LEMMA PolledIsDone ==
  ASSUME OneIInv, mainPc = "pollrunning", \A w \in Workers : ~jobRunning[w]
  PROVE  /\ done = created
         /\ \A w \in Workers : hand[w] = NoJob /\ popped[w] = NoJob
<1> USE DEF OneIInv, IInv, ControlInv
<1>1. \A w \in Workers : hand[w] = NoJob /\ popped[w] = NoJob /\ deques[w] = <<>>
  BY DEF HeldInv, WorkerInv, OneInv, Announced
<1>2. \A j \in Jobs : ~Somewhere(j)
  <2>1. Entries(<<>>) = {}
    BY DEF Entries
  <2> QED BY <1>1, <2>1, NoJobAssumption DEF Somewhere, Ent
<1>3. created \subseteq Added /\ created \subseteq Jobs /\ done \subseteq created
  BY AddedIsCreated DEF GraphInv, Graph!TypeOK
<1>4. created \subseteq done
  BY <1>2, <1>3 DEF PlaceInv, AddedInv, OneInv
<1> QED BY <1>1, <1>3, <1>4

LEMMA MainKeepsOne ==
  ASSUME NumWorkers = 1, ~DeleteJobs, OneIInv, MainNext
  PROVE  OneInv'
<1> USE DEF OneIInv, IInv, ControlInv
<1>1. Workers = {0}
  BY OneWorker
<1>2. CASE AddStep
  <2>1. mainPc' = "notify" /\ shared' = TRUE
        /\ UNCHANGED <<pc, allowOpen, popped, unfinished, isRunning>>
    BY <1>2 DEF AddStep, Pushed, workerVars, quitVars, graphVars, Graph!Share,
         GraphInv, Graph!TypeOK
  <2>2. PICK j \in Jobs : PushFront(0, j)
    <3>1. current = 0
      BY <1>1 DEF MainInv
    <3>2. frame.add \in Seq(Jobs) /\ index + 1 \in 1 .. Len(frame.add)
      BY <1>2, FrameFacts DEF AddStep, Pushed, MainInv
    <3>3. frame.add[index + 1] \in Jobs
      BY <3>2
    <3> QED BY <1>2, <3>1, <3>3 DEF AddStep
  <2>3. deques[0] \in Seq(Jobs) /\ deques'[0] = <<j>> \o deques[0]
    BY <1>1, <2>2 DEF PushFront, DequeInv
  <2>4. deques'[0] # <<>> /\ Len(deques'[0]) > Len(deques[0])
    BY <2>3
  <2>5. Len(deques[0]) \in Nat /\ Len(deques'[0]) \in Nat
    BY <2>3
  <2> QED BY <1>1, <2>1, <2>4, <2>5 DEF OneInv, Careful
<1>3. CASE Create /\ UNCHANGED deques
  <2>1. mainPc = "create" /\ mainPc' \in {"create", "add"}
        /\ UNCHANGED <<pc, allowOpen, popped, isRunning, deques>>
    BY <1>3 DEF Create, MainLoop, workerVars, quitVars
  <2>2. popped[0] = NoJob
    <3>1. AddedCount = 0
      BY <2>1 DEF AddedCount
    <3>2. Added = {}
      BY <3>1 DEF Added
    <3> QED BY <1>1, <3>2 DEF PlaceInv, AddedInv, Somewhere, WorkerInv
  <2>3. pc[0] # "recheck"
    BY <1>1, <2>2 DEF WorkerInv
  <2> QED BY <1>1, <2>1, <2>3 DEF OneInv, Careful
<1>4. ASSUME UNCHANGED <<graphVars, deques, allowOpen, popped, isRunning>>,
             \/ pc'[0] = pc[0]
             \/ pc'[0] \notin {"popfront", "recheck", "pushback"},
             mainPc' \in {"notify", "poll", "pollrunning", "delete"} => shared,
             mainPc' = "pollrunning" => deques[0] = <<>>,
             mainPc' = "delete" =>
               done = created /\ hand[0] = NoJob /\ popped[0] = NoJob /\ deques[0] = <<>>
      PROVE  OneInv'
  BY <1>1, <1>4 DEF OneInv, Careful, graphVars, Graph!CanExecute
<1>5. CASE (Attach \/ NextFrame) /\ UNCHANGED <<graphVars, deques>>
  BY <1>4, <1>5 DEF Attach, NextFrame, MainLoop, workerVars, quitVars
<1>6. CASE NotifyWorker /\ UNCHANGED <<graphVars, deques>>
  <2>1. mainPc = "notify" /\ mainPc' \in {"add", "poll"}
    BY <1>6 DEF NotifyWorker, MainLoop
  <2>2. pc'[0] = pc[0] \/ pc'[0] = "wait"
    BY <1>1, <1>6 DEF NotifyWorker, Awakened, WorkerInv, MainInv
  <2> QED BY <1>4, <1>6, <2>1, <2>2 DEF NotifyWorker, quitVars, OneInv
<1>7. CASE PollSize(Len(deques[index])) /\ UNCHANGED <<graphVars, deques>>
  <2>1. mainPc = "poll" /\ index = 0
    BY <1>7 DEF PollSize, MainInv
  <2>2. deques[0] \in Seq(Jobs)
    BY <1>1 DEF DequeInv
  <2>3. mainPc' = "poll" \/ (mainPc' = "pollrunning" /\ ~(Len(deques[0]) > 0))
    BY <1>7, <2>1 DEF PollSize
  <2>4. ~(Len(deques[0]) > 0) => deques[0] = <<>>
    BY <2>2
  <2> QED BY <1>4, <1>7, <2>1, <2>3, <2>4 DEF PollSize, workerVars, quitVars, OneInv
<1>8. CASE PollRunning /\ UNCHANGED <<graphVars, deques>>
  <2>1. mainPc = "pollrunning" /\ index = 0
    BY <1>8 DEF PollRunning, MainInv
  <2>2. CASE jobRunning[0]
    <3>1. mainPc' = "poll"
      BY <1>8, <2>1, <2>2 DEF PollRunning
    <3> QED BY <1>4, <1>8, <2>1, <3>1 DEF PollRunning, workerVars, quitVars, OneInv
  <2>3. CASE ~jobRunning[0]
    <3>1. mainPc' = "delete"
      BY <1>8, <2>1, <2>3 DEF PollRunning, MainLoop
    <3>2. done = created /\ hand[0] = NoJob /\ popped[0] = NoJob
      BY <1>1, <2>1, <2>3, PolledIsDone
    <3> QED BY <1>1, <1>4, <1>8, <2>1, <3>1, <3>2
            DEF PollRunning, workerVars, quitVars, OneInv
  <2> QED BY <2>2, <2>3
<1> QED BY <1>2, <1>3, <1>5, <1>6, <1>7, <1>8 DEF MainNext

\* The deletion, that asks nobody, finds all the jobs done and none in use.
LEMMA DeleteKeepsOne ==
  ASSUME NumWorkers = 1, OneIInv, DeleteJobs, UNCHANGED deques
  PROVE  GraphInv' /\ BuildInv' /\ PlaceInv' /\ HeldInv' /\ OneInv'
<1> USE DEF OneIInv, IInv, ControlInv
<1>1. /\ mainPc = "delete" /\ mainPc' = "loop" /\ frame' \in Frames
      /\ created' = {} /\ done' = {} /\ ~shared'
      /\ UNCHANGED <<hand, popped, phase, pending, pc, allowOpen, jobRunning, isRunning,
                     quitPc>>
  BY DEF DeleteJobs, Graph!Reset, workerVars, quitVars
<1>2. \A w \in Workers : hand[w] = NoJob /\ popped[w] = NoJob /\ deques[w] = <<>>
                         /\ phase[w] = "idle"
  BY <1>1 DEF OneInv, GraphInv, Graph!TypeOK
<1>3. GraphInv'
  <2>1. dependants' \in [Jobs -> SUBSET Jobs] /\ unfinished' \in [Jobs -> Int]
        /\ shared' = FALSE
    BY DEF DeleteJobs, Graph!Reset
  <2> QED BY <1>1, <1>2, <2>1 DEF GraphInv, HandsExist, Graph!TypeOK
<1>4. HeldInv'
  BY <1>1 DEF HeldInv
<1>5. OneInv'
  <2>1. \A w \in Workers : pc[w] \notin {"recheck", "pushback"}
    BY <1>2 DEF WorkerInv
  <2> QED BY <1>1, <2>1 DEF OneInv, Careful
<1>6. Distinct' /\ \A k \in Workers : Ent(k)' = {}
  <2>1. Entries(<<>>) = {}
    BY DEF Entries
  <2>2. \A k \in Workers : Ent(k) = {}
    BY <1>2, <2>1 DEF Ent
  <2> QED BY <2>2, DequeSame DEF PlaceInv
<1>7. Separate' /\ DoneGone'
  BY <1>1, <1>2, <1>6, NoJobAssumption DEF Separate, DoneGone
<1>8. BuildInv'
  BY <1>1 DEF BuildInv, Constructed, ConstructedCount, AddedCount
<1>9. AddedInv'
  <2>1. AddedCount' = 0
    BY <1>1 DEF AddedCount
  <2>2. Added' = {}
    BY <2>1 DEF Added
  <2>3. \A j \in Jobs : ~Somewhere(j)'
    BY <1>1, <1>2, <1>6, NoJobAssumption DEF Somewhere
  <2> QED BY <1>1, <2>2, <2>3 DEF AddedInv, PlaceInv
<1> QED BY <1>3, <1>4, <1>5, <1>6, <1>7, <1>8, <1>9 DEF PlaceInv

-----------------------------------------------------------------------------
(* All steps together.                                                     *)

LEMMA DeleteTouchesNoDeque ==
  ASSUME [Next]_vars, DeleteJobs
  PROVE  UNCHANGED deques
<1>1. mainPc = "delete" /\ mainPc' = "loop"
  BY DEF DeleteJobs
<1>2. ASSUME NEW w \in Workers
      PROVE  ~WorkerNext(w) /\ ~SpuriousWakeup(w)
  <2>1. ~ControlStep(w) /\ ~LookStep(w) /\ ~SpuriousWakeup(w)
    BY <1>1 DEF ControlStep, Loop, LockAwake, Sleep, WakeNotify, Announce, NothingToSteal,
         Retire, LookStep, Check, WakeUp, TestCondition, ReadSize, ReadSizeAgain,
         SpuriousWakeup, mainVars
  <2>2. ~JobStep(w) /\ ~PopStep(w) /\ ~PushBackStep(w) /\ ~PopAgainStep(w) /\ ~StealStep(w)
    BY <1>1 DEF JobStep, Recheck, Execute, Executed, PopStep, PopOwn, PushBackStep, PutBack,
         PopAgainStep, PopOwnAgain, StealStep, Steal, mainVars
  <2> QED BY <2>1, <2>2 DEF WorkerNext
<1>3. ~QuitNext /\ ~Quit /\ ~AddStep
  BY <1>1 DEF QuitNext, Cleared, Halt, Silence, NotifyStop, Join, Quit, AddStep, Pushed,
       mainVars
<1>4. CASE UNCHANGED vars
  BY <1>4 DEF vars
<1>5. CASE MainNext
  BY <1>3, <1>5 DEF MainNext
<1>6. ~\E w \in Workers :
        WorkerNext(w) \/ (SpuriousWakeup(w) /\ UNCHANGED <<graphVars, deques>>)
  BY <1>2
<1> QED BY <1>3, <1>4, <1>5, <1>6 DEF Next

LEMMA StepKeepsOne ==
  ASSUME NumWorkers = 1, QuitFrames = {}, OneIInv, [Next]_vars
  PROVE  OneIInv'
<1>1. ControlInv'
  BY StepKeepsControl DEF OneIInv, IInv
<1>2. CASE DeleteJobs /\ UNCHANGED deques
  BY <1>1, <1>2, DeleteKeepsOne DEF OneIInv, IInv
<1>3. CASE ~DeleteJobs
  <2>1. GraphInv' /\ PlaceInv' /\ HeldInv'
    BY <1>3, StepKeepsGraph, StepKeepsPlaces, StepKeepsHeld DEF OneIInv, IInv
  <2>2. BuildInv'
    BY <1>3, StepIsMove, StepIsJobMove, JobMoveBuilds, BuildMoveKeeps
       DEF OneIInv, IInv, ControlInv, ThreadsInv
  <2>3. OneInv'
    <3>1. CASE UNCHANGED vars
      BY <3>1 DEF OneIInv, OneInv, Careful, vars, graphVars, workerVars, mainVars, quitVars,
           Graph!CanExecute
    <3>2. CASE \E w \in Workers :
                 WorkerNext(w) \/ (SpuriousWakeup(w) /\ UNCHANGED <<graphVars, deques>>)
      <4>1. PICK w \in Workers :
              WorkerNext(w) \/ (SpuriousWakeup(w) /\ UNCHANGED <<graphVars, deques>>)
        BY <3>2
      <4>2. CASE WorkerNext(w)
        BY <4>2, WorkerKeepsOne
      <4>3. CASE SpuriousWakeup(w) /\ UNCHANGED <<graphVars, deques>>
        <5>1. OtherThreads /\ UNCHANGED <<shared, hand, done, popped, deques>>
          BY <4>3 DEF SpuriousWakeup, OtherThreads, graphVars, mainVars, quitVars
        <5>2. pc'[w] = "wait"
          BY <4>3 DEF SpuriousWakeup, Goto, OneIInv, IInv, ControlInv, WorkerInv
        <5> QED BY <5>1, <5>2, StillKeepsOne DEF Careful, OneIInv
      <4> QED BY <4>1, <4>2, <4>3
    <3>3. CASE MainNext
      BY <1>3, <3>3, MainKeepsOne
    <3>4. ~QuitNext /\ ~Quit
      BY DEF OneIInv, HeldInv, QuitNext, Cleared, Halt, Silence, NotifyStop, Join, Quit
    <3> QED BY <3>1, <3>2, <3>3, <3>4 DEF Next
  <2> QED BY <1>1, <2>1, <2>2, <2>3 DEF OneIInv, IInv
<1>4. DeleteJobs => UNCHANGED deques
  BY DeleteTouchesNoDeque DEF OneIInv, IInv
<1> QED BY <1>2, <1>3, <1>4

LEMMA InitOne == Init => OneIInv
<1>1. Init => HeldInv /\ OneInv
  BY DEF Init, ControlInit, Graph!Init, HeldInv, OneInv, Careful, Announced
<1> QED BY <1>1, InitGraph, InitControl, InitBuild, InitPlaces DEF OneIInv, IInv, Init

-----------------------------------------------------------------------------
(* What follows.                                                           *)

THEOREM OneWorkerInvariance ==
  ASSUME NumWorkers = 1, QuitFrames = {}
  PROVE  Spec => []OneIInv
<1>1. ASSUME OneIInv, [Next]_vars
      PROVE  OneIInv'
  BY <1>1, StepKeepsOne
<1> QED BY <1>1, InitOne, PTL DEF Spec

\* "All jobs done" (main.cpp:213) is true when one worker is asked, in every
\* frame: the deletion that follows takes no job from the worker's hand.
THEOREM AllJobsDoneThm ==
  ASSUME NumWorkers = 1, QuitFrames = {}
  PROVE  Spec => []AllJobsDone
<1>1. OneIInv => AllJobsDone
  BY DEF OneIInv, OneInv, Careful, AllJobsDone
<1> QED BY <1>1, OneWorkerInvariance, PTL

\* With one worker the deletions are part of JobGraph: what the threads, the
\* deque and main_runner do to the jobs is what JobGraph allows, whose Delete
\* demands that all jobs are done and no thread holds one.
THEOREM OneWorkerRefinesJobGraph ==
  ASSUME NumWorkers = 1, QuitFrames = {}
  PROVE  Spec => JobGraphSpec
<1>1. Init => Graph!Init
  BY DEF Init, ControlInit
<1>2. ASSUME OneIInv, [Next]_vars
      PROVE  [Graph!Next]_(Graph!vars)
  <2> USE <1>2 DEF OneIInv, IInv
  <2>1. CASE ~DeleteJobs
    BY <2>1, StepIsJobMove, JobMoveRefines DEF GraphInv
  <2>2. CASE DeleteJobs
    <3>1. shared /\ done = created /\ \A w \in Workers : hand[w] = NoJob
      BY <2>2 DEF DeleteJobs, OneInv, Careful
    <3>2. \A w \in Workers : phase[w] = "idle"
      BY <3>1 DEF GraphInv, Graph!TypeOK
    <3>3. Graph!Delete
      BY <2>2, <3>1, <3>2 DEF DeleteJobs, Graph!Delete, Graph!execVars
    <3> QED BY <3>3 DEF Graph!Next
  <2> QED BY <2>1, <2>2
<1> QED BY <1>1, <1>2, OneWorkerInvariance, PTL DEF Spec, JobGraphSpec, Graph!Spec

=============================================================================
