--------------------------- MODULE LocklessSystem --------------------------
(***************************************************************************)
(* The job system built with LocklessDeque: the default build (ExtraLocks  *)
(* = FALSE) and the build with HTL_EXTRA_LOCKS.  The workers and the main  *)
(* thread are those of JobSystem; every access to a deque is a step.       *)
(***************************************************************************)
EXTENDS JobSystem, FiniteSets

CONSTANTS Unwritten, Capacity, ExtraLocks

ASSUME CapacityAssumption == Capacity \in Nat \ {0}
ASSUME ExtraLocksAssumption == ExtraLocks \in BOOLEAN
ASSUME UnwrittenAssumption == Unwritten \notin Jobs

VARIABLES entries, front, back, call   \* as in LocklessDeque

Main == NumWorkers           \* main_runner as a user of the deques
Quitter == NumWorkers + 1    \* the thread of main()
Users == Workers \cup {Main, Quitter}

Deque ==
  INSTANCE LocklessDeque WITH
    Deques <- Workers,
    Threads <- Users,
    executable <- {j \in Jobs : Graph!CanExecute(j)}

dequeVars == <<entries, front, back, call>>
vars == <<graphVars, workerVars, mainVars, quitVars, dequeVars>>

TypeOK == ControlTypeOK /\ Deque!DequeTypeOK

Init == ControlInit /\ Deque!DequeInit

\* Steps inside an operation leave the rest of the system alone.
Inside(step) == step /\ UNCHANGED <<graphVars, workerVars, quitVars, mainVars>>

-----------------------------------------------------------------------------

\* Steps that use no deque.
ControlStep(w) ==
  /\ \/ Loop(w) \/ LockAwake(w) \/ Sleep(w) \/ WakeNotify(w) \/ Announce(w)
     \/ NothingToSteal(w) \/ Retire(w)
  /\ UNCHANGED <<graphVars, dequeVars>>

JobStep(w) ==
  /\ Recheck(w) \/ Execute(w) \/ Executed(w)
  /\ UNCHANGED dequeVars

\* HasExecutableJobs.
ScanStep(w) ==
  \/ pc[w] \in {"check", "testing"} /\ Inside(Deque!ScanBegin(w, w))
  \/ pc[w] = "wake" /\ Inside(Deque!ScanBegin(w, target[w]))
  \/ Inside(Deque!ScanOn(w))
  \/ \E found \in BOOLEAN :
       /\ Deque!ScanEnd(w, found)
       /\ Check(w, found) \/ WakeUp(w, found) \/ TestCondition(w, found)
       /\ UNCHANGED graphVars

\* Size.
SizeStep(w) ==
  \/ pc[w] \in {"size", "resize"} /\ Inside(Deque!SizeBegin(w, w))
  \/ /\ Deque!SizeEnd(w)
     /\ ReadSize(w, Deque!SizeSeen(w)) \/ ReadSizeAgain(w, Deque!SizeSeen(w))
     /\ UNCHANGED graphVars

\* PopFront answers j.
PopAnswer(w, j) == PopOwn(w, j) \/ PopOwnAgain(w, j)

\* A job that is popped by the second PopFront, or stolen, is executed because
\* of the CanExecute inside the operation; the first PopFront is followed by
\* another CanExecute.
ClaimInside(w) ==
  IF pc[w] = "popfront" THEN UNCHANGED graphVars ELSE Graph!Claim(w, call[w].job)

GiveUp(w) == IF phase[w] = "claimed" THEN Graph!Abandon(w) ELSE UNCHANGED graphVars

PopStep(w) ==
  \/ pc[w] = "popfront" /\ Inside(Deque!PopFrontBegin(w, w, allowOpen[w]))
  \/ pc[w] = "repop" /\ Inside(Deque!PopFrontBegin(w, w, FALSE))
  \/ Inside(Deque!PopFrontOn(w) \/ Deque!PopFrontSwap(w) \/ Deque!PopFrontReset(w))
  \/ /\ Deque!PopFrontTest(w)
     /\ ClaimInside(w)
     /\ UNCHANGED <<workerVars, quitVars, mainVars>>
  \/ \E j \in Jobs :
       Deque!PopFrontEnd(w, j) /\ PopAnswer(w, j) /\ UNCHANGED graphVars
  \/ Deque!PopFrontNone(w) /\ PopAnswer(w, NoJob) /\ UNCHANGED graphVars
  \/ Deque!PopFrontLost(w) /\ PopAnswer(w, NoJob) /\ GiveUp(w)

PushBackStep(w) ==
  \/ pc[w] = "pushback" /\ Inside(Deque!PushBackBegin(w, w, popped[w]))
  \/ Deque!PushBackEnd(w) /\ PutBack(w) /\ UNCHANGED graphVars

\* GetRandomWorkerThreadId answers any worker but the one that asks.
StealStep(w) ==
  \/ /\ pc[w] = "steal"
     /\ MaySteal(w)
     /\ \E victim \in Workers \ {w} : Inside(Deque!PopBackBegin(w, victim))
  \/ Inside(Deque!PopBackOn(w))
  \/ /\ Deque!PopBackTest(w)
     /\ ClaimInside(w)
     /\ UNCHANGED <<workerVars, quitVars, mainVars>>
  \/ \E j \in Jobs : Deque!PopBackEnd(w, j) /\ Steal(w, j) /\ UNCHANGED graphVars
  \/ Deque!PopBackNone(w) /\ Steal(w, NoJob) /\ UNCHANGED graphVars
  \/ Deque!PopBackLost(w) /\ Steal(w, NoJob) /\ GiveUp(w)

WorkerNext(w) ==
  \/ ControlStep(w) \/ JobStep(w)
  \/ ScanStep(w) \/ SizeStep(w) \/ PopStep(w) \/ PushBackStep(w) \/ StealStep(w)

\* The job becomes visible when it is stored.
AddStep ==
  \/ /\ mainPc = "add"
     /\ Inside(Deque!PushBackBegin(Main, current, frame.add[index + 1]))
  \/ Deque!PushBackEnd(Main) /\ Pushed

PollStep ==
  \/ mainPc = "poll" /\ Inside(Deque!SizeBegin(Main, index))
  \/ /\ Deque!SizeEnd(Main)
     /\ PollSize(Deque!SizeSeen(Main))
     /\ UNCHANGED graphVars

MainNext ==
  \/ AddStep \/ PollStep
  \/ (Create \/ DeleteJobs) /\ UNCHANGED dequeVars
  \/ (Attach \/ NextFrame \/ NotifyWorker \/ PollRunning) /\ UNCHANGED <<graphVars, dequeVars>>

QuitNext ==
  \/ quitPc = "clear" /\ Inside(Deque!ClearBegin(Quitter, quitIndex))
  \/ Deque!ClearEnd(Quitter) /\ Cleared /\ UNCHANGED graphVars
  \/ (Halt \/ Silence \/ NotifyStop \/ Join) /\ UNCHANGED <<graphVars, dequeVars>>

Next ==
  \/ MainNext
  \/ QuitNext
  \/ Quit /\ UNCHANGED <<graphVars, dequeVars>>
  \/ \E w \in Workers :
       \/ WorkerNext(w)
       \/ SpuriousWakeup(w) /\ UNCHANGED <<graphVars, dequeVars>>

Spec == Init /\ [][Next]_vars

\* As in LockingSystem; the mutexes of the deques are given to every thread that
\* waits for them, too.
FairSpec ==
  /\ Spec
  /\ SF_vars(MainNext)
  /\ SF_vars(QuitNext)
  /\ \A w \in Workers : SF_vars(WorkerNext(w))

-----------------------------------------------------------------------------

\* The jobs between the boundaries of a deque, without a slot whose PushBack is
\* still to be stored.
Stored(i) ==
  {k \in front[i] .. back[i] - 1 :
     \A t \in Users :
       ~(call[t].step = "store" /\ call[t].deque = i /\ call[t].back = k)}

\* The workers that have taken j and not put it back: PopFront has moved mFront
\* over it, or it was answered.
Takers(j) ==
  {w \in Workers :
     \/ call[w].step \in {"frontlast", "resetback", "resetfront", "store"} /\ call[w].job = j
     \/ call[w].step \notin {"frontlast", "resetback", "resetfront", "store"}
          /\ (popped[w] = j \/ (hand[w] = j /\ pc[w] = "execute"))}

\* From its AddJob until its function has returned a job is between the
\* boundaries of one deque or taken by one worker; after that by no other.
InOnePlace ==
  \A j \in created :
    LET slots == {s \in Workers \X Deque!Slots :
                    s[2] \in Stored(s[1]) /\ entries[s[1]][s[2]] = j}
        places == Cardinality(slots) + Cardinality(Takers(j))
    IN IF j \in done THEN slots = {} /\ places <= 1
       ELSE mainPc \notin {"create", "add", "notify"} => places = 1

\* The counter of a job is 0 when the job is done and positive before, as
\* job.h:20-23 says: with the locks no job is executed twice.
CounterMeaning ==
  \A j \in created : IF j \in done THEN unfinished[j] = 0 ELSE unfinished[j] >= 1

\* The buffer is large enough (lockless_deque.h:38).
WithinBounds == \A i \in Workers : back[i] <= Capacity

\* The compare-and-exchange of PopFront never fails (lockless_deque.h:121,
\* "should not happen"): nobody but the owner moves mFront.
FrontIsOwned ==
  \A w \in Workers :
    running[w] /\ call[w].step = "frontswap" => front[w] = call[w].front

\* No job function runs before those of all its predecessors have returned.
DependencyOrder == Graph!DependencyOrder

\* Every frame comes to its end, the deletion of its jobs, and none of them is
\* lost: all are executed.
FrameEnds == mainPc = "add" ~> (mainPc = "delete" /\ done = created)

=============================================================================
