------------------------------ MODULE JobGraph ------------------------------
(***************************************************************************)
(* The jobs of one frame: class Job of src/src/job.h and src/src/job.cpp,  *)
(* used by any number of threads.                                          *)
(*                                                                         *)
(* A job is built with the set of jobs that depend on it.  Its counter     *)
(* mUnfinishedJobs starts at 1 for the job itself and is raised by one for *)
(* every job that names it as a dependant.  A thread that has seen the     *)
(* counter at 1 may run the job; finishing it takes the counter down by    *)
(* one and, when it reaches 0, takes down the counter of each dependant.   *)
(*                                                                         *)
(* Nothing here says that a job is handed to one thread only: a deque may  *)
(* give the same job to two threads (IsFinished in job.cpp speaks of a     *)
(* counter below 0), so Claim may be taken by any idle thread.  What the   *)
(* counters promise has to hold all the same.                              *)
(***************************************************************************)
EXTENDS Integers, FiniteSets

CONSTANTS
  Jobs,     \* the Job objects of a frame
  Threads,  \* the threads that may execute jobs
  NoJob     \* the null Job pointer

ASSUME JobsAssumption == IsFiniteSet(Jobs) /\ NoJob \notin Jobs

VARIABLES
  dependants,   \* Job::mDependants, the vector as a set
  unfinished,   \* Job::mUnfinishedJobs
  created,      \* the jobs that have been constructed and not deleted
  shared,       \* TRUE from the first AddJob of the frame on
  done,         \* history: the jobs whose function has returned at least once
  phase,        \* where each thread is in Job::Execute
  hand,         \* the job each thread executes, or NoJob
  pending       \* the dependants a thread in Finish still has to decrement

jobVars == <<dependants, unfinished, created, shared, done>>
execVars == <<phase, hand, pending>>
vars == <<jobVars, execVars>>

Phases == {"idle", "claimed", "running", "signalling"}

TypeOK ==
  /\ dependants \in [Jobs -> SUBSET Jobs]
  /\ unfinished \in [Jobs -> Int]
  /\ created \subseteq Jobs
  /\ shared \in BOOLEAN
  /\ done \subseteq created
  /\ phase \in [Threads -> Phases]
  /\ hand \in [Threads -> Jobs \cup {NoJob}]
  /\ pending \in [Threads -> SUBSET Jobs]
  /\ \A t \in Threads : phase[t] = "idle" <=> hand[t] = NoJob

-----------------------------------------------------------------------------

CanExecute(j) == unfinished[j] = 1

IsFinished(j) == unfinished[j] <= 0

HasDependants(j) == dependants[j] # {}

\* The jobs that name j as a dependant.
Predecessors(j) == {p \in created : j \in dependants[p]}

Init ==
  /\ dependants = [j \in Jobs |-> {}]
  /\ unfinished = [j \in Jobs |-> 1]
  /\ created = {}
  /\ shared = FALSE
  /\ done = {}
  /\ phase = [t \in Threads |-> "idle"]
  /\ hand = [t \in Threads |-> NoJob]
  /\ pending = [t \in Threads |-> {}]

\* Variant: the constructor may also run while workers hold jobs.
ConstructWhileShared(j, deps) ==
  /\ j \in Jobs \ created
  /\ deps \subseteq created
  /\ created' = created \cup {j}
  /\ dependants' = [dependants EXCEPT ![j] = deps]
  /\ unfinished' = [d \in Jobs |->
                      IF d \in deps THEN unfinished[d] + 1 ELSE unfinished[d]]
  /\ UNCHANGED <<shared, done, execVars>>

\* Job::Job: the dependants exist already and no worker has seen a job yet
\* (UpdateParallel builds every job before the first AddJob).
Construct(j, deps) ==
  /\ ~shared
  /\ j \in Jobs \ created
  /\ deps \subseteq created
  /\ created' = created \cup {j}
  /\ dependants' = [dependants EXCEPT ![j] = deps]
  /\ unfinished' = [d \in Jobs |->
                      IF d \in deps THEN unfinished[d] + 1 ELSE unfinished[d]]
  /\ UNCHANGED <<shared, done, execVars>>

\* The jobs become visible to the workers.
Share ==
  /\ ~shared
  /\ created # {}
  /\ shared' = TRUE
  /\ UNCHANGED <<dependants, unfinished, created, done, execVars>>

\* A thread sees CanExecute and means to execute the job.
Claim(t, j) ==
  /\ shared
  /\ phase[t] = "idle"
  /\ j \in created
  /\ CanExecute(j)
  /\ phase' = [phase EXCEPT ![t] = "claimed"]
  /\ hand' = [hand EXCEPT ![t] = j]
  /\ UNCHANGED <<jobVars, pending>>

\* After CanExecute the compare-and-exchange of a pop fails: no job.
Abandon(t) ==
  /\ phase[t] = "claimed"
  /\ phase' = [phase EXCEPT ![t] = "idle"]
  /\ hand' = [hand EXCEPT ![t] = NoJob]
  /\ UNCHANGED <<jobVars, pending>>

\* Job::Execute calls mJobFunction.
Start(t) ==
  /\ phase[t] = "claimed"
  /\ phase' = [phase EXCEPT ![t] = "running"]
  /\ UNCHANGED <<jobVars, hand, pending>>

\* Variant: the test of Job::Finish also lets a counter below 0 pass.
FinishSignalsBelowZero(t) ==
  LET j == hand[t]
      left == unfinished[j] - 1
  IN /\ phase[t] = "running"
     /\ unfinished' = [unfinished EXCEPT ![j] = left]
     /\ done' = done \cup {j}
     /\ phase' = [phase EXCEPT ![t] = "signalling"]
     /\ pending' = [pending EXCEPT
                      ![t] = IF left <= 0 THEN dependants[j] ELSE {}]
     /\ UNCHANGED <<dependants, created, shared, hand>>

\* mJobFunction returns and Job::Finish takes the counter down by one.  The
\* value it got, not a second read, decides whether the dependants are told.
Finish(t) ==
  LET j == hand[t]
      left == unfinished[j] - 1
  IN /\ phase[t] = "running"
     /\ unfinished' = [unfinished EXCEPT ![j] = left]
     /\ done' = done \cup {j}
     /\ phase' = [phase EXCEPT ![t] = "signalling"]
     /\ pending' = [pending EXCEPT
                      ![t] = IF left = 0 THEN dependants[j] ELSE {}]
     /\ UNCHANGED <<dependants, created, shared, hand>>

\* One round of the loop in Job::Finish, in any order of the dependants.
Signal(t, d) ==
  /\ phase[t] = "signalling"
  /\ d \in pending[t]
  /\ unfinished' = [unfinished EXCEPT ![d] = @ - 1]
  /\ pending' = [pending EXCEPT ![t] = @ \ {d}]
  /\ UNCHANGED <<dependants, created, shared, done, phase, hand>>

\* Variant: Job::Finish leaves its loop before the last dependant.
ReturnEarly(t) ==
  /\ phase[t] = "signalling"
  /\ phase' = [phase EXCEPT ![t] = "idle"]
  /\ hand' = [hand EXCEPT ![t] = NoJob]
  /\ pending' = [pending EXCEPT ![t] = {}]
  /\ UNCHANGED jobVars

\* Variant: the thread keeps its pointer to the job after Job::Execute.
ReturnHolding(t) ==
  /\ phase[t] = "signalling"
  /\ pending[t] = {}
  /\ phase' = [phase EXCEPT ![t] = "idle"]
  /\ UNCHANGED <<jobVars, pending, hand>>

\* Job::Execute returns.
Return(t) ==
  /\ phase[t] = "signalling"
  /\ pending[t] = {}
  /\ phase' = [phase EXCEPT ![t] = "idle"]
  /\ hand' = [hand EXCEPT ![t] = NoJob]
  /\ UNCHANGED <<jobVars, pending>>

\* No job exists any more.
Reset ==
  /\ dependants' = [j \in Jobs |-> {}]
  /\ unfinished' = [j \in Jobs |-> 1]
  /\ created' = {}
  /\ shared' = FALSE
  /\ done' = {}

\* The end of UpdateParallel: the jobs are deleted when all of them are done
\* and no thread executes one any more.  This is the promise that the wait for
\* AllJobsFinished is there to keep.
Delete ==
  /\ shared
  /\ done = created
  /\ \A t \in Threads : phase[t] = "idle"
  /\ Reset
  /\ UNCHANGED execVars

Next ==
  \/ \E j \in Jobs : \E deps \in SUBSET created : Construct(j, deps)
  \/ Share
  \/ Delete
  \/ \E t \in Threads :
       \/ \E j \in Jobs : Claim(t, j)
       \/ Abandon(t)
       \/ Start(t)
       \/ Finish(t)
       \/ \E d \in Jobs : Signal(t, d)
       \/ Return(t)

Spec == Init /\ [][Next]_vars

-----------------------------------------------------------------------------
(* What the counters promise. *)

\* t still owes d the decrement for the job it has in hand.
Owes(t, d) == phase[t] = "signalling" /\ d \in pending[t]

\* The predecessors whose decrement has not reached the counter of j.
OpenPredecessors(j) ==
  {p \in Predecessors(j) :
     p \notin done \/ \E t \in Threads : hand[t] = p /\ Owes(t, j)}

\* mUnfinishedJobs means what job.h:20-23 says, with 0 and below for a job that
\* is done: one for the job itself and one for each predecessor that has not
\* reported, however often a job is executed and however the decrements of
\* several threads interleave.
CountersExact ==
  \A j \in created :
    IF j \in done
    THEN IsFinished(j) /\ OpenPredecessors(j) = {}
    ELSE unfinished[j] = 1 + Cardinality(OpenPredecessors(j))

\* No job function runs before the functions of all the jobs it depends on have
\* returned, even when two threads execute the same job.
DependencyOrder ==
  \A t \in Threads :
    phase[t] \in {"claimed", "running"} => Predecessors(hand[t]) \subseteq done

\* The error branch of JobWorker::Run ("not finished after execution",
\* job_worker.cpp:117) is dead: a job is finished when Execute is through with
\* its counter.
ExecutedIsFinished ==
  \A t \in Threads : phase[t] = "signalling" => IsFinished(hand[t])

\* While jobs are left and no thread is busy with one, some job can be executed:
\* the counters of a graph built by the constructor never wait for each other.
NeverStuck ==
  shared /\ done # created /\ (\A t \in Threads : phase[t] = "idle")
    => \E j \in created \ done : CanExecute(j)

\* A finished job stays finished until it is deleted: no late decrement or
\* increment makes it look unfinished or executable again.
FinishedForever ==
  [][\A j \in Jobs : IsFinished(j) => IsFinished(j)' \/ j \notin created']_vars

=============================================================================
