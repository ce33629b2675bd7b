--------------------------- MODULE JobGraphProofs ---------------------------
(***************************************************************************)
(* The safety properties of JobGraph, for every finite set of jobs, every  *)
(* graph the constructor can build and every set of threads.               *)
(*                                                                         *)
(* The invariants are not inductive one by one.  IInv adds to the meaning  *)
(* of the counters who may still owe a decrement: a thread in the loop of  *)
(* Finish owes only dependants of a job that is done, and no two threads   *)
(* owe the same decrement, because only the thread that took the counter   *)
(* from 1 to 0 entered the loop with something to do.                      *)
(***************************************************************************)
EXTENDS JobGraph, FiniteSetTheorems, TLAPS

\* The graph is built from created jobs, and every set of jobs has one that no
\* member of the set precedes: there is no cycle.
GraphInv ==
  /\ \A j \in Jobs : dependants[j] \subseteq created
  /\ \A j \in Jobs \ created : dependants[j] = {}
  /\ \A S \in SUBSET created :
       S # {} => \E j \in S : Predecessors(j) \cap S = {}

\* CountersExact for every Job object, the unused ones included.
CounterInv ==
  \A j \in Jobs :
    /\ j \in done => unfinished[j] <= 0 /\ OpenPredecessors(j) = {}
    /\ j \notin done => unfinished[j] = 1 + Cardinality(OpenPredecessors(j))

\* What a thread knows of the job it has in hand.
ThreadInv ==
  \A t \in Threads :
    /\ phase[t] # "idle" => hand[t] \in created
    /\ phase[t] \in {"claimed", "running"} => OpenPredecessors(hand[t]) = {}
    /\ phase[t] = "signalling" =>
         hand[t] \in done /\ pending[t] \subseteq dependants[hand[t]]
    /\ phase[t] # "signalling" => pending[t] = {}

\* No decrement is owed twice.
OwedOnce ==
  \A t, u \in Threads :
    t # u /\ hand[t] = hand[u] => pending[t] \cap pending[u] = {}

\* Before the first AddJob nothing has been executed.
BuildingInv ==
  ~shared => done = {} /\ \A t \in Threads : phase[t] = "idle"

IInv ==
  TypeOK /\ GraphInv /\ CounterInv /\ ThreadInv /\ OwedOnce /\ BuildingInv

-----------------------------------------------------------------------------

LEMMA OpenFinite ==
  ASSUME created \subseteq Jobs, NEW j
  PROVE  IsFiniteSet(OpenPredecessors(j))
<1>1. OpenPredecessors(j) \in SUBSET Jobs
  BY DEF OpenPredecessors, Predecessors
<1>. QED
  BY <1>1, JobsAssumption, FS_Subset

\* A job whose counter stands at 1 has heard from all its predecessors.
LEMMA ExecutableIsReady ==
  ASSUME TypeOK, CounterInv, NEW j \in Jobs, CanExecute(j)
  PROVE  j \notin done /\ OpenPredecessors(j) = {}
<1>1. j \notin done
  BY DEF CounterInv, CanExecute
<1>2. unfinished[j] = 1 + Cardinality(OpenPredecessors(j))
  BY <1>1 DEF CounterInv
<1>3. IsFiniteSet(OpenPredecessors(j))
  BY OpenFinite DEF TypeOK
<1>4. Cardinality(OpenPredecessors(j)) \in Nat
  BY <1>3, FS_CardinalityType
<1>5. Cardinality(OpenPredecessors(j)) = 0
  BY <1>2, <1>4 DEF CanExecute
<1>. QED
  BY <1>1, <1>3, <1>5, FS_EmptySet

LEMMA InitInv == Init => IInv
<1>. SUFFICES ASSUME Init PROVE IInv
  OBVIOUS
<1>1. TypeOK
  <2>1. dependants \in [Jobs -> SUBSET Jobs] /\ unfinished \in [Jobs -> Int]
    BY DEF Init
  <2>2. phase \in [Threads -> Phases] /\ hand \in [Threads -> Jobs \cup {NoJob}]
    BY DEF Init, Phases
  <2>3. pending \in [Threads -> SUBSET Jobs]
    BY DEF Init
  <2>4. \A t \in Threads : phase[t] = "idle" <=> hand[t] = NoJob
    BY DEF Init
  <2>. QED
    BY <2>1, <2>2, <2>3, <2>4 DEF Init, TypeOK
<1>2. \A j : OpenPredecessors(j) = {}
  BY DEF Init, OpenPredecessors, Predecessors
<1>3. GraphInv
  BY DEF Init, GraphInv
<1>4. CounterInv
  BY <1>2, FS_EmptySet DEF Init, CounterInv
<1>5. ThreadInv /\ OwedOnce /\ BuildingInv
  BY DEF Init, ThreadInv, OwedOnce, BuildingInv
<1>. QED
  BY <1>1, <1>3, <1>4, <1>5 DEF IInv

\* The new job precedes its dependants and nothing precedes it, so it opens one
\* more predecessor for each dependant and closes no cycle.
LEMMA ConstructInv ==
  ASSUME IInv, NEW n \in Jobs, NEW deps \in SUBSET created, Construct(n, deps)
  PROVE  IInv'
<1>. USE DEF IInv
<1>1. TypeOK'
  BY DEF TypeOK, Construct, execVars
<1>2. n \notin created /\ ~shared /\ done = {} /\ n \notin deps
      /\ \A t \in Threads : phase[t] = "idle"
  BY DEF Construct, BuildingInv
<1>3. \A j \in Jobs : Predecessors(j)' =
        IF j \in deps THEN Predecessors(j) \cup {n} ELSE Predecessors(j)
  BY <1>2 DEF Construct, Predecessors, TypeOK, GraphInv
<1>4. \A j \in Jobs :
        /\ OpenPredecessors(j) = Predecessors(j)
        /\ OpenPredecessors(j)' = Predecessors(j)'
  BY <1>2 DEF OpenPredecessors, Owes, Construct, execVars
<1>5. \A j : n \notin Predecessors(j)
  BY <1>2 DEF Predecessors
<1>6. GraphInv'
  <2>1. \A j \in Jobs : dependants'[j] \subseteq created'
    BY DEF Construct, GraphInv, TypeOK
  <2>2. \A j \in Jobs \ created' : dependants'[j] = {}
    BY DEF Construct, GraphInv, TypeOK
  <2>3. ASSUME NEW S \in SUBSET created', S # {}
        PROVE  \E j \in S : Predecessors(j)' \cap S = {}
    <3>1. CASE n \in S
      <4>1. Predecessors(n)' = Predecessors(n)
        BY <1>2, <1>3
      <4>2. Predecessors(n) = {}
        BY <1>2 DEF Predecessors, GraphInv, TypeOK
      <4>. QED
        BY <3>1, <4>1, <4>2
    <3>2. CASE n \notin S
      <4>1. S \in SUBSET created
        BY <3>2 DEF Construct
      <4>2. PICK j \in S : Predecessors(j) \cap S = {}
        BY <2>3, <4>1 DEF GraphInv
      <4>3. j \in Jobs
        BY <4>1, <4>2 DEF TypeOK
      <4>. QED
        BY <1>3, <3>2, <4>2, <4>3
    <3>. QED
      BY <3>1, <3>2
  <2>. QED
    BY <2>1, <2>2, <2>3 DEF GraphInv
<1>7. CounterInv'
  <2>. SUFFICES ASSUME NEW j \in Jobs
               PROVE  unfinished'[j] = 1 + Cardinality(OpenPredecessors(j)')
    BY <1>2 DEF CounterInv, Construct
  <2>1. IsFiniteSet(Predecessors(j))
    BY <1>4, OpenFinite DEF TypeOK
  <2>2. Cardinality(Predecessors(j)) \in Nat
    BY <2>1, FS_CardinalityType
  <2>3. unfinished[j] = 1 + Cardinality(Predecessors(j))
    BY <1>2, <1>4 DEF CounterInv
  <2>4. Cardinality(Predecessors(j) \cup {n}) = Cardinality(Predecessors(j)) + 1
    BY <1>5, <2>1, FS_AddElement
  <2>5. unfinished'[j] = IF j \in deps THEN unfinished[j] + 1 ELSE unfinished[j]
    BY DEF Construct
  <2>6. OpenPredecessors(j)' =
          IF j \in deps THEN Predecessors(j) \cup {n} ELSE Predecessors(j)
    BY <1>3, <1>4
  <2>7. CASE j \in deps
    <3>1. Cardinality(OpenPredecessors(j)') = Cardinality(Predecessors(j)) + 1
      BY <2>4, <2>6, <2>7
    <3>. QED
      BY <2>2, <2>3, <2>5, <2>7, <3>1
  <2>8. CASE j \notin deps
    BY <2>2, <2>3, <2>5, <2>6, <2>8
  <2>. QED
    BY <2>7, <2>8
<1>8. ThreadInv'
  BY <1>2 DEF ThreadInv, Construct, execVars
<1>9. OwedOnce' /\ BuildingInv'
  BY <1>2 DEF OwedOnce, BuildingInv, Construct, execVars
<1>. QED
  BY <1>1, <1>6, <1>7, <1>8, <1>9

\* The steps that leave the graph, the counters, the finished jobs and the owed
\* decrements alone.
LEMMA QuietStepOpen ==
  ASSUME TypeOK, UNCHANGED <<dependants, created, done, pending>>,
         \A t \in Threads : pending[t] # {} =>
           hand'[t] = hand[t] /\ phase'[t] = phase[t],
         \A t \in Threads : pending[t] = {} => pending'[t] = {}
  PROVE  \A j : OpenPredecessors(j)' = OpenPredecessors(j)
<1>1. \A t \in Threads : \A p, j : (hand[t] = p /\ Owes(t, j))'
                              <=> (hand[t] = p /\ Owes(t, j))
  BY DEF Owes
<1>. QED
  BY <1>1 DEF OpenPredecessors, Predecessors

LEMMA ClaimInv ==
  ASSUME IInv, NEW t \in Threads, NEW j \in Jobs, Claim(t, j)
  PROVE  IInv'
<1>. USE DEF IInv
<1>1. TypeOK'
  BY JobsAssumption DEF TypeOK, Claim, jobVars, Phases
<1>2. pending[t] = {} /\ UNCHANGED <<jobVars, pending>>
  BY DEF ThreadInv, Claim
<1>3. \A k : OpenPredecessors(k)' = OpenPredecessors(k)
  <2>1. \A u \in Threads : pending[u] # {} =>
          hand'[u] = hand[u] /\ phase'[u] = phase[u]
    BY <1>2 DEF Claim, TypeOK
  <2>. QED
    BY <1>2, <2>1, QuietStepOpen DEF jobVars
<1>4. GraphInv' /\ CounterInv'
  BY <1>2, <1>3 DEF GraphInv, CounterInv, Predecessors, jobVars
<1>5. ThreadInv'
  <2>1. OpenPredecessors(j) = {} /\ j \in created
    BY ExecutableIsReady DEF Claim
  <2>. QED
    BY <1>2, <1>3, <2>1 DEF ThreadInv, Claim, TypeOK, jobVars
<1>6. OwedOnce' /\ BuildingInv'
  BY <1>2 DEF OwedOnce, BuildingInv, Claim, TypeOK, jobVars
<1>. QED
  BY <1>1, <1>4, <1>5, <1>6

\* Abandon and Return: the thread lets go of a job it owes nothing for.
LEMMA LetGoInv ==
  ASSUME IInv, NEW t \in Threads, Abandon(t) \/ Return(t)
  PROVE  IInv'
<1>. USE DEF IInv
<1>1. TypeOK'
  BY JobsAssumption DEF TypeOK, Abandon, Return, jobVars, Phases
<1>2. pending[t] = {} /\ UNCHANGED <<jobVars, pending>>
  BY DEF ThreadInv, Abandon, Return
<1>3. \A k : OpenPredecessors(k)' = OpenPredecessors(k)
  <2>1. \A u \in Threads : pending[u] # {} =>
          hand'[u] = hand[u] /\ phase'[u] = phase[u]
    BY <1>2 DEF Abandon, Return, TypeOK
  <2>. QED
    BY <1>2, <2>1, QuietStepOpen DEF jobVars
<1>4. GraphInv' /\ CounterInv'
  BY <1>2, <1>3 DEF GraphInv, CounterInv, Predecessors, jobVars
<1>5. ThreadInv'
  BY <1>2, <1>3 DEF ThreadInv, Abandon, Return, TypeOK, jobVars
<1>6. OwedOnce' /\ BuildingInv'
  BY <1>2 DEF OwedOnce, BuildingInv, Abandon, Return, TypeOK, jobVars
<1>. QED
  BY <1>1, <1>4, <1>5, <1>6

LEMMA StartInv ==
  ASSUME IInv, NEW t \in Threads, Start(t)
  PROVE  IInv'
<1>. USE DEF IInv
<1>1. TypeOK'
  BY DEF TypeOK, Start, jobVars, Phases
<1>2. pending[t] = {} /\ UNCHANGED <<jobVars, hand, pending>>
  BY DEF ThreadInv, Start
<1>3. \A k : OpenPredecessors(k)' = OpenPredecessors(k)
  <2>1. \A u \in Threads : pending[u] # {} =>
          hand'[u] = hand[u] /\ phase'[u] = phase[u]
    BY <1>2 DEF Start, TypeOK
  <2>. QED
    BY <1>2, <2>1, QuietStepOpen DEF jobVars
<1>4. GraphInv' /\ CounterInv'
  BY <1>2, <1>3 DEF GraphInv, CounterInv, Predecessors, jobVars
<1>5. ThreadInv'
  BY <1>2, <1>3 DEF ThreadInv, Start, TypeOK, jobVars
<1>6. OwedOnce' /\ BuildingInv'
  BY <1>2 DEF OwedOnce, BuildingInv, Start, TypeOK, jobVars
<1>. QED
  BY <1>1, <1>4, <1>5, <1>6

\* Finish: the thread that takes the counter from 1 to 0 now owes every
\* dependant, so every predecessor that was open stays open.  A thread that
\* finishes a job another thread has finished owes nothing.
LEMMA FinishInv ==
  ASSUME IInv, NEW t \in Threads, Finish(t)
  PROVE  IInv'
<1>. USE DEF IInv
<1>. DEFINE j == hand[t]
<1>1. /\ j \in created /\ j \in Jobs /\ shared
      /\ OpenPredecessors(j) = {}
      /\ pending[t] = {}
  BY DEF ThreadInv, TypeOK, Finish, BuildingInv
<1>2. /\ unfinished' = [unfinished EXCEPT ![j] = unfinished[j] - 1]
      /\ done' = done \cup {j}
      /\ phase' = [phase EXCEPT ![t] = "signalling"]
      /\ UNCHANGED <<dependants, created, shared, hand>>
  BY DEF Finish
<1>3. TypeOK'
  <2>1. pending' \in [Threads -> SUBSET Jobs]
    BY <1>1 DEF Finish, TypeOK
  <2>2. unfinished' \in [Jobs -> Int] /\ done' \subseteq created'
    BY <1>1, <1>2 DEF TypeOK
  <2>3. \A u \in Threads : phase'[u] = "idle" <=> hand'[u] = NoJob
    BY <1>2 DEF Finish, TypeOK
  <2>. QED
    BY <1>2, <2>1, <2>2, <2>3 DEF TypeOK, Phases
<1>4. j \in done => unfinished[j] <= 0 /\ pending' = pending
  BY <1>1 DEF CounterInv, Finish, TypeOK
<1>5. j \notin done => /\ unfinished[j] = 1
                       /\ pending' = [pending EXCEPT ![t] = dependants[j]]
  <2>1. Cardinality(OpenPredecessors(j)) = 0
    BY <1>1, FS_EmptySet
  <2>2. j \notin done => unfinished[j] = 1
    BY <1>1, <2>1 DEF CounterInv
  <2>3. unfinished[j] = 1 => unfinished[j] - 1 = 0
    OBVIOUS
  <2>. QED
    BY <2>2, <2>3 DEF Finish
<1>6. \A k \in Jobs : OpenPredecessors(k)' = OpenPredecessors(k)
  <2>. SUFFICES ASSUME NEW k \in Jobs, NEW p \in created
               PROVE  p \in OpenPredecessors(k)' <=> p \in OpenPredecessors(k)
    BY <1>2 DEF OpenPredecessors, Predecessors
  <2>. DEFINE Holds(u) == hand[u] = p /\ Owes(u, k)
  <2>1. \A u \in Threads : u # t => (Holds(u)' <=> Holds(u))
    BY <1>2 DEF Finish, Owes, TypeOK
  <2>2. ~Holds(t)
    BY <1>1 DEF Owes
  <2>3. CASE p # j
    <3>1. ~Holds(t)'
      BY <1>2, <2>3
    <3>. QED
      BY <1>2, <2>1, <2>2, <2>3, <3>1 DEF OpenPredecessors, Predecessors
  <2>4. CASE p = j /\ j \in done
    <3>1. ~Holds(t)'
      BY <1>1, <1>2, <1>4, <2>4 DEF Owes
    <3>. QED
      BY <1>2, <2>1, <2>2, <2>4, <3>1 DEF OpenPredecessors, Predecessors
  <2>5. CASE p = j /\ j \notin done
    <3>1. Holds(t)' <=> k \in dependants[j]
      BY <1>2, <1>5, <2>5 DEF Owes, TypeOK
    <3>. QED
      BY <1>2, <2>5, <3>1 DEF OpenPredecessors, Predecessors
  <2>. QED
    BY <2>3, <2>4, <2>5
<1>7. GraphInv'
  BY <1>2 DEF GraphInv, Predecessors
<1>8. CounterInv'
  <2>. SUFFICES ASSUME NEW k \in Jobs
               PROVE  /\ k \in done' => unfinished'[k] <= 0
                                       /\ OpenPredecessors(k)' = {}
                      /\ k \notin done' =>
                           unfinished'[k] = 1 + Cardinality(OpenPredecessors(k)')
    BY DEF CounterInv
  <2>1. CASE k = j
    BY <1>1, <1>2, <1>4, <1>5, <1>6, <2>1 DEF TypeOK
  <2>2. CASE k # j
    BY <1>2, <1>6, <2>2 DEF TypeOK, CounterInv
  <2>. QED
    BY <2>1, <2>2
<1>9. ThreadInv'
  BY <1>1, <1>2, <1>4, <1>5, <1>6 DEF ThreadInv, TypeOK
<1>10. OwedOnce'
  <2>1. ASSUME NEW u \in Threads, u # t, hand[u] = j, j \notin done
        PROVE  pending[u] = {}
    BY <2>1 DEF ThreadInv
  <2>2. ASSUME NEW u \in Threads, u # t
        PROVE  pending'[u] = pending[u]
    BY <2>2 DEF Finish, TypeOK
  <2>3. j \in done => pending'[t] = {}
    BY <1>1, <1>4
  <2>. QED
    BY <1>2, <2>1, <2>2, <2>3 DEF OwedOnce
<1>11. BuildingInv'
  BY <1>1, <1>2 DEF BuildingInv
<1>. QED
  BY <1>3, <1>7, <1>8, <1>9, <1>10, <1>11

\* Signal: d had its counter above 1, because the thread still owed it, and
\* loses exactly one open predecessor.
LEMMA SignalInv ==
  ASSUME IInv, NEW t \in Threads, NEW d \in Jobs, Signal(t, d)
  PROVE  IInv'
<1>. USE DEF IInv
<1>. DEFINE p == hand[t]
<1>1. /\ Owes(t, d) /\ p \in done /\ p \in created /\ d \in dependants[p]
      /\ p \in OpenPredecessors(d)
  BY DEF Signal, Owes, ThreadInv, TypeOK, OpenPredecessors, Predecessors
<1>2. /\ unfinished' = [unfinished EXCEPT ![d] = unfinished[d] - 1]
      /\ pending' = [pending EXCEPT ![t] = pending[t] \ {d}]
      /\ UNCHANGED <<dependants, created, shared, done, phase, hand>>
  BY DEF Signal
<1>3. TypeOK'
  BY <1>2 DEF TypeOK
<1>4. \A u \in Threads : u # t /\ hand[u] = p => ~Owes(u, d)
  BY <1>1 DEF OwedOnce, Owes
<1>5. OpenPredecessors(d)' = OpenPredecessors(d) \ {p}
  <2>. SUFFICES ASSUME NEW q \in created
               PROVE  q \in OpenPredecessors(d)'
                        <=> q \in OpenPredecessors(d) /\ q # p
    BY <1>2 DEF OpenPredecessors, Predecessors
  <2>1. ~Owes(t, d)'
    BY <1>2 DEF Owes, TypeOK
  <2>2. \A u \in Threads : u # t => (Owes(u, d)' <=> Owes(u, d))
    BY <1>2 DEF Owes, TypeOK
  <2>3. CASE q = p
    BY <1>1, <1>2, <1>4, <2>1, <2>2, <2>3 DEF OpenPredecessors
  <2>4. CASE q # p
    <3>1. \A u \in Threads : (hand[u] = q /\ Owes(u, d))'
                             <=> (hand[u] = q /\ Owes(u, d))
      BY <1>2, <2>2, <2>4
    <3>. QED
      BY <1>2, <2>4, <3>1 DEF OpenPredecessors, Predecessors
  <2>. QED
    BY <2>3, <2>4
<1>6. \A k \in Jobs : k # d => OpenPredecessors(k)' = OpenPredecessors(k)
  <2>. SUFFICES ASSUME NEW k \in Jobs, k # d
               PROVE  OpenPredecessors(k)' = OpenPredecessors(k)
    OBVIOUS
  <2>1. \A u \in Threads : \A q : (hand[u] = q /\ Owes(u, k))'
                              <=> (hand[u] = q /\ Owes(u, k))
    BY <1>2 DEF Owes, TypeOK
  <2>. QED
    BY <1>2, <2>1 DEF OpenPredecessors, Predecessors
<1>7. GraphInv'
  BY <1>2 DEF GraphInv, Predecessors
<1>8. CounterInv'
  <2>1. d \notin done
    BY <1>1 DEF CounterInv
  <2>2. IsFiniteSet(OpenPredecessors(d))
    BY OpenFinite DEF TypeOK
  <2>3. Cardinality(OpenPredecessors(d)) \in Nat
    BY <2>2, FS_CardinalityType
  <2>4. Cardinality(OpenPredecessors(d) \ {p}) =
          Cardinality(OpenPredecessors(d)) - 1
    BY <1>1, <2>2, FS_RemoveElement
  <2>5. unfinished[d] = 1 + Cardinality(OpenPredecessors(d))
    BY <2>1 DEF CounterInv
  <2>6. unfinished'[d] = unfinished[d] - 1
    BY <1>2 DEF TypeOK
  <2>7. unfinished'[d] = 1 + Cardinality(OpenPredecessors(d)')
    BY <1>5, <2>3, <2>4, <2>5, <2>6
  <2>8. \A k \in Jobs : k # d => unfinished'[k] = unfinished[k]
    BY <1>2 DEF TypeOK
  <2>. QED
    BY <1>2, <1>6, <2>1, <2>7, <2>8 DEF CounterInv
<1>9. ThreadInv'
  <2>1. \A k \in Jobs : OpenPredecessors(k) = {} => OpenPredecessors(k)' = {}
    BY <1>5, <1>6
  <2>2. \A u \in Threads : pending'[u] \subseteq pending[u]
    BY <1>2 DEF TypeOK
  <2>. QED
    BY <1>2, <2>1, <2>2 DEF ThreadInv, TypeOK
<1>10. OwedOnce'
  BY <1>2 DEF OwedOnce, TypeOK
<1>11. BuildingInv'
  BY <1>2 DEF BuildingInv
<1>. QED
  BY <1>3, <1>7, <1>8, <1>9, <1>10, <1>11

\* Share and Delete.
LEMMA FrameInv ==
  ASSUME IInv, Share \/ Delete
  PROVE  IInv'
<1>. USE DEF IInv
<1>1. CASE Share
  <2>1. \A k : OpenPredecessors(k)' = OpenPredecessors(k)
    BY <1>1 DEF Share, OpenPredecessors, Predecessors, Owes, execVars
  <2>2. TypeOK'
    BY <1>1 DEF Share, TypeOK, execVars
  <2>3. GraphInv' /\ CounterInv' /\ ThreadInv'
    BY <1>1, <2>1 DEF Share, GraphInv, CounterInv, ThreadInv, Predecessors, execVars
  <2>4. OwedOnce' /\ BuildingInv'
    BY <1>1 DEF Share, OwedOnce, BuildingInv, execVars
  <2>. QED
    BY <2>2, <2>3, <2>4
<1>2. CASE Delete
  <2>1. \A k : OpenPredecessors(k)' = {}
    BY <1>2 DEF Delete, Reset, OpenPredecessors, Predecessors
  <2>2. \A k : Cardinality(OpenPredecessors(k)') = 0
    BY <2>1, FS_EmptySet
  <2>3. TypeOK'
    <3>1. UNCHANGED <<phase, hand, pending>>
      BY <1>2 DEF Delete, Reset, execVars
    <3>2. dependants' \in [Jobs -> SUBSET Jobs] /\ unfinished' \in [Jobs -> Int]
      BY <1>2 DEF Delete, Reset
    <3>3. created' \subseteq Jobs /\ shared' \in BOOLEAN /\ done' \subseteq created'
      BY <1>2 DEF Delete, Reset
    <3>. QED
      BY <3>1, <3>2, <3>3 DEF TypeOK
  <2>4. GraphInv'
    BY <1>2 DEF Delete, Reset, GraphInv
  <2>5. CounterInv'
    BY <1>2, <2>2 DEF Delete, Reset, CounterInv
  <2>6. ThreadInv' /\ OwedOnce' /\ BuildingInv'
    BY <1>2 DEF Delete, Reset, ThreadInv, OwedOnce, BuildingInv, execVars
  <2>. QED
    BY <2>3, <2>4, <2>5, <2>6
<1>. QED
  BY <1>1, <1>2

LEMMA StepInv == IInv /\ [Next]_vars => IInv'
<1>. SUFFICES ASSUME IInv, [Next]_vars PROVE IInv'
  OBVIOUS
<1>1. ASSUME NEW j \in Jobs, NEW deps \in SUBSET created, Construct(j, deps)
      PROVE  IInv'
  BY <1>1, ConstructInv
<1>2. CASE Share \/ Delete
  BY <1>2, FrameInv
<1>3. ASSUME NEW t \in Threads, NEW j \in Jobs, Claim(t, j)
      PROVE  IInv'
  BY <1>3, ClaimInv
<1>4. ASSUME NEW t \in Threads, Abandon(t) \/ Return(t)
      PROVE  IInv'
  BY <1>4, LetGoInv
<1>5. ASSUME NEW t \in Threads, Start(t)
      PROVE  IInv'
  BY <1>5, StartInv
<1>6. ASSUME NEW t \in Threads, Finish(t)
      PROVE  IInv'
  BY <1>6, FinishInv
<1>7. ASSUME NEW t \in Threads, NEW d \in Jobs, Signal(t, d)
      PROVE  IInv'
  BY <1>7, SignalInv
<1>8. CASE UNCHANGED vars
  <2>1. UNCHANGED <<dependants, unfinished, created, shared, done,
                    phase, hand, pending>>
    BY <1>8 DEF vars, jobVars, execVars
  <2>2. \A j : OpenPredecessors(j)' = OpenPredecessors(j)
    BY <2>1 DEF OpenPredecessors, Predecessors, Owes
  <2>. QED
    BY <2>1, <2>2 DEF IInv, TypeOK, GraphInv, CounterInv, ThreadInv, OwedOnce,
                      BuildingInv, Predecessors
<1>. QED
  BY <1>1, <1>2, <1>3, <1>4, <1>5, <1>6, <1>7, <1>8 DEF Next

-----------------------------------------------------------------------------

\* IInv holds in every reachable state.
THEOREM Invariance == Spec => []IInv
BY InitInv, StepInv, PTL DEF Spec

\* Every variable of JobGraph keeps its type.
THEOREM TypeCorrect == Spec => []TypeOK
<1>1. IInv => TypeOK
  BY DEF IInv
<1>. QED
  BY <1>1, Invariance, PTL

\* A counter is one for the job plus one for each predecessor not yet heard
\* from, until the job is done; from then on it is 0 or less.
THEOREM CountersExactThm == Spec => []CountersExact
<1>1. IInv => CountersExact
  BY DEF IInv, TypeOK, CounterInv, CountersExact, IsFinished
<1>. QED
  BY <1>1, Invariance, PTL

\* A job function runs only after the functions of all its predecessors, even
\* if several threads execute the same job.
THEOREM DependencyOrderThm == Spec => []DependencyOrder
<1>1. IInv => DependencyOrder
  BY DEF IInv, ThreadInv, OpenPredecessors, DependencyOrder
<1>. QED
  BY <1>1, Invariance, PTL

\* After Execute the job is finished, whoever else executed it.
THEOREM ExecutedIsFinishedThm == Spec => []ExecutedIsFinished
<1>1. IInv => ExecutedIsFinished
  BY DEF IInv, TypeOK, ThreadInv, CounterInv, ExecutedIsFinished, IsFinished
<1>. QED
  BY <1>1, Invariance, PTL

\* With all threads idle, a job whose predecessors are all done is executable;
\* the graph has such a job among those left because it has no cycle.
THEOREM NeverStuckThm == Spec => []NeverStuck
<1>1. IInv => NeverStuck
  <2>. SUFFICES ASSUME IInv, shared, done # created,
                       \A t \in Threads : phase[t] = "idle"
               PROVE  \E j \in created \ done : CanExecute(j)
    BY DEF NeverStuck
  <2>. DEFINE left == created \ done
  <2>1. left # {} /\ left \in SUBSET created
    BY DEF IInv, TypeOK
  <2>2. PICK j \in left : Predecessors(j) \cap left = {}
    BY <2>1 DEF IInv, GraphInv
  <2>3. OpenPredecessors(j) = {}
    BY <2>2 DEF OpenPredecessors, Predecessors, Owes
  <2>4. Cardinality(OpenPredecessors(j)) = 0
    BY <2>3, FS_EmptySet
  <2>5. unfinished[j] = 1
    BY <2>2, <2>4 DEF IInv, TypeOK, CounterInv
  <2>. QED
    BY <2>2, <2>5 DEF CanExecute
<1>. QED
  BY <1>1, Invariance, PTL

\* Once finished, a job stays finished until it is deleted.
THEOREM FinishedForeverThm == Spec => FinishedForever
<1>1. IInv /\ [Next]_vars =>
        [\A j \in Jobs : IsFinished(j) => IsFinished(j)' \/ j \notin created']_vars
  <2>. SUFFICES ASSUME IInv, [Next]_vars, NEW j \in Jobs, IsFinished(j)
               PROVE  IsFinished(j)' \/ j \notin created'
    OBVIOUS
  <2>1. unfinished[j] \in Int /\ unfinished[j] <= 0
    BY DEF IInv, TypeOK, IsFinished
  <2>2. j \in done
    <3>1. IsFiniteSet(OpenPredecessors(j))
      BY OpenFinite DEF IInv, TypeOK
    <3>2. Cardinality(OpenPredecessors(j)) \in Nat
      BY <3>1, FS_CardinalityType
    <3>. QED
      BY <2>1, <3>2 DEF IInv, CounterInv
  <2>3. CASE Delete
    BY <2>3 DEF Delete, Reset
  <2>4. CASE ~Delete
    <3>1. j \in done'
      BY <2>2, <2>4 DEF Next, Construct, Share, Claim, Abandon, Start, Finish,
                        Signal, Return, vars, jobVars
    <3>. QED
      BY <3>1, StepInv DEF IInv, CounterInv, IsFinished
  <2>. QED
    BY <2>3, <2>4
<1>. QED
  BY <1>1, Invariance, PTL DEF Spec, FinishedForever

=============================================================================
