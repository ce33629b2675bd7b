------------------------------ MODULE DequeUse ------------------------------
(***************************************************************************)
(* One LocklessDeque between the threads that use it in the job system:    *)
(* its owner pops at the front and puts jobs back, thieves pop at the back *)
(* and scan for executable jobs, the main thread adds jobs.  Each thread   *)
(* calls the operations that are its own in any order.                     *)
(***************************************************************************)
EXTENDS LocklessDeque, Sequences

CONSTANTS Owner, Main, Thieves

ASSUME UsersAssumption ==
  /\ Threads = {Owner, Main} \cup Thieves /\ Deques = {0}
  /\ Owner # Main /\ Owner \notin Thieves /\ Main \notin Thieves

VARIABLES held, added   \* as in JobDeque

vars == <<dequeVars, held, added, executable>>

Workers == {Owner} \cup Thieves

TypeOK ==
  /\ DequeTypeOK
  /\ held \in [Workers -> SUBSET Jobs]
  /\ added \subseteq Jobs
  /\ executable \subseteq Jobs

Init ==
  /\ DequeInit
  /\ held = [w \in Workers |-> {}]
  /\ added = {}
  /\ executable \in SUBSET Jobs

\* PushBack beyond the end of the buffer is left out here.
HasRoom == back[0] < Capacity

Inside(step) == step /\ UNCHANGED <<held, added, executable>>

\* An operation has answered j, and w keeps it.
Keep(w, j) ==
  /\ held' = [held EXCEPT ![w] = @ \cup {j}]
  /\ UNCHANGED <<added, executable>>

Pop ==
  \/ \E open \in BOOLEAN : Inside(PopFrontBegin(Owner, 0, open))
  \/ Inside(PopFrontOn(Owner) \/ PopFrontTest(Owner))
  \/ Inside(PopFrontSwap(Owner) \/ PopFrontReset(Owner))
  \/ Inside(PopFrontNone(Owner))
  \/ \E j \in Jobs : PopFrontEnd(Owner, j) /\ Keep(Owner, j)

PutBack ==
  \/ \E j \in held[Owner] : HasRoom /\ Inside(PushBackBegin(Owner, 0, j))
  \/ /\ PushBackEnd(Owner)
     /\ held' = [held EXCEPT ![Owner] = @ \ {call[Owner].job}]
     /\ UNCHANGED <<added, executable>>

Steal(w) ==
  \/ Inside(PopBackBegin(w, 0))
  \/ Inside(PopBackOn(w) \/ PopBackTest(w) \/ PopBackNone(w))
  \/ \E j \in Jobs : PopBackEnd(w, j) /\ Keep(w, j)

Scan(w) ==
  \/ Inside(ScanBegin(w, 0))
  \/ Inside(ScanOn(w))
  \/ \E found \in BOOLEAN : Inside(ScanEnd(w, found))

Add ==
  \/ \E j \in Jobs \ added : HasRoom /\ Inside(PushBackBegin(Main, 0, j))
  \/ /\ PushBackEnd(Main)
     /\ added' = added \cup {call[Main].job}
     /\ UNCHANGED <<held, executable>>

Enable(j) ==
  /\ executable' = executable \cup {j}
  /\ UNCHANGED <<dequeVars, held, added>>

Next ==
  \/ Pop \/ PutBack \/ Add
  \/ \E w \in Thieves : Steal(w) \/ Scan(w)
  \/ \E j \in Jobs : Enable(j)

Spec == Init /\ [][Next]_vars

-----------------------------------------------------------------------------
(* How the deque shows its jobs.                                           *)

\* A slot that is reserved and not stored does not count yet.
Reserved == {t \in Threads : call[t].step = "store"}

Contents ==
  LET last == IF Reserved = {} THEN back[0] ELSE back[0] - 1
  IN [k \in 1 .. last - front[0] |-> entries[0][front[0] + k - 1]]

\* PopFront has the job as soon as mFront is past it.
Popped ==
  IF call[Owner].step \in {"frontlast", "resetback", "resetfront"}
  THEN {call[Owner].job} ELSE {}

Abstract ==
  INSTANCE JobDeque WITH
    queue <- Contents,
    held <- [held EXCEPT ![Owner] = @ \cup Popped]

\* With HTL_EXTRA_LOCKS the operations are atomic: PushBack when it stores, a
\* pop at its compare-and-exchange, the reset of the boundaries never.
AbstractSpec == Abstract!Spec

\* No operation looks at a slot that was never written.
ReadsWritten ==
  \A t \in Threads :
    /\ call[t].step \in {"scan", "frontentry"} => Readable(t, call[t].front)
    /\ call[t].step = "backentry" => Readable(t, call[t].back - 1)

\* The compare-and-exchange of a pop never fails under the mutex.
SwapsSucceed ==
  \A t \in Threads :
    /\ call[t].step = "frontswap" => front[0] = call[t].front
    /\ call[t].step = "backswap" => back[0] = call[t].back

=============================================================================
