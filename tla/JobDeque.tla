------------------------------ MODULE JobDeque ------------------------------
(***************************************************************************)
(* What a deque of jobs promises to its users: the worker that owns it     *)
(* takes jobs from the front and puts jobs back at the back, other workers *)
(* take executable jobs from the back, and the main thread adds jobs at    *)
(* the back.  Each of these happens at one moment.                         *)
(***************************************************************************)
EXTENDS Integers, Sequences

CONSTANTS Jobs, Owner, Thieves

VARIABLES
  queue,       \* the jobs in the deque, front first
  held,        \* the jobs each worker has taken and not put back
  added,       \* the jobs the main thread has added
  executable   \* the jobs that can be executed

vars == <<queue, held, added, executable>>

Workers == {Owner} \cup Thieves

Init ==
  /\ queue = <<>>
  /\ held = [w \in Workers |-> {}]
  /\ added = {}
  /\ executable \in SUBSET Jobs

Add(j) ==
  /\ j \in Jobs \ added
  /\ added' = added \cup {j}
  /\ queue' = Append(queue, j)
  /\ UNCHANGED <<held, executable>>

TakeFront ==
  /\ queue # <<>>
  /\ queue' = Tail(queue)
  /\ held' = [held EXCEPT ![Owner] = @ \cup {Head(queue)}]
  /\ UNCHANGED <<added, executable>>

PutBack(j) ==
  /\ j \in held[Owner]
  /\ queue' = Append(queue, j)
  /\ held' = [held EXCEPT ![Owner] = @ \ {j}]
  /\ UNCHANGED <<added, executable>>

TakeBack(w) ==
  /\ queue # <<>>
  /\ LET j == queue[Len(queue)]
     IN /\ j \in executable
        /\ held' = [held EXCEPT ![w] = @ \cup {j}]
  /\ queue' = SubSeq(queue, 1, Len(queue) - 1)
  /\ UNCHANGED <<added, executable>>

\* The last predecessor of j is done.
Enable(j) ==
  /\ executable' = executable \cup {j}
  /\ UNCHANGED <<queue, held, added>>

Next ==
  \/ \E j \in Jobs : Add(j) \/ PutBack(j) \/ Enable(j)
  \/ TakeFront
  \/ \E w \in Thieves : TakeBack(w)

Spec == Init /\ [][Next]_vars

=============================================================================
