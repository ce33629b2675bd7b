--------------------------- MODULE LocklessDeque ---------------------------
(***************************************************************************)
(* The operations of LocklessDeque (src/src/lockless_deque.h), one step    *)
(* for each access to mFront, mBack or mEntries, for several deques and    *)
(* several threads.  An operation begins with its first access and ends    *)
(* with its last; the action of the last step has the answer as argument.  *)
(*                                                                         *)
(* HTL_EXTRA_LOCKS puts every operation but Size and Clear under a mutex.  *)
(*                                                                         *)
(* mEntries is not initialised and not bounds-checked.  A thread that      *)
(* meets a slot never written, or one beyond the buffer, has no defined    *)
(* step any more; the model stops that thread there.                       *)
(***************************************************************************)
EXTENDS Integers

CONSTANTS
  Jobs, NoJob,
  Deques,      \* the deques
  Threads,     \* the threads that use them
  Unwritten,   \* the content of a slot that malloc left as it was
  Capacity,    \* LocklessDeque::AMOUNT
  ExtraLocks   \* HTL_EXTRA_LOCKS

ASSUME CapacityAssumption == Capacity \in Nat \ {0}
ASSUME ExtraLocksAssumption == ExtraLocks \in BOOLEAN
ASSUME UnwrittenAssumption == Unwritten \notin Jobs

VARIABLES
  executable,  \* the jobs whose CanExecute is TRUE
  entries,     \* LocklessDeque::mEntries
  front,       \* LocklessDeque::mFront
  back,        \* LocklessDeque::mBack
  call         \* the operation each thread is in, with its local variables

dequeVars == <<entries, front, back, call>>

Slots == 0 .. Capacity - 1

Steps ==
  {"none", "store", "size", "scanfront", "scan",
   "frontback", "frontentry", "fronttest", "frontswap", "frontlast",
   "resetback", "resetfront",
   "backfront", "backentry", "backtest", "backswap", "clear"}

\* No operation, and the locals of an operation that has read nothing yet.
NoCall ==
  [step |-> "none", deque |-> 0, front |-> 0, back |-> 0,
   job |-> NoJob, open |-> FALSE]

DequeTypeOK ==
  /\ entries \in [Deques -> [Slots -> Jobs \cup {Unwritten}]]
  /\ front \in [Deques -> Nat]
  /\ back \in [Deques -> Nat]
  /\ \A t \in Threads :
       /\ call[t].step \in Steps
       /\ call[t].step # "none" => call[t].deque \in Deques
       /\ call[t].front \in Nat /\ call[t].back \in Nat
       /\ call[t].job \in Jobs \cup {NoJob}
       /\ call[t].open \in BOOLEAN

DequeInit ==
  /\ entries = [i \in Deques |-> [k \in Slots |-> Unwritten]]
  /\ front = [i \in Deques |-> 0]
  /\ back = [i \in Deques |-> 0]
  /\ call = [t \in Threads |-> NoCall]

-----------------------------------------------------------------------------

At(t, step) == call[t].step = step

\* Variant: the mutex is not locked.
EnterUnlocked(i) == TRUE

\* With the extra locks an operation on i waits for those of other threads.
MayEnter(i) ==
  ExtraLocks => \A u \in Threads : call[u].step \in {"none", "size", "clear"} \/ call[u].deque # i

\* The operation starts with locals; or it goes on with them, or it ends.
Begin(t, i, locals) ==
  /\ At(t, "none")
  /\ call' = [call EXCEPT ![t] = [locals EXCEPT !.deque = i]]

Continue(t, locals) == call' = [call EXCEPT ![t] = locals]

End(t) == call' = [call EXCEPT ![t] = NoCall]

\* What t finds in the slot k of its deque, if this is defined at all.
Slot(t, k) == entries[call[t].deque][k]
Readable(t, k) == k \in Slots /\ Slot(t, k) # Unwritten

-----------------------------------------------------------------------------
(* Size: mBack is read first.                                              *)

SizeBegin(t, i) ==
  /\ Begin(t, i, [NoCall EXCEPT !.step = "size", !.back = back[i]])
  /\ UNCHANGED <<entries, front, back>>

\* The answer, from that mBack and the mFront of now.
SizeSeen(t) ==
  LET c == call[t]
  IN IF c.back <= front[c.deque] THEN 0 ELSE c.back - front[c.deque]

SizeEnd(t) ==
  /\ At(t, "size")
  /\ End(t)
  /\ UNCHANGED <<entries, front, back>>

-----------------------------------------------------------------------------
(* HasExecutableJobs: the boundaries are read once, the entries one by one. *)

ScanBegin(t, i) ==
  /\ MayEnter(i)
  /\ Begin(t, i, [NoCall EXCEPT !.step = "scanfront", !.back = back[i]])
  /\ UNCHANGED <<entries, front, back>>

ScanOn(t) ==
  LET c == call[t]
  IN /\ \/ /\ At(t, "scanfront")
           /\ front[c.deque] < c.back
           /\ Continue(t, [c EXCEPT !.step = "scan", !.front = front[c.deque]])
        \/ /\ At(t, "scan")
           /\ Readable(t, c.front)
           /\ Slot(t, c.front) \notin executable
           /\ c.front + 1 < c.back
           /\ Continue(t, [c EXCEPT !.front = @ + 1])
     /\ UNCHANGED <<entries, front, back>>

ScanEnd(t, found) ==
  LET c == call[t]
  IN /\ \/ /\ At(t, "scanfront")
           /\ front[c.deque] >= c.back
           /\ found = FALSE
        \/ /\ At(t, "scan")
           /\ Readable(t, c.front)
           /\ found = (Slot(t, c.front) \in executable)
           /\ found \/ c.front + 1 = c.back
     /\ End(t)
     /\ UNCHANGED <<entries, front, back>>

-----------------------------------------------------------------------------
(* Clear, without a mutex: mBack, then mFront.                             *)

ClearBegin(t, i) ==
  /\ Begin(t, i, [NoCall EXCEPT !.step = "clear"])
  /\ back' = [back EXCEPT ![i] = 0]
  /\ UNCHANGED <<entries, front>>

ClearEnd(t) ==
  /\ At(t, "clear")
  /\ front' = [front EXCEPT ![call[t].deque] = 0]
  /\ End(t)
  /\ UNCHANGED <<entries, back>>

-----------------------------------------------------------------------------
(* PushBack: the slot is reserved before it is written.                    *)

PushBackBegin(t, i, j) ==
  /\ MayEnter(i)
  /\ Begin(t, i, [NoCall EXCEPT !.step = "store", !.back = back[i], !.job = j])
  /\ back' = [back EXCEPT ![i] = @ + 1]
  /\ UNCHANGED <<entries, front>>

PushBackEnd(t) ==
  LET c == call[t]
  IN /\ At(t, "store")
     /\ c.back \in Slots
     /\ entries' = [entries EXCEPT ![c.deque][c.back] = c.job]
     /\ End(t)
     /\ UNCHANGED <<front, back>>

-----------------------------------------------------------------------------
(* PopFront.                                                               *)

PopFrontBegin(t, i, open) ==
  /\ MayEnter(i)
  /\ Begin(t, i, [NoCall EXCEPT !.step = "frontback", !.front = front[i], !.open = open])
  /\ UNCHANGED <<entries, front, back>>

\* front < back && back > 0 for the two values read.
NonEmpty(first, last) == first < last /\ last > 0

\* mBack and then the entry are read, if there is one.
PopFrontOn(t) ==
  LET c == call[t]
  IN /\ \/ /\ At(t, "frontback")
           /\ NonEmpty(c.front, back[c.deque])
           /\ Continue(t, [c EXCEPT !.step = "frontentry", !.back = back[c.deque]])
        \/ /\ At(t, "frontentry")
           /\ Readable(t, c.front)
           /\ Continue(t, [c EXCEPT !.job = Slot(t, c.front),
                                    !.step = IF c.open THEN "frontswap" ELSE "fronttest"])
     /\ UNCHANGED <<entries, front, back>>

\* CanExecute of the entry, asked unless open dependencies are allowed.
PopFrontTest(t) ==
  /\ At(t, "fronttest")
  /\ call[t].job \in executable
  /\ Continue(t, [call[t] EXCEPT !.step = "frontswap"])
  /\ UNCHANGED <<entries, front, back>>

\* The compare-and-exchange of mFront; an entry that was not the one at index 0
\* may have been the last one.
PopFrontSwap(t) ==
  LET c == call[t]
  IN /\ At(t, "frontswap")
     /\ front[c.deque] = c.front
     /\ front' = [front EXCEPT ![c.deque] = @ + 1]
     /\ Continue(t, [c EXCEPT !.step = "frontlast"])
     /\ UNCHANGED <<entries, back>>

\* The boundaries are reset, mBack first, when the deque was emptied.
PopFrontReset(t) ==
  LET i == call[t].deque
  IN /\ \/ /\ At(t, "frontlast")
           /\ front[i] = back[i] /\ call[t].front # 0
           /\ Continue(t, [call[t] EXCEPT !.step = "resetback"])
           /\ UNCHANGED back
        \/ /\ At(t, "resetback")
           /\ back' = [back EXCEPT ![i] = 0]
           /\ Continue(t, [call[t] EXCEPT !.step = "resetfront"])
     /\ UNCHANGED <<entries, front>>

\* Variant: the reset leaves mFront as it is.
PopFrontEndHalfReset(t, j) ==
  /\ j = call[t].job
  /\ \/ /\ At(t, "frontlast")
        /\ ~(front[call[t].deque] = back[call[t].deque] /\ call[t].front # 0)
     \/ At(t, "resetfront")
  /\ End(t)
  /\ UNCHANGED <<entries, front, back>>

\* The answer is the job,
PopFrontEnd(t, j) ==
  LET i == call[t].deque
  IN /\ j = call[t].job
     /\ \/ /\ At(t, "frontlast")
           /\ ~(front[i] = back[i] /\ call[t].front # 0)
           /\ UNCHANGED front
        \/ /\ At(t, "resetfront")
           /\ front' = [front EXCEPT ![i] = 0]
     /\ End(t)
     /\ UNCHANGED <<entries, back>>

\* or none, because the deque is empty or the entry not executable,
PopFrontNone(t) ==
  /\ \/ At(t, "frontback") /\ ~NonEmpty(call[t].front, back[call[t].deque])
     \/ At(t, "fronttest") /\ call[t].job \notin executable
  /\ End(t)
  /\ UNCHANGED <<entries, front, back>>

\* or because mFront has changed ("should not happen").
PopFrontLost(t) ==
  /\ At(t, "frontswap")
  /\ front[call[t].deque] # call[t].front
  /\ End(t)
  /\ UNCHANGED <<entries, front, back>>

-----------------------------------------------------------------------------
(* PopBack.                                                                *)

PopBackBegin(t, i) ==
  /\ MayEnter(i)
  /\ Begin(t, i, [NoCall EXCEPT !.step = "backfront", !.back = back[i]])
  /\ UNCHANGED <<entries, front, back>>

PopBackOn(t) ==
  LET c == call[t]
  IN /\ \/ /\ At(t, "backfront")
           /\ NonEmpty(front[c.deque], c.back)
           /\ Continue(t, [c EXCEPT !.step = "backentry", !.front = front[c.deque]])
        \/ /\ At(t, "backentry")
           /\ Readable(t, c.back - 1)
           /\ Continue(t, [c EXCEPT !.step = "backtest", !.job = Slot(t, c.back - 1)])
     /\ UNCHANGED <<entries, front, back>>

PopBackTest(t) ==
  /\ At(t, "backtest")
  /\ call[t].job \in executable
  /\ Continue(t, [call[t] EXCEPT !.step = "backswap"])
  /\ UNCHANGED <<entries, front, back>>

\* Variant: mBack is taken down a second time.
PopBackEndTwice(t, j) ==
  LET c == call[t]
  IN /\ At(t, "backswap")
     /\ j = c.job
     /\ back[c.deque] = c.back
     /\ back' = [back EXCEPT ![c.deque] = @ - 2]
     /\ End(t)
     /\ UNCHANGED <<entries, front>>

\* The compare-and-exchange of mBack; a front that has come up meanwhile is not
\* noticed.
PopBackEnd(t, j) ==
  LET c == call[t]
  IN /\ At(t, "backswap")
     /\ j = c.job
     /\ back[c.deque] = c.back
     /\ back' = [back EXCEPT ![c.deque] = @ - 1]
     /\ End(t)
     /\ UNCHANGED <<entries, front>>

PopBackNone(t) ==
  /\ \/ At(t, "backfront") /\ ~NonEmpty(front[call[t].deque], call[t].back)
     \/ At(t, "backtest") /\ call[t].job \notin executable
  /\ End(t)
  /\ UNCHANGED <<entries, front, back>>

PopBackLost(t) ==
  /\ At(t, "backswap")
  /\ back[call[t].deque] # call[t].back
  /\ End(t)
  /\ UNCHANGED <<entries, front, back>>

=============================================================================
