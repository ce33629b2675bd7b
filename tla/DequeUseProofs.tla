--------------------------- MODULE DequeUseProofs ---------------------------
(***************************************************************************)
(* With HTL_EXTRA_LOCKS a LocklessDeque is a deque: for every size of the  *)
(* buffer, every set of jobs and any number of thieves DequeUse implements *)
(* JobDeque, reads nothing that was never written, and none of its         *)
(* exchanges fails.                                                        *)
(***************************************************************************)
EXTENDS DequeUse, SequenceTheorems, TLAPS

Call ==
  [step : Steps, deque : {0}, front : Nat, back : Nat, job : Jobs \cup {NoJob},
   open : BOOLEAN]

TypeInv ==
  /\ entries \in [{0} -> [Slots -> Jobs \cup {Unwritten}]]
  /\ front \in [{0} -> Nat]
  /\ back \in [{0} -> Nat]
  /\ call \in [Threads -> Call]
  /\ held \in [Workers -> SUBSET Jobs]
  /\ added \subseteq Jobs
  /\ executable \subseteq Jobs

Idle(t) == call[t].step = "none"

\* The mutex: one thread at a time is inside an operation.
Exclusive == \A t, u \in Threads : t # u => Idle(t) \/ Idle(u)

OwnerSteps ==
  {"frontback", "frontentry", "fronttest", "frontswap", "frontlast",
   "resetback", "resetfront"}
ThiefSteps ==
  {"scanfront", "scan", "backfront", "backentry", "backtest", "backswap"}

\* Each thread calls the operations that are its own.
OwnCall(t) ==
  /\ call[t].step \in OwnerSteps => t = Owner
  /\ call[t].step \in ThiefSteps => t \in Thieves
  /\ call[t].step \notin {"size", "clear"}

\* What a thread read is still so.
PushInv(t) ==
  call[t].step = "store" =>
    /\ back[0] = call[t].back + 1 /\ front[0] <= call[t].back
    /\ call[t].job \in Jobs
    /\ t = Owner => call[t].job \in held[Owner]
    /\ t # Owner => t = Main /\ call[t].job \notin added

ScanInv(t) ==
  /\ call[t].step \in {"scanfront", "scan"} => call[t].back = back[0]
  /\ call[t].step = "scan" => front[0] <= call[t].front /\ call[t].front < back[0]

FrontInv(t) ==
  /\ call[t].step \in {"frontback", "frontentry", "fronttest", "frontswap"} =>
       call[t].front = front[0]
  /\ call[t].step \in {"frontentry", "fronttest", "frontswap"} => front[0] < back[0]
  /\ call[t].step \in {"fronttest", "frontswap"} => call[t].job = entries[0][front[0]]
  /\ call[t].step \in {"frontlast", "resetback", "resetfront"} => call[t].job \in Jobs
  /\ call[t].step = "resetback" => front[0] = back[0]
  /\ call[t].step = "resetfront" => back[0] = 0

BackInv(t) ==
  /\ call[t].step \in {"backfront", "backentry", "backtest", "backswap"} =>
       call[t].back = back[0]
  /\ call[t].step \in {"backentry", "backtest", "backswap"} => front[0] < back[0]
  /\ call[t].step \in {"backtest", "backswap"} => call[t].job = entries[0][back[0] - 1]
  /\ call[t].step = "backswap" => call[t].job \in executable

CallInv(t) == OwnCall(t) /\ PushInv(t) /\ ScanInv(t) /\ FrontInv(t) /\ BackInv(t)
CallsInv == \A t \in Threads : CallInv(t)

\* The last slot between the boundaries that is stored.
Stored == IF Reserved = {} THEN back[0] ELSE back[0] - 1

\* The boundaries, and that the slots between them hold jobs.
DequeInv ==
  /\ back[0] <= Capacity
  /\ front[0] <= back[0] \/ call[Owner].step = "resetfront"
  /\ \A k \in Slots : front[0] <= k /\ k < Stored => entries[0][k] \in Jobs

IInv == TypeInv /\ Exclusive /\ CallsInv /\ DequeInv

-----------------------------------------------------------------------------
(* Threads.                                                                *)

\* A thread that is inside an operation is the only one.
LEMMA Alone ==
  ASSUME IInv, NEW t \in Threads, ~Idle(t), NEW u \in Threads, u # t
  PROVE  Idle(u)
  BY DEF IInv, Exclusive

\* The mutex is locked when nobody is inside.
LEMMA EnterAlone ==
  ASSUME IInv, ExtraLocks, NEW t \in Threads, Idle(t), MayEnter(0), NEW u \in Threads
  PROVE  Idle(u)
  BY DEF IInv, TypeInv, CallsInv, CallInv, OwnCall, MayEnter, Idle, Call

LEMMA InitInv == Init => IInv
<1> SUFFICES ASSUME Init PROVE IInv
  OBVIOUS
<1> USE UsersAssumption DEF Init, DequeInit, NoCall
<1>1. TypeInv
  BY DEF TypeInv, Call, Steps, Workers
<1>2. Exclusive
  BY DEF Exclusive, Idle
<1>3. CallsInv
  BY DEF CallsInv, CallInv, OwnCall, OwnerSteps, ThiefSteps, PushInv, ScanInv, FrontInv, BackInv
<1>4. DequeInv
  BY CapacityAssumption DEF DequeInv, Stored, Reserved, Slots
<1> QED BY <1>1, <1>2, <1>3, <1>4 DEF IInv

-----------------------------------------------------------------------------
(* Every step keeps the invariant.                                         *)

\* The locals of a call.
Locals(c, s, f, b, j) ==
  c \in Call /\ c.step = s /\ c.front = f /\ c.back = b /\ c.job = j

\* A step of t inside the deque.
Moves(t, s, f, b, j) ==
  /\ call' \in [Threads -> Call]
  /\ Locals(call'[t], s, f, b, j)
  /\ \A u \in Threads \ {t} : call'[u] = call[u]

LEMMA MovesTo ==
  ASSUME TypeInv, NEW t \in Threads, NEW s, NEW f, NEW b, NEW j,
         NEW c, Locals(c, s, f, b, j), call' = [call EXCEPT ![t] = c]
  PROVE  Moves(t, s, f, b, j)
  BY DEF TypeInv, Locals, Moves

LEMMA BeginMoves ==
  ASSUME TypeInv, NEW t \in Threads
  PROVE  /\ \A s \in Steps, n \in Nat :
              Begin(t, 0, [NoCall EXCEPT !.step = s, !.back = n]) => Moves(t, s, 0, n, NoJob)
         /\ \A s \in Steps, n \in Nat, j \in Jobs :
              Begin(t, 0, [NoCall EXCEPT !.step = s, !.back = n, !.job = j]) =>
                Moves(t, s, 0, n, j)
         /\ \A s \in Steps, n \in Nat, o \in BOOLEAN :
              Begin(t, 0, [NoCall EXCEPT !.step = s, !.front = n, !.open = o]) =>
                Moves(t, s, n, 0, NoJob)
<1> DEFINE none == NoCall
           c(s, n) == [[none EXCEPT !.step = s, !.back = n] EXCEPT !.deque = 0]
           d(s, n, j) == [[none EXCEPT !.step = s, !.back = n, !.job = j] EXCEPT !.deque = 0]
           e(s, n, o) == [[none EXCEPT !.step = s, !.front = n, !.open = o] EXCEPT !.deque = 0]
<1>1. Locals(none, "none", 0, 0, NoJob)
  BY DEF NoCall, Locals, Call, Steps
<1>2. ASSUME NEW s \in Steps, NEW n \in Nat
      PROVE  /\ Locals(c(s, n), s, 0, n, NoJob)
             /\ \A j \in Jobs : Locals(d(s, n, j), s, 0, n, j)
             /\ \A o \in BOOLEAN : Locals(e(s, n, o), s, n, 0, NoJob)
  <2> HIDE DEF none
  <2> QED BY <1>1 DEF Locals, Call
<1> HIDE DEF none, c, d, e
<1>3. ASSUME NEW s \in Steps, NEW n \in Nat
      PROVE  /\ Begin(t, 0, [none EXCEPT !.step = s, !.back = n]) => Moves(t, s, 0, n, NoJob)
             /\ \A j \in Jobs : Begin(t, 0, [none EXCEPT !.step = s, !.back = n, !.job = j]) =>
                                Moves(t, s, 0, n, j)
             /\ \A o \in BOOLEAN : Begin(t, 0, [none EXCEPT !.step = s, !.front = n, !.open = o]) =>
                                   Moves(t, s, n, 0, NoJob)
  BY <1>2, MovesTo, Zenon DEF Begin, c, d, e
<1> QED BY <1>3, Zenon DEF none

LEMMA ContinueMoves ==
  ASSUME TypeInv, NEW t \in Threads
  PROVE  LET c == call[t]
         IN \A s \in Steps :
              /\ Continue(t, [c EXCEPT !.step = s]) => Moves(t, s, c.front, c.back, c.job)
              /\ \A n \in Nat :
                   /\ Continue(t, [c EXCEPT !.front = n]) => Moves(t, c.step, n, c.back, c.job)
                   /\ Continue(t, [c EXCEPT !.step = s, !.front = n]) => Moves(t, s, n, c.back, c.job)
                   /\ Continue(t, [c EXCEPT !.step = s, !.back = n]) => Moves(t, s, c.front, n, c.job)
              /\ \A j \in Jobs :
                   /\ Continue(t, [c EXCEPT !.job = j, !.step = s]) => Moves(t, s, c.front, c.back, j)
                   /\ Continue(t, [c EXCEPT !.step = s, !.job = j]) => Moves(t, s, c.front, c.back, j)
<1> DEFINE c == call[t]
           d(s) == [c EXCEPT !.step = s]
           e(n) == [c EXCEPT !.front = n]
           g(s, n) == [c EXCEPT !.step = s, !.front = n]
           h(s, n) == [c EXCEPT !.step = s, !.back = n]
           k(s, j) == [c EXCEPT !.job = j, !.step = s]
           l(s, j) == [c EXCEPT !.step = s, !.job = j]
<1>1. c \in Call
  BY DEF TypeInv
<1>2. ASSUME NEW s \in Steps
      PROVE  /\ Locals(d(s), s, c.front, c.back, c.job)
             /\ \A n \in Nat :
                  /\ Locals(e(n), c.step, n, c.back, c.job)
                  /\ Locals(g(s, n), s, n, c.back, c.job)
                  /\ Locals(h(s, n), s, c.front, n, c.job)
             /\ \A j \in Jobs :
                  /\ Locals(k(s, j), s, c.front, c.back, j)
                  /\ Locals(l(s, j), s, c.front, c.back, j)
  <2> HIDE DEF c
  <2> QED BY <1>1 DEF Locals, Call
<1> HIDE DEF c, d, e, g, h, k, l
<1>3. ASSUME NEW s \in Steps
      PROVE  /\ Continue(t, d(s)) => Moves(t, s, c.front, c.back, c.job)
             /\ \A n \in Nat :
                  /\ Continue(t, e(n)) => Moves(t, c.step, n, c.back, c.job)
                  /\ Continue(t, g(s, n)) => Moves(t, s, n, c.back, c.job)
                  /\ Continue(t, h(s, n)) => Moves(t, s, c.front, n, c.job)
             /\ \A j \in Jobs :
                  /\ Continue(t, k(s, j)) => Moves(t, s, c.front, c.back, j)
                  /\ Continue(t, l(s, j)) => Moves(t, s, c.front, c.back, j)
  BY <1>2, MovesTo, Zenon DEF Continue
<1> QED BY <1>3, Zenon DEF c, d, e, g, h, k, l

LEMMA EndMoves ==
  ASSUME TypeInv, NEW t \in Threads, End(t)
  PROVE  Moves(t, "none", 0, 0, NoJob)
<1>1. Locals(NoCall, "none", 0, 0, NoJob)
  BY DEF NoCall, Locals, Call, Steps
<1> QED BY <1>1, MovesTo DEF End

\* After a step of the only thread inside, what remains to show is about it.
LEMMA OneThread ==
  ASSUME NEW t \in Threads, \A u \in Threads \ {t} : Idle(u) /\ call'[u] = call[u],
         TypeInv', CallInv(t)', DequeInv'
  PROVE  IInv'
<1>1. \A u \in Threads \ {t} : Idle(u)'
  BY DEF Idle
<1>2. Exclusive'
  BY <1>1 DEF Exclusive
<1>3. ASSUME NEW u \in Threads \ {t}
      PROVE  CallInv(u)'
  BY <1>1 DEF Idle, CallInv, OwnCall, OwnerSteps, ThiefSteps, PushInv, ScanInv, FrontInv, BackInv
<1>4. CallsInv'
  BY <1>3 DEF CallsInv
<1> QED BY <1>2, <1>4 DEF IInv

LEMMA PushBeginInv ==
  ASSUME IInv, ExtraLocks, HasRoom, NEW t \in {Owner, Main}, NEW j \in Jobs,
         Inside(PushBackBegin(t, 0, j)),
         t = Owner => j \in held[Owner],
         t = Main => j \notin added
  PROVE  IInv'
<1>1. t \in Threads /\ \A u \in Threads : Idle(u)
  BY EnterAlone, UsersAssumption DEF Idle, Inside, PushBackBegin, Begin, At
<1>2. /\ Moves(t, "store", 0, back[0], j)
      /\ back' = [back EXCEPT ![0] = @ + 1]
      /\ UNCHANGED <<entries, front, held, added, executable>>
  BY <1>1, BeginMoves DEF IInv, TypeInv, Inside, PushBackBegin, Steps
<1>3. TypeInv'
  BY <1>1, <1>2 DEF IInv, TypeInv, Moves
<1>4. CallInv(t)'
  BY <1>1, <1>2, UsersAssumption DEF IInv, TypeInv, CallInv, OwnCall, OwnerSteps, ThiefSteps,
       PushInv, ScanInv, FrontInv, BackInv, Moves, Locals, DequeInv, CallsInv, Idle
<1>5. DequeInv'
  <2>1. Reserved = {} /\ t \in Reserved'
    BY <1>1, <1>2 DEF Reserved, Idle, Moves, Locals
  <2>2. Stored = back[0] /\ Stored' = back[0] /\ back'[0] = back[0] + 1 /\ back[0] \in Nat
    BY <1>2, <2>1 DEF Stored, IInv, TypeInv
  <2>3. front[0] <= back[0] /\ front[0] \in Nat
    BY <1>1, UsersAssumption DEF IInv, TypeInv, DequeInv, Idle
  <2> QED BY <1>2, <2>2, <2>3, CapacityAssumption DEF IInv, DequeInv, HasRoom
<1> QED BY <1>1, <1>2, <1>3, <1>4, <1>5, OneThread DEF Moves

LEMMA PushEndInv ==
  ASSUME IInv, NEW t \in {Owner, Main}, PushBackEnd(t), UNCHANGED executable,
         held' = IF t = Owner THEN [held EXCEPT ![Owner] = @ \ {call[Owner].job}] ELSE held,
         added' = IF t = Main THEN added \cup {call[Main].job} ELSE added
  PROVE  IInv'
<1>1. t \in Threads /\ ~Idle(t) /\ \A u \in Threads \ {t} : Idle(u)
  BY Alone, UsersAssumption DEF Idle, PushBackEnd, At
<1>2. /\ Moves(t, "none", 0, 0, NoJob)
      /\ call[t].back \in Slots /\ call[t].job \in Jobs
      /\ call[t].back + 1 = back[0]
      /\ entries' = [entries EXCEPT ![0][call[t].back] = call[t].job]
      /\ UNCHANGED <<front, back>>
  BY <1>1, EndMoves DEF IInv, TypeInv, Call, CallsInv, CallInv, PushInv, PushBackEnd, At
<1>3. TypeInv'
  BY <1>1, <1>2, UsersAssumption DEF IInv, TypeInv, Moves, Workers
<1>4. CallInv(t)'
  BY <1>2 DEF CallInv, OwnCall, OwnerSteps, ThiefSteps, PushInv, ScanInv, FrontInv, BackInv,
       Moves, Locals
<1>5. DequeInv'
  <2>1. t \in Reserved /\ Reserved' = {}
    BY <1>1, <1>2 DEF Reserved, Idle, Moves, Locals, PushBackEnd, At
  <2>2. Stored = back[0] - 1 /\ Stored' = back[0]
    BY <1>2, <2>1 DEF Stored
  <2>3. front[0] <= call[t].back /\ front[0] \in Nat /\ back[0] \in Nat
    BY <1>1 DEF IInv, TypeInv, CallsInv, CallInv, PushInv, PushBackEnd, At
  <2>4. ASSUME NEW k \in Slots, front[0] <= k, k < back[0]
        PROVE  entries'[0][k] \in Jobs
    <3>1. CASE k = call[t].back
      BY <1>2, <3>1 DEF IInv, TypeInv
    <3>2. CASE k # call[t].back
      <4>1. entries'[0][k] = entries[0][k]
        BY <1>2, <3>2 DEF IInv, TypeInv
      <4>2. k < Stored
        BY <1>2, <2>2, <2>3, <2>4, <3>2 DEF Slots
      <4> QED BY <2>4, <4>1, <4>2 DEF IInv, DequeInv
    <3> QED BY <3>1, <3>2
  <2> QED BY <1>2, <2>2, <2>3, <2>4 DEF IInv, DequeInv, Slots
<1> QED BY <1>1, <1>2, <1>3, <1>4, <1>5, OneThread DEF Moves

\* A step of t that changes no boundary and stores nothing.
LEMMA Quiet ==
  ASSUME IInv, NEW t \in Threads, \A u \in Threads \ {t} : Idle(u),
         call[t].step \notin {"store", "resetfront"},
         NEW s, s # "store", NEW f, NEW b, NEW j, Moves(t, s, f, b, j),
         UNCHANGED <<entries, front, back, added, executable>>,
         held' \in [Workers -> SUBSET Jobs]
  PROVE  TypeInv' /\ DequeInv' /\ front[0] <= back[0] /\ front[0] \in Nat /\ back[0] \in Nat
<1>1. TypeInv'
  BY DEF IInv, TypeInv, Moves
<1>2. Reserved = {} /\ Reserved' = {}
  BY DEF Reserved, Idle, Moves, Locals
<1>3. front[0] <= back[0]
  BY UsersAssumption DEF IInv, DequeInv, Idle
<1> QED BY <1>1, <1>2, <1>3 DEF IInv, TypeInv, DequeInv, Stored

\* A step of t that its users do not see.
Hidden(t) ==
  /\ call[t].step \notin {"store", "frontlast", "resetback", "resetfront"}
  /\ call'[t].step \notin {"store", "frontlast", "resetback", "resetfront"}
  /\ \A u \in Threads \ {t} : call'[u] = call[u]
  /\ UNCHANGED <<entries, front, back, held, added, executable>>

\* An operation that reads begins.
LEMMA ReadBeginInv ==
  ASSUME IInv, ExtraLocks, NEW t \in Threads,
         \/ t \in Thieves /\ Inside(ScanBegin(t, 0) \/ PopBackBegin(t, 0))
         \/ t = Owner /\ \E open \in BOOLEAN : Inside(PopFrontBegin(t, 0, open))
  PROVE  IInv' /\ Hidden(t)
<1>1. \A u \in Threads : Idle(u)
  BY EnterAlone DEF Idle, Inside, ScanBegin, PopBackBegin, PopFrontBegin, Begin, At
<1>2. front[0] \in Nat /\ back[0] \in Nat /\ TypeInv
  BY DEF IInv, TypeInv
<1>3. UNCHANGED <<entries, front, back, held, added, executable>>
  BY DEF Inside, ScanBegin, PopBackBegin, PopFrontBegin
<1>4. ASSUME NEW s, NEW f, NEW b, Moves(t, s, f, b, NoJob), CallInv(t)',
             s \in {"scanfront", "backfront", "frontback"}
      PROVE  IInv' /\ Hidden(t)
  <2>1. TypeInv' /\ DequeInv'
    BY <1>1, <1>3, <1>4, Quiet DEF IInv, TypeInv, Idle
  <2>2. Hidden(t)
    BY <1>1, <1>3, <1>4 DEF Hidden, Moves, Locals, Idle
  <2> QED BY <1>1, <1>4, <2>1, <2>2, OneThread DEF Moves
<1>5. CASE t \in Thieves /\ Inside(ScanBegin(t, 0))
  <2>1. Moves(t, "scanfront", 0, back[0], NoJob)
    BY <1>2, <1>5, BeginMoves DEF Inside, ScanBegin, Steps
  <2>2. CallInv(t)'
    BY <1>3, <1>5, <2>1 DEF Moves, Locals, CallInv, OwnCall, OwnerSteps, ThiefSteps,
         PushInv, ScanInv, FrontInv, BackInv
  <2> QED BY <1>4, <2>1, <2>2
<1>6. CASE t \in Thieves /\ Inside(PopBackBegin(t, 0))
  <2>1. Moves(t, "backfront", 0, back[0], NoJob)
    BY <1>2, <1>6, BeginMoves DEF Inside, PopBackBegin, Steps
  <2>2. CallInv(t)'
    BY <1>3, <1>6, <2>1 DEF Moves, Locals, CallInv, OwnCall, OwnerSteps, ThiefSteps,
         PushInv, ScanInv, FrontInv, BackInv
  <2> QED BY <1>4, <2>1, <2>2
<1>7. ASSUME NEW open \in BOOLEAN, t = Owner, Inside(PopFrontBegin(t, 0, open))
      PROVE  IInv' /\ Hidden(t)
  <2>1. Moves(t, "frontback", front[0], 0, NoJob)
    BY <1>2, <1>7, BeginMoves DEF Inside, PopFrontBegin, Steps
  <2>2. CallInv(t)'
    BY <1>3, <1>7, <2>1 DEF Moves, Locals, CallInv, OwnCall, OwnerSteps, ThiefSteps,
         PushInv, ScanInv, FrontInv, BackInv
  <2> QED BY <1>4, <2>1, <2>2
<1> QED BY <1>5, <1>6, <1>7 DEF Inside

\* It goes on; what it has read does not change while it holds the mutex.
LEMMA ReadOnInv ==
  ASSUME IInv, NEW t \in Threads,
         Inside(ScanOn(t) \/ PopFrontOn(t) \/ PopFrontTest(t) \/ PopBackOn(t) \/ PopBackTest(t))
  PROVE  IInv' /\ Hidden(t)
<1>1. ~Idle(t) /\ \A u \in Threads \ {t} : Idle(u)
  BY Alone DEF Idle, Inside, ScanOn, PopFrontOn, PopFrontTest, PopBackOn, PopBackTest, At
<1>2. UNCHANGED <<entries, front, back, held, added, executable>>
  BY DEF Inside, ScanOn, PopFrontOn, PopFrontTest, PopBackOn, PopBackTest
<1>3. /\ TypeInv /\ CallInv(t) /\ DequeInv /\ call[t] \in Call
      /\ call[t].front \in Nat /\ call[t].back \in Nat /\ call[t].deque = 0
      /\ front[0] \in Nat /\ back[0] \in Nat
  BY DEF IInv, TypeInv, Call, CallsInv
<1>4. Reserved = {} \/ call[t].step = "store"
  BY <1>1 DEF Reserved, Idle
<1>5. ASSUME NEW s, NEW f, NEW b, NEW j, Moves(t, s, f, b, j), CallInv(t)',
             s \in {"scan", "frontentry", "fronttest", "frontswap", "backentry", "backtest", "backswap"},
             call[t].step \notin {"store", "frontlast", "resetback", "resetfront"}
      PROVE  IInv' /\ Hidden(t)
  <2>1. TypeInv' /\ DequeInv'
    BY <1>1, <1>2, <1>5, Quiet DEF IInv, TypeInv
  <2>2. Hidden(t)
    BY <1>2, <1>5 DEF Hidden, Moves, Locals
  <2> QED BY <1>1, <1>5, <2>1, <2>2, OneThread DEF Moves
<1> USE DEF CallInv, OwnCall, OwnerSteps, ThiefSteps, PushInv, ScanInv, FrontInv, BackInv
<1>6. CASE At(t, "scanfront") /\ ScanOn(t)
  <2>1. Moves(t, "scan", front[0], call[t].back, call[t].job) /\ front[0] < call[t].back
    BY <1>3, <1>6, ContinueMoves DEF ScanOn, At, Steps
  <2>2. CallInv(t)'
    BY <1>2, <1>3, <1>6, <2>1 DEF Moves, Locals, At
  <2> QED BY <1>5, <1>6, <2>1, <2>2 DEF At
<1>7. CASE At(t, "scan") /\ ScanOn(t)
  <2> DEFINE n == call[t].front + 1
  <2>3. n \in Nat /\ n < call[t].back /\ call[t].step = "scan" /\ "scan" \in Steps
    BY <1>3, <1>7 DEF ScanOn, At, Steps
  <2>4. Continue(t, [call[t] EXCEPT !.front = n])
    BY <1>7 DEF ScanOn, At
  <2>1. Moves(t, "scan", n, call[t].back, call[t].job)
    <3> HIDE DEF n
    <3> QED BY <1>3, <2>3, <2>4, ContinueMoves
  <2>2. CallInv(t)'
    BY <1>2, <1>3, <1>7, <2>3, <2>1 DEF Moves, Locals, At
  <2> QED BY <1>5, <1>7, <2>1, <2>2 DEF At
<1>8. CASE At(t, "frontback") /\ PopFrontOn(t)
  <2>1. /\ Moves(t, "frontentry", call[t].front, back[0], call[t].job)
        /\ call[t].front < back[0]
    BY <1>3, <1>8, ContinueMoves DEF PopFrontOn, NonEmpty, At, Steps
  <2>2. CallInv(t)'
    BY <1>2, <1>3, <1>8, <2>1 DEF Moves, Locals, At
  <2> QED BY <1>5, <1>8, <2>1, <2>2 DEF At
<1>9. CASE At(t, "frontentry") /\ PopFrontOn(t)
  <2> DEFINE j == Slot(t, call[t].front)
             s == IF call[t].open THEN "frontswap" ELSE "fronttest"
  <2>1. j \in Jobs /\ j = entries[0][front[0]]
    BY <1>3, <1>4, <1>9 DEF DequeInv, Stored, At, PopFrontOn, Readable, Slot, Slots
  <2>2. s \in {"frontswap", "fronttest"} /\ s \in Steps
    BY DEF Steps
  <2>3. Continue(t, [call[t] EXCEPT !.job = j, !.step = s])
    BY <1>9 DEF PopFrontOn, At
  <2> HIDE DEF j, s
  <2>4. Moves(t, s, call[t].front, call[t].back, j)
    BY <1>3, <2>1, <2>2, <2>3, ContinueMoves
  <2>5. CallInv(t)'
    BY <1>2, <1>3, <1>9, <2>1, <2>2, <2>4 DEF Moves, Locals, At
  <2> QED BY <1>5, <1>9, <2>2, <2>4, <2>5 DEF At
<1>10. CASE PopFrontTest(t)
  <2>1. Moves(t, "frontswap", call[t].front, call[t].back, call[t].job)
    BY <1>3, <1>10, ContinueMoves DEF PopFrontTest, At, Steps
  <2>2. CallInv(t)'
    BY <1>2, <1>3, <1>10, <2>1 DEF Moves, Locals, At, PopFrontTest
  <2> QED BY <1>5, <1>10, <2>1, <2>2 DEF At, PopFrontTest
<1>11. CASE At(t, "backfront") /\ PopBackOn(t)
  <2>1. /\ Moves(t, "backentry", front[0], call[t].back, call[t].job)
        /\ front[0] < call[t].back
    BY <1>3, <1>11, ContinueMoves DEF PopBackOn, NonEmpty, At, Steps
  <2>2. CallInv(t)'
    BY <1>2, <1>3, <1>11, <2>1 DEF Moves, Locals, At
  <2> QED BY <1>5, <1>11, <2>1, <2>2 DEF At
<1>12. CASE At(t, "backentry") /\ PopBackOn(t)
  <2> DEFINE j == Slot(t, call[t].back - 1)
  <2>1. j \in Jobs /\ j = entries[0][back[0] - 1]
    BY <1>3, <1>4, <1>12 DEF DequeInv, Stored, At, PopBackOn, Readable, Slot, Slots
  <2>2. Continue(t, [call[t] EXCEPT !.step = "backtest", !.job = j])
    BY <1>12 DEF PopBackOn, At
  <2> HIDE DEF j
  <2>3. Moves(t, "backtest", call[t].front, call[t].back, j)
    BY <1>3, <2>1, <2>2, ContinueMoves DEF Steps
  <2>4. CallInv(t)'
    BY <1>2, <1>3, <1>12, <2>1, <2>3 DEF Moves, Locals, At
  <2> QED BY <1>5, <1>12, <2>3, <2>4 DEF At
<1>13. CASE PopBackTest(t)
  <2>1. Moves(t, "backswap", call[t].front, call[t].back, call[t].job)
    BY <1>3, <1>13, ContinueMoves DEF PopBackTest, At, Steps
  <2>2. CallInv(t)'
    BY <1>2, <1>3, <1>13, <2>1 DEF Moves, Locals, At, PopBackTest
  <2> QED BY <1>5, <1>13, <2>1, <2>2 DEF At, PopBackTest
<1> QED BY <1>6, <1>7, <1>8, <1>9, <1>10, <1>11, <1>12, <1>13
        DEF Inside, ScanOn, PopFrontOn, PopBackOn

\* A reading operation ends without a job.
LEMMA ReadEndInv ==
  ASSUME IInv, NEW t \in Threads,
         Inside((\E found \in BOOLEAN : ScanEnd(t, found)) \/ PopFrontNone(t) \/ PopBackNone(t))
  PROVE  IInv' /\ Hidden(t)
<1>1. ~Idle(t) /\ \A u \in Threads \ {t} : Idle(u)
  BY Alone DEF Idle, Inside, ScanEnd, PopFrontNone, PopBackNone, At
<1>2. /\ UNCHANGED <<entries, front, back, held, added, executable>>
      /\ Moves(t, "none", 0, 0, NoJob)
      /\ call[t].step \notin {"store", "frontlast", "resetback", "resetfront"}
  BY EndMoves DEF Inside, ScanEnd, PopFrontNone, PopBackNone, At, IInv
<1>3. CallInv(t)'
  BY <1>2 DEF CallInv, OwnCall, OwnerSteps, ThiefSteps, PushInv, ScanInv, FrontInv, BackInv,
       Moves, Locals
<1>4. TypeInv' /\ DequeInv'
  BY <1>1, <1>2, Quiet DEF IInv, TypeInv
<1>5. Hidden(t)
  BY <1>2 DEF Hidden, Moves, Locals
<1> QED BY <1>1, <1>2, <1>3, <1>4, <1>5, OneThread DEF Moves

\* The exchange of mFront takes the first job.
LEMMA FrontSwapInv ==
  ASSUME IInv, NEW t \in Threads, Inside(PopFrontSwap(t))
  PROVE  IInv'
<1>1. ~Idle(t) /\ (\A u \in Threads \ {t} : Idle(u)) /\ At(t, "frontswap")
  BY Alone DEF Idle, Inside, PopFrontSwap, At
<1>2. /\ TypeInv /\ DequeInv /\ CallInv(t) /\ call[t] \in Call /\ call[t].deque = 0
      /\ front[0] \in Nat /\ back[0] \in Nat
  BY DEF IInv, TypeInv, CallsInv, Call
<1>3. /\ Moves(t, "frontlast", call[t].front, call[t].back, call[t].job)
      /\ front' = [front EXCEPT ![0] = @ + 1]
      /\ UNCHANGED <<entries, back, held, added, executable>>
  BY <1>2, ContinueMoves DEF Inside, PopFrontSwap, Steps
<1>4. /\ Reserved = {} /\ Reserved' = {}
      /\ t = Owner /\ front[0] < back[0] /\ call[t].job = entries[0][front[0]]
  BY <1>1, <1>2, <1>3 DEF Reserved, Idle, Moves, Locals, At, CallInv, OwnCall, OwnerSteps, FrontInv
<1>5. TypeInv'
  BY <1>2, <1>3 DEF TypeInv, Moves
<1>6. front'[0] = front[0] + 1
  BY <1>2, <1>3 DEF TypeInv
<1>7. DequeInv'
  BY <1>2, <1>3, <1>4, <1>6 DEF DequeInv, Stored, Slots
<1>8. call[t].job \in Jobs
  BY <1>2, <1>4, CapacityAssumption DEF DequeInv, Stored, Slots
<1>9. CallInv(t)'
  BY <1>3, <1>4, <1>8 DEF CallInv, OwnCall, OwnerSteps, ThiefSteps, PushInv, ScanInv, FrontInv,
       BackInv, Moves, Locals
<1> QED BY <1>1, <1>3, <1>5, <1>7, <1>9, OneThread DEF Moves

\* The boundaries are reset only when they enclose nothing.
LEMMA FrontResetInv ==
  ASSUME IInv, NEW t \in Threads, Inside(PopFrontReset(t))
  PROVE  IInv'
<1>1. ~Idle(t) /\ \A u \in Threads \ {t} : Idle(u)
  BY Alone DEF Idle, Inside, PopFrontReset, At
<1>2. /\ TypeInv /\ DequeInv /\ CallInv(t) /\ call[t] \in Call /\ call[t].deque = 0
      /\ front[0] \in Nat /\ back[0] \in Nat
  BY DEF IInv, TypeInv, CallsInv, Call
<1>3. CASE At(t, "frontlast")
  <2>1. /\ Moves(t, "resetback", call[t].front, call[t].back, call[t].job)
        /\ front[0] = back[0]
        /\ UNCHANGED <<entries, front, back, held, added, executable>>
    BY <1>2, <1>3, ContinueMoves DEF Inside, PopFrontReset, Steps, At
  <2>2. TypeInv' /\ DequeInv'
    BY <1>1, <1>2, <1>3, <2>1, Quiet DEF At, TypeInv
  <2>3. CallInv(t)'
    BY <1>2, <1>3, <2>1 DEF CallInv, OwnCall, OwnerSteps, ThiefSteps, PushInv, ScanInv, FrontInv,
         BackInv, Moves, Locals, At
  <2> QED BY <1>1, <2>1, <2>2, <2>3, OneThread DEF Moves
<1>4. CASE At(t, "resetback")
  <2>1. /\ Moves(t, "resetfront", call[t].front, call[t].back, call[t].job)
        /\ back' = [back EXCEPT ![0] = 0]
        /\ UNCHANGED <<entries, front, held, added, executable>>
    BY <1>2, <1>4, ContinueMoves DEF Inside, PopFrontReset, Steps, At
  <2>2. back'[0] = 0 /\ Reserved' = {}
    BY <1>1, <1>2, <2>1 DEF TypeInv, Reserved, Idle, Moves, Locals
  <2>3. TypeInv'
    BY <1>2, <2>1 DEF TypeInv, Moves
  <2>4. CallInv(t)'
    BY <1>2, <1>4, <2>1, <2>2 DEF CallInv, OwnCall, OwnerSteps, ThiefSteps, PushInv, ScanInv,
         FrontInv, BackInv, Moves, Locals, At
  <2>5. t = Owner
    BY <1>2, <1>4 DEF CallInv, OwnCall, OwnerSteps, At
  <2>6. DequeInv'
    BY <1>2, <2>1, <2>2, <2>5, CapacityAssumption DEF DequeInv, Stored, Slots, Moves, Locals
  <2> QED BY <1>1, <2>1, <2>3, <2>4, <2>6, OneThread DEF Moves
<1> QED BY <1>3, <1>4 DEF Inside, PopFrontReset

\* The answer of PopFront is kept by the owner.
LEMMA FrontEndInv ==
  ASSUME IInv, NEW j \in Jobs, PopFrontEnd(Owner, j), Keep(Owner, j)
  PROVE  IInv'
<1> DEFINE t == Owner
<1>1. t \in Threads /\ t \in Workers /\ ~Idle(t) /\ \A u \in Threads \ {t} : Idle(u)
  BY Alone, UsersAssumption DEF Idle, PopFrontEnd, At, Workers
<1> HIDE DEF t
<1>2. /\ TypeInv /\ DequeInv /\ CallInv(t) /\ call[t] \in Call /\ call[t].deque = 0
      /\ front[0] \in Nat /\ back[0] \in Nat
  BY <1>1 DEF IInv, TypeInv, CallsInv, Call
<1>3. Moves(t, "none", 0, 0, NoJob)
  BY <1>1, <1>2, EndMoves DEF PopFrontEnd, t
<1>4. CallInv(t)'
  BY <1>3 DEF CallInv, OwnCall, OwnerSteps, ThiefSteps, PushInv, ScanInv, FrontInv, BackInv,
       Moves, Locals
<1>5. held' \in [Workers -> SUBSET Jobs] /\ UNCHANGED <<entries, back, added, executable>>
  BY <1>1, <1>2 DEF TypeInv, Keep, PopFrontEnd
<1>6. CASE At(t, "frontlast")
  <2>1. UNCHANGED front
    BY <1>6 DEF PopFrontEnd, At, t
  <2>2. TypeInv' /\ DequeInv'
    BY <1>1, <1>3, <1>5, <1>6, <2>1, Quiet DEF At
  <2> QED BY <1>1, <1>3, <1>4, <2>2, OneThread DEF Moves
<1>7. CASE At(t, "resetfront")
  <2>1. front' = [front EXCEPT ![0] = 0]
    BY <1>2, <1>7 DEF PopFrontEnd, At, t
  <2>2. front'[0] = 0 /\ Reserved' = {} /\ back[0] = 0
    BY <1>1, <1>2, <1>3, <1>7, <2>1 DEF TypeInv, Reserved, Idle, Moves, Locals, CallInv, FrontInv, At
  <2>3. TypeInv'
    BY <1>2, <1>3, <1>5, <2>1 DEF TypeInv, Moves
  <2>4. DequeInv'
    BY <1>5, <2>2, CapacityAssumption DEF DequeInv, Stored, Slots
  <2> QED BY <1>1, <1>3, <1>4, <2>3, <2>4, OneThread DEF Moves
<1> QED BY <1>6, <1>7 DEF PopFrontEnd, t

\* The exchange of mBack takes the last job.
LEMMA BackEndInv ==
  ASSUME IInv, NEW t \in Thieves, NEW j \in Jobs, PopBackEnd(t, j), Keep(t, j)
  PROVE  IInv'
<1>1. t \in Threads /\ t \in Workers /\ ~Idle(t) /\ \A u \in Threads \ {t} : Idle(u)
  BY Alone, UsersAssumption DEF Idle, PopBackEnd, At, Workers
<1>2. /\ TypeInv /\ DequeInv /\ CallInv(t) /\ call[t] \in Call /\ call[t].deque = 0
      /\ front[0] \in Nat /\ back[0] \in Nat
  BY <1>1 DEF IInv, TypeInv, CallsInv, Call
<1>3. /\ Moves(t, "none", 0, 0, NoJob)
      /\ back' = [back EXCEPT ![0] = @ - 1]
      /\ UNCHANGED <<entries, front, added, executable>>
  BY <1>1, <1>2, EndMoves DEF PopBackEnd, Keep
<1>4. CallInv(t)'
  BY <1>3 DEF CallInv, OwnCall, OwnerSteps, ThiefSteps, PushInv, ScanInv, FrontInv, BackInv,
       Moves, Locals
<1>5. held' \in [Workers -> SUBSET Jobs]
  BY <1>1, <1>2 DEF TypeInv, Keep
<1>6. Reserved = {} /\ Reserved' = {} /\ front[0] < back[0]
  BY <1>1, <1>2, <1>3 DEF Reserved, Idle, Moves, Locals, CallInv, BackInv, PopBackEnd, At
<1>7. back'[0] = back[0] - 1 /\ back'[0] \in Nat
  BY <1>2, <1>3, <1>6 DEF TypeInv
<1>8. TypeInv'
  BY <1>2, <1>3, <1>5, <1>7 DEF TypeInv, Moves
<1>9. DequeInv'
  BY <1>2, <1>3, <1>6, <1>7, CapacityAssumption DEF DequeInv, Stored, Slots
<1> QED BY <1>1, <1>3, <1>4, <1>8, <1>9, OneThread DEF Moves

\* A predecessor of a job of the deque is done.
LEMMA EnableInv ==
  ASSUME IInv, NEW j \in Jobs, Enable(j)
  PROVE  IInv'
<1>1. /\ UNCHANGED <<entries, front, back, call, held, added>>
      /\ executable' = executable \cup {j}
  BY DEF Enable, dequeVars
<1>2. TypeInv' /\ Exclusive'
  BY <1>1 DEF IInv, TypeInv, Exclusive, Idle
<1>3. CallsInv' /\ DequeInv'
  BY <1>1 DEF IInv, CallsInv, CallInv, OwnCall, PushInv, ScanInv, FrontInv, BackInv, DequeInv,
       Stored, Reserved
<1> QED BY <1>2, <1>3 DEF IInv

LEMMA StepInv ==
  ASSUME IInv, ExtraLocks, [Next]_vars
  PROVE  IInv'
<1> USE UsersAssumption
<1>1. CASE Pop
  <2>1. ASSUME NEW open \in BOOLEAN, Inside(PopFrontBegin(Owner, 0, open))
        PROVE  IInv'
    BY <2>1, ReadBeginInv
  <2>2. CASE Inside(PopFrontOn(Owner) \/ PopFrontTest(Owner))
    BY <2>2, ReadOnInv DEF Inside
  <2>3. CASE Inside(PopFrontSwap(Owner) \/ PopFrontReset(Owner))
    BY <2>3, FrontSwapInv, FrontResetInv DEF Inside
  <2>4. CASE Inside(PopFrontNone(Owner))
    BY <2>4, ReadEndInv DEF Inside
  <2>5. ASSUME NEW j \in Jobs, PopFrontEnd(Owner, j) /\ Keep(Owner, j)
        PROVE  IInv'
    BY <2>5, FrontEndInv
  <2> QED BY <1>1, <2>1, <2>2, <2>3, <2>4, <2>5 DEF Pop
<1>2. CASE PutBack
  <2>1. ASSUME NEW j \in held[Owner], HasRoom, Inside(PushBackBegin(Owner, 0, j))
        PROVE  IInv'
    <3>1. j \in Jobs
      BY DEF IInv, TypeInv, Workers
    <3> QED BY <2>1, <3>1, PushBeginInv
  <2>2. CASE /\ PushBackEnd(Owner) /\ UNCHANGED <<added, executable>>
             /\ held' = [held EXCEPT ![Owner] = @ \ {call[Owner].job}]
    BY <2>2, PushEndInv
  <2> QED BY <1>2, <2>1, <2>2 DEF PutBack
<1>3. CASE Add
  <2>1. ASSUME NEW j \in Jobs \ added, HasRoom, Inside(PushBackBegin(Main, 0, j))
        PROVE  IInv'
    BY <2>1, PushBeginInv
  <2>2. CASE PushBackEnd(Main) /\ added' = added \cup {call[Main].job} /\ UNCHANGED <<held, executable>>
    BY <2>2, PushEndInv
  <2> QED BY <1>3, <2>1, <2>2 DEF Add
<1>4. ASSUME NEW w \in Thieves, Steal(w) \/ Scan(w)
      PROVE  IInv'
  <2>1. CASE Inside(PopBackBegin(w, 0)) \/ Inside(ScanBegin(w, 0))
    BY <2>1, ReadBeginInv DEF Inside
  <2>2. CASE Inside(PopBackOn(w) \/ PopBackTest(w) \/ PopBackNone(w)) \/ Inside(ScanOn(w))
    BY <2>2, ReadOnInv, ReadEndInv DEF Inside
  <2>3. ASSUME NEW found \in BOOLEAN, Inside(ScanEnd(w, found))
        PROVE  IInv'
    BY <2>3, ReadEndInv DEF Inside
  <2>4. ASSUME NEW j \in Jobs, PopBackEnd(w, j) /\ Keep(w, j)
        PROVE  IInv'
    BY <2>4, BackEndInv
  <2> QED BY <1>4, <2>1, <2>2, <2>3, <2>4 DEF Steal, Scan
<1>5. ASSUME NEW j \in Jobs, Enable(j)
      PROVE  IInv'
  BY <1>5, EnableInv
<1>6. CASE UNCHANGED vars
  BY <1>6 DEF vars, dequeVars, IInv, TypeInv, Exclusive, Idle, CallsInv, CallInv, OwnCall, PushInv,
       ScanInv, FrontInv, BackInv, DequeInv, Stored, Reserved
<1> QED BY <1>1, <1>2, <1>3, <1>4, <1>5, <1>6 DEF Next

\* The inductive invariant holds for every size of the buffer and any number of
\* thieves: under the mutex (lockless_deque.h:37-40) what an operation has read
\* stays true until it ends.
THEOREM Invariance ==
  ASSUME ExtraLocks
  PROVE  Spec => []IInv
<1>1. Init => IInv
  BY InitInv
<1>2. IInv /\ [Next]_vars => IInv'
  BY StepInv
<1> QED BY <1>1, <1>2, PTL DEF Spec

\* Type correctness: the boundaries never become negative, though PopBack takes
\* mBack down without a look at mFront (lockless_deque.h:156).
THEOREM TypeCorrect ==
  ASSUME ExtraLocks
  PROVE  Spec => []TypeOK
<1>1. IInv => TypeOK
  BY UsersAssumption DEF IInv, TypeInv, TypeOK, DequeTypeOK, Call
<1> QED BY <1>1, Invariance, PTL

\* No operation looks at an entry that was never written: malloc leaves mEntries
\* as it is (lockless_deque.h:44-49), and nobody checks an index.
THEOREM ReadsWrittenThm ==
  ASSUME ExtraLocks
  PROVE  Spec => []ReadsWritten
<1>1. IInv => ReadsWritten
  <2> SUFFICES ASSUME IInv, NEW t \in Threads
               PROVE  /\ call[t].step \in {"scan", "frontentry"} => Readable(t, call[t].front)
                      /\ call[t].step = "backentry" => Readable(t, call[t].back - 1)
    BY DEF ReadsWritten
  <2>1. /\ call[t].front \in Nat /\ call[t].back \in Nat /\ call[t].deque = 0
        /\ front[0] \in Nat /\ back[0] \in Nat /\ back[0] <= Capacity
    BY DEF IInv, TypeInv, Call, DequeInv
  <2>2. ASSUME ~Idle(t), call[t].step # "store"
        PROVE  Stored = back[0]
    BY <2>2, Alone DEF Stored, Reserved, Idle
  <2>3. ASSUME NEW k \in Int, front[0] <= k, k < back[0], ~Idle(t), call[t].step # "store"
        PROVE  Readable(t, k)
    <3>1. k \in Slots /\ entries[0][k] \in Jobs
      BY <2>1, <2>2, <2>3, CapacityAssumption DEF IInv, DequeInv, Slots
    <3> QED BY <2>1, <3>1, UnwrittenAssumption DEF Readable, Slot
  <2>4. CallInv(t)
    BY DEF IInv, CallsInv
  <2>5. CASE call[t].step \in {"scan", "frontentry"}
    <3>1. front[0] <= call[t].front /\ call[t].front < back[0]
      BY <2>1, <2>4, <2>5 DEF CallInv, ScanInv, FrontInv
    <3> QED BY <2>1, <2>3, <2>5, <3>1 DEF Idle
  <2>6. CASE call[t].step = "backentry"
    <3>1. front[0] <= call[t].back - 1 /\ call[t].back - 1 < back[0]
      BY <2>1, <2>4, <2>6 DEF CallInv, BackInv
    <3> QED BY <2>1, <2>3, <2>6, <3>1 DEF Idle
  <2> QED BY <2>5, <2>6
<1> QED BY <1>1, Invariance, PTL

\* The compare-and-exchanges never fail: the branches "should not happen"
\* (lockless_deque.h:121-125) and "main_looper called PushBack" (156-161).
THEOREM SwapsSucceedThm ==
  ASSUME ExtraLocks
  PROVE  Spec => []SwapsSucceed
<1>1. IInv => SwapsSucceed
  BY DEF IInv, CallsInv, CallInv, FrontInv, BackInv, SwapsSucceed
<1> QED BY <1>1, Invariance, PTL

-----------------------------------------------------------------------------
(* DequeUse implements JobDeque.                                           *)

\* The part of a buffer e from slot f up to l - 1.
Window(e, f, l) == [k \in 1 .. l - f |-> e[f + k - 1]]

\* It holds jobs; two buffers have the same there.
Filled(e, f, l) == \A k \in Nat : f <= k /\ k < l => e[k] \in Jobs
Agree(d, e, f, l) == \A k \in Nat : f <= k /\ k < l => d[k] = e[k]

LEMMA WindowIsSeq ==
  ASSUME NEW e, NEW f \in Nat, NEW l \in Nat, f <= l,
         Filled(e, f, l)
  PROVE  /\ Window(e, f, l) \in Seq(Jobs)
         /\ Len(Window(e, f, l)) = l - f
         /\ \A k \in 1 .. l - f : Window(e, f, l)[k] = e[f + k - 1]
<1>1. l - f \in Nat
  OBVIOUS
<1>2. \A k \in 1 .. l - f : e[f + k - 1] \in Jobs
  BY DEF Filled
<1> QED BY <1>1, <1>2 DEF Window

LEMMA WindowEmpty ==
  ASSUME NEW e, NEW f \in Nat, NEW l \in Nat, l <= f
  PROVE  Window(e, f, l) = <<>>
<1>1. 1 .. l - f = {}
  OBVIOUS
<1> QED BY <1>1 DEF Window

\* mFront goes up,
LEMMA WindowTail ==
  ASSUME NEW e, NEW f \in Nat, NEW l \in Nat, f < l,
         Filled(e, f, l)
  PROVE  /\ Window(e, f, l) # <<>>
         /\ Head(Window(e, f, l)) = e[f]
         /\ Window(e, f + 1, l) = Tail(Window(e, f, l))
<1> DEFINE w == Window(e, f, l)
           v == Window(e, f + 1, l)
<1>1. w \in Seq(Jobs) /\ Len(w) = l - f /\ \A k \in 1 .. l - f : w[k] = e[f + k - 1]
  <2>1. f <= l
    OBVIOUS
  <2> QED BY <2>1, WindowIsSeq, Zenon
<1>2. v \in Seq(Jobs) /\ Len(v) = l - f - 1 /\ \A k \in 1 .. l - f - 1 : v[k] = e[f + k]
  <2>1. f + 1 \in Nat /\ f + 1 <= l /\ Filled(e, f + 1, l)
    BY DEF Filled
  <2>2. v \in Seq(Jobs) /\ Len(v) = l - (f + 1) /\ \A k \in 1 .. l - (f + 1) : v[k] = e[(f + 1) + k - 1]
    BY <2>1, WindowIsSeq
  <2> HIDE DEF v
  <2> QED BY <2>2
<1> HIDE DEF w, v
<1>3. w # <<>> /\ Head(w) = e[f]
  BY <1>1
<1>4. /\ Tail(w) \in Seq(Jobs) /\ Len(Tail(w)) = l - f - 1
      /\ \A k \in 1 .. l - f - 1 : Tail(w)[k] = w[k + 1]
  BY <1>1, <1>3, HeadTailProperties
<1>5. \A k \in 1 .. l - f - 1 : w[k + 1] = e[f + k]
  <2> SUFFICES ASSUME NEW k \in 1 .. l - f - 1 PROVE w[k + 1] = e[f + k]
    OBVIOUS
  <2>1. k + 1 \in 1 .. l - f /\ f + (k + 1) - 1 = f + k
    OBVIOUS
  <2> QED BY <1>1, <2>1
<1>6. v = Tail(w)
  BY <1>2, <1>4, <1>5, SeqEqual
<1> QED BY <1>3, <1>6 DEF w, v

\* mBack goes down,
LEMMA WindowFront ==
  ASSUME NEW e, NEW f \in Nat, NEW l \in Nat, f < l,
         Filled(e, f, l)
  PROVE  LET w == Window(e, f, l)
         IN /\ w # <<>>
            /\ w[Len(w)] = e[l - 1]
            /\ Window(e, f, l - 1) = SubSeq(w, 1, Len(w) - 1)
<1> DEFINE w == Window(e, f, l)
           v == Window(e, f, l - 1)
<1>1. w \in Seq(Jobs) /\ Len(w) = l - f /\ \A k \in 1 .. l - f : w[k] = e[f + k - 1]
  <2>1. f <= l
    OBVIOUS
  <2> QED BY <2>1, WindowIsSeq, Zenon
<1>2. v \in Seq(Jobs) /\ Len(v) = l - 1 - f /\ \A k \in 1 .. l - 1 - f : v[k] = e[f + k - 1]
  <2>1. l - 1 \in Nat /\ f <= l - 1 /\ Filled(e, f, l - 1)
    BY DEF Filled
  <2> QED BY <2>1, WindowIsSeq
<1> HIDE DEF w, v
<1>3. w # <<>> /\ w[Len(w)] = e[l - 1]
  BY <1>1
<1>4. /\ SubSeq(w, 1, Len(w) - 1) \in Seq(Jobs)
      /\ Len(SubSeq(w, 1, Len(w) - 1)) = l - 1 - f
      /\ \A k \in 1 .. l - 1 - f : SubSeq(w, 1, Len(w) - 1)[k] = e[f + k - 1]
  <2>1. /\ Len(w) - 1 \in Int /\ 1 .. Len(w) - 1 = 1 .. l - 1 - f
        /\ \A k \in 1 .. Len(w) - 1 : w[k] \in Jobs /\ w[1 + k - 1] = e[f + k - 1]
    BY <1>1
  <2>2. /\ SubSeq(w, 1, Len(w) - 1) \in Seq(Jobs)
        /\ Len(SubSeq(w, 1, Len(w) - 1)) =
             IF 1 <= Len(w) - 1 THEN Len(w) - 1 - 1 + 1 ELSE 0
        /\ \A k \in 1 .. Len(w) - 1 - 1 + 1 : SubSeq(w, 1, Len(w) - 1)[k] = w[1 + k - 1]
    BY <2>1, SubSeqProperties
  <2> HIDE DEF w
  <2> QED BY <1>1, <2>1, <2>2
<1>5. v = SubSeq(w, 1, Len(w) - 1)
  BY <1>2, <1>4, SeqEqual
<1> QED BY <1>3, <1>5 DEF w, v

\* a slot is stored.
LEMMA WindowAppend ==
  ASSUME NEW e, NEW d, NEW f \in Nat, NEW l \in Nat, f <= l,
         Filled(e, f, l), Agree(d, e, f, l),
         d[l] \in Jobs
  PROVE  Window(d, f, l + 1) = Append(Window(e, f, l), d[l])
<1> DEFINE w == Window(e, f, l)
           v == Window(d, f, l + 1)
<1>1. w \in Seq(Jobs) /\ Len(w) = l - f /\ \A k \in 1 .. l - f : w[k] = e[f + k - 1]
  BY WindowIsSeq, Zenon
<1>2. v \in Seq(Jobs) /\ Len(v) = l + 1 - f /\ \A k \in 1 .. l + 1 - f : v[k] = d[f + k - 1]
  <2> DEFINE m == l + 1
  <2>1. m \in Nat /\ f <= m /\ Filled(d, f, m)
    BY DEF Filled, Agree
  <2> HIDE DEF m
  <2>2. /\ Window(d, f, m) \in Seq(Jobs) /\ Len(Window(d, f, m)) = m - f
        /\ \A k \in 1 .. m - f : Window(d, f, m)[k] = d[f + k - 1]
    BY <2>1, WindowIsSeq, Zenon
  <2> QED BY <2>2 DEF m
<1> HIDE DEF w, v
<1>3. /\ Append(w, d[l]) \in Seq(Jobs)
      /\ Len(Append(w, d[l])) = l + 1 - f
      /\ \A k \in 1 .. l + 1 - f : Append(w, d[l])[k] = IF k = l + 1 - f THEN d[l] ELSE w[k]
  <2>1. /\ Append(w, d[l]) \in Seq(Jobs)
        /\ Len(Append(w, d[l])) = Len(w) + 1
        /\ \A k \in 1 .. Len(w) : Append(w, d[l])[k] = w[k]
        /\ Append(w, d[l])[Len(w) + 1] = d[l]
    BY <1>1, AppendProperties
  <2> QED BY <1>1, <2>1
<1>4. \A k \in 1 .. l + 1 - f : Append(w, d[l])[k] = v[k]
  <2> SUFFICES ASSUME NEW k \in 1 .. l + 1 - f PROVE Append(w, d[l])[k] = v[k]
    OBVIOUS
  <2>1. CASE k = l + 1 - f
    BY <1>2, <1>3, <2>1
  <2>2. CASE k # l + 1 - f
    <3>1. k \in 1 .. l - f /\ f + k - 1 \in Nat /\ f <= f + k - 1 /\ f + k - 1 < l
      BY <2>2
    <3>2. d[f + k - 1] = e[f + k - 1]
      BY <3>1 DEF Agree
    <3> QED BY <1>1, <1>2, <1>3, <2>2, <3>1, <3>2
  <2> QED BY <2>1, <2>2
<1>5. v = Append(w, d[l])
  BY <1>2, <1>3, <1>4, SeqEqual
<1> QED BY <1>5 DEF w, v

\* The jobs of the workers as their users see them.
Held == [held EXCEPT ![Owner] = @ \cup Popped]

LEMMA StoredInv ==
  ASSUME IInv
  PROVE  /\ front[0] \in Nat /\ back[0] \in Nat /\ Stored \in Nat
         /\ Filled(entries[0], front[0], Stored)
<1>1. front[0] \in Nat /\ back[0] \in Nat /\ back[0] <= Capacity
  BY DEF IInv, TypeInv, DequeInv
<1>2. Stored \in Nat /\ Stored <= back[0]
  <2>1. CASE Reserved = {}
    BY <1>1, <2>1 DEF Stored
  <2>2. CASE Reserved # {}
    <3>1. PICK t \in Threads : call[t].step = "store"
      BY <2>2 DEF Reserved
    <3>2. back[0] = call[t].back + 1 /\ call[t].back \in Nat
      BY <3>1 DEF IInv, TypeInv, Call, CallsInv, CallInv, PushInv
    <3> QED BY <1>1, <2>2, <3>2 DEF Stored
  <2> QED BY <2>1, <2>2
<1>3. ASSUME NEW k \in Nat, front[0] <= k, k < Stored
      PROVE  entries[0][k] \in Jobs
  BY <1>1, <1>2, <1>3, CapacityAssumption DEF IInv, DequeInv, Slots
<1> QED BY <1>1, <1>2, <1>3 DEF Filled

\* A step maps to nothing when the window, and what the owner has, are the same.
LEMMA Stutters ==
  ASSUME Contents' = Contents, Held' = Held, UNCHANGED <<added, executable>>
  PROVE  UNCHANGED Abstract!vars
  BY DEF Abstract!vars, Held

LEMMA HiddenStutters ==
  ASSUME IInv, NEW t \in Threads, Hidden(t)
  PROVE  UNCHANGED Abstract!vars
<1>1. Popped' = Popped
  BY UsersAssumption DEF Hidden, Popped
<1>2. Reserved' = Reserved
  BY DEF Hidden, Reserved
<1>3. Contents' = Contents
  BY <1>2 DEF Hidden, Contents
<1>4. Held' = Held
  BY <1>1 DEF Hidden, Held
<1> QED BY <1>3, <1>4, Stutters DEF Hidden

\* A slot that is only reserved is not seen.
LEMMA PushBeginStutters ==
  ASSUME IInv, ExtraLocks, HasRoom, NEW t \in {Owner, Main}, NEW j \in Jobs,
         Inside(PushBackBegin(t, 0, j))
  PROVE  UNCHANGED Abstract!vars
<1>1. t \in Threads /\ \A u \in Threads : Idle(u)
  BY EnterAlone, UsersAssumption DEF Idle, Inside, PushBackBegin, Begin, At
<1>2. /\ Moves(t, "store", 0, back[0], j)
      /\ back' = [back EXCEPT ![0] = @ + 1]
      /\ UNCHANGED <<entries, front, held, added, executable>>
  BY <1>1, BeginMoves DEF IInv, TypeInv, Inside, PushBackBegin, Steps
<1>3. Reserved = {} /\ t \in Reserved'
  BY <1>1, <1>2 DEF Reserved, Idle, Moves, Locals
<1>4. back'[0] = back[0] + 1 /\ back[0] \in Nat
  BY <1>2 DEF IInv, TypeInv
<1>5. Contents' = Contents
  BY <1>2, <1>3, <1>4 DEF Contents
<1>6. Popped = {} /\ Popped' = {}
  <2>1. call[Owner].step = "none"
    BY <1>1, UsersAssumption DEF Idle
  <2>2. call'[Owner].step \in {"none", "store"}
    BY <1>2, <2>1, UsersAssumption DEF Moves, Locals
  <2> QED BY <2>1, <2>2 DEF Popped
<1>7. Held' = Held
  BY <1>2, <1>6 DEF Held
<1> QED BY <1>2, <1>5, <1>7, Stutters

\* Between mBack and mFront, and between the swap and the answer, nothing is seen.
LEMMA ResetStutters ==
  ASSUME IInv, Inside(PopFrontReset(Owner))
  PROVE  UNCHANGED Abstract!vars
<1> DEFINE t == Owner
<1>1. t \in Threads /\ ~Idle(t) /\ \A u \in Threads \ {t} : Idle(u)
  BY Alone, UsersAssumption DEF Idle, Inside, PopFrontReset, At
<1> HIDE DEF t
<1>2. /\ TypeInv /\ CallInv(t) /\ call[t] \in Call /\ call[t].deque = 0
      /\ front[0] \in Nat /\ back[0] \in Nat
      /\ UNCHANGED <<entries, front, held, added, executable>>
  BY <1>1 DEF IInv, TypeInv, CallsInv, Call, Inside, PopFrontReset, t
<1>3. CASE At(t, "frontlast")
  <2>1. Moves(t, "resetback", call[t].front, call[t].back, call[t].job) /\ UNCHANGED back
    BY <1>1, <1>2, <1>3, ContinueMoves DEF Inside, PopFrontReset, Steps, At, t
  <2>2. Reserved = {} /\ Reserved' = {} /\ Popped' = Popped
    BY <1>1, <1>3, <2>1 DEF Reserved, Idle, Moves, Locals, At, Popped, t
  <2> QED BY <1>2, <2>1, <2>2, Stutters DEF Contents, Held
<1>4. CASE At(t, "resetback")
  <2>1. /\ Moves(t, "resetfront", call[t].front, call[t].back, call[t].job)
        /\ back' = [back EXCEPT ![0] = 0]
    BY <1>1, <1>2, <1>4, ContinueMoves DEF Inside, PopFrontReset, Steps, At, t
  <2>2. Reserved = {} /\ Reserved' = {} /\ Popped' = Popped
    BY <1>1, <1>4, <2>1 DEF Reserved, Idle, Moves, Locals, At, Popped, t
  <2>3. front[0] = back[0] /\ back'[0] = 0
    BY <1>2, <1>4, <2>1 DEF TypeInv, CallInv, FrontInv, At
  <2>4. 1 .. back[0] - front[0] = {} /\ 1 .. back'[0] - front[0] = {}
    BY <1>2, <2>3
  <2>5. Contents' = Contents
    BY <1>2, <2>2, <2>4 DEF Contents
  <2> QED BY <1>2, <2>2, <2>5, Stutters DEF Held
<1> QED BY <1>3, <1>4 DEF Inside, PopFrontReset, t

\* The answer of PopFront is a job its owner has had since the exchange.
LEMMA FrontEndStutters ==
  ASSUME IInv, NEW j \in Jobs, PopFrontEnd(Owner, j), Keep(Owner, j)
  PROVE  UNCHANGED Abstract!vars
<1> DEFINE t == Owner
<1>1. t \in Threads /\ t \in Workers /\ ~Idle(t) /\ \A u \in Threads \ {t} : Idle(u)
  BY Alone, UsersAssumption DEF Idle, PopFrontEnd, At, Workers
<1> HIDE DEF t
<1>2. /\ TypeInv /\ DequeInv /\ CallInv(t) /\ call[t] \in Call /\ call[t].deque = 0
      /\ front[0] \in Nat /\ back[0] \in Nat
  BY <1>1 DEF IInv, TypeInv, CallsInv, Call
<1>3. /\ Moves(t, "none", 0, 0, NoJob)
      /\ UNCHANGED <<entries, back, added, executable>>
      /\ held' = [held EXCEPT ![Owner] = @ \cup {j}] /\ j = call[Owner].job
      /\ call[Owner].step \in {"frontlast", "resetfront"}
  BY <1>1, <1>2, EndMoves DEF PopFrontEnd, Keep, At, t
<1>4. Reserved = {} /\ Reserved' = {} /\ Popped = {j} /\ Popped' = {}
  BY <1>1, <1>3 DEF Reserved, Idle, Moves, Locals, Popped, t
<1>5. Held' = Held
  BY <1>1, <1>2, <1>3, <1>4 DEF Held, TypeInv, t
<1>6. CASE At(t, "frontlast")
  <2>1. UNCHANGED front
    BY <1>6 DEF PopFrontEnd, At, t
  <2> QED BY <1>3, <1>4, <1>5, <2>1, Stutters DEF Contents
<1>7. CASE At(t, "resetfront")
  <2>1. front' = [front EXCEPT ![0] = 0] /\ back[0] = 0
    BY <1>2, <1>7 DEF PopFrontEnd, At, CallInv, FrontInv, t
  <2>2. 1 .. back[0] - front[0] = {} /\ 1 .. back[0] - front'[0] = {}
    BY <1>2, <2>1 DEF TypeInv
  <2>3. Contents' = Contents
    BY <1>3, <1>4, <2>2 DEF Contents
  <2> QED BY <1>3, <1>5, <2>3, Stutters
<1> QED BY <1>6, <1>7 DEF PopFrontEnd, t

\* The exchange of mFront is the moment of PopFront,
LEMMA FrontSwapTakes ==
  ASSUME IInv, Inside(PopFrontSwap(Owner))
  PROVE  Abstract!TakeFront
<1> DEFINE t == Owner
<1>1. /\ t \in Threads /\ t \in Workers /\ ~Idle(t) /\ At(t, "frontswap")
      /\ \A u \in Threads \ {t} : Idle(u)
  BY Alone, UsersAssumption DEF Idle, Inside, PopFrontSwap, At, Workers
<1> HIDE DEF t
<1>2. /\ TypeInv /\ CallInv(t) /\ call[t] \in Call /\ call[t].deque = 0
      /\ front[0] \in Nat /\ back[0] \in Nat
  BY <1>1 DEF IInv, TypeInv, CallsInv, Call
<1>3. /\ Moves(t, "frontlast", call[t].front, call[t].back, call[t].job)
      /\ front' = [front EXCEPT ![0] = @ + 1]
      /\ UNCHANGED <<entries, back, held, added, executable>>
  BY <1>1, <1>2, ContinueMoves DEF Inside, PopFrontSwap, Steps, t
<1>4. /\ Reserved = {} /\ Reserved' = {} /\ Popped = {} /\ Popped' = {call[t].job}
      /\ front[0] < back[0] /\ call[t].job = entries[0][front[0]]
  BY <1>1, <1>2, <1>3
     DEF Reserved, Idle, Moves, Locals, At, CallInv, FrontInv, Popped, t
<1>5. front'[0] = front[0] + 1
  BY <1>2, <1>3 DEF TypeInv
<1>6. /\ Contents = Window(entries[0], front[0], back[0])
      /\ Contents' = Window(entries[0], front[0] + 1, back[0])
  BY <1>3, <1>4, <1>5 DEF Contents, Window
<1>7. Filled(entries[0], front[0], back[0])
  BY <1>4, StoredInv DEF Stored
<1>8. Contents # <<>> /\ Head(Contents) = call[t].job /\ Contents' = Tail(Contents)
  BY <1>2, <1>4, <1>6, <1>7, WindowTail
<1>9. Held' = [Held EXCEPT ![Owner] = @ \cup {call[t].job}]
  BY <1>1, <1>2, <1>3, <1>4 DEF Held, TypeInv, t
<1> QED BY <1>3, <1>8, <1>9 DEF Abstract!TakeFront, Held

\* that of mBack the moment of PopBack,
LEMMA BackEndTakes ==
  ASSUME IInv, NEW t \in Thieves, NEW j \in Jobs, PopBackEnd(t, j), Keep(t, j)
  PROVE  Abstract!TakeBack(t)
<1>1. /\ t \in Threads /\ t \in Workers /\ t # Owner /\ ~Idle(t) /\ At(t, "backswap")
      /\ \A u \in Threads \ {t} : Idle(u)
  BY Alone, UsersAssumption DEF Idle, PopBackEnd, At, Workers
<1>2. /\ TypeInv /\ CallInv(t) /\ call[t] \in Call /\ call[t].deque = 0
      /\ front[0] \in Nat /\ back[0] \in Nat
  BY <1>1 DEF IInv, TypeInv, CallsInv, Call
<1>3. /\ Moves(t, "none", 0, 0, NoJob) /\ j = call[t].job
      /\ back' = [back EXCEPT ![0] = @ - 1]
      /\ held' = [held EXCEPT ![t] = @ \cup {j}]
      /\ UNCHANGED <<entries, front, added, executable>>
  BY <1>1, <1>2, EndMoves DEF PopBackEnd, Keep
<1>4. /\ Reserved = {} /\ Reserved' = {} /\ front[0] < back[0]
      /\ j = entries[0][back[0] - 1] /\ j \in executable
  BY <1>1, <1>2, <1>3 DEF Reserved, Idle, Moves, Locals, At, CallInv, BackInv
<1>5. Popped = {} /\ Popped' = {}
  BY <1>1, <1>3, UsersAssumption DEF Popped, Idle, Moves
<1>6. back'[0] = back[0] - 1
  BY <1>2, <1>3 DEF TypeInv
<1>7. /\ Contents = Window(entries[0], front[0], back[0])
      /\ Contents' = Window(entries[0], front[0], back[0] - 1)
  BY <1>3, <1>4, <1>6 DEF Contents, Window
<1>8. Filled(entries[0], front[0], back[0])
  BY <1>4, StoredInv DEF Stored
<1>9. /\ Contents # <<>> /\ Contents[Len(Contents)] = j
      /\ Contents' = SubSeq(Contents, 1, Len(Contents) - 1)
  BY <1>2, <1>4, <1>7, <1>8, WindowFront
<1>10. Held' = [Held EXCEPT ![t] = @ \cup {j}]
  BY <1>1, <1>2, <1>3, <1>5 DEF Held, TypeInv
<1> QED BY <1>3, <1>4, <1>9, <1>10 DEF Abstract!TakeBack, Held

\* and the store that of PushBack.
LEMMA PushEndAppends ==
  ASSUME IInv, NEW t \in {Owner, Main}, PushBackEnd(t)
  PROVE  /\ Contents' = Append(Contents, call[t].job)
         /\ call[t].job \in Jobs /\ Popped = {} /\ Popped' = {}
<1>1. t \in Threads /\ ~Idle(t) /\ At(t, "store") /\ \A u \in Threads \ {t} : Idle(u)
  BY Alone, UsersAssumption DEF Idle, PushBackEnd, At
<1>2. /\ Moves(t, "none", 0, 0, NoJob) /\ call[t].deque = 0
      /\ call[t].back \in Slots /\ call[t].back \in Nat /\ call[t].job \in Jobs
      /\ call[t].back + 1 = back[0] /\ front[0] <= call[t].back /\ front[0] \in Nat
      /\ entries' = [entries EXCEPT ![0][call[t].back] = call[t].job]
      /\ UNCHANGED <<front, back>>
  BY <1>1, EndMoves DEF IInv, TypeInv, Call, CallsInv, CallInv, PushInv, PushBackEnd, At
<1>3. t \in Reserved /\ Reserved' = {} /\ Popped = {} /\ Popped' = {}
  BY <1>1, <1>2, UsersAssumption DEF Reserved, Idle, Moves, Locals, At, Popped
<1> DEFINE l == call[t].back
<1>4. /\ Contents = Window(entries[0], front[0], l)
      /\ Contents' = Window(entries'[0], front[0], l + 1)
  BY <1>2, <1>3 DEF Contents, Window
<1>5. Stored = l
  BY <1>2, <1>3 DEF Stored
<1>6. entries'[0][l] = call[t].job /\ Agree(entries'[0], entries[0], front[0], l)
  <2>1. \A k \in Slots : entries'[0][k] = IF k = l THEN call[t].job ELSE entries[0][k]
    BY <1>2 DEF IInv, TypeInv
  <2>2. l \in Slots /\ \A k \in Nat : k < l => k \in Slots
    BY <1>2, CapacityAssumption DEF Slots
  <2> HIDE DEF l
  <2> QED BY <1>2, <2>1, <2>2 DEF Agree
<1>7. l \in Nat /\ front[0] <= l /\ Filled(entries[0], front[0], l)
  BY <1>2, <1>5, StoredInv
<1> HIDE DEF l
<1>8. Window(entries'[0], front[0], l + 1) = Append(Window(entries[0], front[0], l), entries'[0][l])
  <2>1. entries'[0][l] \in Jobs /\ front[0] \in Nat
    BY <1>2, <1>6
  <2> QED BY <1>6, <1>7, <2>1, WindowAppend, Zenon
<1> QED BY <1>2, <1>3, <1>4, <1>6, <1>8

LEMMA PushEndAdds ==
  ASSUME IInv, PushBackEnd(Main), added' = added \cup {call[Main].job}, UNCHANGED <<held, executable>>
  PROVE  Abstract!Add(call[Main].job)
<1>1. call[Main].job \notin added
  BY UsersAssumption DEF IInv, CallsInv, CallInv, PushInv, PushBackEnd, At
<1> QED BY <1>1, PushEndAppends DEF Abstract!Add

LEMMA PushEndPutsBack ==
  ASSUME IInv, PushBackEnd(Owner), held' = [held EXCEPT ![Owner] = @ \ {call[Owner].job}],
         UNCHANGED <<added, executable>>
  PROVE  Abstract!PutBack(call[Owner].job)
<1>1. call[Owner].job \in held[Owner]
  BY UsersAssumption DEF IInv, CallsInv, CallInv, PushInv, PushBackEnd, At
<1>2. /\ Contents' = Append(Contents, call[Owner].job)
      /\ Popped = {} /\ Popped' = {}
  BY PushEndAppends
<1>3. /\ call[Owner].job \in Held[Owner]
      /\ Held' = [Held EXCEPT ![Owner] = @ \ {call[Owner].job}]
  BY <1>1, <1>2 DEF Held, IInv, TypeInv, Workers
<1> QED BY <1>2, <1>3 DEF Abstract!PutBack, Held

LEMMA StepRefines ==
  ASSUME IInv, ExtraLocks, [Next]_vars
  PROVE  [Abstract!Next]_(Abstract!vars)
<1> USE UsersAssumption
<1>1. CASE Pop
  <2>1. ASSUME NEW open \in BOOLEAN, Inside(PopFrontBegin(Owner, 0, open))
        PROVE  UNCHANGED Abstract!vars
    BY <2>1, ReadBeginInv, HiddenStutters
  <2>2. CASE Inside(PopFrontOn(Owner) \/ PopFrontTest(Owner))
    BY <2>2, ReadOnInv, HiddenStutters DEF Inside
  <2>3. CASE Inside(PopFrontSwap(Owner) \/ PopFrontReset(Owner))
    BY <2>3, FrontSwapTakes, ResetStutters DEF Inside, Abstract!Next
  <2>4. CASE Inside(PopFrontNone(Owner))
    BY <2>4, ReadEndInv, HiddenStutters DEF Inside
  <2>5. ASSUME NEW j \in Jobs, PopFrontEnd(Owner, j) /\ Keep(Owner, j)
        PROVE  UNCHANGED Abstract!vars
    BY <2>5, FrontEndStutters
  <2> QED BY <1>1, <2>1, <2>2, <2>3, <2>4, <2>5 DEF Pop
<1>2. CASE PutBack
  <2>1. ASSUME NEW j \in held[Owner], HasRoom, Inside(PushBackBegin(Owner, 0, j))
        PROVE  UNCHANGED Abstract!vars
    <3>1. j \in Jobs
      BY DEF IInv, TypeInv, Workers
    <3> QED BY <2>1, <3>1, PushBeginStutters
  <2>2. CASE /\ PushBackEnd(Owner) /\ UNCHANGED <<added, executable>>
             /\ held' = [held EXCEPT ![Owner] = @ \ {call[Owner].job}]
    BY <2>2, PushEndPutsBack, PushEndAppends DEF Abstract!Next
  <2> QED BY <1>2, <2>1, <2>2 DEF PutBack
<1>3. CASE Add
  <2>1. ASSUME NEW j \in Jobs \ added, HasRoom, Inside(PushBackBegin(Main, 0, j))
        PROVE  UNCHANGED Abstract!vars
    BY <2>1, PushBeginStutters
  <2>2. CASE PushBackEnd(Main) /\ added' = added \cup {call[Main].job} /\ UNCHANGED <<held, executable>>
    BY <2>2, PushEndAdds, PushEndAppends DEF Abstract!Next
  <2> QED BY <1>3, <2>1, <2>2 DEF Add
<1>4. ASSUME NEW w \in Thieves, Steal(w) \/ Scan(w)
      PROVE  [Abstract!Next]_(Abstract!vars)
  <2>1. CASE Inside(PopBackBegin(w, 0)) \/ Inside(ScanBegin(w, 0))
    BY <2>1, ReadBeginInv, HiddenStutters DEF Inside
  <2>2. CASE Inside(PopBackOn(w) \/ PopBackTest(w) \/ PopBackNone(w)) \/ Inside(ScanOn(w))
    BY <2>2, ReadOnInv, ReadEndInv, HiddenStutters DEF Inside
  <2>3. ASSUME NEW found \in BOOLEAN, Inside(ScanEnd(w, found))
        PROVE  UNCHANGED Abstract!vars
    BY <2>3, ReadEndInv, HiddenStutters DEF Inside
  <2>4. ASSUME NEW j \in Jobs, PopBackEnd(w, j) /\ Keep(w, j)
        PROVE  Abstract!Next
    BY <2>4, BackEndTakes DEF Abstract!Next
  <2> QED BY <1>4, <2>1, <2>2, <2>3, <2>4 DEF Steal, Scan
<1>5. ASSUME NEW j \in Jobs, Enable(j)
      PROVE  Abstract!Next
  <2>1. Contents' = Contents /\ Popped' = Popped
    BY <1>5 DEF Enable, dequeVars, Contents, Reserved, Popped
  <2>2. Abstract!Enable(j)
    BY <1>5, <2>1 DEF Enable, Abstract!Enable
  <2> QED BY <2>2 DEF Abstract!Next
<1>6. CASE UNCHANGED vars
  BY <1>6 DEF vars, dequeVars, Contents, Reserved, Popped, Abstract!vars
<1> QED BY <1>1, <1>2, <1>3, <1>4, <1>5, <1>6 DEF Next

LEMMA InitRefines == Init => Abstract!Init
<1> SUFFICES ASSUME Init PROVE Abstract!Init
  OBVIOUS
<1> USE UsersAssumption DEF Init, DequeInit, NoCall
<1>1. Popped = {} /\ Reserved = {}
  BY DEF Popped, Reserved
<1>2. 1 .. back[0] - front[0] = {}
  OBVIOUS
<1>3. Contents = <<>>
  BY <1>1, <1>2 DEF Contents
<1>4. [held EXCEPT ![Owner] = @ \cup Popped] = [w \in Workers |-> {}]
  BY <1>1 DEF Workers
<1> QED BY <1>3, <1>4 DEF Abstract!Init, Abstract!Workers, Workers

\* LocklessDeque with HTL_EXTRA_LOCKS implements JobDeque: to their users
\* PushBack, PopFront and PopBack happen at one moment each, for every size of
\* the buffer and any number of thieves (lockless_deque.h:64-163).
THEOREM DequeIsAtomic ==
  ASSUME ExtraLocks
  PROVE  Spec => AbstractSpec
<1>1. Init => Abstract!Init
  BY InitRefines
<1>2. IInv /\ [Next]_vars => [Abstract!Next]_(Abstract!vars)
  BY StepRefines
<1> QED BY <1>1, <1>2, Invariance, PTL DEF Spec, AbstractSpec, Abstract!Spec

=============================================================================
