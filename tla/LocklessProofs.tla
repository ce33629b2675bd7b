--------------------------- MODULE LocklessProofs ---------------------------
(***************************************************************************)
(* What LocklessSystem promises in both builds, for every number of        *)
(* workers, every frame and every size of the buffer: its types, that what *)
(* happens to the jobs is a behaviour of JobGraph, and that nobody but the *)
(* owner moves mFront of a running worker; with HTL_EXTRA_LOCKS, that the  *)
(* deques lose no job and double none.                                     *)
(***************************************************************************)
EXTENDS LocklessSystem, JobSystemProofs, FiniteSetTheorems

-----------------------------------------------------------------------------
(* The invariant.                                                          *)

Call ==
  [step : Deque!Steps, deque : Workers, front : Nat, back : Nat,
   job : Jobs \cup {NoJob}, open : BOOLEAN]

TypeInv ==
  /\ entries \in [Workers -> [Deque!Slots -> Jobs \cup {Unwritten}]]
  /\ front \in [Workers -> Nat]
  /\ back \in [Workers -> Nat]
  /\ call \in [Users -> Call]

ScanSteps == {"scanfront", "scan"}
ReadFrontSteps == {"frontback", "frontentry", "fronttest", "frontswap"}
TakenSteps == {"frontlast", "resetback", "resetfront"}
FrontSteps == ReadFrontSteps \cup TakenSteps
BackSteps == {"backfront", "backentry", "backtest", "backswap"}

\* A thread is inside an operation where its control calls it, on the deque and
\* with the job it was called with.
WorkerCall(w) ==
  /\ call[w].step # "clear"
  /\ call[w].step \in ScanSteps => pc[w] \in {"check", "testing", "wake"}
  /\ call[w].step = "size" => pc[w] \in {"size", "resize"}
  /\ call[w].step = "store" => pc[w] = "pushback" /\ call[w].job = popped[w]
  /\ call[w].step \in FrontSteps =>
       /\ pc[w] \in {"popfront", "repop"} /\ call[w].deque = w
       /\ pc[w] = "repop" => ~call[w].open
  /\ call[w].step \in BackSteps => pc[w] = "steal" /\ MaySteal(w)

MainCall ==
  /\ call[Main].step \in {"none", "size", "store"}
  /\ call[Main].step = "size" => mainPc = "poll"
  /\ call[Main].step = "store" => mainPc = "add" /\ call[Main].job = frame.add[index + 1]

QuitCall ==
  /\ call[Quitter].step \in {"none", "clear"}
  /\ call[Quitter].step = "clear" => quitPc = "clear" /\ call[Quitter].deque = quitIndex

CallsInv == (\A w \in Workers : WorkerCall(w)) /\ MainCall /\ QuitCall

\* PopBack takes mBack down from a value above 0 only.
BackPositive ==
  \A w \in Workers :
    call[w].step \in {"backentry", "backtest", "backswap"} => call[w].back > 0

\* What PopFront has read of mFront is still so until the worker is stopped.
FrontKept ==
  \A w \in Workers :
    running[w] /\ call[w].step \in ReadFrontSteps => front[w] = call[w].front

\* A worker has claimed a job inside a pop that asks CanExecute.
Claiming(w) ==
  \/ pc[w] = "repop" /\ call[w].step \in {"frontswap"} \cup TakenSteps
  \/ pc[w] = "steal" /\ call[w].step = "backswap"

\* The job in a worker's hand is the one it executes or is about to get.
Hand(w) ==
  /\ hand[w] # NoJob <=> pc[w] = "execute" \/ Claiming(w)
  /\ Claiming(w) => hand[w] = call[w].job /\ phase[w] = "claimed"

HandInv == \A w \in Workers : Hand(w)

\* The workers and the deques have jobs that main_runner has added only.
Known(w) ==
  /\ popped[w] \in Added \cup {NoJob}
  /\ call[w].job \in Added \cup {NoJob}
  /\ call[w].step \in {"fronttest", "frontswap", "backtest", "backswap"} \cup TakenSteps =>
       call[w].job # NoJob

KnownInv ==
  /\ \A i \in Workers : \A k \in Deque!Slots : entries[i][k] \in Added \cup {Unwritten}
  /\ \A w \in Workers : Known(w)

IInv ==
  /\ ThreadsInv /\ BuildInv /\ JobsInv
  /\ TypeInv /\ CallsInv /\ BackPositive /\ FrontKept /\ HandInv /\ KnownInv

-----------------------------------------------------------------------------
(* The locals of an operation.                                             *)

LEMMA UsersFacts ==
  /\ Main \in Users /\ Quitter \in Users /\ Main # Quitter
  /\ \A w \in Workers : w \in Users /\ w # Main /\ w # Quitter
  /\ \A t \in Users : t \in Workers \/ t = Main \/ t = Quitter
BY NumWorkersAssumption DEF Users, Main, Quitter, Workers

Locals(c, s, i, f, b, j, o) ==
  /\ c \in Call
  /\ c.step = s /\ c.deque = i /\ c.front = f /\ c.back = b /\ c.job = j /\ c.open = o

\* A step of t inside an operation.
Moves(t, s, i, f, b, j, o) ==
  /\ call' \in [Users -> Call]
  /\ Locals(call'[t], s, i, f, b, j, o)
  /\ \A u \in Users \ {t} : call'[u] = call[u]

LEMMA MovesTo ==
  ASSUME TypeInv, NEW t \in Users, NEW s, NEW i, NEW f, NEW b, NEW j, NEW o,
         NEW c, Locals(c, s, i, f, b, j, o), call' = [call EXCEPT ![t] = c]
  PROVE  Moves(t, s, i, f, b, j, o)
  BY DEF TypeInv, Locals, Moves

LEMMA NoCallLocals == Locals(Deque!NoCall, "none", 0, 0, 0, NoJob, FALSE)
  BY NumWorkersFacts DEF Deque!NoCall, Locals, Call, Deque!Steps

LEMMA BeginMoves ==
  ASSUME TypeInv, NEW t \in Users, NEW i \in Workers
  PROVE  /\ \A s \in Deque!Steps :
              Deque!Begin(t, i, [Deque!NoCall EXCEPT !.step = s]) =>
                Moves(t, s, i, 0, 0, NoJob, FALSE)
         /\ \A s \in Deque!Steps, n \in Nat :
              Deque!Begin(t, i, [Deque!NoCall EXCEPT !.step = s, !.back = n]) =>
                Moves(t, s, i, 0, n, NoJob, FALSE)
         /\ \A s \in Deque!Steps, n \in Nat, j \in Jobs :
              Deque!Begin(t, i, [Deque!NoCall EXCEPT !.step = s, !.back = n, !.job = j]) =>
                Moves(t, s, i, 0, n, j, FALSE)
         /\ \A s \in Deque!Steps, n \in Nat, o \in BOOLEAN :
              Deque!Begin(t, i, [Deque!NoCall EXCEPT !.step = s, !.front = n, !.open = o]) =>
                Moves(t, s, i, n, 0, NoJob, o)
<1> DEFINE none == Deque!NoCall
           b(s) == [[none EXCEPT !.step = s] EXCEPT !.deque = i]
           c(s, n) == [[none EXCEPT !.step = s, !.back = n] EXCEPT !.deque = i]
           d(s, n, j) == [[none EXCEPT !.step = s, !.back = n, !.job = j] EXCEPT !.deque = i]
           e(s, n, o) == [[none EXCEPT !.step = s, !.front = n, !.open = o] EXCEPT !.deque = i]
<1>1. Locals(none, "none", 0, 0, 0, NoJob, FALSE)
  BY NoCallLocals
<1>2. ASSUME NEW s \in Deque!Steps, NEW n \in Nat
      PROVE  /\ Locals(b(s), s, i, 0, 0, NoJob, FALSE)
             /\ Locals(c(s, n), s, i, 0, n, NoJob, FALSE)
             /\ \A j \in Jobs : Locals(d(s, n, j), s, i, 0, n, j, FALSE)
             /\ \A o \in BOOLEAN : Locals(e(s, n, o), s, i, n, 0, NoJob, o)
  <2> HIDE DEF none
  <2> QED BY <1>1 DEF Locals, Call
<1> HIDE DEF none, b, c, d, e
<1>3. ASSUME NEW s \in Deque!Steps, NEW n \in Nat
      PROVE  /\ Deque!Begin(t, i, [none EXCEPT !.step = s]) =>
                  Moves(t, s, i, 0, 0, NoJob, FALSE)
             /\ Deque!Begin(t, i, [none EXCEPT !.step = s, !.back = n]) =>
                  Moves(t, s, i, 0, n, NoJob, FALSE)
             /\ \A j \in Jobs :
                  Deque!Begin(t, i, [none EXCEPT !.step = s, !.back = n, !.job = j]) =>
                    Moves(t, s, i, 0, n, j, FALSE)
             /\ \A o \in BOOLEAN :
                  Deque!Begin(t, i, [none EXCEPT !.step = s, !.front = n, !.open = o]) =>
                    Moves(t, s, i, n, 0, NoJob, o)
  BY <1>2, MovesTo, Zenon DEF Deque!Begin, b, c, d, e
<1>4. 0 \in Nat
  OBVIOUS
<1> QED BY <1>3, <1>4, Zenon DEF none

LEMMA ContinueMoves ==
  ASSUME TypeInv, NEW t \in Users
  PROVE  LET c == call[t]
         IN \A s \in Deque!Steps :
              /\ Deque!Continue(t, [c EXCEPT !.step = s]) =>
                   Moves(t, s, c.deque, c.front, c.back, c.job, c.open)
              /\ \A n \in Nat :
                   /\ Deque!Continue(t, [c EXCEPT !.front = n]) =>
                        Moves(t, c.step, c.deque, n, c.back, c.job, c.open)
                   /\ Deque!Continue(t, [c EXCEPT !.step = s, !.front = n]) =>
                        Moves(t, s, c.deque, n, c.back, c.job, c.open)
                   /\ Deque!Continue(t, [c EXCEPT !.step = s, !.back = n]) =>
                        Moves(t, s, c.deque, c.front, n, c.job, c.open)
              /\ \A j \in Jobs :
                   /\ Deque!Continue(t, [c EXCEPT !.job = j, !.step = s]) =>
                        Moves(t, s, c.deque, c.front, c.back, j, c.open)
                   /\ Deque!Continue(t, [c EXCEPT !.step = s, !.job = j]) =>
                        Moves(t, s, c.deque, c.front, c.back, j, c.open)
<1> DEFINE c == call[t]
           d(s) == [c EXCEPT !.step = s]
           e(n) == [c EXCEPT !.front = n]
           g(s, n) == [c EXCEPT !.step = s, !.front = n]
           h(s, n) == [c EXCEPT !.step = s, !.back = n]
           k(s, j) == [c EXCEPT !.job = j, !.step = s]
           l(s, j) == [c EXCEPT !.step = s, !.job = j]
<1>1. c \in Call
  BY DEF TypeInv
<1>2. ASSUME NEW s \in Deque!Steps
      PROVE  /\ Locals(d(s), s, c.deque, c.front, c.back, c.job, c.open)
             /\ \A n \in Nat :
                  /\ Locals(e(n), c.step, c.deque, n, c.back, c.job, c.open)
                  /\ Locals(g(s, n), s, c.deque, n, c.back, c.job, c.open)
                  /\ Locals(h(s, n), s, c.deque, c.front, n, c.job, c.open)
             /\ \A j \in Jobs :
                  /\ Locals(k(s, j), s, c.deque, c.front, c.back, j, c.open)
                  /\ Locals(l(s, j), s, c.deque, c.front, c.back, j, c.open)
  <2> HIDE DEF c
  <2> QED BY <1>1 DEF Locals, Call
<1> HIDE DEF c, d, e, g, h, k, l
<1>3. ASSUME NEW s \in Deque!Steps
      PROVE  /\ Deque!Continue(t, d(s)) => Moves(t, s, c.deque, c.front, c.back, c.job, c.open)
             /\ \A n \in Nat :
                  /\ Deque!Continue(t, e(n)) =>
                       Moves(t, c.step, c.deque, n, c.back, c.job, c.open)
                  /\ Deque!Continue(t, g(s, n)) =>
                       Moves(t, s, c.deque, n, c.back, c.job, c.open)
                  /\ Deque!Continue(t, h(s, n)) =>
                       Moves(t, s, c.deque, c.front, n, c.job, c.open)
             /\ \A j \in Jobs :
                  /\ Deque!Continue(t, k(s, j)) =>
                       Moves(t, s, c.deque, c.front, c.back, j, c.open)
                  /\ Deque!Continue(t, l(s, j)) =>
                       Moves(t, s, c.deque, c.front, c.back, j, c.open)
  BY <1>2, MovesTo, Zenon DEF Deque!Continue
<1> QED BY <1>3, Zenon DEF c, d, e, g, h, k, l

Ends(t) == Moves(t, "none", 0, 0, 0, NoJob, FALSE)

LEMMA EndMoves ==
  ASSUME TypeInv, NEW t \in Users, Deque!End(t)
  PROVE  Ends(t)
BY NoCallLocals, MovesTo DEF Deque!End, Ends

-----------------------------------------------------------------------------
(* The operations, as steps inside an operation and what they write.       *)

LEMMA BackType ==
  ASSUME TypeInv
  PROVE  \A i \in Workers : front[i] \in Nat /\ back[i] \in Nat
BY DEF TypeInv

LEMMA CallType ==
  ASSUME TypeInv, NEW t \in Users
  PROVE  /\ call[t].step \in Deque!Steps /\ call[t].deque \in Workers
         /\ call[t].front \in Nat /\ call[t].back \in Nat
         /\ call[t].job \in Jobs \cup {NoJob} /\ call[t].open \in BOOLEAN
<1>1. call[t] \in Call
  BY DEF TypeInv
<1> QED BY <1>1 DEF Call

LEMMA ScanOps ==
  ASSUME TypeInv, NEW t \in Users
  PROVE  /\ \A i \in Workers : Deque!ScanBegin(t, i) =>
              /\ call[t].step = "none" /\ Deque!MayEnter(i)
              /\ Moves(t, "scanfront", i, 0, back[i], NoJob, FALSE)
              /\ UNCHANGED <<entries, front, back>>
         /\ Deque!ScanOn(t) =>
              /\ call[t].step \in ScanSteps
              /\ \E n \in Nat :
                   Moves(t, "scan", call[t].deque, n, call[t].back, call[t].job, call[t].open)
              /\ UNCHANGED <<entries, front, back>>
         /\ \A found : Deque!ScanEnd(t, found) =>
              call[t].step \in ScanSteps /\ Ends(t) /\ UNCHANGED <<entries, front, back>>
<1>1. "scanfront" \in Deque!Steps /\ "scan" \in Deque!Steps
  BY DEF Deque!Steps
<1>2. ASSUME NEW i \in Workers, Deque!ScanBegin(t, i)
      PROVE  /\ call[t].step = "none" /\ Deque!MayEnter(i)
             /\ Moves(t, "scanfront", i, 0, back[i], NoJob, FALSE)
             /\ UNCHANGED <<entries, front, back>>
  <2>1. Moves(t, "scanfront", i, 0, back[i], NoJob, FALSE)
    BY <1>1, <1>2, BackType, BeginMoves, Zenon DEF Deque!ScanBegin
  <2> QED BY <1>2, <2>1 DEF Deque!ScanBegin, Deque!Begin, Deque!At
<1>3. ASSUME Deque!ScanOn(t)
      PROVE  /\ call[t].step \in ScanSteps
             /\ \E n \in Nat :
                  Moves(t, "scan", call[t].deque, n, call[t].back, call[t].job, call[t].open)
             /\ UNCHANGED <<entries, front, back>>
  <2>1. call[t].front + 1 \in Nat /\ front[call[t].deque] \in Nat
    BY BackType, CallType
  <2>2. CASE call[t].step = "scanfront"
    BY <1>1, <1>3, <2>1, <2>2, ContinueMoves, Zenon DEF Deque!ScanOn, Deque!At, ScanSteps
  <2>3. CASE call[t].step = "scan"
    BY <1>1, <1>3, <2>1, <2>3, ContinueMoves, Zenon DEF Deque!ScanOn, Deque!At, ScanSteps
  <2> QED BY <1>3, <2>2, <2>3 DEF Deque!ScanOn, Deque!At
<1>4. ASSUME NEW found, Deque!ScanEnd(t, found)
      PROVE  call[t].step \in ScanSteps /\ Ends(t) /\ UNCHANGED <<entries, front, back>>
  BY <1>4, EndMoves DEF Deque!ScanEnd, Deque!At, ScanSteps
<1> QED BY <1>2, <1>3, <1>4, Zenon

LEMMA SizeOps ==
  ASSUME TypeInv, NEW t \in Users
  PROVE  /\ \A i \in Workers : Deque!SizeBegin(t, i) =>
              /\ call[t].step = "none"
              /\ Moves(t, "size", i, 0, back[i], NoJob, FALSE)
              /\ UNCHANGED <<entries, front, back>>
         /\ Deque!SizeEnd(t) =>
              call[t].step = "size" /\ Ends(t) /\ UNCHANGED <<entries, front, back>>
         /\ Deque!SizeSeen(t) \in Nat
<1>1. "size" \in Deque!Steps
  BY DEF Deque!Steps
<1>2. ASSUME NEW i \in Workers, Deque!SizeBegin(t, i)
      PROVE  /\ call[t].step = "none"
             /\ Moves(t, "size", i, 0, back[i], NoJob, FALSE)
             /\ UNCHANGED <<entries, front, back>>
  <2>1. Moves(t, "size", i, 0, back[i], NoJob, FALSE)
    BY <1>1, <1>2, BackType, BeginMoves, Zenon DEF Deque!SizeBegin
  <2> QED BY <1>2, <2>1 DEF Deque!SizeBegin, Deque!Begin, Deque!At
<1>3. Deque!SizeEnd(t) =>
        call[t].step = "size" /\ Ends(t) /\ UNCHANGED <<entries, front, back>>
  BY EndMoves DEF Deque!SizeEnd, Deque!At
<1>4. Deque!SizeSeen(t) \in Nat
  BY BackType, CallType DEF Deque!SizeSeen
<1> QED BY <1>2, <1>3, <1>4, Zenon

LEMMA ClearOps ==
  ASSUME TypeInv, NEW t \in Users
  PROVE  /\ \A i \in Workers : Deque!ClearBegin(t, i) =>
              /\ call[t].step = "none"
              /\ Moves(t, "clear", i, 0, 0, NoJob, FALSE)
              /\ back' = [back EXCEPT ![i] = 0] /\ UNCHANGED <<entries, front>>
         /\ Deque!ClearEnd(t) =>
              /\ call[t].step = "clear" /\ Ends(t)
              /\ front' = [front EXCEPT ![call[t].deque] = 0] /\ UNCHANGED <<entries, back>>
<1>1. "clear" \in Deque!Steps
  BY DEF Deque!Steps
<1>2. ASSUME NEW i \in Workers, Deque!ClearBegin(t, i)
      PROVE  Moves(t, "clear", i, 0, 0, NoJob, FALSE)
  BY <1>1, <1>2, BeginMoves, Zenon DEF Deque!ClearBegin
<1> QED BY <1>2, EndMoves, Zenon DEF Deque!ClearBegin, Deque!ClearEnd, Deque!Begin, Deque!At

LEMMA PushBackOps ==
  ASSUME TypeInv, NEW t \in Users
  PROVE  /\ \A i \in Workers : \A j \in Jobs : Deque!PushBackBegin(t, i, j) =>
              /\ call[t].step = "none" /\ Deque!MayEnter(i)
              /\ Moves(t, "store", i, 0, back[i], j, FALSE)
              /\ back' = [back EXCEPT ![i] = @ + 1] /\ UNCHANGED <<entries, front>>
         /\ Deque!PushBackEnd(t) =>
              /\ call[t].step = "store" /\ call[t].back \in Deque!Slots /\ Ends(t)
              /\ entries' = [entries EXCEPT ![call[t].deque][call[t].back] = call[t].job]
              /\ UNCHANGED <<front, back>>
<1>1. "store" \in Deque!Steps
  BY DEF Deque!Steps
<1>2. ASSUME NEW i \in Workers, NEW j \in Jobs, Deque!PushBackBegin(t, i, j)
      PROVE  Moves(t, "store", i, 0, back[i], j, FALSE)
  BY <1>1, <1>2, BackType, BeginMoves, Zenon DEF Deque!PushBackBegin
<1> QED BY <1>2, EndMoves, Zenon DEF Deque!PushBackBegin, Deque!PushBackEnd, Deque!Begin,
           Deque!At


LEMMA PopFrontOps ==
  ASSUME TypeInv, NEW t \in Users
  PROVE  LET c == call[t]
         IN /\ \A i \in Workers : \A o \in BOOLEAN : Deque!PopFrontBegin(t, i, o) =>
                 /\ c.step = "none" /\ Deque!MayEnter(i)
                 /\ Moves(t, "frontback", i, front[i], 0, NoJob, o)
                 /\ UNCHANGED <<entries, front, back>>
            /\ Deque!PopFrontOn(t) =>
                 /\ \/ /\ c.step = "frontback" /\ c.front < back[c.deque]
                       /\ Moves(t, "frontentry", c.deque, c.front, back[c.deque], c.job, c.open)
                    \/ /\ c.step = "frontentry"
                       /\ c.front \in Deque!Slots /\ entries[c.deque][c.front] \in Jobs
                       /\ Moves(t, IF c.open THEN "frontswap" ELSE "fronttest",
                                c.deque, c.front, c.back, entries[c.deque][c.front], c.open)
                 /\ UNCHANGED <<entries, front, back>>
            /\ Deque!PopFrontTest(t) =>
                 /\ c.step = "fronttest"
                 /\ Moves(t, "frontswap", c.deque, c.front, c.back, c.job, c.open)
                 /\ UNCHANGED <<entries, front, back>>
            /\ Deque!PopFrontSwap(t) =>
                 /\ c.step = "frontswap" /\ front[c.deque] = c.front
                 /\ Moves(t, "frontlast", c.deque, c.front, c.back, c.job, c.open)
                 /\ front' = [front EXCEPT ![c.deque] = @ + 1] /\ UNCHANGED <<entries, back>>
            /\ Deque!PopFrontReset(t) =>
                 /\ \/ /\ c.step = "frontlast" /\ front[c.deque] = back[c.deque]
                       /\ Moves(t, "resetback", c.deque, c.front, c.back, c.job, c.open)
                       /\ back' = back
                    \/ /\ c.step = "resetback"
                       /\ Moves(t, "resetfront", c.deque, c.front, c.back, c.job, c.open)
                       /\ back' = [back EXCEPT ![c.deque] = 0]
                 /\ UNCHANGED <<entries, front>>
            /\ \A j : Deque!PopFrontEnd(t, j) =>
                 /\ j = c.job /\ Ends(t)
                 /\ \/ c.step = "frontlast" /\ front' = front
                    \/ c.step = "resetfront" /\ front' = [front EXCEPT ![c.deque] = 0]
                 /\ UNCHANGED <<entries, back>>
            /\ Deque!PopFrontNone(t) =>
                 /\ c.step \in {"frontback", "fronttest"} /\ Ends(t)
                 /\ UNCHANGED <<entries, front, back>>
            /\ Deque!PopFrontLost(t) =>
                 /\ c.step = "frontswap" /\ front[c.deque] # c.front /\ Ends(t)
                 /\ UNCHANGED <<entries, front, back>>
<1> DEFINE c == call[t]
<1>1. {"frontback", "frontentry", "fronttest", "frontswap", "frontlast", "resetback",
       "resetfront"} \subseteq Deque!Steps
  BY DEF Deque!Steps
<1>2. ASSUME NEW i \in Workers, NEW o \in BOOLEAN, Deque!PopFrontBegin(t, i, o)
      PROVE  /\ c.step = "none" /\ Deque!MayEnter(i)
             /\ Moves(t, "frontback", i, front[i], 0, NoJob, o)
             /\ UNCHANGED <<entries, front, back>>
  <2>1. "frontback" \in Deque!Steps
    BY <1>1
  <2>2. Moves(t, "frontback", i, front[i], 0, NoJob, o)
    BY <1>2, <2>1, BackType, BeginMoves, Zenon DEF Deque!PopFrontBegin
  <2> QED BY <1>2, <2>2 DEF Deque!PopFrontBegin, Deque!Begin, Deque!At
<1>3. ASSUME Deque!PopFrontOn(t)
      PROVE  /\ \/ /\ c.step = "frontback" /\ c.front < back[c.deque]
                   /\ Moves(t, "frontentry", c.deque, c.front, back[c.deque], c.job, c.open)
                \/ /\ c.step = "frontentry"
                   /\ c.front \in Deque!Slots /\ entries[c.deque][c.front] \in Jobs
                   /\ Moves(t, IF c.open THEN "frontswap" ELSE "fronttest",
                            c.deque, c.front, c.back, entries[c.deque][c.front], c.open)
             /\ UNCHANGED <<entries, front, back>>
  <2>1. CASE c.step = "frontback"
    <3>1. "frontentry" \in Deque!Steps /\ back[c.deque] \in Nat
      BY <1>1, BackType, CallType
    <3>2. /\ Deque!NonEmpty(c.front, back[c.deque])
          /\ Deque!Continue(t, [c EXCEPT !.step = "frontentry", !.back = back[c.deque]])
          /\ UNCHANGED <<entries, front, back>>
      BY <1>3, <2>1 DEF Deque!PopFrontOn, Deque!At
    <3>3. Moves(t, "frontentry", c.deque, c.front, back[c.deque], c.job, c.open)
      BY <3>1, <3>2, ContinueMoves, Zenon
    <3> QED BY <2>1, <3>2, <3>3 DEF Deque!NonEmpty
  <2>2. CASE c.step = "frontentry"
    <3> DEFINE j == entries[c.deque][c.front]
               s == IF c.open THEN "frontswap" ELSE "fronttest"
    <3>1. /\ Deque!Readable(t, c.front)
          /\ Deque!Continue(t, [c EXCEPT !.job = j, !.step = s])
          /\ UNCHANGED <<entries, front, back>>
      BY <1>3, <2>2 DEF Deque!PopFrontOn, Deque!At, Deque!Slot
    <3>2. c.front \in Deque!Slots /\ j \in Jobs
      BY <3>1, CallType DEF Deque!Readable, Deque!Slot, TypeInv
    <3>3. s \in Deque!Steps
      BY <1>1
    <3> HIDE DEF j, s
    <3>4. Moves(t, s, c.deque, c.front, c.back, j, c.open)
      BY <3>1, <3>2, <3>3, ContinueMoves, Zenon
    <3> QED BY <2>2, <3>1, <3>2, <3>4, Zenon DEF j, s
  <2> QED BY <1>3, <2>1, <2>2 DEF Deque!PopFrontOn, Deque!At
<1>4. ASSUME Deque!PopFrontTest(t)
      PROVE  /\ c.step = "fronttest"
             /\ Moves(t, "frontswap", c.deque, c.front, c.back, c.job, c.open)
             /\ UNCHANGED <<entries, front, back>>
  <2>1. "frontswap" \in Deque!Steps
    BY <1>1
  <2> QED BY <1>4, <2>1, ContinueMoves, Zenon DEF Deque!PopFrontTest, Deque!At
<1>5. ASSUME Deque!PopFrontSwap(t)
      PROVE  /\ c.step = "frontswap" /\ front[c.deque] = c.front
             /\ Moves(t, "frontlast", c.deque, c.front, c.back, c.job, c.open)
             /\ front' = [front EXCEPT ![c.deque] = @ + 1] /\ UNCHANGED <<entries, back>>
  <2>1. "frontlast" \in Deque!Steps
    BY <1>1
  <2> QED BY <1>5, <2>1, ContinueMoves, Zenon DEF Deque!PopFrontSwap, Deque!At
<1>6. ASSUME Deque!PopFrontReset(t)
      PROVE  /\ \/ /\ c.step = "frontlast" /\ front[c.deque] = back[c.deque]
                   /\ Moves(t, "resetback", c.deque, c.front, c.back, c.job, c.open)
                   /\ back' = back
                \/ /\ c.step = "resetback"
                   /\ Moves(t, "resetfront", c.deque, c.front, c.back, c.job, c.open)
                   /\ back' = [back EXCEPT ![c.deque] = 0]
             /\ UNCHANGED <<entries, front>>
  <2>1. "resetback" \in Deque!Steps /\ "resetfront" \in Deque!Steps
    BY <1>1
  <2> QED BY <1>6, <2>1, ContinueMoves, Zenon DEF Deque!PopFrontReset, Deque!At
<1>7. ASSUME NEW j, Deque!PopFrontEnd(t, j)
      PROVE  /\ j = c.job /\ Ends(t)
             /\ \/ c.step = "frontlast" /\ front' = front
                \/ c.step = "resetfront" /\ front' = [front EXCEPT ![c.deque] = 0]
             /\ UNCHANGED <<entries, back>>
  BY <1>7, EndMoves, Zenon DEF Deque!PopFrontEnd, Deque!At
<1>8. Deque!PopFrontNone(t) =>
        /\ c.step \in {"frontback", "fronttest"} /\ Ends(t)
        /\ UNCHANGED <<entries, front, back>>
  BY EndMoves, Zenon DEF Deque!PopFrontNone, Deque!At
<1>9. Deque!PopFrontLost(t) =>
        /\ c.step = "frontswap" /\ front[c.deque] # c.front /\ Ends(t)
        /\ UNCHANGED <<entries, front, back>>
  BY EndMoves, Zenon DEF Deque!PopFrontLost, Deque!At
<1> QED BY <1>2, <1>3, <1>4, <1>5, <1>6, <1>7, <1>8, <1>9, Zenon

LEMMA PopBackOps ==
  ASSUME TypeInv, NEW t \in Users
  PROVE  LET c == call[t]
         IN /\ \A i \in Workers : Deque!PopBackBegin(t, i) =>
                 /\ c.step = "none" /\ Deque!MayEnter(i)
                 /\ Moves(t, "backfront", i, 0, back[i], NoJob, FALSE)
                 /\ UNCHANGED <<entries, front, back>>
            /\ Deque!PopBackOn(t) =>
                 /\ \/ /\ c.step = "backfront" /\ front[c.deque] < c.back /\ c.back > 0
                       /\ Moves(t, "backentry", c.deque, front[c.deque], c.back, c.job, c.open)
                    \/ /\ c.step = "backentry"
                       /\ c.back - 1 \in Deque!Slots /\ entries[c.deque][c.back - 1] \in Jobs
                       /\ Moves(t, "backtest", c.deque, c.front, c.back,
                                entries[c.deque][c.back - 1], c.open)
                 /\ UNCHANGED <<entries, front, back>>
            /\ Deque!PopBackTest(t) =>
                 /\ c.step = "backtest"
                 /\ Moves(t, "backswap", c.deque, c.front, c.back, c.job, c.open)
                 /\ UNCHANGED <<entries, front, back>>
            /\ \A j : Deque!PopBackEnd(t, j) =>
                 /\ c.step = "backswap" /\ j = c.job /\ back[c.deque] = c.back /\ Ends(t)
                 /\ back' = [back EXCEPT ![c.deque] = @ - 1] /\ UNCHANGED <<entries, front>>
            /\ Deque!PopBackNone(t) =>
                 /\ c.step \in {"backfront", "backtest"} /\ Ends(t)
                 /\ UNCHANGED <<entries, front, back>>
            /\ Deque!PopBackLost(t) =>
                 /\ c.step = "backswap" /\ back[c.deque] # c.back /\ Ends(t)
                 /\ UNCHANGED <<entries, front, back>>
<1> DEFINE c == call[t]
<1>1. /\ "backfront" \in Deque!Steps /\ "backentry" \in Deque!Steps
      /\ "backtest" \in Deque!Steps /\ "backswap" \in Deque!Steps
  BY DEF Deque!Steps
<1>2. ASSUME NEW i \in Workers, Deque!PopBackBegin(t, i)
      PROVE  /\ c.step = "none" /\ Deque!MayEnter(i)
             /\ Moves(t, "backfront", i, 0, back[i], NoJob, FALSE)
             /\ UNCHANGED <<entries, front, back>>
  <2>1. Moves(t, "backfront", i, 0, back[i], NoJob, FALSE)
    BY <1>1, <1>2, BackType, BeginMoves, Zenon DEF Deque!PopBackBegin
  <2> QED BY <1>2, <2>1 DEF Deque!PopBackBegin, Deque!Begin, Deque!At
<1>3. ASSUME Deque!PopBackOn(t)
      PROVE  /\ \/ /\ c.step = "backfront" /\ front[c.deque] < c.back /\ c.back > 0
                   /\ Moves(t, "backentry", c.deque, front[c.deque], c.back, c.job, c.open)
                \/ /\ c.step = "backentry"
                   /\ c.back - 1 \in Deque!Slots /\ entries[c.deque][c.back - 1] \in Jobs
                   /\ Moves(t, "backtest", c.deque, c.front, c.back,
                            entries[c.deque][c.back - 1], c.open)
             /\ UNCHANGED <<entries, front, back>>
  <2>1. CASE c.step = "backfront"
    <3>1. front[c.deque] \in Nat
      BY BackType, CallType
    <3>2. /\ Deque!NonEmpty(front[c.deque], c.back)
          /\ Deque!Continue(t, [c EXCEPT !.step = "backentry", !.front = front[c.deque]])
          /\ UNCHANGED <<entries, front, back>>
      BY <1>3, <2>1 DEF Deque!PopBackOn, Deque!At
    <3>3. Moves(t, "backentry", c.deque, front[c.deque], c.back, c.job, c.open)
      BY <1>1, <3>1, <3>2, ContinueMoves, Zenon
    <3> QED BY <2>1, <3>2, <3>3 DEF Deque!NonEmpty
  <2>2. CASE c.step = "backentry"
    <3> DEFINE j == entries[c.deque][c.back - 1]
    <3>1. /\ Deque!Readable(t, c.back - 1)
          /\ Deque!Continue(t, [c EXCEPT !.step = "backtest", !.job = j])
          /\ UNCHANGED <<entries, front, back>>
      BY <1>3, <2>2 DEF Deque!PopBackOn, Deque!At, Deque!Slot
    <3>2. c.back - 1 \in Deque!Slots /\ j \in Jobs
      BY <3>1, CallType DEF Deque!Readable, Deque!Slot, TypeInv
    <3> HIDE DEF j
    <3>3. Moves(t, "backtest", c.deque, c.front, c.back, j, c.open)
      BY <1>1, <3>1, <3>2, ContinueMoves, Zenon
    <3> QED BY <2>2, <3>1, <3>2, <3>3, Zenon DEF j
  <2> QED BY <1>3, <2>1, <2>2 DEF Deque!PopBackOn, Deque!At
<1>4. ASSUME Deque!PopBackTest(t)
      PROVE  /\ c.step = "backtest"
             /\ Moves(t, "backswap", c.deque, c.front, c.back, c.job, c.open)
             /\ UNCHANGED <<entries, front, back>>
  BY <1>1, <1>4, ContinueMoves, Zenon DEF Deque!PopBackTest, Deque!At
<1>5. ASSUME NEW j, Deque!PopBackEnd(t, j)
      PROVE  /\ c.step = "backswap" /\ j = c.job /\ back[c.deque] = c.back /\ Ends(t)
             /\ back' = [back EXCEPT ![c.deque] = @ - 1] /\ UNCHANGED <<entries, front>>
  BY <1>5, EndMoves, Zenon DEF Deque!PopBackEnd, Deque!At
<1>6. Deque!PopBackNone(t) =>
        /\ c.step \in {"backfront", "backtest"} /\ Ends(t)
        /\ UNCHANGED <<entries, front, back>>
  BY EndMoves, Zenon DEF Deque!PopBackNone, Deque!At
<1>7. Deque!PopBackLost(t) =>
        /\ c.step = "backswap" /\ back[c.deque] # c.back /\ Ends(t)
        /\ UNCHANGED <<entries, front, back>>
  BY EndMoves, Zenon DEF Deque!PopBackLost, Deque!At
<1> QED BY <1>2, <1>3, <1>4, <1>5, <1>6, <1>7, Zenon

-----------------------------------------------------------------------------
(* The control and the jobs.                                               *)

LEMMA WorkerNextIsMove ==
  ASSUME TypeInv, NEW w \in Workers, WorkerNext(w)
  PROVE  WorkerMove(w) \/ NoMove
<1>0. w \in Users
  BY UsersFacts
<1>1. CASE ControlStep(w) \/ JobStep(w)
  BY <1>1 DEF ControlStep, JobStep, WorkerMove
<1>2. CASE ScanStep(w)
  BY <1>2 DEF ScanStep, Inside, WorkerMove, NoMove
<1>3. CASE SizeStep(w)
  <2>1. Deque!SizeSeen(w) \in Nat
    BY <1>0, SizeOps
  <2> QED BY <1>3, <2>1 DEF SizeStep, Inside, WorkerMove, NoMove
<1>4. CASE PopStep(w)
  BY <1>4 DEF PopStep, PopAnswer, Inside, WorkerMove, NoMove
<1>5. CASE PushBackStep(w)
  BY <1>5 DEF PushBackStep, Inside, WorkerMove, NoMove
<1>6. CASE StealStep(w)
  BY <1>6 DEF StealStep, Inside, WorkerMove, NoMove
<1> QED BY <1>1, <1>2, <1>3, <1>4, <1>5, <1>6 DEF WorkerNext

LEMMA MainNextIsMove ==
  ASSUME TypeInv, MainNext
  PROVE  MainMove \/ NoMove
<1>1. Deque!SizeSeen(Main) \in Nat
  BY UsersFacts, SizeOps
<1> QED BY <1>1 DEF MainNext, AddStep, PollStep, Inside, MainMove, NoMove

LEMMA StepIsMove ==
  ASSUME TypeInv, [Next]_vars
  PROVE  ControlMove
<1>1. CASE QuitNext
  BY <1>1 DEF QuitNext, Inside, QuitMove, NoMove, ControlMove
<1>2. CASE Quit \/ \E w \in Workers : SpuriousWakeup(w)
  BY <1>2 DEF QuitMove, WorkerMove, ControlMove
<1>3. CASE UNCHANGED vars
  BY <1>3 DEF vars, NoMove, ControlMove
<1> QED BY <1>1, <1>2, <1>3, WorkerNextIsMove, MainNextIsMove DEF Next, ControlMove

LEMMA StepIsJobMove ==
  ASSUME ~DeleteJobs, [Next]_vars
  PROVE  JobMove
<1>1. ASSUME NEW w \in Workers, WorkerNext(w)
      PROVE  JobMove
  <2>1. CASE ControlStep(w) \/ JobStep(w) \/ ScanStep(w) \/ SizeStep(w) \/ PushBackStep(w)
    BY <2>1 DEF ControlStep, JobStep, ScanStep, SizeStep, PushBackStep, Inside, JobMove
  <2>2. CASE PopStep(w)
    BY <2>2 DEF PopStep, ClaimInside, GiveUp, Inside, JobMove
  <2>3. CASE StealStep(w)
    BY <2>3 DEF StealStep, ClaimInside, GiveUp, Inside, JobMove
  <2> QED BY <1>1, <2>1, <2>2, <2>3 DEF WorkerNext
<1>2. CASE UNCHANGED graphVars
  BY <1>2 DEF JobMove
<1>3. CASE MainNext
  BY <1>3 DEF MainNext, AddStep, PollStep, Inside, JobMove
<1> QED BY <1>1, <1>2, <1>3 DEF Next, QuitNext, Inside, vars

-----------------------------------------------------------------------------
(* The types.                                                              *)

\* A step of an operation of t.
Op(t) ==
  \/ \E i \in Workers :
       \/ Deque!ScanBegin(t, i) \/ Deque!SizeBegin(t, i) \/ Deque!ClearBegin(t, i)
       \/ Deque!PopBackBegin(t, i)
       \/ \E j \in Jobs : Deque!PushBackBegin(t, i, j)
       \/ \E o \in BOOLEAN : Deque!PopFrontBegin(t, i, o)
  \/ Deque!ScanOn(t) \/ (\E found : Deque!ScanEnd(t, found))
  \/ Deque!SizeEnd(t) \/ Deque!ClearEnd(t) \/ Deque!PushBackEnd(t)
  \/ Deque!PopFrontOn(t) \/ Deque!PopFrontTest(t) \/ Deque!PopFrontSwap(t)
  \/ Deque!PopFrontReset(t) \/ (\E j : Deque!PopFrontEnd(t, j))
  \/ Deque!PopFrontNone(t) \/ Deque!PopFrontLost(t)
  \/ Deque!PopBackOn(t) \/ Deque!PopBackTest(t) \/ (\E j : Deque!PopBackEnd(t, j))
  \/ Deque!PopBackNone(t) \/ Deque!PopBackLost(t)

\* Where a worker or main_runner calls an operation, the deque and the job exist.
LEMMA ArgumentTypes ==
  ASSUME ThreadsInv
  PROVE  /\ \A w \in Workers : target[w] \in Workers /\ allowOpen[w] \in BOOLEAN
         /\ \A w \in Workers : pc[w] = "pushback" => popped[w] \in Jobs
         /\ mainPc = "add" => frame.add[index + 1] \in Jobs
         /\ mainPc = "poll" => index \in Workers
         /\ current \in Workers /\ quitIndex \in Workers
<1>1. ASSUME mainPc = "add"
      PROVE  frame.add[index + 1] \in Jobs
  <2>1. index \in Nat /\ index < Len(frame.add) /\ frame.add \in Seq(Jobs)
    BY <1>1, FrameFacts DEF ThreadsInv, MainInv
  <2> QED BY <2>1
<1>2. mainPc = "poll" => index \in Workers
  BY NumWorkersAssumption DEF ThreadsInv, MainInv, Workers
<1> QED BY <1>1, <1>2 DEF ThreadsInv, WorkerInv, MainInv, QuitInv

LEMMA WorkerNextIsOp ==
  ASSUME ThreadsInv, NEW w \in Workers, WorkerNext(w)
  PROVE  Op(w) \/ UNCHANGED dequeVars
<1>1. CASE ControlStep(w) \/ JobStep(w)
  BY <1>1 DEF ControlStep, JobStep
<1>2. CASE ScanStep(w) \/ SizeStep(w)
  BY <1>2, ArgumentTypes DEF ScanStep, SizeStep, Inside, Op
<1>3. CASE PopStep(w)
  <2>1. FALSE \in BOOLEAN /\ allowOpen[w] \in BOOLEAN
    BY ArgumentTypes
  <2> QED BY <1>3, <2>1, Zenon DEF PopStep, Inside, Op
<1>4. CASE PushBackStep(w)
  BY <1>4, ArgumentTypes DEF PushBackStep, Inside, Op
<1>5. CASE StealStep(w)
  BY <1>5 DEF StealStep, Inside, Op
<1> QED BY <1>1, <1>2, <1>3, <1>4, <1>5 DEF WorkerNext

LEMMA StepIsOp ==
  ASSUME ThreadsInv, [Next]_vars
  PROVE  /\ MainNext => Op(Main) \/ UNCHANGED dequeVars
         /\ QuitNext => Op(Quitter) \/ UNCHANGED dequeVars
         /\ (\E t \in Users : Op(t)) \/ UNCHANGED dequeVars
<1>1. MainNext => Op(Main) \/ UNCHANGED dequeVars
  BY UsersFacts, ArgumentTypes DEF MainNext, AddStep, PollStep, Inside, Op
<1>2. QuitNext => Op(Quitter) \/ UNCHANGED dequeVars
  BY UsersFacts, ArgumentTypes DEF QuitNext, Inside, Op
<1> QED BY <1>1, <1>2, WorkerNextIsOp, UsersFacts DEF Next, vars

\* The other threads keep their locals.
LEMMA OpMoves ==
  ASSUME TypeInv, NEW t \in Users, Op(t)
  PROVE  /\ call' \in [Users -> Call]
         /\ \A u \in Users \ {t} : call'[u] = call[u]
<1>1. CASE \E i \in Workers :
             \/ Deque!ScanBegin(t, i) \/ Deque!SizeBegin(t, i) \/ Deque!ClearBegin(t, i)
             \/ Deque!PopBackBegin(t, i)
             \/ \E j \in Jobs : Deque!PushBackBegin(t, i, j)
             \/ \E o \in BOOLEAN : Deque!PopFrontBegin(t, i, o)
  <2>1. PICK i \in Workers :
           \/ Deque!ScanBegin(t, i) \/ Deque!SizeBegin(t, i) \/ Deque!ClearBegin(t, i)
           \/ Deque!PopBackBegin(t, i)
           \/ \E j \in Jobs : Deque!PushBackBegin(t, i, j)
           \/ \E o \in BOOLEAN : Deque!PopFrontBegin(t, i, o)
    BY <1>1
  <2>2. CASE Deque!ScanBegin(t, i)
    BY <2>2, ScanOps, Zenon DEF Moves
  <2>3. CASE Deque!SizeBegin(t, i)
    BY <2>3, SizeOps, Zenon DEF Moves
  <2>4. CASE Deque!ClearBegin(t, i)
    BY <2>4, ClearOps, Zenon DEF Moves
  <2>5. CASE Deque!PopBackBegin(t, i)
    BY <2>5, PopBackOps, Zenon DEF Moves
  <2>6. CASE \E j \in Jobs : Deque!PushBackBegin(t, i, j)
    BY <2>6, PushBackOps, Zenon DEF Moves
  <2>7. CASE \E o \in BOOLEAN : Deque!PopFrontBegin(t, i, o)
    BY <2>7, PopFrontOps, Zenon DEF Moves
  <2> QED BY <2>1, <2>2, <2>3, <2>4, <2>5, <2>6, <2>7, Zenon
<1>2. CASE \/ Deque!ScanOn(t) \/ (\E found : Deque!ScanEnd(t, found))
           \/ Deque!SizeEnd(t) \/ Deque!ClearEnd(t) \/ Deque!PushBackEnd(t)
  BY <1>2, ScanOps, SizeOps, ClearOps, PushBackOps, Zenon DEF Moves, Ends
<1>3. CASE \/ Deque!PopFrontOn(t) \/ Deque!PopFrontTest(t) \/ Deque!PopFrontSwap(t)
           \/ Deque!PopFrontReset(t) \/ (\E j : Deque!PopFrontEnd(t, j))
           \/ Deque!PopFrontNone(t) \/ Deque!PopFrontLost(t)
  BY <1>3, PopFrontOps, Zenon DEF Moves, Ends
<1>4. CASE \/ Deque!PopBackOn(t) \/ Deque!PopBackTest(t) \/ (\E j : Deque!PopBackEnd(t, j))
           \/ Deque!PopBackNone(t) \/ Deque!PopBackLost(t)
  BY <1>4, PopBackOps, Zenon DEF Moves, Ends
<1> QED BY <1>1, <1>2, <1>3, <1>4, Zenon DEF Op

\* What an operation of t writes.
LEMMA OpWrites ==
  ASSUME TypeInv, NEW t \in Users, Op(t)
  PROVE  LET i == call[t].deque
         IN /\ \/ entries' = entries
               \/ /\ call[t].step = "store" /\ call[t].back \in Deque!Slots
                  /\ entries' = [entries EXCEPT ![i][call[t].back] = call[t].job]
            /\ \/ front' = front
               \/ call[t].step = "frontswap" /\ front' = [front EXCEPT ![i] = @ + 1]
               \/ call[t].step \in {"resetfront", "clear"} /\ front' = [front EXCEPT ![i] = 0]
            /\ \/ back' = back
               \/ \E k \in Workers : back' = [back EXCEPT ![k] = 0]
               \/ \E k \in Workers : back' = [back EXCEPT ![k] = @ + 1]
               \/ /\ call[t].step = "backswap" /\ back[i] = call[t].back
                  /\ back' = [back EXCEPT ![i] = @ - 1]
<1>0. call[t].deque \in Workers
  BY CallType
<1>1. CASE \E i \in Workers :
             \/ Deque!ScanBegin(t, i) \/ Deque!SizeBegin(t, i) \/ Deque!ClearBegin(t, i)
             \/ Deque!PopBackBegin(t, i)
             \/ \E j \in Jobs : Deque!PushBackBegin(t, i, j)
             \/ \E o \in BOOLEAN : Deque!PopFrontBegin(t, i, o)
  <2>1. PICK i \in Workers :
           \/ Deque!ScanBegin(t, i) \/ Deque!SizeBegin(t, i) \/ Deque!ClearBegin(t, i)
           \/ Deque!PopBackBegin(t, i)
           \/ \E j \in Jobs : Deque!PushBackBegin(t, i, j)
           \/ \E o \in BOOLEAN : Deque!PopFrontBegin(t, i, o)
    BY <1>1
  <2>2. CASE Deque!ScanBegin(t, i)
    BY <2>2, ScanOps, Zenon
  <2>3. CASE Deque!SizeBegin(t, i)
    BY <2>3, SizeOps, Zenon
  <2>4. CASE Deque!ClearBegin(t, i)
    BY <2>4, ClearOps, Zenon
  <2>5. CASE Deque!PopBackBegin(t, i)
    BY <2>5, PopBackOps, Zenon
  <2>6. CASE \E j \in Jobs : Deque!PushBackBegin(t, i, j)
    <3>1. PICK j \in Jobs : Deque!PushBackBegin(t, i, j)
      BY <2>6
    <3>2. UNCHANGED <<entries, front>> /\ back' = [back EXCEPT ![i] = @ + 1]
      BY <3>1, PushBackOps, Zenon
    <3> QED BY <3>2, Zenon
  <2>7. CASE \E o \in BOOLEAN : Deque!PopFrontBegin(t, i, o)
    <3>1. PICK o \in BOOLEAN : Deque!PopFrontBegin(t, i, o)
      BY <2>7
    <3>2. UNCHANGED <<entries, front, back>>
      BY <3>1, PopFrontOps, Zenon
    <3> QED BY <3>2
  <2> QED BY <2>1, <2>2, <2>3, <2>4, <2>5, <2>6, <2>7, Zenon
<1>2. CASE \/ Deque!ScanOn(t) \/ (\E found : Deque!ScanEnd(t, found))
           \/ Deque!SizeEnd(t) \/ Deque!ClearEnd(t) \/ Deque!PushBackEnd(t)
  BY <1>2, ScanOps, SizeOps, ClearOps, PushBackOps, Zenon
<1>3. CASE \/ Deque!PopFrontOn(t) \/ Deque!PopFrontTest(t) \/ Deque!PopFrontSwap(t)
           \/ Deque!PopFrontReset(t) \/ (\E j : Deque!PopFrontEnd(t, j))
           \/ Deque!PopFrontNone(t) \/ Deque!PopFrontLost(t)
  BY <1>0, <1>3, PopFrontOps, Zenon
<1>4. CASE \/ Deque!PopBackOn(t) \/ Deque!PopBackTest(t) \/ (\E j : Deque!PopBackEnd(t, j))
           \/ Deque!PopBackNone(t) \/ Deque!PopBackLost(t)
  BY <1>4, PopBackOps, Zenon
<1> QED BY <1>1, <1>2, <1>3, <1>4, Zenon DEF Op

\* A job that is stored is one, and mBack is not taken below 0.
LEMMA StoredIsJob ==
  ASSUME ThreadsInv, TypeInv, CallsInv, BackPositive, NEW t \in Users
  PROVE  /\ call[t].step = "store" => call[t].job \in Jobs
         /\ call[t].step = "backswap" => call[t].back > 0
<1>1. CASE t \in Workers
  BY <1>1, ArgumentTypes DEF CallsInv, WorkerCall, BackPositive
<1>2. CASE t = Main
  BY <1>2, ArgumentTypes DEF CallsInv, MainCall
<1>3. CASE t = Quitter
  BY <1>3 DEF CallsInv, QuitCall
<1> QED BY <1>1, <1>2, <1>3, UsersFacts

LEMMA StepKeepsTypes ==
  ASSUME ThreadsInv, TypeInv, CallsInv, BackPositive, [Next]_vars
  PROVE  TypeInv'
<1>1. CASE UNCHANGED dequeVars
  BY <1>1 DEF dequeVars, TypeInv
<1>2. ASSUME NEW t \in Users, Op(t)
      PROVE  TypeInv'
  <2>1. call' \in [Users -> Call]
    BY <1>2, OpMoves
  <2>2. entries' \in [Workers -> [Deque!Slots -> Jobs \cup {Unwritten}]]
    <3>1. entries' = entries
          \/ /\ call[t].step = "store" /\ call[t].back \in Deque!Slots
             /\ entries' = [entries EXCEPT ![call[t].deque][call[t].back] = call[t].job]
      BY <1>2, OpWrites, Zenon
    <3>2. call[t].deque \in Workers /\ (call[t].step = "store" => call[t].job \in Jobs)
      BY CallType, StoredIsJob
    <3>3. ASSUME NEW i \in Workers, NEW k \in Deque!Slots, NEW j \in Jobs,
                 entries' = [entries EXCEPT ![i][k] = j]
          PROVE  entries' \in [Workers -> [Deque!Slots -> Jobs \cup {Unwritten}]]
      BY <3>3 DEF TypeInv
    <3> QED BY <3>1, <3>2, <3>3 DEF TypeInv
  <2>3. front' \in [Workers -> Nat]
    <3>1. CASE \E k \in Workers : front' = [front EXCEPT ![k] = @ + 1]
      BY <3>1 DEF TypeInv
    <3>2. CASE \E k \in Workers : front' = [front EXCEPT ![k] = 0]
      BY <3>2 DEF TypeInv
    <3>3. CASE front' = front
      BY <3>3 DEF TypeInv
    <3> QED BY <1>2, <3>1, <3>2, <3>3, OpWrites, CallType, Zenon
  <2>4. back' \in [Workers -> Nat]
    <3>1. CASE call[t].step = "backswap" /\ back[call[t].deque] = call[t].back
               /\ back' = [back EXCEPT ![call[t].deque] = @ - 1]
      <4>1. call[t].back > 0 /\ call[t].deque \in Workers
        BY <3>1, CallType, StoredIsJob
      <4> QED BY <3>1, <4>1 DEF TypeInv
    <3>2. CASE \/ back' = back
               \/ \E k \in Workers : back' = [back EXCEPT ![k] = 0]
               \/ \E k \in Workers : back' = [back EXCEPT ![k] = @ + 1]
      BY <3>2 DEF TypeInv
    <3> QED BY <1>2, <3>1, <3>2, OpWrites, Zenon
  <2> QED BY <2>1, <2>2, <2>3, <2>4 DEF TypeInv
<1> QED BY <1>1, <1>2, StepIsOp

-----------------------------------------------------------------------------
(* Where the threads are inside the operations.                            *)

\* What a step of another thread may do to a worker: wake it up.
Quiet(v) ==
  /\ pc'[v] = pc[v] \/ (pc[v] = "asleep" /\ pc'[v] = "wait")
  /\ popped'[v] = popped[v]

LEMMA WorkerMoveQuiet ==
  ASSUME ThreadsInv, NEW w \in Workers, WorkerMove(w), NEW v \in Workers \ {w}
  PROVE  Quiet(v)
<1> USE DEF ThreadsInv, WorkerInv, Goto, Quiet
<1>1. CASE WakeNotify(w)
  BY <1>1 DEF WakeNotify, Awakened
<1>2. CASE \/ Loop(w) \/ LockAwake(w) \/ Sleep(w) \/ SpuriousWakeup(w)
           \/ Announce(w) \/ Retire(w) \/ NothingToSteal(w) \/ PutBack(w)
           \/ Recheck(w) \/ Execute(w) \/ Executed(w)
  BY <1>2 DEF Loop, LockAwake, Sleep, SpuriousWakeup, Announce, Retire, NothingToSteal,
       PutBack, Recheck, Execute, Executed, workerVars
<1>3. CASE \E found \in BOOLEAN : Check(w, found) \/ WakeUp(w, found) \/ TestCondition(w, found)
  BY <1>3 DEF Check, WakeUp, TestCondition
<1>4. CASE \E n \in Nat : ReadSize(w, n) \/ ReadSizeAgain(w, n)
  BY <1>4 DEF ReadSize, ReadSizeAgain
<1>5. CASE \E j \in Jobs \cup {NoJob} : PopOwn(w, j) \/ PopOwnAgain(w, j) \/ Steal(w, j)
  BY <1>5 DEF PopOwn, PopOwnAgain, Steal
<1> QED BY <1>1, <1>2, <1>3, <1>4, <1>5 DEF WorkerMove

LEMMA OtherMoveQuiet ==
  ASSUME ThreadsInv, MainMove \/ QuitMove \/ NoMove, NEW v \in Workers
  PROVE  Quiet(v)
<1> USE DEF ThreadsInv, WorkerInv, Quiet
<1>1. CASE NotifyWorker \/ NotifyStop
  BY <1>1 DEF NotifyWorker, NotifyStop, Awakened
<1>2. CASE UNCHANGED <<pc, popped>>
  BY <1>2
<1> QED BY <1>1, <1>2 DEF MainMove, QuitMove, NoMove, Attach, NextFrame, Create, Pushed,
           PollRunning, DeleteJobs, PollSize, Quit, Halt, Silence, Cleared, Join, workerVars

\* The workers that have their JobSystem keep it; a worker that was stopped stays so.
LEMMA MoveOnly ==
  ASSUME ThreadsInv, ControlMove
  PROVE  /\ attached \subseteq attached'
         /\ \A w \in Workers : running'[w] => running[w]
<1>1. CASE UNCHANGED <<mainVars, quitVars>>
  BY <1>1 DEF mainVars, quitVars
<1>2. CASE MainMove
  BY <1>2 DEF MainMove, Attach, NextFrame, Create, Pushed, NotifyWorker, PollRunning,
       DeleteJobs, PollSize, quitVars
<1>3. CASE QuitMove
  BY <1>3 DEF QuitMove, Quit, Halt, Silence, Cleared, NotifyStop, Join, mainVars,
       ThreadsInv, QuitInv
<1> QED BY <1>1, <1>2, <1>3, WorkerMoveFrame DEF ControlMove, NoMove

\* A worker that is at none of its calls is in no operation.
LEMMA NotCalling ==
  ASSUME TypeInv, CallsInv, NEW w \in Workers,
         pc[w] \notin {"check", "testing", "wake", "size", "resize", "pushback",
                       "popfront", "repop"},
         pc[w] = "steal" => ~MaySteal(w)
  PROVE  call[w].step = "none"
<1>1. call[w].step \in Deque!Steps
  BY UsersFacts, CallType
<1>2. WorkerCall(w)
  BY DEF CallsInv
<1> QED BY <1>1, <1>2 DEF WorkerCall, Deque!Steps, ScanSteps, FrontSteps, ReadFrontSteps,
           TakenSteps, BackSteps

LEMMA NoCallFits ==
  ASSUME NEW w, call'[w].step = "none"
  PROVE  WorkerCall(w)'
BY DEF WorkerCall, ScanSteps, FrontSteps, ReadFrontSteps, TakenSteps, BackSteps

LEMMA QuietKeepsCall ==
  ASSUME TypeInv, CallsInv, NEW w \in Workers, Quiet(w), call'[w] = call[w],
         attached \subseteq attached'
  PROVE  WorkerCall(w)'
<1>1. CASE pc'[w] = pc[w]
  BY <1>1 DEF CallsInv, WorkerCall, Quiet, MaySteal
<1>2. CASE pc[w] = "asleep"
  BY <1>2, NotCalling, NoCallFits
<1> QED BY <1>1, <1>2 DEF Quiet

LEMMA MoveTells ==
  ASSUME NEW t, NEW s, NEW i, NEW f, NEW b, NEW j, NEW o, Moves(t, s, i, f, b, j, o)
  PROVE  /\ call'[t].step = s /\ call'[t].deque = i /\ call'[t].front = f
         /\ call'[t].back = b /\ call'[t].job = j /\ call'[t].open = o
BY DEF Moves, Locals

LEMMA EndTells ==
  ASSUME NEW t, Ends(t)
  PROVE  call'[t].step = "none" /\ call'[t].job = NoJob
BY MoveTells DEF Ends

LEMMA WorkerKeepsOwnCall ==
  ASSUME ThreadsInv, TypeInv, CallsInv, NEW w \in Workers, WorkerNext(w)
  PROVE  WorkerCall(w)'
<1> USE DEF WorkerCall, ScanSteps, FrontSteps, ReadFrontSteps, TakenSteps, BackSteps
<1>0. w \in Users /\ WorkerCall(w) /\ target[w] \in Workers /\ allowOpen[w] \in BOOLEAN
      /\ FALSE \in BOOLEAN
  BY UsersFacts, ArgumentTypes DEF CallsInv
<1>1. CASE Ends(w)
  BY <1>1, EndTells, NoCallFits
<1>2. CASE ControlStep(w) \/ JobStep(w)
  <2>1. call[w].step = "none"
    BY <1>2, NotCalling DEF ControlStep, JobStep, Loop, LockAwake, Sleep, WakeNotify,
         Announce, NothingToSteal, Retire, Recheck, Execute, Executed
  <2> QED BY <1>2, <2>1, NoCallFits DEF ControlStep, JobStep, dequeVars
<1>3. CASE ScanStep(w)
  <2>1. CASE (\E i \in Workers : Deque!ScanBegin(w, i))
             /\ pc[w] \in {"check", "testing", "wake"} /\ UNCHANGED pc
    <3>1. call'[w].step = "scanfront"
      BY <1>0, <2>1, ScanOps, Zenon DEF Moves, Locals
    <3> QED BY <2>1, <3>1
  <2>2. CASE Inside(Deque!ScanOn(w))
    <3>1. call[w].step \in ScanSteps /\ call'[w].step = "scan"
      BY <1>0, <2>2, ScanOps, Zenon DEF Inside, Moves, Locals
    <3> QED BY <1>0, <2>2, <3>1 DEF Inside, workerVars
  <2>3. CASE \E found : Deque!ScanEnd(w, found)
    BY <1>0, <1>1, <2>3, ScanOps, Zenon
  <2> QED BY <1>0, <1>3, <2>1, <2>2, <2>3 DEF ScanStep, Inside, workerVars
<1>4. CASE SizeStep(w)
  <2>1. CASE Deque!SizeBegin(w, w) /\ pc[w] \in {"size", "resize"} /\ UNCHANGED pc
    <3>1. call'[w].step = "size"
      BY <1>0, <2>1, SizeOps, Zenon DEF Moves, Locals
    <3> QED BY <2>1, <3>1
  <2>2. CASE Deque!SizeEnd(w)
    BY <1>0, <1>1, <2>2, SizeOps, Zenon
  <2> QED BY <1>0, <1>4, <2>1, <2>2 DEF SizeStep, Inside, workerVars
<1>5. CASE PushBackStep(w)
  <2>1. CASE pc[w] = "pushback" /\ Inside(Deque!PushBackBegin(w, w, popped[w]))
    <3>1. popped[w] \in Jobs
      BY <2>1, ArgumentTypes
    <3>2. call'[w].step = "store" /\ call'[w].job = popped[w]
      BY <1>0, <2>1, <3>1, PushBackOps, Zenon DEF Inside, Moves, Locals
    <3> QED BY <2>1, <3>2 DEF Inside, workerVars
  <2>2. CASE Deque!PushBackEnd(w)
    BY <1>0, <1>1, <2>2, PushBackOps, Zenon
  <2> QED BY <1>5, <2>1, <2>2 DEF PushBackStep
<1>6. CASE PopStep(w)
  <2>1. CASE pc[w] = "popfront" /\ Inside(Deque!PopFrontBegin(w, w, allowOpen[w]))
    <3>1. call'[w].step = "frontback" /\ call'[w].deque = w
      BY <1>0, <2>1, PopFrontOps, Zenon DEF Inside, Moves, Locals
    <3> QED BY <2>1, <3>1 DEF Inside, workerVars
  <2>2. CASE pc[w] = "repop" /\ Inside(Deque!PopFrontBegin(w, w, FALSE))
    <3>1. call'[w].step = "frontback" /\ call'[w].deque = w /\ call'[w].open = FALSE
      BY <1>0, <2>2, PopFrontOps, Zenon DEF Inside, Moves, Locals
    <3> QED BY <2>2, <3>1 DEF Inside, workerVars
  <2>3. CASE (Deque!PopFrontOn(w) \/ Deque!PopFrontSwap(w) \/ Deque!PopFrontReset(w)
                \/ Deque!PopFrontTest(w)) /\ UNCHANGED workerVars
    <3>1. /\ call[w].step \in FrontSteps
          /\ call'[w].deque = call[w].deque /\ call'[w].open = call[w].open
          /\ call'[w].step \in FrontSteps
      <4>1. CASE Deque!PopFrontOn(w)
        <5>1. /\ call[w].step \in {"frontback", "frontentry"}
              /\ call'[w].deque = call[w].deque /\ call'[w].open = call[w].open
              /\ \/ call'[w].step = "frontentry"
                 \/ call'[w].step = (IF call[w].open THEN "frontswap" ELSE "fronttest")
          BY <1>0, <4>1, PopFrontOps, Zenon DEF Moves, Locals
        <5> QED BY <5>1
      <4>2. CASE Deque!PopFrontTest(w)
        BY <1>0, <4>2, PopFrontOps, Zenon DEF Moves, Locals
      <4>3. CASE Deque!PopFrontSwap(w)
        BY <1>0, <4>3, PopFrontOps, Zenon DEF Moves, Locals
      <4>4. CASE Deque!PopFrontReset(w)
        BY <1>0, <4>4, PopFrontOps, Zenon DEF Moves, Locals
      <4> QED BY <2>3, <4>1, <4>2, <4>3, <4>4
    <3> QED BY <1>0, <2>3, <3>1 DEF workerVars
  <2>4. CASE (\E j : Deque!PopFrontEnd(w, j)) \/ Deque!PopFrontNone(w) \/ Deque!PopFrontLost(w)
    BY <1>0, <1>1, <2>4, PopFrontOps, Zenon
  <2> QED BY <1>6, <2>1, <2>2, <2>3, <2>4 DEF PopStep, Inside
<1>7. CASE StealStep(w)
  <2>1. CASE /\ pc[w] = "steal" /\ MaySteal(w) /\ UNCHANGED <<workerVars, mainVars>>
             /\ \E i \in Workers : Deque!PopBackBegin(w, i)
    <3>1. call'[w].step = "backfront"
      BY <1>0, <2>1, PopBackOps, Zenon DEF Moves, Locals
    <3> QED BY <2>1, <3>1 DEF workerVars, mainVars, MaySteal
  <2>2. CASE (Deque!PopBackOn(w) \/ Deque!PopBackTest(w)) /\ UNCHANGED <<workerVars, mainVars>>
    <3>1. call[w].step \in BackSteps /\ call'[w].step \in BackSteps
      <4>1. CASE Deque!PopBackOn(w)
        BY <1>0, <4>1, PopBackOps, Zenon DEF Moves, Locals
      <4>2. CASE Deque!PopBackTest(w)
        BY <1>0, <4>2, PopBackOps, Zenon DEF Moves, Locals
      <4> QED BY <2>2, <4>1, <4>2
    <3> QED BY <1>0, <2>2, <3>1 DEF workerVars, mainVars, MaySteal
  <2>3. CASE (\E j : Deque!PopBackEnd(w, j)) \/ Deque!PopBackNone(w) \/ Deque!PopBackLost(w)
    BY <1>0, <1>1, <2>3, PopBackOps, Zenon
  <2> QED BY <1>7, <2>1, <2>2, <2>3 DEF StealStep, Inside
<1> QED BY <1>2, <1>3, <1>4, <1>5, <1>6, <1>7 DEF WorkerNext

LEMMA MainKeepsCall ==
  ASSUME ThreadsInv, TypeInv, CallsInv, MainNext
  PROVE  MainCall'
<1>0. Main \in Users /\ MainCall /\ current \in Workers
  BY UsersFacts, ArgumentTypes DEF CallsInv
<1>1. CASE Ends(Main)
  BY <1>1, EndTells DEF MainCall
<1>2. CASE AddStep
  <2>1. CASE mainPc = "add" /\ Inside(Deque!PushBackBegin(Main, current, frame.add[index + 1]))
    <3>1. frame.add[index + 1] \in Jobs
      BY <2>1, ArgumentTypes
    <3>2. call'[Main].step = "store" /\ call'[Main].job = frame.add[index + 1]
      BY <1>0, <2>1, <3>1, PushBackOps, Zenon DEF Inside, Moves, Locals
    <3> QED BY <2>1, <3>2 DEF Inside, mainVars, MainCall
  <2>2. CASE Deque!PushBackEnd(Main)
    BY <1>0, <1>1, <2>2, PushBackOps, Zenon
  <2> QED BY <1>2, <2>1, <2>2 DEF AddStep
<1>3. CASE PollStep
  <2>1. CASE mainPc = "poll" /\ Inside(Deque!SizeBegin(Main, index))
    <3>1. index \in Workers
      BY <2>1, ArgumentTypes
    <3>2. call'[Main].step = "size"
      BY <1>0, <2>1, <3>1, SizeOps, Zenon DEF Inside, Moves, Locals
    <3> QED BY <2>1, <3>2 DEF Inside, mainVars, MainCall
  <2>2. CASE Deque!SizeEnd(Main)
    BY <1>0, <1>1, <2>2, SizeOps, Zenon
  <2> QED BY <1>3, <2>1, <2>2 DEF PollStep
<1>4. CASE (Create \/ DeleteJobs \/ Attach \/ NextFrame \/ NotifyWorker \/ PollRunning)
           /\ UNCHANGED dequeVars
  BY <1>0, <1>4 DEF Create, DeleteJobs, Attach, NextFrame, NotifyWorker, PollRunning,
       dequeVars, MainCall
<1> QED BY <1>2, <1>3, <1>4 DEF MainNext

LEMMA QuitKeepsCall ==
  ASSUME ThreadsInv, TypeInv, CallsInv,
         QuitNext \/ (Quit /\ UNCHANGED <<graphVars, dequeVars>>)
  PROVE  QuitCall'
<1>0. Quitter \in Users /\ QuitCall /\ quitIndex \in Workers
  BY UsersFacts, ArgumentTypes DEF CallsInv
<1>1. CASE quitPc = "clear" /\ Inside(Deque!ClearBegin(Quitter, quitIndex))
  <2>1. call'[Quitter].step = "clear" /\ call'[Quitter].deque = quitIndex
    BY <1>0, <1>1, ClearOps, Zenon DEF Inside, Moves, Locals
  <2> QED BY <1>1, <2>1 DEF Inside, quitVars, QuitCall
<1>2. CASE Deque!ClearEnd(Quitter)
  <2>1. Ends(Quitter)
    BY <1>0, <1>2, ClearOps, Zenon
  <2> QED BY <2>1, EndTells DEF QuitCall
<1>3. CASE (Quit \/ Halt \/ Silence \/ NotifyStop \/ Join) /\ UNCHANGED dequeVars
  BY <1>0, <1>3 DEF Quit, Halt, Silence, NotifyStop, Join, dequeVars, QuitCall
<1> QED BY <1>1, <1>2, <1>3 DEF QuitNext

LEMMA StepKeepsCalls ==
  ASSUME ThreadsInv, TypeInv, CallsInv, [Next]_vars
  PROVE  CallsInv'
<1>0. ControlMove /\ attached \subseteq attached'
  BY StepIsMove, MoveOnly
<1>1. ASSUME NEW w \in Workers, WorkerNext(w)
      PROVE  CallsInv'
  <2>1. WorkerMove(w) \/ NoMove
    BY <1>1, WorkerNextIsMove
  <2>2. UNCHANGED <<mainVars, quitVars>>
    BY <2>1, WorkerMoveFrame DEF NoMove
  <2>3. \A u \in Users \ {w} : call'[u] = call[u]
    BY <1>1, WorkerNextIsOp, OpMoves, UsersFacts DEF dequeVars
  <2>4. \A v \in Workers \ {w} : WorkerCall(v)'
    BY <1>0, <2>1, <2>3, UsersFacts, WorkerMoveQuiet, OtherMoveQuiet, QuietKeepsCall, Zenon
  <2>5. WorkerCall(w)'
    BY <1>1, WorkerKeepsOwnCall
  <2>6. MainCall' /\ QuitCall'
    BY <2>2, <2>3, UsersFacts DEF CallsInv, MainCall, QuitCall, mainVars, quitVars
  <2> QED BY <2>4, <2>5, <2>6 DEF CallsInv
<1>2. ASSUME MainMove \/ QuitMove \/ NoMove, \A w \in Workers : call'[w] = call[w],
             MainCall', QuitCall'
      PROVE  CallsInv'
  BY <1>0, <1>2, OtherMoveQuiet, QuietKeepsCall, Zenon DEF CallsInv
<1>3. CASE MainNext
  <2>1. \A u \in Users \ {Main} : call'[u] = call[u]
    BY <1>3, StepIsOp, OpMoves, UsersFacts DEF dequeVars
  <2>2. MainMove \/ NoMove
    BY <1>3, MainNextIsMove
  <2>3. UNCHANGED quitVars
    BY <2>2 DEF MainMove, Attach, NextFrame, Create, Pushed, NotifyWorker, PollRunning,
         DeleteJobs, PollSize, NoMove
  <2>4. QuitCall'
    BY <2>1, <2>3, UsersFacts DEF CallsInv, QuitCall, quitVars
  <2> QED BY <1>2, <1>3, <2>1, <2>2, <2>4, UsersFacts, MainKeepsCall
<1>4. CASE QuitNext \/ (Quit /\ UNCHANGED <<graphVars, dequeVars>>)
  <2>1. \A u \in Users \ {Quitter} : call'[u] = call[u]
    BY <1>4, StepIsOp, OpMoves, UsersFacts DEF dequeVars
  <2>2. (QuitMove \/ NoMove) /\ UNCHANGED mainVars
    BY <1>4 DEF QuitNext, Inside, QuitMove, NoMove, Quit, Halt, Silence, Cleared,
         NotifyStop, Join
  <2>3. MainCall'
    BY <2>1, <2>2, UsersFacts DEF CallsInv, MainCall, mainVars
  <2>4. QuitCall'
    BY <1>4, QuitKeepsCall, Zenon
  <2> QED BY <1>2, <2>1, <2>2, <2>3, <2>4, UsersFacts
<1>5. CASE \E w \in Workers : SpuriousWakeup(w) /\ UNCHANGED <<graphVars, dequeVars>>
  <2>1. PICK w \in Workers : SpuriousWakeup(w) /\ UNCHANGED <<graphVars, dequeVars>>
    BY <1>5
  <2>2. \A v \in Workers : Quiet(v)
    BY <2>1 DEF SpuriousWakeup, Goto, Quiet, ThreadsInv, WorkerInv
  <2>3. \A v \in Workers : WorkerCall(v)'
    BY <1>0, <2>1, <2>2, QuietKeepsCall DEF dequeVars
  <2> QED BY <2>1, <2>3
      DEF SpuriousWakeup, dequeVars, mainVars, quitVars, CallsInv, MainCall, QuitCall
<1>6. CASE UNCHANGED vars
  BY <1>6 DEF vars, dequeVars, workerVars, mainVars, quitVars, CallsInv, WorkerCall,
       MainCall, QuitCall, MaySteal
<1> QED BY <1>1, <1>3, <1>4, <1>5, <1>6 DEF Next

-----------------------------------------------------------------------------
(* What the operations remember of the boundaries.                         *)

LEMMA OpRemembers ==
  ASSUME TypeInv, NEW t \in Users, Op(t)
  PROVE  /\ call'[t].step \in {"backentry", "backtest", "backswap"} =>
              /\ call'[t].back = call[t].back
              /\ call[t].back > 0 \/ call[t].step \in {"backentry", "backtest", "backswap"}
         /\ call'[t].step \in ReadFrontSteps =>
              /\ front' = front
              /\ \/ call'[t].front = front[call'[t].deque]
                 \/ /\ call[t].step \in ReadFrontSteps
                    /\ call'[t].front = call[t].front /\ call'[t].deque = call[t].deque
<1> DEFINE Begins == \E i \in Workers :
             \/ Deque!ScanBegin(t, i) \/ Deque!SizeBegin(t, i) \/ Deque!ClearBegin(t, i)
             \/ Deque!PopBackBegin(t, i)
             \/ \E j \in Jobs : Deque!PushBackBegin(t, i, j)
           Remembers ==
             /\ call'[t].step \in {"backentry", "backtest", "backswap"} =>
                  /\ call'[t].back = call[t].back
                  /\ call[t].back > 0 \/ call[t].step \in {"backentry", "backtest", "backswap"}
             /\ call'[t].step \in ReadFrontSteps =>
                  /\ front' = front
                  /\ \/ call'[t].front = front[call'[t].deque]
                     \/ /\ call[t].step \in ReadFrontSteps
                        /\ call'[t].front = call[t].front /\ call'[t].deque = call[t].deque
<1>1. ASSUME call'[t].step \notin {"backentry", "backtest", "backswap"} \cup ReadFrontSteps
      PROVE  Remembers
  BY <1>1
<1>2. CASE Begins
  <2>1. PICK i \in Workers :
           \/ Deque!ScanBegin(t, i) \/ Deque!SizeBegin(t, i) \/ Deque!ClearBegin(t, i)
           \/ Deque!PopBackBegin(t, i)
           \/ \E j \in Jobs : Deque!PushBackBegin(t, i, j)
    BY <1>2
  <2>2. Deque!ScanBegin(t, i) => call'[t].step = "scanfront"
    BY ScanOps, Zenon DEF Moves, Locals
  <2>3. Deque!SizeBegin(t, i) => call'[t].step = "size"
    BY SizeOps, Zenon DEF Moves, Locals
  <2>4. Deque!ClearBegin(t, i) => call'[t].step = "clear"
    BY ClearOps, Zenon DEF Moves, Locals
  <2>5. Deque!PopBackBegin(t, i) => call'[t].step = "backfront"
    BY PopBackOps, Zenon DEF Moves, Locals
  <2>6. (\E j \in Jobs : Deque!PushBackBegin(t, i, j)) => call'[t].step = "store"
    BY PushBackOps, Zenon DEF Moves, Locals
  <2>7. call'[t].step \in {"scanfront", "size", "clear", "backfront", "store"}
    BY <2>1, <2>2, <2>3, <2>4, <2>5, <2>6, Zenon
  <2> QED BY <1>1, <2>7 DEF ReadFrontSteps
<1>3. CASE \E i \in Workers : \E o \in BOOLEAN : Deque!PopFrontBegin(t, i, o)
  <2>1. PICK i \in Workers, o \in BOOLEAN : Deque!PopFrontBegin(t, i, o)
    BY <1>3
  <2>2. /\ Moves(t, "frontback", i, front[i], 0, NoJob, o)
        /\ UNCHANGED <<entries, front, back>>
    BY <2>1, PopFrontOps, Zenon
  <2> QED BY <2>2 DEF Moves, Locals
<1>4. CASE Deque!PopFrontOn(t)
  <2>1. /\ call[t].step \in {"frontback", "frontentry"}
        /\ call'[t].deque = call[t].deque /\ call'[t].front = call[t].front /\ front' = front
        /\ \/ call'[t].step = "frontentry"
           \/ call'[t].step = (IF call[t].open THEN "frontswap" ELSE "fronttest")
    BY <1>4, PopFrontOps, Zenon DEF Moves, Locals
  <2>2. call[t].step \in ReadFrontSteps
        /\ call'[t].step \notin {"backentry", "backtest", "backswap"}
    BY <2>1 DEF ReadFrontSteps
  <2> QED BY <2>1, <2>2, Zenon
<1>5. CASE Deque!PopFrontTest(t)
  <2>1. /\ call[t].step = "fronttest" /\ call'[t].step = "frontswap"
        /\ call'[t].deque = call[t].deque /\ call'[t].front = call[t].front /\ front' = front
    BY <1>5, PopFrontOps, Zenon DEF Moves, Locals
  <2> QED BY <2>1 DEF ReadFrontSteps
<1>6. CASE Deque!PopBackOn(t)
  <2>1. /\ call[t].back > 0 \/ call[t].step = "backentry"
        /\ call'[t].back = call[t].back /\ call'[t].step \in {"backentry", "backtest"}
    BY <1>6, PopBackOps, Zenon DEF Moves, Locals
  <2> QED BY <2>1 DEF ReadFrontSteps
<1>7. CASE Deque!PopBackTest(t)
  <2>1. call[t].step = "backtest" /\ call'[t].back = call[t].back /\ call'[t].step = "backswap"
    BY <1>7, PopBackOps, Zenon DEF Moves, Locals
  <2> QED BY <2>1 DEF ReadFrontSteps
<1>8. CASE Deque!ScanOn(t)
  <2>1. call'[t].step = "scan"
    BY <1>8, ScanOps, Zenon DEF Moves, Locals
  <2> QED BY <1>1, <2>1 DEF ReadFrontSteps
<1>9. CASE Deque!PopFrontSwap(t) \/ Deque!PopFrontReset(t)
  <2>1. Deque!PopFrontSwap(t) => call'[t].step = "frontlast"
    BY PopFrontOps, Zenon DEF Moves, Locals
  <2>2. Deque!PopFrontReset(t) => call'[t].step \in {"resetback", "resetfront"}
    BY PopFrontOps, Zenon DEF Moves, Locals
  <2> QED BY <1>1, <1>9, <2>1, <2>2 DEF ReadFrontSteps
<1>10. CASE Ends(t)
  BY <1>1, <1>10, EndTells DEF ReadFrontSteps
<1>11. CASE \/ (\E found : Deque!ScanEnd(t, found)) \/ Deque!SizeEnd(t) \/ Deque!ClearEnd(t)
            \/ Deque!PushBackEnd(t) \/ (\E j : Deque!PopFrontEnd(t, j))
            \/ Deque!PopFrontNone(t) \/ Deque!PopFrontLost(t)
            \/ (\E j : Deque!PopBackEnd(t, j)) \/ Deque!PopBackNone(t) \/ Deque!PopBackLost(t)
  <2>1. Ends(t)
    BY <1>11, ScanOps, SizeOps, ClearOps, PushBackOps, PopFrontOps, PopBackOps, Zenon
  <2> QED BY <1>10, <2>1
<1>12. (\E i \in Workers :
          \/ Deque!ScanBegin(t, i) \/ Deque!SizeBegin(t, i) \/ Deque!ClearBegin(t, i)
          \/ Deque!PopBackBegin(t, i)
          \/ \E j \in Jobs : Deque!PushBackBegin(t, i, j)
          \/ \E o \in BOOLEAN : Deque!PopFrontBegin(t, i, o))
        => Begins \/ \E i \in Workers : \E o \in BOOLEAN : Deque!PopFrontBegin(t, i, o)
  BY Zenon
<1> HIDE DEF Remembers, Begins
<1> QED BY <1>2, <1>3, <1>4, <1>5, <1>6, <1>7, <1>8, <1>9, <1>11, <1>12, Zenon DEF Op

LEMMA StepKeepsBackPositive ==
  ASSUME ThreadsInv, TypeInv, BackPositive, [Next]_vars
  PROVE  BackPositive'
<1>1. CASE UNCHANGED dequeVars
  BY <1>1 DEF dequeVars, BackPositive
<1>2. ASSUME NEW t \in Users, Op(t), NEW w \in Workers,
             call'[w].step \in {"backentry", "backtest", "backswap"}
      PROVE  call'[w].back > 0
  <2>1. CASE w = t
    BY <1>2, <2>1, OpRemembers DEF BackPositive
  <2>2. CASE w # t
    <3>1. call'[w] = call[w]
      BY <1>2, <2>2, OpMoves, UsersFacts
    <3> QED BY <1>2, <3>1 DEF BackPositive
  <2> QED BY <2>1, <2>2
<1> QED BY <1>1, <1>2, StepIsOp DEF BackPositive

\* Nobody but the owner moves mFront of a running worker.
LEMMA OthersKeepFront ==
  ASSUME ThreadsInv, TypeInv, CallsInv, NEW t \in Users, Op(t),
         NEW w \in Workers, w # t, running[w]
  PROVE  front'[w] = front[w]
<1>1. CASE t \in Workers
  <2>1. call[t].step # "clear" /\ (call[t].step \in {"frontswap", "resetfront"} => call[t].deque = t)
    BY <1>1 DEF CallsInv, WorkerCall, FrontSteps, ReadFrontSteps, TakenSteps
  <2>2. front' = front \/ \E n : front' = [front EXCEPT ![t] = n]
    BY <2>1, OpWrites, Zenon
  <2> QED BY <2>2 DEF TypeInv
<1>2. CASE t = Main
  <2>1. front' = front
    BY <1>2, OpWrites DEF CallsInv, MainCall
  <2> QED BY <2>1
<1>3. CASE t = Quitter
  <2>1. front' = front \/ (quitPc = "clear" /\ front' = [front EXCEPT ![quitIndex] = 0])
    BY <1>3, OpWrites DEF CallsInv, QuitCall
  <2> QED BY <2>1 DEF TypeInv, ThreadsInv, QuitInv
<1> QED BY <1>1, <1>2, <1>3, UsersFacts

LEMMA StepKeepsFront ==
  ASSUME ThreadsInv, TypeInv, CallsInv, FrontKept, [Next]_vars
  PROVE  FrontKept'
<1>0. CallsInv' /\ \A w \in Workers : running'[w] => running[w]
  BY StepKeepsCalls, StepIsMove, MoveOnly
<1>1. CASE UNCHANGED dequeVars
  BY <1>0, <1>1 DEF dequeVars, FrontKept
<1>2. ASSUME NEW t \in Users, Op(t), NEW w \in Workers, running'[w],
             call'[w].step \in ReadFrontSteps
      PROVE  front'[w] = call'[w].front
  <2>1. CASE w = t
    <3>1. call'[w].deque = w
      BY <1>0, <1>2 DEF CallsInv, WorkerCall, FrontSteps
    <3>2. call[w].step \in ReadFrontSteps => front[w] = call[w].front
      BY <1>0, <1>2 DEF FrontKept
    <3> QED BY <1>2, <2>1, <3>1, <3>2, OpRemembers
  <2>2. CASE w # t
    <3>1. call'[w] = call[w]
      BY <1>2, <2>2, OpMoves, UsersFacts
    <3>2. front'[w] = front[w]
      BY <1>0, <1>2, <2>2, OthersKeepFront
    <3> QED BY <1>0, <1>2, <3>1, <3>2 DEF FrontKept
  <2> QED BY <2>1, <2>2
<1> QED BY <1>1, <1>2, StepIsOp DEF FrontKept

-----------------------------------------------------------------------------
(* The jobs in the hands of the workers.                                   *)

\* The hands of the others stay as they are.
LEMMA JobMoveHands ==
  ASSUME Graph!TypeOK, NEW w,
         \/ UNCHANGED graphVars \/ Create \/ Pushed
         \/ Recheck(w) \/ Execute(w) \/ Executed(w) \/ Graph!Abandon(w)
         \/ \E j : Graph!Claim(w, j),
         NEW v \in Workers, v # w
  PROVE  hand'[v] = hand[v] /\ phase'[v] = phase[v]
<1> USE DEF Graph!TypeOK, Graph!execVars
<1>1. CASE UNCHANGED graphVars
  BY <1>1 DEF graphVars
<1>2. CASE Create \/ Pushed
  BY <1>1, <1>2 DEF Create, Pushed, Graph!Construct, Graph!Share
<1>3. CASE Recheck(w) \/ Graph!Abandon(w) \/ \E j : Graph!Claim(w, j)
  BY <1>1, <1>3 DEF Recheck, Graph!Claim, Graph!Abandon
<1>4. CASE Execute(w)
  BY <1>4 DEF Execute, Graph!Start, Graph!Finish, Graph!Signal
<1>5. CASE Executed(w)
  BY <1>5 DEF Executed, Graph!Return
<1> QED BY <1>1, <1>2, <1>3, <1>4, <1>5

LEMMA QuietKeepsHand ==
  ASSUME NEW w, Hand(w), Quiet(w), call'[w] = call[w], hand'[w] = hand[w], phase'[w] = phase[w]
  PROVE  Hand(w)'
BY DEF Hand, Claiming, Quiet

\* Outside the pops only Job::Execute and the CanExecute before it touch the hand.
LEMMA NoClaimFits ==
  ASSUME NEW w, hand'[w] = NoJob, pc'[w] # "execute", ~Claiming(w)'
  PROVE  Hand(w)'
BY DEF Hand

LEMMA ControlKeepsHand ==
  ASSUME ThreadsInv, Graph!TypeOK, TypeInv, CallsInv, HandInv, NEW w \in Workers,
         \/ ControlStep(w) \/ JobStep(w) \/ ScanStep(w) \/ SizeStep(w) \/ PushBackStep(w)
  PROVE  Hand(w)'
<1> USE DEF Graph!TypeOK, Graph!execVars, Graph!jobVars, ThreadsInv, WorkerInv
<1>0. w \in Users /\ WorkerCall(w) /\ Hand(w)
  BY UsersFacts DEF CallsInv, HandInv
<1>1. CASE ControlStep(w)
  <2>1. call[w].step = "none" /\ call' = call /\ hand' = hand
    BY <1>1, NotCalling DEF ControlStep, Loop, LockAwake, Sleep, WakeNotify, dequeVars,
         graphVars, Announce, NothingToSteal, Retire
  <2>2. pc[w] # "execute" /\ pc'[w] # "execute"
    BY <1>1 DEF ControlStep, Loop, LockAwake, Sleep, WakeNotify, Announce, NothingToSteal,
         Retire, Goto, Awakened, AfterTarget
  <2> QED BY <1>0, <2>1, <2>2 DEF Hand, Claiming, TakenSteps
<1>2. CASE JobStep(w)
  <2>1. call[w].step = "none" /\ call' = call
    BY <1>2, NotCalling DEF JobStep, Recheck, Execute, Executed, dequeVars
  <2>2. CASE Recheck(w)
    <3>1. popped[w] # NoJob /\ pc[w] = "recheck"
      BY <2>2 DEF Recheck
    <3> QED BY <1>0, <2>1, <2>2, <3>1
        DEF Recheck, Graph!Claim, Goto, Hand, Claiming, TakenSteps, graphVars
  <2>3. CASE Execute(w)
    BY <1>0, <2>1, <2>3 DEF Execute, Graph!Start, Graph!Finish, Graph!Signal, workerVars,
         Hand, Claiming, TakenSteps
  <2>4. CASE Executed(w)
    BY <1>0, <2>1, <2>4 DEF Executed, Graph!Return, Goto, Hand, Claiming, TakenSteps
  <2> QED BY <1>2, <2>2, <2>3, <2>4 DEF JobStep
<1>3. CASE ScanStep(w)
  <2>1. pc[w] \in {"check", "testing", "wake"}
    BY <1>0, <1>3, ScanOps
       DEF ScanStep, Inside, WorkerCall, Check, WakeUp, TestCondition
  <2>2. hand' = hand /\ pc'[w] \notin {"execute", "repop", "steal"}
    BY <1>3, <2>1 DEF ScanStep, Inside, graphVars, workerVars, Check, WakeUp, TestCondition,
         Goto, AfterTarget
  <2> QED BY <1>0, <2>1, <2>2 DEF Hand, Claiming
<1>4. CASE SizeStep(w)
  <2>1. pc[w] \in {"size", "resize"} /\ hand' = hand
    BY <1>4 DEF SizeStep, Inside, ReadSize, ReadSizeAgain, graphVars
  <2>2. CASE Inside(Deque!SizeBegin(w, w))
    BY <1>0, <2>1, <2>2 DEF Inside, workerVars, Hand, Claiming
  <2>3. CASE Deque!SizeEnd(w) /\ \E n : ReadSize(w, n) \/ ReadSizeAgain(w, n)
    <3>1. call'[w].step = "none"
      BY <1>0, <2>3, SizeOps, EndTells
    <3> QED BY <1>0, <2>1, <2>3, <3>1
        DEF ReadSize, ReadSizeAgain, Goto, Hand, Claiming, TakenSteps
  <2> QED BY <1>4, <2>2, <2>3 DEF SizeStep
<1>5. CASE PushBackStep(w)
  BY <1>0, <1>5 DEF PushBackStep, PutBack, Goto, Inside, graphVars, workerVars, Hand, Claiming
<1> QED BY <1>1, <1>2, <1>3, <1>4, <1>5

\* A worker in PopFront claims its job when CanExecute is asked, and loses it again
\* when the compare-and-exchange fails.
LEMMA PopKeepsHand ==
  ASSUME ThreadsInv, Graph!TypeOK, TypeInv, CallsInv, HandInv, KnownInv,
         NEW w \in Workers, PopStep(w)
  PROVE  Hand(w)'
<1> USE DEF Graph!TypeOK, ThreadsInv, WorkerInv
<1>0. /\ w \in Users /\ WorkerCall(w) /\ Hand(w) /\ Known(w)
      /\ allowOpen[w] \in BOOLEAN /\ FALSE \in BOOLEAN
  BY UsersFacts, ArgumentTypes DEF CallsInv, HandInv, KnownInv
<1>1. CASE (\E o \in BOOLEAN : Deque!PopFrontBegin(w, w, o)) /\ pc[w] \in {"popfront", "repop"}
           /\ UNCHANGED <<graphVars, workerVars>>
  <2>1. PICK o \in BOOLEAN : Deque!PopFrontBegin(w, w, o)
    BY <1>1
  <2>2. call[w].step = "none" /\ Moves(w, "frontback", w, front[w], 0, NoJob, o)
    BY <1>0, <2>1, PopFrontOps, Zenon
  <2>3. call'[w].step = "frontback"
    BY <2>2 DEF Moves, Locals
  <2> QED BY <1>0, <1>1, <2>2, <2>3 DEF Hand, Claiming, TakenSteps, graphVars, workerVars
<1>2. CASE Inside(Deque!PopFrontOn(w))
  <2>1. /\ call[w].step \in {"frontback", "frontentry"}
        /\ \/ call'[w].step = "frontentry"
           \/ call'[w].step = (IF call[w].open THEN "frontswap" ELSE "fronttest")
    BY <1>0, <1>2, PopFrontOps, Zenon DEF Inside, Moves, Locals
  <2>2. pc[w] \in {"popfront", "repop"} /\ (pc[w] = "repop" => ~call[w].open)
    BY <1>0, <2>1 DEF WorkerCall, FrontSteps, ReadFrontSteps
  <2> QED BY <1>0, <1>2, <2>1, <2>2 DEF Inside, Hand, Claiming, TakenSteps, graphVars, workerVars
<1>3. CASE Inside(Deque!PopFrontSwap(w) \/ Deque!PopFrontReset(w))
  <2>1. /\ call[w].step \in {"frontswap", "frontlast", "resetback"}
        /\ call'[w].step \in {"frontlast", "resetback", "resetfront"}
        /\ call'[w].job = call[w].job
    <3>1. CASE Deque!PopFrontSwap(w)
      BY <1>0, <3>1, PopFrontOps, Zenon DEF Moves, Locals
    <3>2. CASE Deque!PopFrontReset(w)
      BY <1>0, <3>2, PopFrontOps, Zenon DEF Moves, Locals
    <3> QED BY <1>3, <3>1, <3>2 DEF Inside
  <2>2. pc[w] \in {"popfront", "repop"}
    BY <1>0, <2>1 DEF WorkerCall, FrontSteps, ReadFrontSteps, TakenSteps
  <2> QED BY <1>0, <1>3, <2>1, <2>2 DEF Inside, Hand, Claiming, TakenSteps, graphVars, workerVars
<1>4. CASE Deque!PopFrontTest(w) /\ ClaimInside(w) /\ UNCHANGED workerVars
  <2>1. /\ call[w].step = "fronttest" /\ call'[w].step = "frontswap"
        /\ call'[w].job = call[w].job
    BY <1>0, <1>4, PopFrontOps, Zenon DEF Moves, Locals
  <2>2. pc[w] \in {"popfront", "repop"} /\ call[w].job # NoJob
    BY <1>0, <2>1 DEF WorkerCall, FrontSteps, ReadFrontSteps, Known
  <2> QED BY <1>0, <1>4, <2>1, <2>2
      DEF ClaimInside, Graph!Claim, Hand, Claiming, TakenSteps, graphVars, workerVars
<1>5. CASE \E j \in Jobs : Deque!PopFrontEnd(w, j) /\ PopAnswer(w, j) /\ UNCHANGED graphVars
  <2>1. PICK j \in Jobs : Deque!PopFrontEnd(w, j) /\ PopAnswer(w, j) /\ UNCHANGED graphVars
    BY <1>5
  <2>2. call[w].step \in {"frontlast", "resetfront"} /\ call'[w].step = "none"
    BY <1>0, <2>1, PopFrontOps, EndTells, Zenon
  <2>3. j # NoJob
    BY NoJobAssumption
  <2> QED BY <1>0, <2>1, <2>2, <2>3
      DEF PopAnswer, PopOwn, PopOwnAgain, Goto, Hand, Claiming, TakenSteps, graphVars
<1>6. CASE Deque!PopFrontNone(w) /\ PopAnswer(w, NoJob) /\ UNCHANGED graphVars
  <2>1. call[w].step \in {"frontback", "fronttest"} /\ call'[w].step = "none"
    BY <1>0, <1>6, PopFrontOps, EndTells, Zenon
  <2> QED BY <1>0, <1>6, <2>1
      DEF PopAnswer, PopOwn, PopOwnAgain, Goto, Hand, Claiming, TakenSteps, graphVars
<1>7. CASE Deque!PopFrontLost(w) /\ PopAnswer(w, NoJob) /\ GiveUp(w)
  <2>1. call[w].step = "frontswap" /\ call'[w].step = "none"
    BY <1>0, <1>7, PopFrontOps, EndTells, Zenon
  <2>2. hand'[w] = NoJob
    BY <1>0, <1>7, <2>1 DEF PopAnswer, PopOwn, PopOwnAgain, GiveUp, Graph!Abandon, Hand,
         Claiming, graphVars
  <2> QED BY <1>0, <1>7, <2>1, <2>2
      DEF PopAnswer, PopOwn, PopOwnAgain, Goto, Hand, Claiming, TakenSteps
<1> QED BY <1>0, <1>1, <1>2, <1>3, <1>4, <1>5, <1>6, <1>7 DEF PopStep, Inside

LEMMA StealKeepsHand ==
  ASSUME ThreadsInv, Graph!TypeOK, TypeInv, CallsInv, HandInv, KnownInv,
         NEW w \in Workers, StealStep(w)
  PROVE  Hand(w)'
<1> USE DEF Graph!TypeOK, ThreadsInv, WorkerInv
<1>0. w \in Users /\ WorkerCall(w) /\ Hand(w) /\ Known(w)
  BY UsersFacts DEF CallsInv, HandInv, KnownInv
<1>1. CASE (\E i \in Workers : Inside(Deque!PopBackBegin(w, i))) /\ pc[w] = "steal"
  <2>1. call[w].step = "none" /\ call'[w].step = "backfront"
    BY <1>0, <1>1, PopBackOps, Zenon DEF Inside, Moves, Locals
  <2> QED BY <1>0, <1>1, <2>1 DEF Inside, Hand, Claiming, TakenSteps, graphVars, workerVars
<1>2. CASE Inside(Deque!PopBackOn(w))
  <2>1. /\ call[w].step \in {"backfront", "backentry"}
        /\ call'[w].step \in {"backentry", "backtest"}
    BY <1>0, <1>2, PopBackOps, Zenon DEF Inside, Moves, Locals
  <2>2. pc[w] = "steal"
    BY <1>0, <2>1 DEF WorkerCall, BackSteps
  <2> QED BY <1>0, <1>2, <2>1, <2>2 DEF Inside, Hand, Claiming, graphVars, workerVars
<1>3. CASE Deque!PopBackTest(w) /\ ClaimInside(w) /\ UNCHANGED workerVars
  <2>1. /\ call[w].step = "backtest" /\ call'[w].step = "backswap"
        /\ call'[w].job = call[w].job
    BY <1>0, <1>3, PopBackOps, Zenon DEF Moves, Locals
  <2>2. pc[w] = "steal" /\ call[w].job # NoJob
    BY <1>0, <2>1 DEF WorkerCall, BackSteps, Known
  <2> QED BY <1>0, <1>3, <2>1, <2>2
      DEF ClaimInside, Graph!Claim, Hand, Claiming, TakenSteps, graphVars, workerVars
<1>4. CASE \E j \in Jobs : Deque!PopBackEnd(w, j) /\ Steal(w, j) /\ UNCHANGED graphVars
  <2>1. PICK j \in Jobs : Deque!PopBackEnd(w, j) /\ Steal(w, j) /\ UNCHANGED graphVars
    BY <1>4
  <2>2. call[w].step = "backswap" /\ call'[w].step = "none"
    BY <1>0, <2>1, PopBackOps, EndTells, Zenon
  <2>3. j # NoJob
    BY NoJobAssumption
  <2> QED BY <1>0, <2>1, <2>2, <2>3 DEF Steal, Goto, Hand, Claiming, TakenSteps, graphVars
<1>5. CASE Deque!PopBackNone(w) /\ Steal(w, NoJob) /\ UNCHANGED graphVars
  <2>1. call[w].step \in {"backfront", "backtest"} /\ call'[w].step = "none"
    BY <1>0, <1>5, PopBackOps, EndTells, Zenon
  <2> QED BY <1>0, <1>5, <2>1 DEF Steal, Goto, Hand, Claiming, TakenSteps, graphVars
<1>6. CASE Deque!PopBackLost(w) /\ Steal(w, NoJob) /\ GiveUp(w)
  <2>1. call[w].step = "backswap" /\ call'[w].step = "none"
    BY <1>0, <1>6, PopBackOps, EndTells, Zenon
  <2>2. hand'[w] = NoJob
    BY <1>0, <1>6, <2>1 DEF Steal, GiveUp, Graph!Abandon, Hand, Claiming
  <2> QED BY <1>0, <1>6, <2>1, <2>2 DEF Steal, Goto, Hand, Claiming, TakenSteps
<1> QED BY <1>0, <1>1, <1>2, <1>3, <1>4, <1>5, <1>6 DEF StealStep, Inside

\* What a step does to the jobs is done by its worker.
LEMMA WorkerJobMove ==
  ASSUME NEW w, WorkerNext(w)
  PROVE  \/ UNCHANGED graphVars \/ Recheck(w) \/ Execute(w) \/ Executed(w)
         \/ Graph!Abandon(w) \/ \E j : Graph!Claim(w, j)
<1>1. CASE ControlStep(w) \/ JobStep(w) \/ ScanStep(w) \/ SizeStep(w) \/ PushBackStep(w)
  BY <1>1 DEF ControlStep, JobStep, ScanStep, SizeStep, PushBackStep, Inside
<1>2. CASE PopStep(w)
  BY <1>2 DEF PopStep, ClaimInside, GiveUp, Inside
<1>3. CASE StealStep(w)
  BY <1>3 DEF StealStep, ClaimInside, GiveUp, Inside
<1> QED BY <1>1, <1>2, <1>3 DEF WorkerNext

LEMMA MainJobMove ==
  ASSUME MainNext, ~DeleteJobs
  PROVE  UNCHANGED graphVars \/ Create \/ Pushed
BY DEF MainNext, AddStep, PollStep, Inside

LEMMA StepKeepsHand ==
  ASSUME ThreadsInv, Graph!TypeOK, TypeInv, CallsInv, HandInv, KnownInv,
         [Next]_vars, ~DeleteJobs
  PROVE  HandInv'
<1>1. ASSUME NEW w \in Workers, WorkerNext(w), NEW v \in Workers
      PROVE  Hand(v)'
  <2>1. CASE v = w
    BY <1>1, <2>1, ControlKeepsHand, PopKeepsHand, StealKeepsHand DEF WorkerNext
  <2>2. CASE v # w
    <3>1. Quiet(v)
      BY <1>1, <2>2, WorkerNextIsMove, WorkerMoveQuiet, OtherMoveQuiet
    <3>2. call'[v] = call[v]
      BY <1>1, <2>2, WorkerNextIsOp, OpMoves, UsersFacts DEF dequeVars
    <3>3. hand'[v] = hand[v] /\ phase'[v] = phase[v]
      BY <1>1, <2>2, WorkerJobMove, JobMoveHands
    <3> QED BY <3>1, <3>2, <3>3, QuietKeepsHand DEF HandInv
  <2> QED BY <2>1, <2>2
<1>2. ASSUME MainMove \/ QuitMove \/ NoMove, UNCHANGED <<hand, phase>>,
             \A w \in Workers : call'[w] = call[w]
      PROVE  HandInv'
  BY <1>2, OtherMoveQuiet, QuietKeepsHand DEF HandInv
<1>3. CASE MainNext
  <2>1. \A w \in Workers : call'[w] = call[w]
    BY <1>3, StepIsOp, OpMoves, UsersFacts DEF dequeVars
  <2>2. UNCHANGED <<hand, phase>>
    BY <1>3, MainJobMove
       DEF graphVars, Create, Pushed, Graph!Construct, Graph!Share, Graph!execVars
  <2> QED BY <1>2, <1>3, <2>1, <2>2, MainNextIsMove
<1>4. CASE QuitNext \/ (Quit /\ UNCHANGED <<graphVars, dequeVars>>)
  <2>1. \A w \in Workers : call'[w] = call[w]
    BY <1>4, StepIsOp, OpMoves, UsersFacts DEF dequeVars
  <2>2. UNCHANGED <<hand, phase>> /\ (QuitMove \/ NoMove)
    BY <1>4 DEF QuitNext, Inside, graphVars, QuitMove, NoMove
  <2> QED BY <1>2, <2>1, <2>2
<1>5. CASE \E w \in Workers : SpuriousWakeup(w) /\ UNCHANGED <<graphVars, dequeVars>>
  BY <1>5 DEF SpuriousWakeup, Goto, HandInv, Hand, Claiming, ThreadsInv, WorkerInv,
       graphVars, dequeVars
<1>6. CASE UNCHANGED vars
  BY <1>6 DEF vars, graphVars, workerVars, dequeVars, HandInv, Hand, Claiming
<1> QED BY <1>1, <1>3, <1>4, <1>5, <1>6 DEF Next, HandInv

-----------------------------------------------------------------------------
(* The jobs the workers and the deques know.                               *)

LEMMA AddedGrows ==
  ASSUME ThreadsInv, ControlMove, ~DeleteJobs
  PROVE  Added \subseteq Added'
<1>1. CASE Pushed
  BY <1>1, PushedAdds DEF ThreadsInv
<1>2. CASE ~Pushed
  <2>1. Added' = Added
    BY <1>2, OthersAddNothing
  <2> QED BY <2>1
<1> QED BY <1>1, <1>2

\* The job of an operation is the one it was called with or one it reads in a deque.
LEMMA OpJob ==
  ASSUME TypeInv, NEW t \in Users, Op(t)
  PROVE  /\ \/ call'[t].job = NoJob
                /\ call'[t].step \notin {"fronttest", "frontswap", "backtest", "backswap"}
                                          \cup TakenSteps
            \/ call'[t].step = "store"
            \/ /\ call'[t].job \in Jobs
               /\ \E i \in Workers, k \in Deque!Slots : call'[t].job = entries[i][k]
            \/ /\ call'[t].job = call[t].job
               /\ \/ call'[t].step \notin {"fronttest", "frontswap", "backtest", "backswap"}
                                            \cup TakenSteps
                  \/ call[t].step \in {"fronttest", "frontswap", "backtest", "backswap"}
                                            \cup TakenSteps
<1> DEFINE S == {"fronttest", "frontswap", "backtest", "backswap"} \cup TakenSteps
           Fits ==
             \/ call'[t].job = NoJob /\ call'[t].step \notin S
             \/ call'[t].step = "store"
             \/ /\ call'[t].job \in Jobs
                /\ \E i \in Workers, k \in Deque!Slots : call'[t].job = entries[i][k]
             \/ /\ call'[t].job = call[t].job
                /\ call'[t].step \notin S \/ call[t].step \in S
<1> SUFFICES Fits
  OBVIOUS
<1>0. call[t].deque \in Workers
  BY CallType
<1>1. ASSUME NEW i \in Workers, Deque!ScanBegin(t, i) \/ Deque!SizeBegin(t, i)
                                  \/ Deque!ClearBegin(t, i) \/ Deque!PopBackBegin(t, i)
      PROVE  Fits
  <2>1. Deque!ScanBegin(t, i) => call'[t].job = NoJob /\ call'[t].step = "scanfront"
    BY ScanOps, Zenon DEF Moves, Locals
  <2>2. Deque!SizeBegin(t, i) => call'[t].job = NoJob /\ call'[t].step = "size"
    BY SizeOps, Zenon DEF Moves, Locals
  <2>3. Deque!ClearBegin(t, i) => call'[t].job = NoJob /\ call'[t].step = "clear"
    BY ClearOps, Zenon DEF Moves, Locals
  <2>4. Deque!PopBackBegin(t, i) => call'[t].job = NoJob /\ call'[t].step = "backfront"
    BY PopBackOps, Zenon DEF Moves, Locals
  <2>5. call'[t].job = NoJob /\ call'[t].step \in {"scanfront", "size", "clear", "backfront"}
    BY <1>1, <2>1, <2>2, <2>3, <2>4
  <2> QED BY <2>5 DEF TakenSteps
<1>2. ASSUME NEW i \in Workers, NEW j \in Jobs, Deque!PushBackBegin(t, i, j)
      PROVE  Fits
  <2>1. Moves(t, "store", i, 0, back[i], j, FALSE)
    BY <1>2, PushBackOps, Zenon
  <2> QED BY <2>1 DEF Moves, Locals
<1>3. ASSUME NEW i \in Workers, NEW o \in BOOLEAN, Deque!PopFrontBegin(t, i, o)
      PROVE  Fits
  <2>1. Moves(t, "frontback", i, front[i], 0, NoJob, o)
    BY <1>3, PopFrontOps, Zenon
  <2> QED BY <2>1 DEF Moves, Locals, TakenSteps
<1>4. CASE Deque!ScanOn(t)
  <2>1. call'[t].job = call[t].job /\ call'[t].step = "scan"
    BY <1>4, ScanOps, Zenon DEF Moves, Locals
  <2> QED BY <2>1 DEF TakenSteps
<1>5. CASE Deque!PopFrontOn(t)
  <2>1. \/ call'[t].job = call[t].job /\ call'[t].step = "frontentry"
        \/ /\ call[t].front \in Deque!Slots /\ entries[call[t].deque][call[t].front] \in Jobs
           /\ call'[t].job = entries[call[t].deque][call[t].front]
    BY <1>5, PopFrontOps, Zenon DEF Moves, Locals
  <2>2. CASE call'[t].job = call[t].job /\ call'[t].step = "frontentry"
    BY <2>2 DEF TakenSteps
  <2> QED BY <1>0, <2>1, <2>2, Zenon
<1>6. CASE Deque!PopFrontTest(t)
  <2>1. call'[t].job = call[t].job /\ call[t].step = "fronttest"
    BY <1>6, PopFrontOps, Zenon DEF Moves, Locals
  <2> QED BY <2>1
<1>7. CASE Deque!PopFrontSwap(t)
  <2>1. call'[t].job = call[t].job /\ call[t].step = "frontswap"
    BY <1>7, PopFrontOps, Zenon DEF Moves, Locals
  <2> QED BY <2>1
<1>8. CASE Deque!PopFrontReset(t)
  <2>1. call'[t].job = call[t].job /\ call[t].step \in {"frontlast", "resetback"}
    BY <1>8, PopFrontOps, Zenon DEF Moves, Locals
  <2> QED BY <2>1 DEF TakenSteps
<1>9. CASE Deque!PopBackOn(t)
  <2>1. \/ call'[t].job = call[t].job /\ call'[t].step = "backentry"
        \/ /\ call[t].back - 1 \in Deque!Slots
           /\ entries[call[t].deque][call[t].back - 1] \in Jobs
           /\ call'[t].job = entries[call[t].deque][call[t].back - 1]
    BY <1>9, PopBackOps, Zenon DEF Moves, Locals
  <2>2. CASE call'[t].job = call[t].job /\ call'[t].step = "backentry"
    BY <2>2 DEF TakenSteps
  <2> QED BY <1>0, <2>1, <2>2, Zenon
<1>10. CASE Deque!PopBackTest(t)
  <2>1. call'[t].job = call[t].job /\ call[t].step = "backtest"
    BY <1>10, PopBackOps, Zenon DEF Moves, Locals
  <2> QED BY <2>1
<1>11. CASE \/ (\E found : Deque!ScanEnd(t, found)) \/ Deque!SizeEnd(t) \/ Deque!ClearEnd(t)
            \/ Deque!PushBackEnd(t) \/ (\E j : Deque!PopFrontEnd(t, j))
            \/ Deque!PopFrontNone(t) \/ Deque!PopFrontLost(t)
            \/ (\E j : Deque!PopBackEnd(t, j)) \/ Deque!PopBackNone(t) \/ Deque!PopBackLost(t)
  <2>1. Ends(t)
    BY <1>11, ScanOps, SizeOps, ClearOps, PushBackOps, PopFrontOps, PopBackOps, Zenon
  <2> QED BY <2>1, EndTells DEF TakenSteps
<1> HIDE DEF Fits
<1> QED BY <1>1, <1>2, <1>3, <1>4, <1>5, <1>6, <1>7, <1>8, <1>9, <1>10, <1>11, Zenon DEF Op

\* What a worker has in popped is what a pop answered.
LEMMA PoppedFrom ==
  ASSUME ThreadsInv, TypeInv, NEW w \in Workers, WorkerNext(w)
  PROVE  popped'[w] \in {popped[w], call[w].job, NoJob}
<1> USE DEF ThreadsInv, WorkerInv
<1>1. CASE ControlStep(w)
  BY <1>1 DEF ControlStep, Loop, LockAwake, Sleep, WakeNotify, Announce, NothingToSteal, Retire
<1>2. CASE JobStep(w)
  BY <1>2 DEF JobStep, Recheck, Execute, Executed, workerVars
<1>3. CASE ScanStep(w) \/ SizeStep(w)
  BY <1>3 DEF ScanStep, SizeStep, Inside, workerVars, Check, WakeUp, TestCondition, ReadSize,
       ReadSizeAgain
<1>4. CASE PopStep(w)
  <2>1. CASE UNCHANGED popped
    BY <2>1
  <2>2. CASE \E j \in Jobs : Deque!PopFrontEnd(w, j) /\ PopOwn(w, j)
    <3>1. PICK j \in Jobs : Deque!PopFrontEnd(w, j) /\ PopOwn(w, j)
      BY <2>2
    <3>2. j = call[w].job
      BY <3>1, UsersFacts, PopFrontOps, Zenon
    <3> QED BY <3>1, <3>2 DEF PopOwn
  <2>3. CASE PopOwn(w, NoJob)
    BY <2>3 DEF PopOwn
  <2> QED BY <1>4, <2>1, <2>2, <2>3 DEF PopStep, PopAnswer, PopOwnAgain, Inside, workerVars
<1>5. CASE PushBackStep(w)
  BY <1>5 DEF PushBackStep, PutBack, Inside, workerVars
<1>6. CASE StealStep(w)
  BY <1>6 DEF StealStep, Steal, Inside, workerVars
<1> QED BY <1>1, <1>2, <1>3, <1>4, <1>5, <1>6 DEF WorkerNext

\* A worker knows the jobs it has popped or read.
LEMMA OwnKnown ==
  ASSUME ThreadsInv, TypeInv, CallsInv, KnownInv, NEW w \in Workers, WorkerNext(w),
         Added \subseteq Added'
  PROVE  Known(w)'
<1>1. Known(w) /\ w \in Users
  BY UsersFacts DEF KnownInv
<1>2. popped'[w] \in Added' \cup {NoJob}
  BY <1>1, PoppedFrom DEF Known
<1>3. CASE UNCHANGED dequeVars
  <2>1. call' = call
    BY <1>3 DEF dequeVars
  <2> QED BY <1>1, <1>2, <2>1 DEF Known
<1>4. CASE Op(w)
  <2>1. CASE call'[w].step = "store"
    <3>1. call'[w].job = popped'[w]
      BY <2>1, WorkerKeepsOwnCall DEF WorkerCall
    <3> QED BY <1>2, <2>1, <3>1 DEF Known, TakenSteps
  <2>2. CASE /\ call'[w].job \in Jobs
             /\ \E i \in Workers, k \in Deque!Slots : call'[w].job = entries[i][k]
    <3>1. call'[w].job \in Added'
      BY <2>2, UnwrittenAssumption DEF KnownInv
    <3> QED BY <1>2, <2>2, <3>1, NoJobAssumption DEF Known
  <2>3. CASE call'[w].job = NoJob
               /\ call'[w].step \notin {"fronttest", "frontswap", "backtest", "backswap"}
                                          \cup TakenSteps
    BY <1>2, <2>3 DEF Known
  <2>4. CASE /\ call'[w].job = call[w].job
             /\ \/ call'[w].step \notin {"fronttest", "frontswap", "backtest", "backswap"}
                                          \cup TakenSteps
                \/ call[w].step \in {"fronttest", "frontswap", "backtest", "backswap"}
                                          \cup TakenSteps
    BY <1>1, <1>2, <2>4 DEF Known
  <2> QED BY <1>1, <1>4, <2>1, <2>2, <2>3, <2>4, OpJob, Zenon
<1> QED BY <1>3, <1>4, WorkerNextIsOp

\* What is stored in a deque has been added.
LEMMA EntriesKnown ==
  ASSUME ThreadsInv, TypeInv, CallsInv, KnownInv, [Next]_vars, ~DeleteJobs
  PROVE  \A i \in Workers : \A k \in Deque!Slots : entries'[i][k] \in Added' \cup {Unwritten}
<1>1. Added \subseteq Added'
  BY StepIsMove, AddedGrows
<1>2. CASE UNCHANGED entries
  BY <1>1, <1>2 DEF KnownInv
<1>3. ASSUME NEW i \in Workers, NEW k \in Deque!Slots, NEW j \in Added',
             entries' = [entries EXCEPT ![i][k] = j]
      PROVE  \A m \in Workers : \A l \in Deque!Slots :
               entries'[m][l] \in Added' \cup {Unwritten}
  BY <1>1, <1>3 DEF KnownInv, TypeInv
<1>4. ASSUME NEW w \in Workers, WorkerNext(w), entries' # entries
      PROVE  \E i \in Workers, k \in Deque!Slots, j \in Added' :
               entries' = [entries EXCEPT ![i][k] = j]
  <2>1. /\ call[w].step = "store" /\ call[w].back \in Deque!Slots /\ call[w].deque \in Workers
        /\ entries' = [entries EXCEPT ![call[w].deque][call[w].back] = call[w].job]
    BY <1>4, WorkerNextIsOp, OpWrites, UsersFacts, CallType DEF dequeVars
  <2>2. call[w].job \in Added'
    BY <1>1, <2>1, ArgumentTypes, NoJobAssumption DEF CallsInv, WorkerCall, KnownInv, Known
  <2> QED BY <2>1, <2>2, Zenon
<1>5. ASSUME MainNext, entries' # entries
      PROVE  \E i \in Workers, k \in Deque!Slots, j \in Added' :
               entries' = [entries EXCEPT ![i][k] = j]
  <2>1. /\ call[Main].step = "store" /\ call[Main].back \in Deque!Slots
        /\ call[Main].deque \in Workers
        /\ entries' = [entries EXCEPT ![call[Main].deque][call[Main].back] = call[Main].job]
    BY <1>5, StepIsOp, OpWrites, UsersFacts, CallType DEF dequeVars
  <2>2. Pushed
    BY <1>5 DEF MainNext, AddStep, PollStep, Inside, dequeVars, Deque!PushBackBegin,
         Deque!SizeBegin, Deque!SizeEnd
  <2>3. call[Main].job \in Added'
    BY <2>1, <2>2, PushedAdds DEF CallsInv, MainCall, ThreadsInv
  <2> QED BY <2>1, <2>3, Zenon
<1>6. QuitNext => UNCHANGED entries
  BY StepIsOp, OpWrites, UsersFacts DEF CallsInv, QuitCall, dequeVars
<1> QED BY <1>2, <1>3, <1>4, <1>5, <1>6 DEF Next, vars, dequeVars

LEMMA StepKeepsKnown ==
  ASSUME ThreadsInv, TypeInv, CallsInv, KnownInv, [Next]_vars, ~DeleteJobs
  PROVE  KnownInv'
<1>1. Added \subseteq Added'
  BY StepIsMove, AddedGrows
<1>2. ASSUME NEW v \in Workers, popped'[v] = popped[v], call'[v] = call[v]
      PROVE  Known(v)'
  BY <1>1, <1>2 DEF KnownInv, Known
<1>3. ASSUME NEW w \in Workers, WorkerNext(w), NEW v \in Workers
      PROVE  Known(v)'
  <2>1. CASE v = w
    BY <1>1, <1>3, <2>1, OwnKnown
  <2>2. CASE v # w
    <3>1. Quiet(v)
      BY <1>3, <2>2, WorkerNextIsMove, WorkerMoveQuiet, OtherMoveQuiet
    <3>2. call'[v] = call[v]
      BY <1>3, <2>2, WorkerNextIsOp, OpMoves, UsersFacts DEF dequeVars
    <3> QED BY <1>2, <3>1, <3>2 DEF Quiet
  <2> QED BY <2>1, <2>2
<1>4. ASSUME \/ MainNext \/ QuitNext \/ (Quit /\ UNCHANGED <<graphVars, dequeVars>>)
             \/ \E w \in Workers : SpuriousWakeup(w) /\ UNCHANGED <<graphVars, dequeVars>>
      PROVE  \A v \in Workers : Known(v)'
  <2>1. \A v \in Workers : call'[v] = call[v]
    BY <1>4, StepIsOp, OpMoves, UsersFacts DEF dequeVars
  <2>2. UNCHANGED popped
    BY <1>4, MainNextIsMove
       DEF MainMove, Attach, NextFrame, Create, Pushed, NotifyWorker, PollRunning, DeleteJobs,
       PollSize, NoMove, QuitNext, Inside, Quit, Halt, Silence, Cleared, NotifyStop, Join,
       SpuriousWakeup, workerVars
  <2> QED BY <1>2, <2>1, <2>2
<1>5. ASSUME UNCHANGED vars
      PROVE  \A v \in Workers : Known(v)'
  BY <1>2, <1>5 DEF vars, workerVars, dequeVars
<1>6. \A v \in Workers : Known(v)'
  BY <1>3, <1>4, <1>5, Zenon DEF Next
<1> QED BY <1>6, EntriesKnown DEF KnownInv

-----------------------------------------------------------------------------
(* What holds in both builds.                                              *)

LEMMA InitInv ==
  ASSUME IsFiniteSet(Jobs), Init
  PROVE  IInv
<1>1. \A t \in Users : call[t] = Deque!NoCall
  BY DEF Init, Deque!DequeInit
<1>2. Deque!NoCall \in Call /\ Deque!NoCall.step = "none" /\ Deque!NoCall.job = NoJob
  BY NoCallLocals DEF Locals
<1>3. TypeInv
  <2> DEFINE none == Deque!NoCall
  <2> HIDE DEF none
  <2>1. none \in Call /\ call = [t \in Users |-> none]
    BY <1>2, Zenon DEF none, Init, Deque!DequeInit
  <2>2. call \in [Users -> Call]
    BY <2>1
  <2> QED BY <2>2, UnwrittenAssumption DEF Init, Deque!DequeInit, TypeInv
<1>4. ThreadsInv /\ BuildInv /\ JobsInv
  BY InitThreads, InitBuild, InitJobs DEF Init, ControlInit
<1>5. \A t \in Users : call[t].step = "none" /\ call[t].job = NoJob
  BY <1>1, <1>2
<1>6. CallsInv
  BY <1>5, UsersFacts DEF CallsInv, WorkerCall, MainCall, QuitCall, ScanSteps, FrontSteps,
     ReadFrontSteps, TakenSteps, BackSteps
<1>7. BackPositive /\ FrontKept
  BY <1>5, UsersFacts DEF BackPositive, FrontKept, ReadFrontSteps
<1>8. HandInv
  BY <1>5, UsersFacts DEF HandInv, Hand, Claiming, TakenSteps, Init, ControlInit, Graph!Init
<1>9. KnownInv
  BY <1>5, UsersFacts DEF KnownInv, Known, TakenSteps, Init, ControlInit, Deque!DequeInit
<1> QED BY <1>3, <1>4, <1>6, <1>7, <1>8, <1>9 DEF IInv

LEMMA StepInv ==
  ASSUME MaxDeletes = 0, IsFiniteSet(Jobs), IInv, [Next]_vars
  PROVE  IInv' /\ ~DeleteJobs /\ [Graph!Next]_(Graph!vars)
<1> USE DEF IInv
<1>1. ~DeleteJobs
  BY DEF DeleteJobs, ThreadsInv, MainInv
<1>2. ControlMove /\ JobMove /\ Graph!TypeOK
  BY <1>1, StepIsMove, StepIsJobMove, JobsFacts
<1>3. ThreadsInv' /\ BuildInv' /\ JobsInv'
  BY <1>1, <1>2, ControlMoveKeeps, JobMoveBuilds, BuildMoveKeeps, JobMoveKeeps
<1>4. TypeInv' /\ CallsInv' /\ BackPositive' /\ FrontKept'
  BY StepKeepsTypes, StepKeepsCalls, StepKeepsBackPositive, StepKeepsFront
<1>5. HandInv' /\ KnownInv'
  BY <1>1, <1>2, StepKeepsHand, StepKeepsKnown
<1> QED BY <1>1, <1>2, <1>3, <1>4, <1>5, JobMoveRefines

\* The type invariant, as long as no frame's jobs are deleted.
THEOREM TypeCorrect ==
  ASSUME MaxDeletes = 0, IsFiniteSet(Jobs)
  PROVE  Spec => []TypeOK
<1>1. IInv => TypeOK
  <2> SUFFICES ASSUME IInv
               PROVE  TypeOK
    OBVIOUS
  <2>1. ControlTypeOK
    BY JobsFacts DEF IInv, ThreadsInv, WorkerInv, MainInv, QuitInv, ControlTypeOK
  <2>2. Deque!DequeTypeOK
    BY CallType DEF IInv, TypeInv, Deque!DequeTypeOK
  <2> QED BY <2>1, <2>2 DEF TypeOK
<1>2. Init => IInv
  BY InitInv
<1>3. IInv /\ [Next]_vars => IInv'
  BY StepInv
<1> QED BY <1>1, <1>2, <1>3, PTL DEF Spec

\* The deque may hand a job to two workers, lose it or read a stale entry: what the
\* workers do to the counters is a behaviour of JobGraph in both builds.
THEOREM JobGraphSpecThm ==
  ASSUME MaxDeletes = 0, IsFiniteSet(Jobs)
  PROVE  Spec => Graph!Spec
<1>1. Init => IInv /\ Graph!Init
  BY InitInv DEF Init, ControlInit
<1>2. IInv /\ [Next]_vars => IInv' /\ [Graph!Next]_(Graph!vars)
  BY StepInv
<1> QED BY <1>1, <1>2, PTL DEF Spec, Graph!Spec

\* No job function runs before those of all its predecessors have returned, in the
\* default build too, whatever its races do to the deques.
THEOREM DependencyOrderThm ==
  ASSUME MaxDeletes = 0, IsFiniteSet(Jobs)
  PROVE  Spec => []DependencyOrder
<1>1. IInv => DependencyOrder
  BY JobsFacts DEF IInv, DependencyOrder
<1>2. Init => IInv
  BY InitInv
<1>3. IInv /\ [Next]_vars => IInv'
  BY StepInv
<1> QED BY <1>1, <1>2, <1>3, PTL DEF Spec

\* The compare-and-exchange of PopFront that "should not happen" to fail
\* (lockless_deque.h:121) fails for no worker that has not been stopped.
THEOREM FrontIsOwnedThm ==
  ASSUME MaxDeletes = 0, IsFiniteSet(Jobs)
  PROVE  Spec => []FrontIsOwned
<1>1. IInv => FrontIsOwned
  BY DEF IInv, FrontKept, ReadFrontSteps, FrontIsOwned
<1>2. Init => IInv
  BY InitInv
<1>3. IInv /\ [Next]_vars => IInv'
  BY StepInv
<1> QED BY <1>1, <1>2, <1>3, PTL DEF Spec

-----------------------------------------------------------------------------
(* What LocklessSystem promises with HTL_EXTRA_LOCKS: the deques lose no   *)
(* job and double none, and no job is executed twice.                      *)
(*                                                                         *)
(* With the mutex an operation is alone on its deque, so what it has read  *)
(* is still so when it writes (LockInv).  Between the boundaries of the    *)
(* deques and with the workers every job that was added is found exactly   *)
(* once, until it is done (PlaceInv).                                      *)

-----------------------------------------------------------------------------
(* The invariants.                                                         *)

\* A thread that holds the mutex of a deque.
Locks(t, i) == call[t].step \notin {"none", "size", "clear"} /\ call[t].deque = i

\* The mutex of a deque: one thread at a time is inside its operations.
Exclusive ==
  \A i \in Workers : \A t, u \in Users : Locks(t, i) /\ Locks(u, i) => t = u

\* What the thread that holds the mutex has read is still so.
StoreInv(t) ==
  LET i == call[t].deque
  IN call[t].step = "store" => back[i] = call[t].back + 1 /\ front[i] <= call[t].back

FrontInv(t) ==
  LET i == call[t].deque
  IN /\ call[t].step \in ReadFrontSteps => front[i] = call[t].front
     /\ call[t].step \in ReadFrontSteps \ {"frontback"} => front[i] < back[i]
     /\ call[t].step \in {"fronttest", "frontswap"} => call[t].job = entries[i][front[i]]
     /\ call[t].step = "resetback" => front[i] = back[i]
     /\ call[t].step = "resetfront" => back[i] = 0

BackInv(t) ==
  LET i == call[t].deque
  IN /\ call[t].step \in BackSteps => back[i] = call[t].back
     /\ call[t].step \in BackSteps \ {"backfront"} => front[i] < back[i]
     /\ call[t].step \in {"backtest", "backswap"} => call[t].job = entries[i][back[i] - 1]

HeldInv == \A t \in Users : StoreInv(t) /\ FrontInv(t) /\ BackInv(t)

\* The boundaries, and that what is stored between them is inside the buffer.
BoundsInv ==
  \A i \in Workers :
    /\ front[i] <= back[i] \/ call[i].step = "resetfront"
    /\ Stored(i) \subseteq Deque!Slots

LockInv == Exclusive /\ HeldInv /\ BoundsInv

\* The jobs of a deque and the job of a worker.
Content == [i \in Workers |-> {entries[i][k] : k \in Stored(i)}]

Holding ==
  [w \in Workers |->
     IF call[w].step \in TakenSteps THEN call[w].job
     ELSE IF popped[w] # NoJob THEN popped[w]
     ELSE IF pc[w] = "execute" THEN hand[w]
     ELSE NoJob]

\* The jobs in A are in one of the places, but those in D, that may be in the
\* hand of a worker only.
Placed(E, H, D, A) ==
  /\ E \in [Workers -> SUBSET A]
  /\ H \in [Workers -> A \cup {NoJob}]
  /\ D \subseteq A
  /\ \A i \in Workers : E[i] \cap D = {}
  /\ \A i, k \in Workers : i # k => E[i] \cap E[k] = {}
  /\ \A v, w \in Workers : v # w /\ H[v] = H[w] => H[v] = NoJob
  /\ \A i, w \in Workers : H[w] \notin E[i]
  /\ \A j \in A \ D : (\E i \in Workers : j \in E[i]) \/ (\E w \in Workers : H[w] = j)

\* No deque has a job twice.
Distinct ==
  \A i \in Workers : \A k, l \in Stored(i) : entries[i][k] = entries[i][l] => k = l

\* A job that is done is with the worker that finishes it.
FreshInv ==
  \A w \in Workers : Holding[w] \in done => pc[w] = "execute" /\ phase[w] = "signalling"

\* Its counter is 0, because it has been executed once.
OnceInv == \A j \in done : unfinished[j] = 0

PlaceInv == Placed(Content, Holding, done, Added) /\ Distinct /\ FreshInv

LockedInv == LockInv /\ PlaceInv /\ OnceInv

-----------------------------------------------------------------------------
(* The mutexes.                                                            *)

\* No one is inside an operation on i.
Free(i) == \A u \in Users : ~Locks(u, i)

LEMMA EnterFree ==
  ASSUME ExtraLocks, NEW i, Deque!MayEnter(i)
  PROVE  Free(i)
BY DEF Deque!MayEnter, Free, Locks

\* A step that writes no boundary and no entry and reserves no slot.
QuietOp(t) ==
  \/ \E i \in Workers :
       \/ Deque!ScanBegin(t, i) \/ Deque!SizeBegin(t, i) \/ Deque!PopBackBegin(t, i)
       \/ \E o \in BOOLEAN : Deque!PopFrontBegin(t, i, o)
  \/ Deque!ScanOn(t) \/ (\E found : Deque!ScanEnd(t, found)) \/ Deque!SizeEnd(t)
  \/ Deque!PopFrontOn(t) \/ Deque!PopFrontTest(t) \/ Deque!PopFrontNone(t)
  \/ Deque!PopFrontLost(t)
  \/ Deque!PopBackOn(t) \/ Deque!PopBackTest(t) \/ Deque!PopBackNone(t) \/ Deque!PopBackLost(t)
  \/ call[t].step = "frontlast" /\ (Deque!PopFrontReset(t) \/ \E j : Deque!PopFrontEnd(t, j))

\* A step that does.
WriteOp(t) ==
  \/ \E i \in Workers : \E j \in Jobs : Deque!PushBackBegin(t, i, j)
  \/ Deque!PushBackEnd(t)
  \/ Deque!PopFrontSwap(t)
  \/ call[t].step = "resetback" /\ Deque!PopFrontReset(t)
  \/ call[t].step = "resetfront" /\ \E j : Deque!PopFrontEnd(t, j)
  \/ \E j : Deque!PopBackEnd(t, j)

LEMMA OpKinds ==
  ASSUME TypeInv, NEW t \in Users, Op(t), call[t].step # "clear", call'[t].step # "clear"
  PROVE  QuietOp(t) \/ WriteOp(t)
<1>1. ASSUME NEW i \in Workers
      PROVE  ~Deque!ClearBegin(t, i)
  <2>1. Deque!ClearBegin(t, i) => call'[t].step = "clear"
    BY ClearOps, Zenon DEF Moves, Locals
  <2> QED BY <2>1
<1>2. ~Deque!ClearEnd(t)
  BY ClearOps
<1>3. Deque!PopFrontReset(t) => call[t].step \in {"frontlast", "resetback"}
  BY PopFrontOps
<1>4. ASSUME NEW j, Deque!PopFrontEnd(t, j)
      PROVE  call[t].step \in {"frontlast", "resetfront"}
  BY <1>4, PopFrontOps, Zenon
<1>5. CASE \E i \in Workers :
             \/ Deque!ScanBegin(t, i) \/ Deque!SizeBegin(t, i) \/ Deque!ClearBegin(t, i)
             \/ Deque!PopBackBegin(t, i)
             \/ \E j \in Jobs : Deque!PushBackBegin(t, i, j)
             \/ \E o \in BOOLEAN : Deque!PopFrontBegin(t, i, o)
  BY <1>1, <1>5, Zenon DEF QuietOp, WriteOp
<1>6. CASE Deque!PopFrontReset(t)
  BY <1>3, <1>6 DEF QuietOp, WriteOp
<1>7. CASE \E j : Deque!PopFrontEnd(t, j)
  BY <1>4, <1>7 DEF QuietOp, WriteOp
<1>8. CASE \/ Deque!ScanOn(t) \/ (\E found : Deque!ScanEnd(t, found)) \/ Deque!SizeEnd(t)
           \/ Deque!PopFrontOn(t) \/ Deque!PopFrontTest(t) \/ Deque!PopFrontNone(t)
           \/ Deque!PopFrontLost(t) \/ Deque!PopBackOn(t) \/ Deque!PopBackTest(t)
           \/ Deque!PopBackNone(t) \/ Deque!PopBackLost(t)
  BY <1>8, Zenon DEF QuietOp
<1>9. CASE Deque!PushBackEnd(t) \/ Deque!PopFrontSwap(t) \/ \E j : Deque!PopBackEnd(t, j)
  BY <1>9, Zenon DEF WriteOp
<1> QED BY <1>2, <1>5, <1>6, <1>7, <1>8, <1>9, Zenon DEF Op

\* An operation locks the mutex of its deque only.
LEMMA OpLocks ==
  ASSUME ExtraLocks, TypeInv, NEW t \in Users, QuietOp(t) \/ WriteOp(t),
         NEW i \in Workers, Locks(t, i)'
  PROVE  Locks(t, i) \/ Free(i)
<1>0. call'[t].step \notin {"none", "size", "clear"} /\ call'[t].deque = i
  BY DEF Locks
<1>1. ASSUME NEW k \in Workers, Deque!MayEnter(k), call'[t].deque = k
      PROVE  Free(i)
  BY <1>0, <1>1, EnterFree
<1>2. ASSUME call'[t].deque = call[t].deque, call[t].step \notin {"none", "size", "clear"}
      PROVE  Locks(t, i)
  BY <1>0, <1>2 DEF Locks
<1>3. ~Ends(t)
  BY <1>0, EndTells
<1>4. ASSUME NEW k \in Workers, Deque!ScanBegin(t, k)
      PROVE  Free(i)
  BY <1>1, <1>4, ScanOps, Zenon DEF Moves, Locals
<1>5. ASSUME NEW k \in Workers, Deque!PopBackBegin(t, k)
      PROVE  Free(i)
  BY <1>1, <1>5, PopBackOps, Zenon DEF Moves, Locals
<1>6. ASSUME NEW k \in Workers, NEW o \in BOOLEAN, Deque!PopFrontBegin(t, k, o)
      PROVE  Free(i)
  <2>1. Deque!MayEnter(k) /\ Moves(t, "frontback", k, front[k], 0, NoJob, o)
    BY <1>6, PopFrontOps, Zenon
  <2> QED BY <1>1, <2>1 DEF Moves, Locals
<1>7. ASSUME NEW k \in Workers, NEW j \in Jobs, Deque!PushBackBegin(t, k, j)
      PROVE  Free(i)
  <2>1. Deque!MayEnter(k) /\ Moves(t, "store", k, 0, back[k], j, FALSE)
    BY <1>7, PushBackOps, Zenon
  <2> QED BY <1>1, <2>1 DEF Moves, Locals
<1>8. ASSUME NEW k \in Workers
      PROVE  ~Deque!SizeBegin(t, k)
  <2>1. Deque!SizeBegin(t, k) => call'[t].step = "size"
    BY SizeOps, Zenon DEF Moves, Locals
  <2> QED BY <1>0, <2>1
<1>9. CASE Deque!ScanOn(t)
  <2>1. call[t].step \in ScanSteps /\ call'[t].deque = call[t].deque
    BY <1>9, ScanOps, Zenon DEF Moves, Locals
  <2> QED BY <1>2, <2>1 DEF ScanSteps
<1>10. CASE Deque!PopFrontOn(t) \/ Deque!PopFrontTest(t) \/ Deque!PopFrontSwap(t)
              \/ Deque!PopFrontReset(t)
  <2>1. call'[t].deque = call[t].deque
    BY <1>10, PopFrontOps, Zenon DEF Moves, Locals
  <2>2. call[t].step \notin {"none", "size", "clear"}
    BY <1>10, PopFrontOps
  <2> QED BY <1>2, <2>1, <2>2
<1>11. CASE Deque!PopBackOn(t) \/ Deque!PopBackTest(t)
  <2>1. call'[t].deque = call[t].deque
    BY <1>11, PopBackOps, Zenon DEF Moves, Locals
  <2>2. call[t].step \notin {"none", "size", "clear"}
    BY <1>11, PopBackOps
  <2> QED BY <1>2, <2>1, <2>2
<1>12. /\ ~(\E found : Deque!ScanEnd(t, found)) /\ ~Deque!SizeEnd(t) /\ ~Deque!PushBackEnd(t)
       /\ ~Deque!PopFrontNone(t) /\ ~Deque!PopFrontLost(t) /\ ~(\E j : Deque!PopFrontEnd(t, j))
       /\ ~Deque!PopBackNone(t) /\ ~Deque!PopBackLost(t) /\ ~(\E j : Deque!PopBackEnd(t, j))
  BY <1>3, ScanOps, SizeOps, PushBackOps, PopFrontOps, PopBackOps, Zenon
<1> QED BY <1>4, <1>5, <1>6, <1>7, <1>8, <1>9, <1>10, <1>11, <1>12, Zenon DEF QuietOp, WriteOp

LEMMA OpExclusive ==
  ASSUME ExtraLocks, TypeInv, Exclusive, NEW t \in Users, QuietOp(t) \/ WriteOp(t),
         \A u \in Users \ {t} : call'[u] = call[u]
  PROVE  Exclusive'
<1>1. \A u \in Users \ {t} : \A i \in Workers : Locks(u, i)' => Locks(u, i)
  BY DEF Locks
<1>2. \A i \in Workers : Locks(t, i)' => Locks(t, i) \/ Free(i)
  BY OpLocks
<1>3. ASSUME NEW i \in Workers, NEW u \in Users, NEW v \in Users, Locks(u, i)', Locks(v, i)'
      PROVE  u = v
  BY <1>1, <1>2, <1>3 DEF Exclusive, Free
<1> QED BY <1>3 DEF Exclusive

-----------------------------------------------------------------------------
(* A step on one deque leaves the others and their users alone.            *)

\* The slots between the boundaries, without the one that is still to be written.
LEMMA StoredRange ==
  ASSUME NEW f \in Nat, NEW b \in Nat, NEW c, NEW i,
         \A t \in Users : c[t].step = "store" /\ c[t].deque = i => c[t].back = b - 1
  PROVE  LET P(k) == \A t \in Users :
                       ~(c[t].step = "store" /\ c[t].deque = i /\ c[t].back = k)
         IN {k \in f .. b - 1 : P(k)} =
              f .. (IF \E t \in Users : c[t].step = "store" /\ c[t].deque = i
                    THEN b - 2 ELSE b - 1)
<1> DEFINE P(k) == \A t \in Users :
                     ~(c[t].step = "store" /\ c[t].deque = i /\ c[t].back = k)
<1>1. ASSUME NEW t \in Users, c[t].step = "store", c[t].deque = i
      PROVE  {k \in f .. b - 1 : P(k)} = f .. b - 2
  <2>1. \A k : P(k) <=> k # b - 1
    BY <1>1
  <2> HIDE DEF P
  <2> QED BY <2>1
<1>2. ASSUME ~ \E t \in Users : c[t].step = "store" /\ c[t].deque = i
      PROVE  {k \in f .. b - 1 : P(k)} = f .. b - 1
  <2>1. \A k : P(k)
    BY <1>2
  <2> HIDE DEF P
  <2> QED BY <2>1
<1> QED BY <1>1, <1>2

\* t works on i: alone with its mutex, or without a change.
OnlyAt(t, i) ==
  /\ Locks(t, i) \/ Free(i) \/ UNCHANGED <<entries, front, back>>
  /\ call[t].step = "none" \/ call[t].deque = i
  /\ call'[t].step = "none" \/ call'[t].deque = i
  /\ \A u \in Users \ {t} : call'[u] = call[u]
  /\ \A k \in Workers \ {i} :
       front'[k] = front[k] /\ back'[k] = back[k] /\ entries'[k] = entries[k]

Bounds(i) == front[i] <= back[i] \/ call[i].step = "resetfront"

LEMMA OthersStay ==
  ASSUME TypeInv, CallsInv, LockInv, NEW t \in Users, NEW i \in Workers, OnlyAt(t, i)
  PROVE  /\ \A u \in Users \ {t} : StoreInv(u)' /\ FrontInv(u)' /\ BackInv(u)'
         /\ \A k \in Workers \ {i} : Stored(k)' = Stored(k) /\ Bounds(k)'
<1>1. ASSUME NEW u \in Users \ {t}
      PROVE  StoreInv(u)' /\ FrontInv(u)' /\ BackInv(u)'
  <2> DEFINE k == call[u].deque
  <2>1. call'[u] = call[u] /\ k \in Workers /\ StoreInv(u) /\ FrontInv(u) /\ BackInv(u)
    BY <1>1, CallType DEF OnlyAt, LockInv, HeldInv
  <2>2. CASE call[u].step \in {"none", "size", "clear"}
    BY <2>1, <2>2 DEF StoreInv, FrontInv, BackInv, ReadFrontSteps, BackSteps
  <2>3. CASE call[u].step \notin {"none", "size", "clear"}
    <3>1. Locks(u, k)
      BY <2>3 DEF Locks
    <3>2. k # i \/ UNCHANGED <<entries, front, back>>
      BY <1>1, <2>1, <3>1 DEF OnlyAt, LockInv, Exclusive, Free
    <3>3. front'[k] = front[k] /\ back'[k] = back[k] /\ entries'[k] = entries[k]
      BY <2>1, <3>2 DEF OnlyAt
    <3> QED BY <2>1, <3>3 DEF StoreInv, FrontInv, BackInv
  <2> QED BY <2>2, <2>3
<1>2. ASSUME NEW k \in Workers \ {i}
      PROVE  Stored(k)' = Stored(k) /\ Bounds(k)'
  <2>1. ASSUME NEW u \in Users, NEW n
        PROVE  (call'[u].step = "store" /\ call'[u].deque = k /\ call'[u].back = n)
                 <=> (call[u].step = "store" /\ call[u].deque = k /\ call[u].back = n)
    <3>1. CASE u = t
      BY <1>2, <3>1 DEF OnlyAt
    <3>2. CASE u # t
      BY <3>2 DEF OnlyAt
    <3> QED BY <3>1, <3>2
  <2>2. front'[k] = front[k] /\ back'[k] = back[k]
    BY <1>2 DEF OnlyAt
  <2>3. Stored(k)' = Stored(k)
    BY <2>1, <2>2 DEF Stored
  <2>4. Bounds(k)
    BY <1>2 DEF LockInv, BoundsInv, Bounds
  <2>5. call[k].step = "resetfront" => call[k].deque = k
    BY <1>2 DEF CallsInv, WorkerCall, FrontSteps, TakenSteps
  <2>6. call[k].step = "resetfront" => call'[k] = call[k]
    BY <1>2, <2>5, UsersFacts DEF OnlyAt
  <2> QED BY <2>2, <2>3, <2>4, <2>6 DEF Bounds
<1> QED BY <1>1, <1>2

\* What remains to be shown for the deque and the thread of the step.
LEMMA OnlyAtKeeps ==
  ASSUME ExtraLocks, TypeInv, CallsInv, LockInv,
         NEW t \in Users, NEW i \in Workers, OnlyAt(t, i), QuietOp(t) \/ WriteOp(t),
         (StoreInv(t) /\ FrontInv(t) /\ BackInv(t) /\ Bounds(i))',
         Stored(i)' \subseteq Deque!Slots
  PROVE  LockInv'
<1>1. Exclusive'
  BY OpExclusive DEF OnlyAt, LockInv
<1>2. HeldInv'
  BY OthersStay DEF HeldInv
<1>3. BoundsInv'
  <2>1. ASSUME NEW k \in Workers
        PROVE  Bounds(k)' /\ Stored(k)' \subseteq Deque!Slots
    BY OthersStay DEF LockInv, BoundsInv
  <2> QED BY <2>1 DEF BoundsInv, Bounds
<1> QED BY <1>1, <1>2, <1>3 DEF LockInv

-----------------------------------------------------------------------------
(* Steps that write nothing.                                               *)

LEMMA IdleHolds ==
  ASSUME NEW t, call'[t].step \in {"none", "size", "clear", "backfront"} \cup ScanSteps,
         call'[t].step = "backfront" => back'[call'[t].deque] = call'[t].back
  PROVE  (StoreInv(t) /\ FrontInv(t) /\ BackInv(t))'
BY DEF StoreInv, FrontInv, BackInv, ReadFrontSteps, BackSteps, ScanSteps

\* What t has read is so.
LEMMA QuietReads ==
  ASSUME TypeInv, LockInv, NEW t \in Users, QuietOp(t)
  PROVE  /\ UNCHANGED <<entries, front, back>>
         /\ call[t].step \notin {"store", "resetfront"} /\ call'[t].step # "store"
         /\ \E i \in Workers : /\ call[t].step = "none" \/ call[t].deque = i
                               /\ call'[t].step = "none" \/ call'[t].deque = i
         /\ (StoreInv(t) /\ FrontInv(t) /\ BackInv(t))'
<1> DEFINE c == call[t]
           Goal == /\ UNCHANGED <<entries, front, back>>
                   /\ c.step \notin {"store", "resetfront"} /\ call'[t].step # "store"
                   /\ \E i \in Workers : /\ c.step = "none" \/ c.deque = i
                                         /\ call'[t].step = "none" \/ call'[t].deque = i
                   /\ (StoreInv(t) /\ FrontInv(t) /\ BackInv(t))'
<1> SUFFICES Goal
  OBVIOUS
<1>0. c.deque \in Workers /\ StoreInv(t) /\ FrontInv(t) /\ BackInv(t)
  BY CallType DEF LockInv, HeldInv
<1>1. ASSUME Ends(t), UNCHANGED <<entries, front, back>>, c.step \notin {"store", "resetfront"}
      PROVE  Goal
  BY <1>0, <1>1, EndTells, IdleHolds
<1>2. ASSUME NEW i \in Workers, c.step = "none", call'[t].deque = i,
             call'[t].step \in {"size", "scanfront", "backfront"}, call'[t].back = back[i],
             UNCHANGED <<entries, front, back>>
      PROVE  Goal
  <2>1. (StoreInv(t) /\ FrontInv(t) /\ BackInv(t))'
    BY <1>2, IdleHolds DEF ScanSteps
  <2> QED BY <1>2, <2>1
<1>3. ASSUME NEW i \in Workers, Deque!ScanBegin(t, i)
      PROVE  Goal
  <2>1. /\ c.step = "none" /\ call'[t].deque = i /\ call'[t].step = "scanfront"
        /\ call'[t].back = back[i] /\ UNCHANGED <<entries, front, back>>
    BY <1>3, ScanOps, Zenon DEF Moves, Locals
  <2> QED BY <1>2, <2>1
<1>4. ASSUME NEW i \in Workers, Deque!SizeBegin(t, i)
      PROVE  Goal
  <2>1. /\ c.step = "none" /\ call'[t].deque = i /\ call'[t].step = "size"
        /\ call'[t].back = back[i] /\ UNCHANGED <<entries, front, back>>
    BY <1>4, SizeOps, Zenon DEF Moves, Locals
  <2> QED BY <1>2, <2>1
<1>5. ASSUME NEW i \in Workers, Deque!PopBackBegin(t, i)
      PROVE  Goal
  <2>1. /\ c.step = "none" /\ call'[t].deque = i /\ call'[t].step = "backfront"
        /\ call'[t].back = back[i] /\ UNCHANGED <<entries, front, back>>
    BY <1>5, PopBackOps, Zenon DEF Moves, Locals
  <2> QED BY <1>2, <2>1
<1>6. ASSUME NEW i \in Workers, NEW o \in BOOLEAN, Deque!PopFrontBegin(t, i, o)
      PROVE  Goal
  <2>1. /\ c.step = "none" /\ UNCHANGED <<entries, front, back>>
        /\ Moves(t, "frontback", i, front[i], 0, NoJob, o)
    BY <1>6, PopFrontOps, Zenon
  <2>2. call'[t].step = "frontback" /\ call'[t].deque = i /\ call'[t].front = front[i]
    BY <2>1 DEF Moves, Locals
  <2>3. (StoreInv(t) /\ FrontInv(t) /\ BackInv(t))'
    BY <2>1, <2>2 DEF StoreInv, FrontInv, BackInv, ReadFrontSteps, BackSteps
  <2> QED BY <2>1, <2>2, <2>3
<1>7. CASE Deque!ScanOn(t)
  <2>1. /\ c.step \in ScanSteps /\ call'[t].deque = c.deque /\ call'[t].step = "scan"
        /\ UNCHANGED <<entries, front, back>>
    BY <1>7, ScanOps, Zenon DEF Moves, Locals
  <2>2. (StoreInv(t) /\ FrontInv(t) /\ BackInv(t))'
    BY <2>1, IdleHolds DEF ScanSteps
  <2> QED BY <1>0, <2>1, <2>2 DEF ScanSteps
<1>8. CASE (\E found : Deque!ScanEnd(t, found)) \/ Deque!SizeEnd(t)
  <2>1. c.step \in ScanSteps \cup {"size"} /\ Ends(t) /\ UNCHANGED <<entries, front, back>>
    BY <1>8, ScanOps, SizeOps
  <2> QED BY <1>1, <2>1 DEF ScanSteps
<1>9. CASE Deque!PopFrontOn(t)
  <2>1. /\ UNCHANGED <<entries, front, back>>
        /\ \/ /\ c.step = "frontback" /\ c.front < back[c.deque]
              /\ Moves(t, "frontentry", c.deque, c.front, back[c.deque], c.job, c.open)
           \/ /\ c.step = "frontentry"
              /\ Moves(t, IF c.open THEN "frontswap" ELSE "fronttest",
                       c.deque, c.front, c.back, entries[c.deque][c.front], c.open)
    BY <1>9, PopFrontOps, Zenon
  <2>2. /\ call'[t].deque = c.deque /\ call'[t].front = c.front
        /\ \/ c.step = "frontback" /\ c.front < back[c.deque] /\ call'[t].step = "frontentry"
           \/ /\ c.step = "frontentry" /\ call'[t].step \in {"fronttest", "frontswap"}
              /\ call'[t].job = entries[c.deque][c.front]
    BY <2>1 DEF Moves, Locals
  <2>3. (StoreInv(t) /\ FrontInv(t) /\ BackInv(t))'
    BY <1>0, <2>1, <2>2 DEF StoreInv, FrontInv, BackInv, ReadFrontSteps, BackSteps
  <2> QED BY <1>0, <2>1, <2>2, <2>3
<1>10. CASE Deque!PopFrontTest(t)
  <2>1. /\ c.step = "fronttest" /\ call'[t].deque = c.deque /\ call'[t].front = c.front
        /\ call'[t].step = "frontswap" /\ call'[t].job = c.job
        /\ UNCHANGED <<entries, front, back>>
    BY <1>10, PopFrontOps, Zenon DEF Moves, Locals
  <2>2. (StoreInv(t) /\ FrontInv(t) /\ BackInv(t))'
    BY <1>0, <2>1 DEF StoreInv, FrontInv, BackInv, ReadFrontSteps, BackSteps
  <2> QED BY <1>0, <2>1, <2>2
<1>11. CASE Deque!PopFrontNone(t) \/ Deque!PopFrontLost(t)
  BY <1>1, <1>11, PopFrontOps
<1>12. CASE c.step = "frontlast" /\ \E j : Deque!PopFrontEnd(t, j)
  BY <1>1, <1>12, PopFrontOps
<1>13. CASE c.step = "frontlast" /\ Deque!PopFrontReset(t)
  <2>1. /\ front[c.deque] = back[c.deque] /\ UNCHANGED <<entries, front, back>>
        /\ Moves(t, "resetback", c.deque, c.front, c.back, c.job, c.open)
    BY <1>13, PopFrontOps
  <2>2. call'[t].step = "resetback" /\ call'[t].deque = c.deque
    BY <2>1 DEF Moves, Locals
  <2>3. (StoreInv(t) /\ FrontInv(t) /\ BackInv(t))'
    BY <2>1, <2>2 DEF StoreInv, FrontInv, BackInv, ReadFrontSteps, BackSteps
  <2> QED BY <1>0, <1>13, <2>1, <2>2, <2>3
<1>14. CASE Deque!PopBackOn(t)
  <2>1. /\ UNCHANGED <<entries, front, back>>
        /\ \/ /\ c.step = "backfront" /\ front[c.deque] < c.back
              /\ Moves(t, "backentry", c.deque, front[c.deque], c.back, c.job, c.open)
           \/ /\ c.step = "backentry"
              /\ Moves(t, "backtest", c.deque, c.front, c.back,
                       entries[c.deque][c.back - 1], c.open)
    BY <1>14, PopBackOps, Zenon
  <2>2. /\ call'[t].deque = c.deque /\ call'[t].back = c.back
        /\ \/ c.step = "backfront" /\ front[c.deque] < c.back /\ call'[t].step = "backentry"
           \/ /\ c.step = "backentry" /\ call'[t].step = "backtest"
              /\ call'[t].job = entries[c.deque][c.back - 1]
    BY <2>1 DEF Moves, Locals
  <2>3. (StoreInv(t) /\ FrontInv(t) /\ BackInv(t))'
    BY <1>0, <2>1, <2>2 DEF StoreInv, FrontInv, BackInv, ReadFrontSteps, BackSteps
  <2> QED BY <1>0, <2>1, <2>2, <2>3
<1>15. CASE Deque!PopBackTest(t)
  <2>1. /\ c.step = "backtest" /\ call'[t].deque = c.deque /\ call'[t].back = c.back
        /\ call'[t].step = "backswap" /\ call'[t].job = c.job
        /\ UNCHANGED <<entries, front, back>>
    BY <1>15, PopBackOps, Zenon DEF Moves, Locals
  <2>2. (StoreInv(t) /\ FrontInv(t) /\ BackInv(t))'
    BY <1>0, <2>1 DEF StoreInv, FrontInv, BackInv, ReadFrontSteps, BackSteps
  <2> QED BY <1>0, <2>1, <2>2
<1>16. CASE Deque!PopBackNone(t) \/ Deque!PopBackLost(t)
  BY <1>1, <1>16, PopBackOps
<1> HIDE DEF Goal
<1> QED BY <1>3, <1>4, <1>5, <1>6, <1>7, <1>8, <1>9, <1>10, <1>11, <1>12, <1>13, <1>14, <1>15,
          <1>16, Zenon DEF QuietOp

LEMMA QuietKeeps ==
  ASSUME ExtraLocks, TypeInv, CallsInv, LockInv, NEW t \in Users, QuietOp(t),
         \A u \in Users \ {t} : call'[u] = call[u]
  PROVE  /\ LockInv' /\ UNCHANGED entries
         /\ \A k \in Workers : Stored(k)' = Stored(k)
<1>1. PICK i \in Workers : /\ call[t].step = "none" \/ call[t].deque = i
                           /\ call'[t].step = "none" \/ call'[t].deque = i
  BY QuietReads
<1>2. OnlyAt(t, i)
  BY <1>1, QuietReads DEF OnlyAt
<1>3. ASSUME NEW u \in Users, NEW n
      PROVE  (call'[u].step = "store" /\ call'[u].deque = i /\ call'[u].back = n)
               <=> (call[u].step = "store" /\ call[u].deque = i /\ call[u].back = n)
  <2>1. CASE u = t
    BY <2>1, QuietReads
  <2>2. CASE u # t
    BY <2>2
  <2> QED BY <2>1, <2>2
<1>4. Stored(i)' = Stored(i)
  BY <1>3, QuietReads DEF Stored
<1>5. Bounds(i)'
  <2>1. CASE i = t
    BY <2>1, QuietReads DEF LockInv, BoundsInv, Bounds
  <2>2. CASE i # t
    BY <2>2, QuietReads, UsersFacts DEF LockInv, BoundsInv, Bounds
  <2> QED BY <2>1, <2>2
<1>6. Stored(i)' \subseteq Deque!Slots
  BY <1>4 DEF LockInv, BoundsInv
<1> QED BY <1>2, <1>4, <1>5, <1>6, QuietReads, OthersStay, OnlyAtKeeps

-----------------------------------------------------------------------------
(* Steps that write.                                                       *)

Storing(i) == \E u \in Users : call[u].step = "store" /\ call[u].deque = i

LEMMA StoredIs ==
  ASSUME TypeInv, HeldInv, NEW i \in Workers
  PROVE  Stored(i) = front[i] .. (IF Storing(i) THEN back[i] - 2 ELSE back[i] - 1)
<1>1. front[i] \in Nat /\ back[i] \in Nat
  BY BackType
<1>2. \A u \in Users : call[u].step = "store" /\ call[u].deque = i => call[u].back = back[i] - 1
  BY <1>1, CallType DEF HeldInv, StoreInv
<1> QED BY <1>1, <1>2, StoredRange DEF Stored, Storing

\* The same after a step: t alone is on i.
LEMMA StoredBecomes ==
  ASSUME NEW t \in Users, NEW i \in Workers, Exclusive, Locks(t, i) \/ Free(i),
         \A u \in Users \ {t} : call'[u] = call[u],
         front'[i] \in Nat, back'[i] \in Nat,
         call'[t].step = "store" => call'[t].deque = i /\ call'[t].back = back'[i] - 1
  PROVE  Stored(i)' = front'[i] .. (IF call'[t].step = "store" THEN back'[i] - 2 ELSE back'[i] - 1)
<1>1. \A u \in Users \ {t} : ~(call'[u].step = "store" /\ call'[u].deque = i)
  BY DEF Exclusive, Free, Locks
<1>2. \A u \in Users : call'[u].step = "store" /\ call'[u].deque = i => call'[u].back = back'[i] - 1
  BY <1>1
<1>3. (\E u \in Users : call'[u].step = "store" /\ call'[u].deque = i) <=> call'[t].step = "store"
  BY <1>1
<1> QED BY <1>2, <1>3, StoredRange DEF Stored

LEMMA StoredNow ==
  ASSUME TypeInv, LockInv, NEW t \in Users, NEW i \in Workers, Locks(t, i) \/ Free(i)
  PROVE  Stored(i) = front[i] .. (IF Locks(t, i) /\ call[t].step = "store"
                                  THEN back[i] - 2 ELSE back[i] - 1)
<1>1. Storing(i) <=> Locks(t, i) /\ call[t].step = "store"
  BY DEF Storing, LockInv, Exclusive, Free, Locks
<1> QED BY <1>1, StoredIs DEF LockInv

\* mFront is above mBack only while the owner resets the boundaries.
LEMMA ResetLocks ==
  ASSUME CallsInv, NEW t \in Users, call[t].step \in TakenSteps
  PROVE  t \in Workers /\ call[t].deque = t
BY UsersFacts DEF CallsInv, WorkerCall, MainCall, QuitCall, FrontSteps, TakenSteps

\* PushBack reserves a slot.
LEMMA PushBegins ==
  ASSUME ExtraLocks, TypeInv, CallsInv, LockInv, NEW t \in Users,
         NEW i \in Workers, NEW j \in Jobs, Deque!PushBackBegin(t, i, j)
  PROVE  /\ LockInv' /\ UNCHANGED entries
         /\ \A k \in Workers : Stored(k)' = Stored(k)
<1>1. /\ call[t].step = "none" /\ Deque!MayEnter(i) /\ Moves(t, "store", i, 0, back[i], j, FALSE)
      /\ back' = [back EXCEPT ![i] = @ + 1] /\ UNCHANGED <<entries, front>>
  BY PushBackOps, Zenon
<1>2. /\ call'[t].step = "store" /\ call'[t].deque = i /\ call'[t].back = back[i]
      /\ \A u \in Users \ {t} : call'[u] = call[u]
  BY <1>1 DEF Moves, Locals
<1>3. Free(i) /\ front[i] \in Nat /\ back[i] \in Nat /\ back'[i] = back[i] + 1
      /\ \A k \in Workers \ {i} : back'[k] = back[k]
  BY <1>1, EnterFree, BackType DEF TypeInv
<1>4. OnlyAt(t, i)
  BY <1>1, <1>2, <1>3 DEF OnlyAt
<1>5. front[i] <= back[i]
  <2>1. call[i].step = "resetfront" => Locks(i, i)
    BY ResetLocks, UsersFacts DEF Locks, TakenSteps
  <2> QED BY <1>3, <2>1, UsersFacts DEF LockInv, BoundsInv, Free
<1>6. Stored(i)' = Stored(i)
  <2>1. Stored(i)' = front'[i] .. back'[i] - 2
    BY <1>1, <1>2, <1>3, StoredBecomes DEF LockInv
  <2>2. Stored(i) = front[i] .. back[i] - 1
    BY <1>1, <1>3, StoredNow
  <2> QED BY <1>1, <1>3, <2>1, <2>2
<1>7. (StoreInv(t) /\ FrontInv(t) /\ BackInv(t) /\ Bounds(i))'
  BY <1>1, <1>2, <1>3, <1>5 DEF StoreInv, FrontInv, BackInv, Bounds, ReadFrontSteps, BackSteps
<1>8. Stored(i)' \subseteq Deque!Slots
  BY <1>6 DEF LockInv, BoundsInv
<1>9. WriteOp(t)
  BY DEF WriteOp
<1> QED BY <1>1, <1>4, <1>6, <1>7, <1>8, <1>9, OthersStay, OnlyAtKeeps

\* PushBack fills it.
LEMMA PushEnds ==
  ASSUME ExtraLocks, TypeInv, CallsInv, LockInv, NEW t \in Users, Deque!PushBackEnd(t),
         NEW i \in Workers, NEW b, i = call[t].deque, b = call[t].back
  PROVE  /\ LockInv' /\ b \in Deque!Slots
         /\ b \notin Stored(i) /\ Stored(i)' = Stored(i) \cup {b}
         /\ \A k \in Workers \ {i} : Stored(k)' = Stored(k)
         /\ entries' = [entries EXCEPT ![i][b] = call[t].job]
<1>1. /\ call[t].step = "store" /\ b \in Deque!Slots /\ Ends(t)
      /\ entries' = [entries EXCEPT ![i][b] = call[t].job] /\ UNCHANGED <<front, back>>
  BY PushBackOps
<1>2. call'[t].step = "none" /\ \A u \in Users \ {t} : call'[u] = call[u]
  BY <1>1, EndTells DEF Ends, Moves
<1>3. front[i] \in Nat /\ back[i] \in Nat /\ Locks(t, i) /\ b \in Nat
  BY <1>1, CallType, BackType DEF Locks
<1>4. \A k \in Workers \ {i} : entries'[k] = entries[k]
  BY <1>1, <1>3 DEF TypeInv
<1>5. OnlyAt(t, i)
  BY <1>1, <1>2, <1>3, <1>4 DEF OnlyAt
<1>6. back[i] = b + 1 /\ front[i] <= b
  BY <1>1 DEF LockInv, HeldInv, StoreInv
<1>7. Stored(i) = front[i] .. b - 1
  BY <1>1, <1>3, <1>6, StoredNow
<1>8. Stored(i)' = front[i] .. b
  <2>1. Stored(i)' = front'[i] .. back'[i] - 1
    BY <1>1, <1>2, <1>3, StoredBecomes DEF LockInv
  <2> QED BY <1>1, <1>3, <1>6, <2>1
<1>9. b \notin Stored(i) /\ Stored(i)' = Stored(i) \cup {b}
  BY <1>3, <1>6, <1>7, <1>8
<1>10. (StoreInv(t) /\ FrontInv(t) /\ BackInv(t))'
  BY <1>2, IdleHolds
<1>11. Bounds(i)'
  BY <1>1, <1>3, <1>6 DEF Bounds
<1>12. Stored(i)' \subseteq Deque!Slots
  BY <1>1, <1>3, <1>9 DEF LockInv, BoundsInv
<1>13. WriteOp(t)
  BY DEF WriteOp
<1>14. LockInv' /\ \A k \in Workers \ {i} : Stored(k)' = Stored(k)
  BY <1>3, <1>5, <1>10, <1>11, <1>12, <1>13, OthersStay, OnlyAtKeeps, Zenon
<1> QED BY <1>1, <1>9, <1>14, Zenon

\* PopFront takes the first entry.
LEMMA FrontTaken ==
  ASSUME ExtraLocks, TypeInv, CallsInv, LockInv, NEW t \in Users, Deque!PopFrontSwap(t),
         NEW i \in Workers, i = call[t].deque, NEW n, n = front[i]
  PROVE  /\ LockInv' /\ UNCHANGED entries
         /\ n \in Stored(i) /\ call[t].job = entries[i][n] /\ Stored(i)' = Stored(i) \ {n}
         /\ \A k \in Workers \ {i} : Stored(k)' = Stored(k)
<1>1. /\ call[t].step = "frontswap" /\ front[i] = call[t].front
      /\ Moves(t, "frontlast", i, call[t].front, call[t].back, call[t].job, call[t].open)
      /\ front' = [front EXCEPT ![i] = @ + 1] /\ UNCHANGED <<entries, back>>
  BY PopFrontOps
<1>2. /\ call'[t].step = "frontlast" /\ call'[t].deque = i
      /\ \A u \in Users \ {t} : call'[u] = call[u]
  BY <1>1 DEF Moves, Locals
<1>3. front[i] \in Nat /\ back[i] \in Nat /\ Locks(t, i)
  BY <1>1, CallType, BackType DEF Locks
<1>4. front'[i] = n + 1 /\ \A k \in Workers \ {i} : front'[k] = front[k]
  BY <1>1, <1>3 DEF TypeInv
<1>5. OnlyAt(t, i)
  BY <1>1, <1>2, <1>3, <1>4 DEF OnlyAt
<1>6. n < back[i] /\ call[t].job = entries[i][n]
  BY <1>1 DEF LockInv, HeldInv, FrontInv, ReadFrontSteps
<1>7. Stored(i) = n .. back[i] - 1
  BY <1>1, <1>3, StoredNow
<1>8. Stored(i)' = n + 1 .. back[i] - 1
  BY <1>1, <1>2, <1>3, <1>4, StoredBecomes DEF LockInv
<1>9. n \in Stored(i) /\ Stored(i)' = Stored(i) \ {n}
  BY <1>3, <1>6, <1>7, <1>8
<1>10. (StoreInv(t) /\ FrontInv(t) /\ BackInv(t))'
  BY <1>2 DEF StoreInv, FrontInv, BackInv, ReadFrontSteps, BackSteps
<1>11. Bounds(i)'
  BY <1>1, <1>3, <1>4, <1>6 DEF Bounds
<1>12. Stored(i)' \subseteq Deque!Slots
  BY <1>3, <1>9 DEF LockInv, BoundsInv
<1>13. WriteOp(t)
  BY DEF WriteOp
<1>14. LockInv' /\ \A k \in Workers \ {i} : Stored(k)' = Stored(k)
  BY <1>3, <1>5, <1>10, <1>11, <1>12, <1>13, OthersStay, OnlyAtKeeps, Zenon
<1> QED BY <1>1, <1>6, <1>9, <1>14, Zenon

\* PopBack takes the last entry.
LEMMA BackTaken ==
  ASSUME ExtraLocks, TypeInv, CallsInv, LockInv, NEW t \in Users, NEW j, Deque!PopBackEnd(t, j),
         NEW i \in Workers, i = call[t].deque, NEW n, n = back[i] - 1
  PROVE  /\ LockInv' /\ UNCHANGED entries /\ j = call[t].job
         /\ n \in Stored(i) /\ j = entries[i][n] /\ Stored(i)' = Stored(i) \ {n}
         /\ \A k \in Workers \ {i} : Stored(k)' = Stored(k)
<1>1. /\ call[t].step = "backswap" /\ back[i] = call[t].back /\ Ends(t) /\ j = call[t].job
      /\ back' = [back EXCEPT ![i] = @ - 1] /\ UNCHANGED <<entries, front>>
  BY PopBackOps
<1>2. call'[t].step = "none" /\ \A u \in Users \ {t} : call'[u] = call[u]
  BY <1>1, EndTells DEF Ends, Moves
<1>3. front[i] \in Nat /\ back[i] \in Nat /\ Locks(t, i)
  BY <1>1, CallType, BackType DEF Locks
<1>4. back'[i] = n /\ \A k \in Workers \ {i} : back'[k] = back[k]
  BY <1>1, <1>3 DEF TypeInv
<1>5. OnlyAt(t, i)
  BY <1>1, <1>2, <1>3, <1>4 DEF OnlyAt
<1>6. front[i] < back[i] /\ j = entries[i][n]
  BY <1>1 DEF LockInv, HeldInv, BackInv, BackSteps
<1>7. Stored(i) = front[i] .. n
  BY <1>1, <1>3, StoredNow
<1>8. Stored(i)' = front[i] .. n - 1
  BY <1>1, <1>2, <1>3, <1>4, <1>6, StoredBecomes DEF LockInv
<1>9. n \in Stored(i) /\ Stored(i)' = Stored(i) \ {n}
  BY <1>3, <1>6, <1>7, <1>8
<1>10. (StoreInv(t) /\ FrontInv(t) /\ BackInv(t))'
  BY <1>2, IdleHolds
<1>11. Bounds(i)'
  BY <1>1, <1>3, <1>4, <1>6 DEF Bounds
<1>12. Stored(i)' \subseteq Deque!Slots
  BY <1>3, <1>9 DEF LockInv, BoundsInv
<1>13. WriteOp(t)
  BY DEF WriteOp
<1>14. LockInv' /\ \A k \in Workers \ {i} : Stored(k)' = Stored(k)
  BY <1>3, <1>5, <1>10, <1>11, <1>12, <1>13, OthersStay, OnlyAtKeeps, Zenon
<1> QED BY <1>1, <1>6, <1>9, <1>14, Zenon

\* The reset of the boundaries moves them over nothing.
LEMMA ResetKeeps ==
  ASSUME ExtraLocks, TypeInv, CallsInv, LockInv, NEW t \in Users,
         \/ call[t].step = "resetback" /\ Deque!PopFrontReset(t)
         \/ call[t].step = "resetfront" /\ \E j : Deque!PopFrontEnd(t, j)
  PROVE  /\ LockInv' /\ UNCHANGED entries
         /\ \A k \in Workers : Stored(k)' = Stored(k)
<1>0. PICK i \in Workers : i = call[t].deque /\ i = t
  BY ResetLocks DEF TakenSteps
<1>1. t \in Workers /\ front[i] \in Nat /\ back[i] \in Nat /\ Locks(t, i)
  BY <1>0, BackType DEF Locks
<1>2. WriteOp(t)
  BY DEF WriteOp
<1>3. CASE call[t].step = "resetback"
  <2>1. /\ Moves(t, "resetfront", i, call[t].front, call[t].back, call[t].job, call[t].open)
        /\ back' = [back EXCEPT ![i] = 0] /\ UNCHANGED <<entries, front>>
    BY <1>0, <1>3, PopFrontOps
  <2>2. /\ call'[t].step = "resetfront" /\ call'[t].deque = i
        /\ \A u \in Users \ {t} : call'[u] = call[u]
    BY <2>1 DEF Moves, Locals
  <2>3. back'[i] = 0 /\ \A k \in Workers \ {i} : back'[k] = back[k]
    BY <1>1, <2>1 DEF TypeInv
  <2>4. OnlyAt(t, i)
    BY <1>0, <1>1, <2>1, <2>2, <2>3 DEF OnlyAt
  <2>5. front[i] = back[i]
    <3>1. FrontInv(t)
      BY DEF LockInv, HeldInv
    <3> QED BY <1>0, <1>3, <3>1 DEF FrontInv
  <2>6. Stored(i) = {}
    <3>1. Stored(i) = front[i] .. back[i] - 1
      BY <1>1, <1>3, StoredNow
    <3> QED BY <1>1, <2>5, <3>1
  <2>7. Stored(i)' = {}
    <3>1. Stored(i)' = front'[i] .. back'[i] - 1
      BY <1>1, <2>1, <2>2, <2>3, StoredBecomes DEF LockInv
    <3> QED BY <1>1, <2>1, <2>3, <3>1
  <2>8. (StoreInv(t) /\ FrontInv(t) /\ BackInv(t))'
    BY <2>2, <2>3 DEF StoreInv, FrontInv, BackInv, ReadFrontSteps, BackSteps
  <2>9. Bounds(i)'
    BY <1>0, <2>2 DEF Bounds
  <2>10. LockInv' /\ \A k \in Workers \ {i} : Stored(k)' = Stored(k)
    BY <1>1, <1>2, <2>4, <2>7, <2>8, <2>9, OthersStay, OnlyAtKeeps
  <2> QED BY <2>1, <2>6, <2>7, <2>10
<1>4. CASE call[t].step = "resetfront"
  <2>1. Ends(t) /\ front' = [front EXCEPT ![i] = 0] /\ UNCHANGED <<entries, back>>
    BY <1>0, <1>4, PopFrontOps
  <2>2. call'[t].step = "none" /\ \A u \in Users \ {t} : call'[u] = call[u]
    BY <2>1, EndTells DEF Ends, Moves
  <2>3. front'[i] = 0 /\ \A k \in Workers \ {i} : front'[k] = front[k]
    BY <1>1, <2>1 DEF TypeInv
  <2>4. OnlyAt(t, i)
    BY <1>0, <1>1, <2>1, <2>2, <2>3 DEF OnlyAt
  <2>5. back[i] = 0
    BY <1>0, <1>4 DEF LockInv, HeldInv, FrontInv
  <2>6. Stored(i) = {}
    <3>1. Stored(i) = front[i] .. back[i] - 1
      BY <1>1, <1>4, StoredNow
    <3> QED BY <1>1, <2>5, <3>1
  <2>7. Stored(i)' = {}
    <3>1. Stored(i)' = front'[i] .. back'[i] - 1
      BY <1>1, <2>1, <2>2, <2>3, StoredBecomes DEF LockInv
    <3> QED BY <2>1, <2>3, <2>5, <3>1
  <2>8. (StoreInv(t) /\ FrontInv(t) /\ BackInv(t))'
    BY <2>2, IdleHolds
  <2>9. Bounds(i)'
    BY <2>1, <2>3, <2>5 DEF Bounds
  <2>10. LockInv' /\ \A k \in Workers \ {i} : Stored(k)' = Stored(k)
    BY <1>1, <1>2, <2>4, <2>7, <2>8, <2>9, OthersStay, OnlyAtKeeps
  <2> QED BY <2>1, <2>6, <2>7, <2>10
<1> QED BY <1>3, <1>4

-----------------------------------------------------------------------------
(* What the deques contain after a step.                                   *)

LEMMA ContentSame ==
  ASSUME UNCHANGED entries, \A k \in Workers : Stored(k)' = Stored(k)
  PROVE  Content' = Content /\ (Distinct => Distinct')
BY DEF Content, Distinct

LEMMA ContentLoses ==
  ASSUME Distinct, UNCHANGED entries, NEW i \in Workers, NEW n \in Stored(i),
         NEW j, j = entries[i][n],
         Stored(i)' = Stored(i) \ {n}, \A k \in Workers \ {i} : Stored(k)' = Stored(k)
  PROVE  /\ j \in Content[i] /\ Content' = [Content EXCEPT ![i] = @ \ {j}]
         /\ Distinct'
<1>1. j \in Content[i]
  BY DEF Content
<1>2. \A k \in Workers \ {i} : Content'[k] = Content[k]
  BY DEF Content
<1>3. Content'[i] = Content[i] \ {j}
  <2>1. Content'[i] = {entries[i][k] : k \in Stored(i) \ {n}}
    BY DEF Content
  <2>2. Content[i] = {entries[i][k] : k \in Stored(i)}
    BY DEF Content
  <2>3. \A k \in Stored(i) : entries[i][k] = j <=> k = n
    BY DEF Distinct
  <2> QED BY <2>1, <2>2, <2>3
<1>4. Content' = [Content EXCEPT ![i] = @ \ {j}]
  BY <1>2, <1>3 DEF Content
<1>5. Distinct'
  BY DEF Distinct
<1> QED BY <1>1, <1>4, <1>5

LEMMA ContentGains ==
  ASSUME TypeInv, LockInv, Distinct, NEW i \in Workers, NEW b \in Deque!Slots, NEW j,
         b \notin Stored(i), j \notin Content[i], entries' = [entries EXCEPT ![i][b] = j],
         Stored(i)' = Stored(i) \cup {b}, \A k \in Workers \ {i} : Stored(k)' = Stored(k)
  PROVE  Content' = [Content EXCEPT ![i] = @ \cup {j}] /\ Distinct'
<1>1. /\ \A k \in Workers \ {i} : entries'[k] = entries[k]
      /\ entries'[i][b] = j
      /\ \A n \in Deque!Slots \ {b} : entries'[i][n] = entries[i][n]
  <2>1. entries[i] \in [Deque!Slots -> Jobs \cup {Unwritten}] /\ i \in DOMAIN entries
    BY DEF TypeInv
  <2> QED BY <2>1
<1>2. \A n \in Stored(i) : entries'[i][n] = entries[i][n]
  BY <1>1 DEF LockInv, BoundsInv
<1>3. \A k \in Workers \ {i} : Content'[k] = Content[k]
  BY <1>1 DEF Content
<1>4. Content'[i] = Content[i] \cup {j}
  <2>1. Content'[i] = {entries'[i][k] : k \in Stored(i) \cup {b}}
    BY DEF Content
  <2>2. Content[i] = {entries[i][k] : k \in Stored(i)}
    BY DEF Content
  <2> QED BY <1>1, <1>2, <2>1, <2>2
<1>5. Content' = [Content EXCEPT ![i] = @ \cup {j}]
  BY <1>3, <1>4 DEF Content
<1>6. ASSUME NEW k \in Workers
      PROVE  \A m, n \in Stored(k)' : entries'[k][m] = entries'[k][n] => m = n
  <2>1. CASE k # i
    BY <1>1, <2>1 DEF Distinct
  <2>2. CASE k = i
    <3>1. \A n \in Stored(i) : entries[i][n] # j
      BY DEF Content
    <3> QED BY <1>1, <1>2, <2>2, <3>1 DEF Distinct
  <2> QED BY <2>1, <2>2
<1> QED BY <1>5, <1>6 DEF Distinct

-----------------------------------------------------------------------------
(* The ways of a job.                                                      *)

\* It is taken from a deque,
LEMMA TakePlaced ==
  ASSUME NEW E, NEW H, NEW D, NEW A, Placed(E, H, D, A), NoJob \notin A,
         NEW i \in Workers, NEW w \in Workers, NEW j \in E[i], H[w] = NoJob
  PROVE  Placed([E EXCEPT ![i] = @ \ {j}], [H EXCEPT ![w] = j], D, A)
<1> DEFINE F == [E EXCEPT ![i] = @ \ {j}]
           G == [H EXCEPT ![w] = j]
<1>1. j \in A /\ j # NoJob /\ j \notin D
  BY DEF Placed
<1>2. /\ F[i] = E[i] \ {j} /\ \A k \in Workers \ {i} : F[k] = E[k]
      /\ G[w] = j /\ \A v \in Workers \ {w} : G[v] = H[v]
  BY DEF Placed
<1>3. F \in [Workers -> SUBSET A] /\ G \in [Workers -> A \cup {NoJob}] /\ D \subseteq A
  BY <1>1 DEF Placed
<1> HIDE DEF F, G
<1>4. \A k \in Workers : F[k] \subseteq E[k] /\ j \notin F[k]
  BY <1>2 DEF Placed
<1>5. \A v \in Workers : H[v] # j
  BY DEF Placed
<1>6. /\ \A k \in Workers : F[k] \cap D = {}
      /\ \A k, l \in Workers : k # l => F[k] \cap F[l] = {}
  BY <1>4 DEF Placed
<1>7. \A u, v \in Workers : u # v /\ G[u] = G[v] => G[u] = NoJob
  BY <1>1, <1>2, <1>5 DEF Placed
<1>8. \A k, v \in Workers : G[v] \notin F[k]
  BY <1>2, <1>4 DEF Placed
<1>9. \A x \in A \ D : (\E k \in Workers : x \in F[k]) \/ (\E v \in Workers : G[v] = x)
  <2>1. ASSUME NEW x \in A \ D, NEW k \in Workers, x \in E[k]
        PROVE  x \in F[k] \/ G[w] = x
    BY <1>2, <2>1
  <2>2. ASSUME NEW x \in A \ D, NEW v \in Workers, H[v] = x
        PROVE  G[v] = x
    BY <1>2, <2>2
  <2> QED BY <2>1, <2>2, Zenon DEF Placed
<1> QED BY <1>3, <1>6, <1>7, <1>8, <1>9 DEF Placed, F, G

\* or is put into one by the worker that has it,
LEMMA GivePlaced ==
  ASSUME NEW E, NEW H, NEW D, NEW A, Placed(E, H, D, A), NoJob \notin A,
         NEW i \in Workers, NEW w \in Workers, NEW j, j = H[w], j # NoJob, j \notin D
  PROVE  /\ j \notin E[i]
         /\ Placed([E EXCEPT ![i] = @ \cup {j}], [H EXCEPT ![w] = NoJob], D, A)
<1> DEFINE F == [E EXCEPT ![i] = @ \cup {j}]
           G == [H EXCEPT ![w] = NoJob]
<1>1. j \in A /\ \A k \in Workers : j \notin E[k]
  BY DEF Placed
<1>2. /\ F[i] = E[i] \cup {j} /\ \A k \in Workers \ {i} : F[k] = E[k]
      /\ G[w] = NoJob /\ \A v \in Workers \ {w} : G[v] = H[v]
  BY DEF Placed
<1>3. F \in [Workers -> SUBSET A] /\ G \in [Workers -> A \cup {NoJob}] /\ D \subseteq A
  BY <1>1 DEF Placed
<1> HIDE DEF F, G
<1>4. \A v \in Workers : G[v] # j
  BY <1>2 DEF Placed
<1>5. /\ \A k \in Workers : F[k] \cap D = {}
      /\ \A k, l \in Workers : k # l => F[k] \cap F[l] = {}
  BY <1>1, <1>2 DEF Placed
<1>6. \A u, v \in Workers : u # v /\ G[u] = G[v] => G[u] = NoJob
  BY <1>2 DEF Placed
<1>7. \A k, v \in Workers : G[v] \notin F[k]
  BY <1>1, <1>2, <1>3, <1>4 DEF Placed
<1>8. \A x \in A \ D : (\E k \in Workers : x \in F[k]) \/ (\E v \in Workers : G[v] = x)
  <2>1. ASSUME NEW x \in A \ D, NEW k \in Workers, x \in E[k]
        PROVE  x \in F[k]
    BY <1>2, <2>1
  <2>2. ASSUME NEW x \in A \ D, NEW v \in Workers, H[v] = x
        PROVE  G[v] = x \/ x \in F[i]
    BY <1>2, <2>2
  <2> QED BY <2>1, <2>2, Zenon DEF Placed
<1> QED BY <1>1, <1>3, <1>5, <1>6, <1>7, <1>8 DEF Placed, F, G

\* or by main_runner;
LEMMA AddPlaced ==
  ASSUME NEW E, NEW H, NEW D, NEW A, Placed(E, H, D, A),
         NEW i \in Workers, NEW j, j # NoJob, j \notin A
  PROVE  /\ j \notin E[i]
         /\ Placed([E EXCEPT ![i] = @ \cup {j}], H, D, A \cup {j})
<1> DEFINE F == [E EXCEPT ![i] = @ \cup {j}]
<1>1. /\ \A k \in Workers : j \notin E[k]
      /\ \A v \in Workers : H[v] # j
      /\ j \notin D
  BY DEF Placed
<1>2. F[i] = E[i] \cup {j} /\ \A k \in Workers \ {i} : F[k] = E[k]
  BY DEF Placed
<1>3. /\ F \in [Workers -> SUBSET (A \cup {j})] /\ H \in [Workers -> A \cup {j} \cup {NoJob}]
      /\ D \subseteq A \cup {j}
  BY DEF Placed
<1> HIDE DEF F
<1>4. /\ \A k \in Workers : F[k] \cap D = {}
      /\ \A k, l \in Workers : k # l => F[k] \cap F[l] = {}
  BY <1>1, <1>2 DEF Placed
<1>5. \A u, v \in Workers : u # v /\ H[u] = H[v] => H[u] = NoJob
  BY DEF Placed
<1>6. \A k, v \in Workers : H[v] \notin F[k]
  BY <1>1, <1>2 DEF Placed
<1>7. \A x \in (A \cup {j}) \ D :
        (\E k \in Workers : x \in F[k]) \/ (\E v \in Workers : H[v] = x)
  <2>1. ASSUME NEW x \in A \ D, NEW k \in Workers, x \in E[k]
        PROVE  x \in F[k]
    BY <1>2, <2>1
  <2>2. j \in F[i]
    BY <1>2
  <2>3. \A x \in (A \cup {j}) \ D : x \in A \ D \/ x = j
    OBVIOUS
  <2> QED BY <2>1, <2>2, <2>3, Zenon DEF Placed
<1> QED BY <1>1, <1>3, <1>4, <1>5, <1>6, <1>7 DEF Placed, F

\* it is done by the worker that has it,
LEMMA DonePlaced ==
  ASSUME NEW E, NEW H, NEW D, NEW A, Placed(E, H, D, A),
         NEW w \in Workers, H[w] # NoJob
  PROVE  Placed(E, H, D \cup {H[w]}, A)
<1>1. H[w] \in A /\ \A k \in Workers : H[w] \notin E[k]
  BY DEF Placed
<1>2. \A x \in A \ (D \cup {H[w]}) : x \in A \ D
  OBVIOUS
<1> QED BY <1>1, <1>2 DEF Placed

\* which forgets it.
LEMMA DropPlaced ==
  ASSUME NEW E, NEW H, NEW D, NEW A, Placed(E, H, D, A), NoJob \notin A,
         NEW w \in Workers, H[w] \in D
  PROVE  Placed(E, [H EXCEPT ![w] = NoJob], D, A)
<1> DEFINE G == [H EXCEPT ![w] = NoJob]
<1>1. G[w] = NoJob /\ \A v \in Workers \ {w} : G[v] = H[v]
  BY DEF Placed
<1>2. G \in [Workers -> A \cup {NoJob}]
  BY DEF Placed
<1> HIDE DEF G
<1>3. \A u, v \in Workers : u # v /\ G[u] = G[v] => G[u] = NoJob
  BY <1>1 DEF Placed
<1>4. \A k, v \in Workers : G[v] \notin E[k]
  BY <1>1 DEF Placed
<1>5. \A x \in A \ D : (\E k \in Workers : x \in E[k]) \/ (\E v \in Workers : G[v] = x)
  <2>1. ASSUME NEW x \in A \ D, NEW v \in Workers, H[v] = x
        PROVE  G[v] = x
    BY <1>1, <2>1
  <2> QED BY <2>1, Zenon DEF Placed
<1> QED BY <1>2, <1>3, <1>4, <1>5 DEF Placed, G

-----------------------------------------------------------------------------
(* What a step leaves as it is.                                            *)

Busy(w) == pc[w] = "execute" /\ phase[w] = "signalling"

\* A step of w does nothing to the jobs of the other workers.
OthersHold(w) ==
  \A v \in Workers \ {w} :
    /\ Quiet(v) /\ call'[v] = call[v]
    /\ hand'[v] = hand[v] /\ phase'[v] = phase[v]

LEMMA HoldingKept ==
  ASSUME NEW w \in Workers, OthersHold(w)
  PROVE  /\ \A v \in Workers \ {w} : Holding'[v] = Holding[v] /\ (Busy(v) => Busy(v)')
         /\ \A h : Holding'[w] = h => Holding' = [Holding EXCEPT ![w] = h]
<1>1. ASSUME NEW v \in Workers \ {w}
      PROVE  Holding'[v] = Holding[v] /\ (Busy(v) => Busy(v)')
  <2>1. /\ pc'[v] = "execute" <=> pc[v] = "execute"
        /\ popped'[v] = popped[v] /\ call'[v] = call[v]
        /\ hand'[v] = hand[v] /\ phase'[v] = phase[v]
    BY <1>1 DEF OthersHold, Quiet
  <2> QED BY <1>1, <2>1 DEF Holding, Busy
<1>2. ASSUME NEW h, Holding'[w] = h
      PROVE  Holding' = [Holding EXCEPT ![w] = h]
  <2>1. DOMAIN Holding = Workers
    BY DEF Holding
  <2>2. Holding' = [v \in Workers |-> Holding'[v]]
    BY DEF Holding
  <2> QED BY <1>1, <1>2, <2>1, <2>2
<1> QED BY <1>1, <1>2

\* The step makes no other difference than to what w has.
Holds(w, h) == OthersHold(w) /\ Holding'[w] = h

\* Nothing happens to the jobs,
LEMMA StayPlaced ==
  ASSUME NEW w \in Workers, Holds(w, Holding[w]), Busy(w) => Busy(w)',
         UNCHANGED <<Content, done, Added>>,
         Placed(Content, Holding, done, Added), FreshInv
  PROVE  (Placed(Content, Holding, done, Added) /\ FreshInv)'
<1>1. Holding' = Holding
  <2>1. Holding' = [Holding EXCEPT ![w] = Holding[w]]
    BY HoldingKept DEF Holds
  <2> QED BY <2>1 DEF Placed
<1>2. \A v \in Workers : Busy(v) => Busy(v)'
  BY HoldingKept DEF Holds
<1>3. FreshInv'
  BY <1>1, <1>2 DEF FreshInv, Busy
<1> QED BY <1>1, <1>3

\* or w takes one from a deque,
LEMMA TakeKeeps ==
  ASSUME NEW w \in Workers, NEW i \in Workers, NEW j \in Content[i], Holding[w] = NoJob,
         Holds(w, j), Content' = [Content EXCEPT ![i] = @ \ {j}], UNCHANGED <<done, Added>>,
         Placed(Content, Holding, done, Added), FreshInv, NoJob \notin Added
  PROVE  (Placed(Content, Holding, done, Added) /\ FreshInv)'
<1>1. Holding' = [Holding EXCEPT ![w] = j]
  BY HoldingKept DEF Holds
<1>2. Placed([Content EXCEPT ![i] = @ \ {j}], [Holding EXCEPT ![w] = j], done, Added)
  BY TakePlaced
<1>3. Placed(Content', Holding', done', Added')
  BY <1>1, <1>2
<1>4. j \notin done
  BY DEF Placed
<1>5. FreshInv'
  BY <1>4, HoldingKept DEF FreshInv, Busy, Holds
<1> QED BY <1>3, <1>5

\* or gives it back.
LEMMA GiveKeeps ==
  ASSUME NEW w \in Workers, NEW i \in Workers, NEW j, j = Holding[w], j # NoJob, ~Busy(w),
         Holds(w, NoJob), Content' = [Content EXCEPT ![i] = @ \cup {j}], UNCHANGED <<done, Added>>,
         Placed(Content, Holding, done, Added), FreshInv, NoJob \notin Added
  PROVE  (Placed(Content, Holding, done, Added) /\ FreshInv)'
<1>1. Holding' = [Holding EXCEPT ![w] = NoJob]
  BY HoldingKept DEF Holds
<1>2. j \notin done
  BY DEF FreshInv, Busy
<1>3. Placed([Content EXCEPT ![i] = @ \cup {j}], [Holding EXCEPT ![w] = NoJob], done, Added)
  BY <1>2, GivePlaced
<1>4. Placed(Content', Holding', done', Added')
  BY <1>1, <1>3
<1>5. NoJob \notin done
  BY DEF Placed
<1>6. FreshInv'
  BY <1>5, HoldingKept DEF FreshInv, Busy, Holds
<1> QED BY <1>4, <1>6

\* The deques stay as they are.
LEMMA IdleLocks ==
  ASSUME UNCHANGED dequeVars, LockInv
  PROVE  LockInv' /\ UNCHANGED entries /\ \A k \in Workers : Stored(k)' = Stored(k)
<1> USE DEF dequeVars
<1>1. \A k \in Workers : Stored(k)' = Stored(k)
  BY DEF Stored
<1>2. Exclusive'
  BY DEF LockInv, Exclusive, Locks
<1>3. HeldInv'
  BY DEF LockInv, HeldInv, StoreInv, FrontInv, BackInv
<1>4. BoundsInv'
  BY <1>1 DEF LockInv, BoundsInv
<1> QED BY <1>1, <1>2, <1>3, <1>4 DEF LockInv

\* The other workers and main_runner are not concerned in the step of a worker.
LEMMA WorkerAlone ==
  ASSUME ThreadsInv, Graph!TypeOK, TypeInv, NEW w \in Workers, WorkerNext(w)
  PROVE  OthersHold(w) /\ Added' = Added
<1>1. WorkerMove(w) \/ NoMove
  BY WorkerNextIsMove
<1>2. ASSUME NEW v \in Workers \ {w}
      PROVE  /\ Quiet(v) /\ call'[v] = call[v]
             /\ hand'[v] = hand[v] /\ phase'[v] = phase[v]
  <2>1. Quiet(v)
    BY <1>1, <1>2, WorkerMoveQuiet, OtherMoveQuiet
  <2>2. call'[v] = call[v]
    BY <1>2, WorkerNextIsOp, OpMoves, UsersFacts DEF dequeVars
  <2>3. hand'[v] = hand[v] /\ phase'[v] = phase[v]
    BY <1>2, WorkerJobMove, JobMoveHands
  <2> QED BY <2>1, <2>2, <2>3
<1>3. UNCHANGED mainVars
  BY <1>1, WorkerMoveFrame DEF NoMove
<1>4. Added' = Added
  BY <1>3 DEF mainVars, Added, AddedCount
<1> QED BY <1>2, <1>4 DEF OthersHold

-----------------------------------------------------------------------------
(* The steps of a worker.                                                  *)

\* The job is taken by PopFrontSwap or PopBackEnd.
LEMMA QuietTakesNothing ==
  ASSUME TypeInv, NEW t \in Users, QuietOp(t), call[t].step # "frontlast"
  PROVE  call[t].step \notin TakenSteps /\ call'[t].step \notin TakenSteps
<1> USE DEF TakenSteps
<1>1. ASSUME Ends(t)
      PROVE  call'[t].step = "none"
  BY <1>1, EndTells
<1>2. ASSUME NEW i \in Workers, Deque!ScanBegin(t, i)
      PROVE  call[t].step = "none" /\ call'[t].step = "scanfront"
  BY <1>2, ScanOps, Zenon DEF Moves, Locals
<1>3. ASSUME NEW i \in Workers, Deque!SizeBegin(t, i)
      PROVE  call[t].step = "none" /\ call'[t].step = "size"
  BY <1>3, SizeOps, Zenon DEF Moves, Locals
<1>4. ASSUME NEW i \in Workers, Deque!PopBackBegin(t, i)
      PROVE  call[t].step = "none" /\ call'[t].step = "backfront"
  BY <1>4, PopBackOps, Zenon DEF Moves, Locals
<1>5. ASSUME NEW i \in Workers, NEW o \in BOOLEAN, Deque!PopFrontBegin(t, i, o)
      PROVE  call[t].step = "none" /\ call'[t].step = "frontback"
  <2>1. call[t].step = "none" /\ Moves(t, "frontback", i, front[i], 0, NoJob, o)
    BY <1>5, PopFrontOps, Zenon
  <2> QED BY <2>1 DEF Moves, Locals
<1>6. CASE Deque!ScanOn(t)
  <2>1. call[t].step \in ScanSteps /\ call'[t].step = "scan"
    BY <1>6, ScanOps, Zenon DEF Moves, Locals
  <2> QED BY <2>1 DEF ScanSteps
<1>7. CASE (\E found : Deque!ScanEnd(t, found)) \/ Deque!SizeEnd(t)
  BY <1>1, <1>7, ScanOps, SizeOps DEF ScanSteps
<1>8. CASE Deque!PopFrontOn(t) \/ Deque!PopFrontTest(t)
  <2>1. /\ call[t].step \in {"frontback", "frontentry", "fronttest"}
        /\ \/ call'[t].step \in {"frontentry", "frontswap"}
           \/ call'[t].step = (IF call[t].open THEN "frontswap" ELSE "fronttest")
    BY <1>8, PopFrontOps DEF Moves, Locals
  <2> QED BY <2>1
<1>9. CASE Deque!PopFrontNone(t) \/ Deque!PopFrontLost(t)
  BY <1>1, <1>9, PopFrontOps
<1>10. CASE Deque!PopBackOn(t) \/ Deque!PopBackTest(t)
  <2>1. /\ call[t].step \in {"backfront", "backentry", "backtest"}
        /\ call'[t].step \in {"backentry", "backtest", "backswap"}
    BY <1>10, PopBackOps DEF Moves, Locals
  <2> QED BY <2>1
<1>11. CASE Deque!PopBackNone(t) \/ Deque!PopBackLost(t)
  BY <1>1, <1>11, PopBackOps
<1>12. call[t].step = "none" => call[t].step \notin TakenSteps
  OBVIOUS
<1> QED BY <1>2, <1>3, <1>4, <1>5, <1>6, <1>7, <1>8, <1>9, <1>10, <1>11 DEF QuietOp

LEMMA HoldingSame ==
  ASSUME NEW w \in Workers, call[w].step \notin TakenSteps, call'[w].step \notin TakenSteps,
         popped'[w] = popped[w], pc[w] # "execute", pc'[w] # "execute"
  PROVE  Holding'[w] = Holding[w]
BY DEF Holding

\* A step of w that moves no job.
LEMMA StillKeeps ==
  ASSUME ExtraLocks, IInv, LockInv, PlaceInv, NEW w \in Workers, WorkerNext(w),
         \/ UNCHANGED dequeVars
         \/ QuietOp(w)
         \/ \E i \in Workers, j \in Jobs : Deque!PushBackBegin(w, i, j)
         \/ call[w].step = "resetback" /\ Deque!PopFrontReset(w)
         \/ call[w].step = "resetfront" /\ \E j : Deque!PopFrontEnd(w, j),
         Holding'[w] = Holding[w], Busy(w) => Busy(w)', UNCHANGED done
  PROVE  LockInv' /\ PlaceInv'
<1> USE DEF IInv
<1>1. OthersHold(w) /\ Added' = Added
  BY WorkerAlone, JobsFacts
<1>2. w \in Users /\ \A u \in Users \ {w} : call'[u] = call[u]
  BY WorkerNextIsOp, OpMoves, UsersFacts DEF dequeVars
<1>3. LockInv' /\ UNCHANGED entries /\ \A k \in Workers : Stored(k)' = Stored(k)
  BY <1>2, IdleLocks, QuietKeeps, PushBegins, ResetKeeps, Zenon
<1>4. Content' = Content /\ Distinct'
  BY <1>3, ContentSame DEF PlaceInv
<1>5. (Placed(Content, Holding, done, Added) /\ FreshInv)'
  BY <1>1, <1>4, StayPlaced DEF PlaceInv, Holds
<1> QED BY <1>3, <1>4, <1>5 DEF PlaceInv

\* A step of w that takes a job from a deque.
LEMMA TakingKeeps ==
  ASSUME ExtraLocks, IInv, LockInv, PlaceInv, NEW w \in Workers, WorkerNext(w),
         NEW j, j = call[w].job, Deque!PopFrontSwap(w) \/ Deque!PopBackEnd(w, j),
         Holding[w] = NoJob, Holding'[w] = j, UNCHANGED done
  PROVE  LockInv' /\ PlaceInv'
<1> USE DEF IInv
<1>1. OthersHold(w) /\ Added' = Added
  BY WorkerAlone, JobsFacts
<1>2. PICK i \in Workers : i = call[w].deque
  BY CallType, UsersFacts
<1>3. PICK n \in Stored(i) :
        /\ LockInv' /\ UNCHANGED entries
        /\ j = entries[i][n] /\ Stored(i)' = Stored(i) \ {n}
        /\ \A k \in Workers \ {i} : Stored(k)' = Stored(k)
  <2>1. CASE Deque!PopFrontSwap(w)
    <3> DEFINE n == front[i]
    <3>1. /\ LockInv' /\ UNCHANGED entries
          /\ n \in Stored(i) /\ j = entries[i][n] /\ Stored(i)' = Stored(i) \ {n}
          /\ \A k \in Workers \ {i} : Stored(k)' = Stored(k)
      <4>1. PICK m : m = front[i]
        OBVIOUS
      <4>2. /\ LockInv' /\ UNCHANGED entries
            /\ m \in Stored(i) /\ j = entries[i][m] /\ Stored(i)' = Stored(i) \ {m}
            /\ \A k \in Workers \ {i} : Stored(k)' = Stored(k)
        BY <1>2, <2>1, <4>1, FrontTaken, UsersFacts
      <4> QED BY <4>1, <4>2
    <3> QED BY <3>1
  <2>2. CASE Deque!PopBackEnd(w, j)
    <3>1. PICK m : m = back[i] - 1
      OBVIOUS
    <3>2. /\ LockInv' /\ UNCHANGED entries
          /\ m \in Stored(i) /\ j = entries[i][m] /\ Stored(i)' = Stored(i) \ {m}
          /\ \A k \in Workers \ {i} : Stored(k)' = Stored(k)
      BY <1>2, <2>2, <3>1, BackTaken, UsersFacts
    <3> QED BY <3>2
  <2> QED BY <2>1, <2>2
<1>4. j \in Content[i] /\ Content' = [Content EXCEPT ![i] = @ \ {j}] /\ Distinct'
  BY <1>3, ContentLoses DEF PlaceInv
<1>5. NoJob \notin Added
  BY AddedIsCreated, NoJobAssumption DEF ThreadsInv
<1>6. (Placed(Content, Holding, done, Added) /\ FreshInv)'
  BY <1>1, <1>4, <1>5, TakeKeeps DEF PlaceInv, Holds
<1> QED BY <1>3, <1>4, <1>6 DEF PlaceInv

LEMMA LookKeepsPlaces ==
  ASSUME ExtraLocks, IInv, LockInv, PlaceInv, NEW w \in Workers,
         ControlStep(w) \/ ScanStep(w) \/ SizeStep(w)
  PROVE  LockInv' /\ PlaceInv'
<1> USE DEF IInv
<1>0. w \in Users /\ WorkerCall(w) /\ WorkerNext(w)
  BY UsersFacts DEF CallsInv, WorkerNext
<1>1. UNCHANGED <<popped, done>>
  BY DEF ControlStep, Loop, LockAwake, Sleep, WakeNotify, Announce, NothingToSteal, Retire,
     ScanStep, SizeStep, Inside, Check, WakeUp, TestCondition, ReadSize, ReadSizeAgain,
     workerVars, graphVars
<1>2. CASE ControlStep(w)
  <2>1. UNCHANGED dequeVars /\ hand' = hand
    BY <1>2 DEF ControlStep, graphVars
  <2>2. pc[w] # "execute" /\ pc'[w] # "execute"
    BY <1>2 DEF ControlStep, Loop, LockAwake, Sleep, WakeNotify, Announce, NothingToSteal,
         Retire, Goto, Awakened, AfterTarget, ThreadsInv, WorkerInv
  <2>3. Holding'[w] = Holding[w]
    BY <1>1, <2>1, <2>2 DEF Holding, dequeVars
  <2> QED BY <1>0, <1>1, <2>1, <2>2, <2>3, StillKeeps DEF Busy
<1>3. CASE ScanStep(w)
  <2>1. pc[w] \in {"check", "testing", "wake"}
    BY <1>0, <1>3, ScanOps
       DEF ScanStep, Inside, WorkerCall, Check, WakeUp, TestCondition
  <2>2. pc'[w] # "execute"
    BY <1>3, <2>1 DEF ScanStep, Inside, workerVars, Check, WakeUp, TestCondition, Goto,
         AfterTarget, ThreadsInv, WorkerInv
  <2>3. QuietOp(w)
    <3>1. \/ \E i \in Workers : Deque!ScanBegin(w, i)
          \/ Deque!ScanOn(w) \/ \E found : Deque!ScanEnd(w, found)
      BY <1>3, ArgumentTypes DEF ScanStep, Inside
    <3> QED BY <3>1, Zenon DEF QuietOp
  <2>4. call[w].step # "frontlast"
    BY <1>0, <2>1 DEF WorkerCall, FrontSteps, TakenSteps
  <2>5. Holding'[w] = Holding[w]
    BY <1>0, <1>1, <2>1, <2>2, <2>3, <2>4, QuietTakesNothing, HoldingSame
  <2> QED BY <1>0, <1>1, <2>1, <2>3, <2>5, StillKeeps DEF Busy
<1>4. CASE SizeStep(w)
  <2>1. pc[w] \in {"size", "resize"}
    BY <1>4 DEF SizeStep, ReadSize, ReadSizeAgain
  <2>2. pc'[w] # "execute"
    BY <1>4, <2>1 DEF SizeStep, Inside, workerVars, ReadSize, ReadSizeAgain, Goto, ThreadsInv,
         WorkerInv
  <2>3. QuietOp(w)
    <3>1. (\E i \in Workers : Deque!SizeBegin(w, i)) \/ Deque!SizeEnd(w)
      BY <1>4 DEF SizeStep, Inside
    <3> QED BY <3>1, Zenon DEF QuietOp
  <2>4. call[w].step # "frontlast"
    BY <1>0, <2>1 DEF WorkerCall, FrontSteps, TakenSteps
  <2>5. Holding'[w] = Holding[w]
    BY <1>0, <1>1, <2>1, <2>2, <2>3, <2>4, QuietTakesNothing, HoldingSame
  <2> QED BY <1>0, <1>1, <2>1, <2>3, <2>5, StillKeeps DEF Busy
<1> QED BY <1>2, <1>3, <1>4

\* PopFront of its own deque.
LEMMA PopKeepsPlaces ==
  ASSUME ExtraLocks, IInv, LockInv, PlaceInv, NEW w \in Workers, PopStep(w)
  PROVE  LockInv' /\ PlaceInv'
<1> USE DEF IInv
<1>0. /\ w \in Users /\ WorkerCall(w) /\ WorkerNext(w) /\ Hand(w) /\ Known(w)
      /\ allowOpen[w] \in BOOLEAN /\ FALSE \in BOOLEAN /\ NoJob \notin Jobs
  BY UsersFacts, ArgumentTypes, NoJobAssumption DEF CallsInv, WorkerNext, HandInv, KnownInv
<1>1. done' = done
  BY DEF PopStep, Inside, graphVars, ClaimInside, GiveUp, Graph!Claim, Graph!Abandon,
     Graph!jobVars
<1>2. pc[w] \in {"popfront", "repop"} /\ popped[w] = NoJob
  <2>1. \/ pc[w] \in {"popfront", "repop"}
        \/ call[w].step \in FrontSteps
    BY <1>0, PopFrontOps DEF PopStep, Inside, FrontSteps, ReadFrontSteps, TakenSteps, PopAnswer,
       PopOwn, PopOwnAgain
  <2> QED BY <1>0, <2>1 DEF WorkerCall, ThreadsInv, WorkerInv
<1>3. ASSUME QuietOp(w), call[w].step # "frontlast", popped'[w] = NoJob, pc'[w] # "execute"
      PROVE  LockInv' /\ PlaceInv'
  <2>1. Holding'[w] = Holding[w]
    BY <1>0, <1>2, <1>3, QuietTakesNothing, HoldingSame
  <2> QED BY <1>0, <1>1, <1>2, <1>3, <2>1, StillKeeps DEF Busy
<1>4. ASSUME UNCHANGED workerVars
      PROVE  popped'[w] = NoJob /\ pc'[w] # "execute"
  BY <1>2, <1>4 DEF workerVars
<1>5. ASSUME NEW o \in BOOLEAN, Inside(Deque!PopFrontBegin(w, w, o))
      PROVE  LockInv' /\ PlaceInv'
  <2>1. QuietOp(w) /\ UNCHANGED workerVars
    BY <1>5, Zenon DEF QuietOp, Inside
  <2>2. call[w].step = "none"
    BY <1>0, <1>5, PopFrontOps, Zenon DEF Inside
  <2> QED BY <1>3, <1>4, <2>1, <2>2
<1>6. CASE Inside(Deque!PopFrontOn(w))
  <2>1. QuietOp(w) /\ UNCHANGED workerVars
    BY <1>6, Zenon DEF QuietOp, Inside
  <2>2. call[w].step \in {"frontback", "frontentry"}
    BY <1>0, <1>6, PopFrontOps DEF Inside
  <2> QED BY <1>3, <1>4, <2>1, <2>2
<1>7. CASE Inside(Deque!PopFrontSwap(w))
  <2>1. /\ Deque!PopFrontSwap(w) /\ call[w].step = "frontswap" /\ UNCHANGED workerVars
        /\ call'[w].step = "frontlast" /\ call'[w].job = call[w].job
    BY <1>0, <1>7, PopFrontOps, Zenon DEF Inside, Moves, Locals
  <2>2. Holding[w] = NoJob
    BY <1>2, <2>1 DEF Holding, TakenSteps
  <2>3. Holding'[w] = call[w].job
    BY <2>1 DEF Holding, TakenSteps
  <2> QED BY <1>0, <1>1, <2>1, <2>2, <2>3, TakingKeeps
<1>8. CASE Inside(Deque!PopFrontReset(w))
  <2>1. /\ Deque!PopFrontReset(w) /\ call[w].step \in {"frontlast", "resetback"}
        /\ call'[w].step \in {"resetback", "resetfront"} /\ call'[w].job = call[w].job
    <3>1. Deque!PopFrontReset(w)
      BY <1>8 DEF Inside
    <3> QED BY <1>0, <3>1, PopFrontOps DEF Moves, Locals
  <2>2. QuietOp(w) \/ (call[w].step = "resetback" /\ Deque!PopFrontReset(w))
    BY <2>1, Zenon DEF QuietOp
  <2>3. Holding'[w] = Holding[w]
    BY <2>1 DEF Holding, TakenSteps
  <2> QED BY <1>0, <1>1, <1>2, <2>2, <2>3, StillKeeps DEF Busy
<1>9. CASE Deque!PopFrontTest(w) /\ UNCHANGED workerVars
  <2>1. QuietOp(w)
    BY <1>9, Zenon DEF QuietOp
  <2>2. call[w].step = "fronttest"
    BY <1>0, <1>9, PopFrontOps
  <2> QED BY <1>3, <1>4, <1>9, <2>1, <2>2
<1>10. ASSUME NEW j \in Jobs, Deque!PopFrontEnd(w, j), PopAnswer(w, j), UNCHANGED graphVars
       PROVE  LockInv' /\ PlaceInv'
  <2>1. /\ call[w].step \in {"frontlast", "resetfront"} /\ j = call[w].job
        /\ call'[w].step = "none"
    BY <1>0, <1>10, PopFrontOps, EndTells
  <2>2. QuietOp(w) \/ (call[w].step = "resetfront" /\ \E k : Deque!PopFrontEnd(w, k))
    BY <1>10, <2>1, Zenon DEF QuietOp
  <2>3. Holding[w] = j
    BY <2>1 DEF Holding, TakenSteps
  <2>4. Holding'[w] = j
    <3>1. CASE PopOwn(w, j)
      <4>1. popped'[w] = j
        BY <3>1 DEF PopOwn, ThreadsInv, WorkerInv
      <4> QED BY <1>0, <2>1, <4>1 DEF Holding, TakenSteps
    <3>2. CASE PopOwnAgain(w, j)
      <4>1. pc[w] = "repop" /\ pc'[w] = "execute" /\ popped'[w] = NoJob
        BY <1>0, <1>2, <3>2 DEF PopOwnAgain, Goto, ThreadsInv, WorkerInv
      <4>2. hand'[w] = j
        BY <1>0, <1>10, <2>1, <4>1 DEF Hand, Claiming, TakenSteps, graphVars
      <4> QED BY <2>1, <4>1, <4>2 DEF Holding, TakenSteps
    <3> QED BY <1>10, <3>1, <3>2 DEF PopAnswer
  <2> QED BY <1>0, <1>1, <1>2, <2>2, <2>3, <2>4, StillKeeps DEF Busy
<1>11. CASE (Deque!PopFrontNone(w) \/ Deque!PopFrontLost(w)) /\ PopAnswer(w, NoJob)
  <2>1. QuietOp(w)
    BY <1>11, Zenon DEF QuietOp
  <2>2. call[w].step # "frontlast"
    BY <1>0, <1>11, PopFrontOps
  <2>3. popped'[w] = NoJob /\ pc'[w] # "execute"
    BY <1>2, <1>11 DEF PopAnswer, PopOwn, PopOwnAgain, Goto, ThreadsInv, WorkerInv
  <2> QED BY <1>3, <2>1, <2>2, <2>3
<1>12. PopStep(w) =>
         \/ \E o \in BOOLEAN : Inside(Deque!PopFrontBegin(w, w, o))
         \/ Inside(Deque!PopFrontOn(w)) \/ Inside(Deque!PopFrontSwap(w))
         \/ Inside(Deque!PopFrontReset(w))
         \/ Deque!PopFrontTest(w) /\ UNCHANGED workerVars
         \/ \E j \in Jobs : Deque!PopFrontEnd(w, j) /\ PopAnswer(w, j) /\ UNCHANGED graphVars
         \/ (Deque!PopFrontNone(w) \/ Deque!PopFrontLost(w)) /\ PopAnswer(w, NoJob)
  BY <1>0, Zenon DEF PopStep, Inside
<1> QED BY <1>5, <1>6, <1>7, <1>8, <1>9, <1>10, <1>11, <1>12, Zenon

\* PopBack of another worker's.
LEMMA StealKeepsPlaces ==
  ASSUME ExtraLocks, IInv, LockInv, PlaceInv, NEW w \in Workers, StealStep(w)
  PROVE  LockInv' /\ PlaceInv'
<1> USE DEF IInv
<1>0. /\ w \in Users /\ WorkerCall(w) /\ WorkerNext(w) /\ Hand(w) /\ Known(w)
      /\ NoJob \notin Jobs
  BY UsersFacts, NoJobAssumption DEF CallsInv, WorkerNext, HandInv, KnownInv
<1>1. done' = done
  BY DEF StealStep, Inside, graphVars, ClaimInside, GiveUp, Graph!Claim, Graph!Abandon,
     Graph!jobVars
<1>2. pc[w] = "steal" /\ popped[w] = NoJob /\ call[w].step \notin TakenSteps
  <2>1. pc[w] = "steal" \/ call[w].step \in BackSteps
    BY <1>0, PopBackOps DEF StealStep, Inside, BackSteps, Steal
  <2> QED BY <1>0, <2>1
      DEF WorkerCall, ThreadsInv, WorkerInv, FrontSteps, TakenSteps, BackSteps
<1>3. ASSUME QuietOp(w), popped'[w] = NoJob, pc'[w] # "execute"
      PROVE  LockInv' /\ PlaceInv'
  <2>1. Holding'[w] = Holding[w]
    BY <1>0, <1>2, <1>3, QuietTakesNothing, HoldingSame DEF TakenSteps
  <2> QED BY <1>0, <1>1, <1>2, <1>3, <2>1, StillKeeps DEF Busy
<1>4. ASSUME UNCHANGED workerVars
      PROVE  popped'[w] = NoJob /\ pc'[w] # "execute"
  BY <1>2, <1>4 DEF workerVars
<1>5. CASE (\E i \in Workers : Deque!PopBackBegin(w, i)) /\ UNCHANGED workerVars
  <2>1. QuietOp(w)
    BY <1>5, Zenon DEF QuietOp
  <2> QED BY <1>3, <1>4, <1>5, <2>1
<1>6. CASE (Deque!PopBackOn(w) \/ Deque!PopBackTest(w)) /\ UNCHANGED workerVars
  <2>1. QuietOp(w)
    BY <1>6, Zenon DEF QuietOp
  <2> QED BY <1>3, <1>4, <1>6, <2>1
<1>7. ASSUME NEW j \in Jobs, Deque!PopBackEnd(w, j), Steal(w, j), UNCHANGED graphVars
      PROVE  LockInv' /\ PlaceInv'
  <2>1. call[w].step = "backswap" /\ j = call[w].job /\ call'[w].step = "none"
    BY <1>0, <1>7, PopBackOps, EndTells
  <2>2. pc'[w] = "execute" /\ popped'[w] = NoJob
    BY <1>0, <1>2, <1>7 DEF Steal, Goto, ThreadsInv, WorkerInv
  <2>3. hand'[w] = j
    BY <1>0, <1>2, <1>7, <2>1 DEF Hand, Claiming, graphVars
  <2>4. Holding[w] = NoJob
    BY <1>2 DEF Holding
  <2>5. Holding'[w] = j
    BY <2>1, <2>2, <2>3 DEF Holding, TakenSteps
  <2> QED BY <1>0, <1>1, <1>7, <2>1, <2>4, <2>5, TakingKeeps
<1>8. CASE (Deque!PopBackNone(w) \/ Deque!PopBackLost(w)) /\ Steal(w, NoJob)
  <2>1. QuietOp(w)
    BY <1>8, Zenon DEF QuietOp
  <2>2. popped'[w] = NoJob /\ pc'[w] # "execute"
    BY <1>2, <1>8 DEF Steal, Goto, ThreadsInv, WorkerInv
  <2> QED BY <1>3, <2>1, <2>2
<1>9. StealStep(w) =>
        \/ (\E i \in Workers : Deque!PopBackBegin(w, i)) /\ UNCHANGED workerVars
        \/ (Deque!PopBackOn(w) \/ Deque!PopBackTest(w)) /\ UNCHANGED workerVars
        \/ \E j \in Jobs : Deque!PopBackEnd(w, j) /\ Steal(w, j) /\ UNCHANGED graphVars
        \/ (Deque!PopBackNone(w) \/ Deque!PopBackLost(w)) /\ Steal(w, NoJob)
  <2>1. ASSUME NEW i \in Workers \ {w}, Inside(Deque!PopBackBegin(w, i))
        PROVE  (\E k \in Workers : Deque!PopBackBegin(w, k)) /\ UNCHANGED workerVars
    BY <2>1 DEF Inside
  <2> QED BY <2>1, Zenon DEF StealStep, Inside
<1> QED BY <1>5, <1>6, <1>7, <1>8, <1>9, Zenon

\* PushBack of the job that is put back.
LEMMA PutBackKeepsPlaces ==
  ASSUME ExtraLocks, IInv, LockInv, PlaceInv, NEW w \in Workers, PushBackStep(w)
  PROVE  LockInv' /\ PlaceInv'
<1> USE DEF IInv
<1>0. /\ w \in Users /\ WorkerCall(w) /\ WorkerNext(w)
      /\ NoJob \notin Added /\ NoJob \notin Jobs
  BY UsersFacts, NoJobAssumption, AddedIsCreated DEF CallsInv, WorkerNext, ThreadsInv
<1>1. UNCHANGED <<done, hand>>
  BY DEF PushBackStep, Inside, graphVars
<1>2. pc[w] = "pushback" /\ popped[w] \in Jobs /\ call[w].step \notin TakenSteps
  <2>1. pc[w] = "pushback"
    BY DEF PushBackStep, PutBack
  <2> QED BY <1>0, <2>1 DEF WorkerCall, FrontSteps, TakenSteps, ThreadsInv, WorkerInv
<1>3. Holding[w] = popped[w] /\ ~Busy(w)
  BY <1>0, <1>2 DEF Holding, Busy
<1>4. CASE Inside(Deque!PushBackBegin(w, w, popped[w]))
  <2>1. PICK j \in Jobs : j = popped[w]
    BY <1>2
  <2>2. Deque!PushBackBegin(w, w, j) /\ UNCHANGED workerVars
    BY <1>4, <2>1 DEF Inside
  <2>3. Moves(w, "store", w, 0, back[w], j, FALSE)
    BY <1>0, <2>2, PushBackOps, Zenon
  <2>4. call'[w].step = "store"
    BY <2>3 DEF Moves, Locals
  <2>5. Holding'[w] = Holding[w]
    BY <1>1, <1>2, <1>3, <2>2, <2>4 DEF Holding, TakenSteps, workerVars
  <2> QED BY <1>0, <1>1, <1>3, <2>2, <2>5, StillKeeps
<1>5. CASE Deque!PushBackEnd(w) /\ PutBack(w)
  <2>1. PICK i \in Workers, b \in Nat, j \in Jobs \cup {NoJob} :
              i = call[w].deque /\ b = call[w].back /\ j = call[w].job
    BY <1>0, CallType
  <2>2. call[w].step = "store" /\ call'[w].step = "none"
    BY <1>0, <1>5, PushBackOps, EndTells
  <2>3. j = Holding[w] /\ j # NoJob
    BY <1>0, <1>2, <1>3, <2>1, <2>2 DEF WorkerCall
  <2>4. /\ LockInv' /\ b \in Deque!Slots /\ b \notin Stored(i) /\ Stored(i)' = Stored(i) \cup {b}
        /\ \A k \in Workers \ {i} : Stored(k)' = Stored(k)
        /\ entries' = [entries EXCEPT ![i][b] = j]
    BY <1>0, <1>5, <2>1, PushEnds
  <2>5. j \notin Content[i]
    BY <2>3 DEF PlaceInv, Placed
  <2>6. Content' = [Content EXCEPT ![i] = @ \cup {j}] /\ Distinct'
    BY <2>4, <2>5, ContentGains DEF PlaceInv
  <2>7. Holding'[w] = NoJob
    <3>1. popped'[w] = NoJob /\ pc'[w] # "execute"
      BY <1>5 DEF PutBack, Goto, ThreadsInv, WorkerInv
    <3> QED BY <2>2, <3>1 DEF Holding, TakenSteps
  <2>8. OthersHold(w) /\ Added' = Added
    BY <1>0, WorkerAlone, JobsFacts
  <2>9. (Placed(Content, Holding, done, Added) /\ FreshInv)'
    BY <1>0, <1>1, <1>3, <2>3, <2>6, <2>7, <2>8, GiveKeeps DEF PlaceInv, Holds
  <2> QED BY <2>4, <2>6, <2>9 DEF PlaceInv
<1> QED BY <1>4, <1>5 DEF PushBackStep

\* What a worker does with its job.
LEMMA JobKeepsPlaces ==
  ASSUME ExtraLocks, IInv, LockInv, PlaceInv, NEW w \in Workers, JobStep(w)
  PROVE  LockInv' /\ PlaceInv'
<1> USE DEF IInv
<1>0. /\ w \in Users /\ WorkerNext(w) /\ UNCHANGED dequeVars
      /\ call[w].step = "none" /\ call' = call
      /\ NoJob \notin Added /\ NoJob \notin Jobs /\ Graph!TypeOK
  BY UsersFacts, NoJobAssumption, AddedIsCreated, NotCalling, JobsFacts
     DEF WorkerNext, JobStep, Recheck, Execute, Executed, dequeVars, ThreadsInv
<1>1. OthersHold(w) /\ Added' = Added
  BY <1>0, WorkerAlone
<1>2. Content' = Content /\ Distinct' /\ LockInv'
  BY <1>0, IdleLocks, ContentSame DEF PlaceInv
<1>3. pc[w] = "execute" => Holding[w] = hand[w]
  BY <1>0 DEF Holding, TakenSteps, ThreadsInv, WorkerInv
<1>4. CASE Recheck(w)
  <2>1. pc[w] = "recheck" /\ popped[w] # NoJob /\ Holding[w] = popped[w] /\ UNCHANGED done
    BY <1>0, <1>4 DEF Recheck, ThreadsInv, WorkerInv, Holding, TakenSteps, Graph!Claim,
         Graph!jobVars, graphVars
  <2>2. Holding'[w] = Holding[w]
    <3>1. CASE Graph!Claim(w, popped[w]) /\ popped' = [popped EXCEPT ![w] = NoJob]
               /\ Goto(w, "execute")
      <4>1. hand'[w] = popped[w] /\ popped'[w] = NoJob /\ pc'[w] = "execute"
        BY <1>0, <3>1 DEF Graph!Claim, Goto, ThreadsInv, WorkerInv, Graph!TypeOK
      <4> QED BY <1>0, <2>1, <4>1 DEF Holding, TakenSteps
    <3>2. CASE popped' = popped
      BY <1>0, <2>1, <3>2 DEF Holding, TakenSteps
    <3> QED BY <1>4, <3>1, <3>2 DEF Recheck
  <2> QED BY <1>0, <2>1, <2>2, StillKeeps DEF Busy
<1>5. ASSUME Execute(w), UNCHANGED done, UNCHANGED hand, phase'[w] = phase[w] \/ ~Busy(w)
      PROVE  LockInv' /\ PlaceInv'
  <2>1. UNCHANGED workerVars
    BY <1>5 DEF Execute
  <2>2. Holding'[w] = Holding[w]
    BY <1>0, <1>5, <2>1 DEF Holding, workerVars
  <2> QED BY <1>0, <1>5, <2>1, <2>2, StillKeeps DEF Busy, workerVars
<1>6. CASE Execute(w) /\ Graph!Start(w)
  BY <1>5, <1>6 DEF Graph!Start, Graph!jobVars, Busy
<1>7. ASSUME Execute(w), NEW d \in Jobs, Graph!Signal(w, d)
      PROVE  LockInv' /\ PlaceInv'
  BY <1>5, <1>7 DEF Graph!Signal
<1>8. CASE Execute(w) /\ Graph!Finish(w)
  <2>1. /\ hand[w] # NoJob /\ hand' = hand /\ done' = done \cup {hand[w]}
        /\ phase'[w] = "signalling" /\ pc[w] = "execute" /\ UNCHANGED workerVars
    BY <1>0, <1>8 DEF Graph!Finish, Execute, Graph!TypeOK
  <2>2. Holding'[w] = Holding[w]
    BY <1>0, <2>1 DEF Holding, workerVars
  <2>3. Holding' = Holding
    <3>1. Holding' = [Holding EXCEPT ![w] = Holding[w]]
      BY <1>1, <2>2, HoldingKept
    <3> QED BY <3>1 DEF PlaceInv, Placed
  <2>4. Placed(Content, Holding, done \cup {hand[w]}, Added)
    BY <1>3, <2>1, DonePlaced DEF PlaceInv
  <2>5. Placed(Content', Holding', done', Added')
    BY <1>1, <1>2, <2>1, <2>3, <2>4
  <2>6. FreshInv'
    <3>1. ASSUME NEW v \in Workers \ {w}, Holding[v] \in done \cup {hand[w]}
          PROVE  Busy(v)
      <4>1. Holding[v] # hand[w]
        BY <1>3, <2>1 DEF PlaceInv, Placed
      <4> QED BY <3>1, <4>1 DEF PlaceInv, FreshInv, Busy
    <3>2. \A v \in Workers \ {w} : Busy(v) => Busy(v)'
      BY <1>1, HoldingKept
    <3>3. Busy(w)'
      BY <2>1 DEF Busy, workerVars
    <3> QED BY <2>1, <2>3, <3>1, <3>2, <3>3 DEF FreshInv, Busy
  <2> QED BY <1>2, <2>5, <2>6 DEF PlaceInv
<1>9. CASE Executed(w)
  <2>1. /\ pc[w] = "execute" /\ hand[w] \in done /\ done' = done
        /\ popped'[w] = NoJob /\ pc'[w] = "retire"
    BY <1>9, JobsFacts
       DEF Executed, Graph!Return, Graph!jobVars, Goto, ThreadsInv, WorkerInv
  <2>2. Holding'[w] = NoJob
    BY <1>0, <2>1 DEF Holding, TakenSteps
  <2>3. Holding' = [Holding EXCEPT ![w] = NoJob]
    BY <1>1, <2>2, HoldingKept
  <2>4. Placed(Content, [Holding EXCEPT ![w] = NoJob], done, Added)
    BY <1>0, <1>3, <2>1, DropPlaced DEF PlaceInv
  <2>5. Placed(Content', Holding', done', Added')
    BY <1>1, <1>2, <2>1, <2>3, <2>4
  <2>6. NoJob \notin done
    BY <1>0 DEF PlaceInv, Placed
  <2>7. FreshInv'
    BY <1>1, <2>1, <2>2, <2>6, HoldingKept DEF PlaceInv, FreshInv, Busy
  <2> QED BY <1>2, <2>5, <2>7 DEF PlaceInv
<1> QED BY <1>4, <1>6, <1>7, <1>8, <1>9 DEF JobStep, Execute

-----------------------------------------------------------------------------
(* The other steps.                                                        *)

\* No worker does anything and no job is added.
LEMMA OtherKeepsPlaces ==
  ASSUME PlaceInv, \A v \in Workers : Quiet(v) /\ call'[v] = call[v],
         UNCHANGED <<hand, phase, done, Added, Content>>, Distinct'
  PROVE  PlaceInv'
<1>1. ASSUME NEW v \in Workers
      PROVE  OthersHold(v) /\ Holding'[v] = Holding[v] /\ (Busy(v) => Busy(v)')
  <2>1. OthersHold(v)
    BY DEF OthersHold
  <2>2. /\ pc'[v] = "execute" <=> pc[v] = "execute"
        /\ popped'[v] = popped[v] /\ call'[v] = call[v]
        /\ hand'[v] = hand[v] /\ phase'[v] = phase[v]
    BY DEF Quiet
  <2> QED BY <2>1, <2>2 DEF Holding, Busy
<1>2. 0 \in Workers
  BY NumWorkersFacts
<1>3. (Placed(Content, Holding, done, Added) /\ FreshInv)'
  BY <1>1, <1>2, StayPlaced DEF PlaceInv, Holds
<1> QED BY <1>3 DEF PlaceInv

LEMMA MainKeepsPlaces ==
  ASSUME ExtraLocks, IInv, LockInv, PlaceInv, MainNext, ~DeleteJobs
  PROVE  LockInv' /\ PlaceInv'
<1> USE DEF IInv
<1>0. /\ Main \in Users /\ (MainMove \/ NoMove) /\ Graph!TypeOK
      /\ \A v \in Workers : Quiet(v) /\ call'[v] = call[v]
      /\ \A u \in Users \ {Main} : call'[u] = call[u]
  BY UsersFacts, MainNextIsMove, OtherMoveQuiet, JobsFacts, StepIsOp, OpMoves
     DEF Next, dequeVars
<1>1. UNCHANGED <<hand, phase, done>>
  BY MainJobMove DEF graphVars, Create, Pushed, Graph!Construct, Graph!Share, Graph!execVars
<1>2. ASSUME LockInv', UNCHANGED entries, \A k \in Workers : Stored(k)' = Stored(k), Added' = Added
      PROVE  LockInv' /\ PlaceInv'
  <2>1. Content' = Content /\ Distinct'
    BY <1>2, ContentSame DEF PlaceInv
  <2> QED BY <1>0, <1>1, <1>2, <2>1, OtherKeepsPlaces
<1>3. ASSUME ~Pushed
      PROVE  Added' = Added
  <2>1. ControlMove
    BY <1>0 DEF ControlMove
  <2> QED BY <1>3, <2>1, OthersAddNothing
<1>4. CASE mainPc = "add" /\ Inside(Deque!PushBackBegin(Main, current, frame.add[index + 1]))
  <2>1. PICK i \in Workers, j \in Jobs : i = current /\ j = frame.add[index + 1]
    BY <1>4, ArgumentTypes
  <2>2. Deque!PushBackBegin(Main, i, j) /\ UNCHANGED mainVars
    BY <1>4, <2>1 DEF Inside
  <2>3. Added' = Added
    BY <2>2 DEF mainVars, Added, AddedCount
  <2>4. LockInv' /\ UNCHANGED entries /\ \A k \in Workers : Stored(k)' = Stored(k)
    BY <1>0, <2>2, PushBegins, Zenon
  <2> QED BY <1>2, <2>3, <2>4
<1>5. CASE Deque!PushBackEnd(Main) /\ Pushed
  <2>1. PICK i \in Workers, b \in Nat, j \in Jobs \cup {NoJob} :
              i = call[Main].deque /\ b = call[Main].back /\ j = call[Main].job
    BY <1>0, CallType
  <2>2. call[Main].step = "store"
    BY <1>0, <1>5, PushBackOps
  <2>3. j \in Jobs /\ j \notin Added /\ Added' = Added \cup {j}
    BY <1>5, <2>1, <2>2, PushedAdds DEF CallsInv, MainCall, ThreadsInv
  <2>4. /\ LockInv' /\ b \in Deque!Slots /\ b \notin Stored(i) /\ Stored(i)' = Stored(i) \cup {b}
        /\ \A k \in Workers \ {i} : Stored(k)' = Stored(k)
        /\ entries' = [entries EXCEPT ![i][b] = j]
    BY <1>0, <1>5, <2>1, PushEnds
  <2>5. /\ j \notin Content[i]
        /\ Placed([Content EXCEPT ![i] = @ \cup {j}], Holding, done, Added \cup {j})
    BY <2>3, AddPlaced, NoJobAssumption DEF PlaceInv
  <2>6. Content' = [Content EXCEPT ![i] = @ \cup {j}] /\ Distinct'
    BY <2>4, <2>5, ContentGains DEF PlaceInv
  <2>7. \A v \in Workers : Holding'[v] = Holding[v] /\ (Busy(v) => Busy(v)')
    <3>1. ASSUME NEW v \in Workers
          PROVE  /\ pc'[v] = "execute" <=> pc[v] = "execute"
                 /\ popped'[v] = popped[v] /\ call'[v] = call[v]
                 /\ hand'[v] = hand[v] /\ phase'[v] = phase[v]
      BY <1>0, <1>1 DEF Quiet
    <3> QED BY <3>1 DEF Holding, Busy
  <2>8. Holding' = Holding
    BY <2>7 DEF Holding
  <2>9. Placed(Content', Holding', done', Added')
    BY <1>1, <2>3, <2>5, <2>6, <2>8
  <2>10. FreshInv'
    BY <1>1, <2>7 DEF PlaceInv, FreshInv, Busy
  <2> QED BY <2>4, <2>6, <2>9, <2>10 DEF PlaceInv
<1>6. CASE PollStep
  <2>1. \/ index \in Workers /\ Deque!SizeBegin(Main, index)
        \/ Deque!SizeEnd(Main)
    BY <1>6, ArgumentTypes DEF PollStep, Inside
  <2>2. QuietOp(Main)
    BY <2>1, Zenon DEF QuietOp
  <2>3. ~Pushed
    BY <1>6 DEF PollStep, Inside, PollSize, Pushed, mainVars
  <2>4. LockInv' /\ UNCHANGED entries /\ \A k \in Workers : Stored(k)' = Stored(k)
    BY <1>0, <2>2, QuietKeeps, Zenon
  <2> QED BY <1>2, <1>3, <2>3, <2>4
<1>7. CASE UNCHANGED dequeVars /\ (Create \/ Attach \/ NextFrame \/ NotifyWorker \/ PollRunning)
  <2>1. ~Pushed
    BY <1>7 DEF Create, Attach, NextFrame, NotifyWorker, PollRunning, Pushed
  <2> QED BY <1>2, <1>3, <1>7, <2>1, IdleLocks
<1> QED BY <1>4, <1>5, <1>6, <1>7 DEF MainNext, AddStep

\* Until the user quits.
LEMMA StepKeepsPlaces ==
  ASSUME ExtraLocks, IInv, LockInv, PlaceInv, [Next]_vars, ~DeleteJobs, quitPc' = "waiting"
  PROVE  LockInv' /\ PlaceInv'
<1> USE DEF IInv
<1>1. ~QuitNext /\ ~(Quit /\ UNCHANGED <<graphVars, dequeVars>>)
  BY DEF QuitNext, Inside, Cleared, Halt, Silence, NotifyStop, Join, Quit, quitVars
<1>2. ASSUME UNCHANGED <<graphVars, dequeVars, mainVars>>, \A v \in Workers : Quiet(v)
      PROVE  LockInv' /\ PlaceInv'
  <2>1. LockInv' /\ Content' = Content /\ Distinct'
    BY <1>2, IdleLocks, ContentSame DEF PlaceInv
  <2>2. Added' = Added
    BY <1>2 DEF mainVars, Added, AddedCount
  <2> QED BY <1>2, <2>1, <2>2, OtherKeepsPlaces DEF graphVars, dequeVars
<1>3. ASSUME NEW w \in Workers, WorkerNext(w)
      PROVE  LockInv' /\ PlaceInv'
  BY <1>3, LookKeepsPlaces, JobKeepsPlaces, PopKeepsPlaces, PutBackKeepsPlaces,
     StealKeepsPlaces DEF WorkerNext
<1>4. ASSUME NEW w \in Workers, SpuriousWakeup(w), UNCHANGED <<graphVars, dequeVars>>
      PROVE  LockInv' /\ PlaceInv'
  <2>1. UNCHANGED mainVars /\ \A v \in Workers : Quiet(v)
    BY <1>4 DEF SpuriousWakeup, Goto, Quiet, ThreadsInv, WorkerInv
  <2> QED BY <1>2, <1>4, <2>1
<1>5. ASSUME UNCHANGED vars
      PROVE  LockInv' /\ PlaceInv'
  <2>1. UNCHANGED <<graphVars, dequeVars, mainVars>> /\ \A v \in Workers : Quiet(v)
    BY <1>5 DEF vars, workerVars, Quiet
  <2> QED BY <1>2, <2>1
<1> QED BY <1>1, <1>3, <1>4, <1>5, MainKeepsPlaces DEF Next

-----------------------------------------------------------------------------
(* The counters of the jobs that are done.                                 *)

LEMMA CounterFacts ==
  ASSUME IsFiniteSet(Jobs), JobsInv
  PROVE  /\ \A w \in Workers : phase[w] = "running" /\ hand[w] \notin done =>
              hand[w] \in Jobs /\ unfinished[hand[w]] = 1
         /\ \A w \in Workers : phase[w] = "signalling" => pending[w] \cap done = {}
         /\ \A j \in Jobs \ done : unfinished[j] >= 1
<1> USE DEF JobsInv, GraphProofs!IInv
<1>0. Graph!TypeOK
  BY JobsFacts
<1>1. ASSUME NEW w \in Workers, phase[w] = "running", hand[w] \notin done
      PROVE  hand[w] \in Jobs /\ unfinished[hand[w]] = 1
  <2>1. hand[w] \in Jobs /\ GraphProofs!OpenPredecessors(hand[w]) = {}
    BY <1>0, <1>1 DEF GraphProofs!ThreadInv, Graph!TypeOK
  <2>2. unfinished[hand[w]] = 1 + GraphProofs!Cardinality({})
    BY <1>1, <2>1 DEF GraphProofs!CounterInv
  <2>3. GraphProofs!Cardinality({}) = 0
    BY JobsFinite, GraphProofs!FS_EmptySet, Zenon
  <2> QED BY <2>1, <2>2, <2>3
<1>2. ASSUME NEW w \in Workers, phase[w] = "signalling", NEW d \in pending[w], d \in done
      PROVE  FALSE
  <2>1. d \in Jobs /\ GraphProofs!OpenPredecessors(d) = {}
    BY <1>0, <1>2 DEF GraphProofs!CounterInv, Graph!TypeOK
  <2>2. hand[w] \in GraphProofs!OpenPredecessors(d)
    BY <1>2 DEF GraphProofs!ThreadInv, GraphProofs!OpenPredecessors, GraphProofs!Predecessors,
       GraphProofs!Owes
  <2> QED BY <2>1, <2>2
<1>3. ASSUME NEW j \in Jobs \ done
      PROVE  unfinished[j] >= 1
  <2>0. created \subseteq Jobs
    BY <1>0 DEF Graph!TypeOK
  <2>1. GraphProofs!IsFiniteSet(GraphProofs!OpenPredecessors(j))
    BY <2>0, JobsFinite, GraphProofs!OpenFinite, Zenon
  <2>2. GraphProofs!Cardinality(GraphProofs!OpenPredecessors(j)) \in Nat
    BY <2>1, JobsFinite, GraphProofs!FS_CardinalityType, Zenon
  <2>3. unfinished[j] = 1 + GraphProofs!Cardinality(GraphProofs!OpenPredecessors(j))
    BY <1>3 DEF GraphProofs!CounterInv
  <2> QED BY <2>2, <2>3
<1> QED BY <1>1, <1>2, <1>3

\* With its places a job is executed once.
LEMMA StepKeepsOnce ==
  ASSUME IsFiniteSet(Jobs), IInv, PlaceInv, OnceInv, [Next]_vars, ~DeleteJobs
  PROVE  OnceInv'
<1> USE DEF IInv
<1>0. Graph!TypeOK /\ JobMove
  BY JobsFacts, StepIsJobMove
<1>1. ASSUME UNCHANGED <<unfinished, done>>
      PROVE  OnceInv'
  BY <1>1 DEF OnceInv
<1>2. CASE UNCHANGED graphVars
  BY <1>1, <1>2 DEF graphVars
<1>3. CASE Create
  BY <1>3, JobsFacts DEF Create, Graph!Construct, OnceInv
<1>4. CASE Pushed
  BY <1>1, <1>4 DEF Pushed, Graph!Share, graphVars
<1>5. ASSUME NEW w \in Workers, Recheck(w) \/ Executed(w) \/ Graph!Abandon(w)
                                  \/ \E j : Graph!Claim(w, j)
      PROVE  OnceInv'
  BY <1>1, <1>5 DEF Recheck, Executed, Graph!Abandon, Graph!Claim, Graph!Return, Graph!jobVars,
     graphVars
<1>6. ASSUME NEW w \in Workers, Execute(w)
      PROVE  OnceInv'
  <2>1. CASE Graph!Start(w)
    BY <1>1, <2>1 DEF Graph!Start, Graph!jobVars
  <2>2. CASE Graph!Finish(w)
    <3>1. pc[w] = "execute" /\ phase[w] = "running"
      BY <1>6, <2>2 DEF Execute, Graph!Finish
    <3>2. call[w].step = "none" /\ popped[w] = NoJob
      BY <3>1, NotCalling DEF ThreadsInv, WorkerInv
    <3>3. Holding[w] = hand[w]
      BY <3>1, <3>2 DEF Holding, TakenSteps
    <3>4. hand[w] \notin done
      BY <3>1, <3>3 DEF PlaceInv, FreshInv
    <3>5. hand[w] \in Jobs /\ unfinished[hand[w]] = 1
      BY <3>1, <3>4, CounterFacts
    <3>6. unfinished' = [unfinished EXCEPT ![hand[w]] = 0] /\ done' = done \cup {hand[w]}
      BY <2>2, <3>5 DEF Graph!Finish
    <3> QED BY <1>0, <3>4, <3>5, <3>6 DEF OnceInv, Graph!TypeOK
  <2>3. ASSUME NEW d \in Jobs, Graph!Signal(w, d)
        PROVE  OnceInv'
    <3>1. d \notin done
      BY <2>3, CounterFacts DEF Graph!Signal
    <3> QED BY <1>0, <2>3, <3>1 DEF Graph!Signal, OnceInv, Graph!TypeOK
  <2> QED BY <1>6, <2>1, <2>2, <2>3 DEF Execute
<1> QED BY <1>0, <1>2, <1>3, <1>4, <1>5, <1>6 DEF JobMove


-----------------------------------------------------------------------------
(* The invariant until the user quits.                                     *)

PlacesKept == quitPc = "waiting" => LockedInv

LEMMA InitPlaces ==
  ASSUME IInv, Init
  PROVE  LockedInv
<1>1. \A t \in Users : call[t].step = "none"
  BY NoCallLocals DEF Init, Deque!DequeInit, Locals
<1>2. /\ front = [i \in Workers |-> 0] /\ back = [i \in Workers |-> 0]
      /\ pc = [w \in Workers |-> "loop"] /\ popped = [w \in Workers |-> NoJob]
      /\ done = {} /\ mainPc = "attach"
  BY DEF Init, Deque!DequeInit, ControlInit, Graph!Init
<1>3. \A i \in Workers : Stored(i) = {}
  <2>1. 0 .. 0 - 1 = {}
    OBVIOUS
  <2> QED BY <1>2, <2>1 DEF Stored
<1>4. LockInv
  <2>1. Exclusive
    BY <1>1 DEF Exclusive, Locks
  <2>2. HeldInv
    BY <1>1 DEF HeldInv, StoreInv, FrontInv, BackInv, ReadFrontSteps, BackSteps
  <2>3. BoundsInv
    BY <1>2, <1>3 DEF BoundsInv
  <2> QED BY <2>1, <2>2, <2>3 DEF LockInv
<1>5. Added = {}
  <2>1. AddedCount = 0
    BY <1>2 DEF AddedCount
  <2> QED BY <2>1 DEF Added
<1>6. Content = [i \in Workers |-> {}] /\ Holding = [w \in Workers |-> NoJob]
  BY <1>1, <1>2, <1>3, UsersFacts DEF Content, Holding, TakenSteps
<1>7. Placed(Content, Holding, done, Added) /\ Distinct /\ FreshInv
  BY <1>2, <1>3, <1>5, <1>6 DEF Placed, Distinct, FreshInv
<1> QED BY <1>2, <1>4, <1>7 DEF LockedInv, PlaceInv, OnceInv

\* Nobody takes the quitting back.
LEMMA QuittingStays ==
  ASSUME ControlMove, quitPc' = "waiting"
  PROVE  quitPc = "waiting"
<1>1. CASE \E w \in Workers : WorkerMove(w)
  BY <1>1, WorkerMoveFrame DEF quitVars
<1>2. CASE MainMove \/ NoMove
  BY <1>2 DEF MainMove, NoMove, Attach, NextFrame, Create, Pushed, NotifyWorker, PollRunning,
     DeleteJobs, PollSize, quitVars
<1>3. CASE QuitMove
  BY <1>3 DEF QuitMove, Quit, Halt, Silence, Cleared, NotifyStop, Join
<1> QED BY <1>1, <1>2, <1>3 DEF ControlMove

LEMMA StepKeepsAll ==
  ASSUME ExtraLocks, MaxDeletes = 0, IsFiniteSet(Jobs), IInv, PlacesKept, [Next]_vars
  PROVE  IInv' /\ PlacesKept'
<1>1. IInv' /\ ~DeleteJobs
  BY StepInv
<1>2. ASSUME quitPc' = "waiting"
      PROVE  LockedInv'
  <2>1. quitPc = "waiting"
    <3>1. ControlMove
      BY StepIsMove DEF IInv
    <3> QED BY <1>2, <3>1, QuittingStays
  <2>2. LockInv /\ PlaceInv /\ OnceInv
    BY <2>1 DEF PlacesKept, LockedInv
  <2>3. LockInv' /\ PlaceInv'
    BY <1>1, <1>2, <2>2, StepKeepsPlaces, Zenon
  <2>4. OnceInv'
    BY <1>1, <2>2, StepKeepsOnce, Zenon
  <2> QED BY <2>3, <2>4 DEF LockedInv
<1> QED BY <1>1, <1>2 DEF PlacesKept

LEMMA AtMostOne ==
  ASSUME NEW S, \A x, y \in S : x = y
  PROVE  /\ Cardinality(S) \in Nat /\ Cardinality(S) <= 1
         /\ S # {} => Cardinality(S) = 1
         /\ S = {} => Cardinality(S) = 0
<1>1. CASE S = {}
  BY <1>1, FS_EmptySet
<1>2. CASE S # {}
  <2>1. PICK x : x \in S
    BY <1>2
  <2>2. S = {x}
    BY <2>1
  <2>3. Cardinality({x}) = 1
    BY FS_Singleton
  <2> QED BY <1>2, <2>2, <2>3
<1> QED BY <1>1, <1>2

\* The takers of a job are the workers it is with.
LEMMA TakersHold ==
  ASSUME IInv, NEW j \in Jobs, NEW w \in Workers
  PROVE  w \in Takers(j) <=> Holding[w] = j
<1>1. j # NoJob
  BY NoJobAssumption
<1>2. /\ popped[w] # NoJob <=> pc[w] \in {"recheck", "pushback"}
      /\ call[w].step = "store" => pc[w] = "pushback" /\ call[w].job = popped[w]
  BY DEF IInv, ThreadsInv, WorkerInv, CallsInv, WorkerCall
<1> QED BY <1>1, <1>2 DEF Takers, Holding, TakenSteps

\* The places of the jobs are what InOnePlace counts.
LEMMA PlacesAreOne ==
  ASSUME IInv, LockedInv
  PROVE  InOnePlace
<1> DEFINE Slots(j) == {s \in Workers \X Deque!Slots :
                          s[2] \in Stored(s[1]) /\ entries[s[1]][s[2]] = j}
<1>0. /\ Placed(Content, Holding, done, Added) /\ Distinct
      /\ Added \subseteq Jobs /\ created \subseteq Jobs
      /\ mainPc \notin {"create", "add", "notify"} => created = Added
  BY AddedIsCreated, JobsFacts
     DEF LockedInv, PlaceInv, IInv, ThreadsInv, Graph!TypeOK
<1>1. ASSUME NEW j \in created
      PROVE  LET places == Cardinality(Slots(j)) + Cardinality(Takers(j))
             IN IF j \in done THEN Slots(j) = {} /\ places <= 1
                ELSE mainPc \notin {"create", "add", "notify"} => places = 1
  <2>1. j \in Jobs /\ j # NoJob
    BY <1>0, <1>1, NoJobAssumption
  <2>2. ASSUME NEW s \in Slots(j)
        PROVE  s[1] \in Workers /\ s[2] \in Stored(s[1]) /\ j \in Content[s[1]]
    BY <2>2 DEF Content
  <2>3. ASSUME NEW s \in Slots(j), NEW r \in Slots(j)
        PROVE  s = r
    <3>1. s[1] = r[1]
      BY <1>0, <2>2, <2>3 DEF Placed
    <3>2. entries[s[1]][s[2]] = entries[s[1]][r[2]]
      BY <2>3, <3>1
    <3>3. s[2] = r[2]
      BY <1>0, <2>2, <2>3, <3>1, <3>2 DEF Distinct
    <3> QED BY <2>3, <3>1, <3>3
  <2>4. ASSUME NEW v \in Takers(j), NEW w \in Takers(j)
        PROVE  v = w
    <3>1. v \in Workers /\ w \in Workers
      BY DEF Takers
    <3>2. Holding[v] = j /\ Holding[w] = j
      BY <2>1, <2>4, <3>1, TakersHold
    <3> QED BY <1>0, <2>1, <3>1, <3>2 DEF Placed
  <2>5. Slots(j) = {} \/ Takers(j) = {}
    <3>1. ASSUME NEW s \in Slots(j), NEW w \in Takers(j)
          PROVE  FALSE
      <4>1. w \in Workers
        BY DEF Takers
      <4>2. Holding[w] = j
        BY <2>1, <3>1, <4>1, TakersHold
      <4> QED BY <1>0, <2>2, <4>1, <4>2 DEF Placed
    <3> QED BY <3>1
  <2>6. j \in done => Slots(j) = {}
    <3>1. ASSUME NEW s \in Slots(j), j \in done
          PROVE  FALSE
      BY <1>0, <2>2, <3>1 DEF Placed
    <3> QED BY <3>1
  <2>7. ASSUME j \notin done, mainPc \notin {"create", "add", "notify"}
        PROVE  Slots(j) # {} \/ Takers(j) # {}
    <3>1. (\E i \in Workers : j \in Content[i]) \/ (\E w \in Workers : Holding[w] = j)
      BY <1>0, <1>1, <2>7 DEF Placed
    <3>2. ASSUME NEW i \in Workers, j \in Content[i]
          PROVE  Slots(j) # {}
      <4>1. PICK k \in Stored(i) : entries[i][k] = j
        BY <3>2 DEF Content
      <4>2. k \in Deque!Slots
        BY <4>1 DEF LockedInv, LockInv, BoundsInv
      <4>3. <<i, k>> \in Slots(j)
        BY <4>1, <4>2
      <4> QED BY <4>3
    <3>3. ASSUME NEW w \in Workers, Holding[w] = j
          PROVE  Takers(j) # {}
      BY <2>1, <3>3, TakersHold
    <3> QED BY <3>1, <3>2, <3>3
  <2> DEFINE a == Cardinality(Slots(j))
             b == Cardinality(Takers(j))
  <2>8. /\ a \in Nat /\ a <= 1 /\ (Slots(j) # {} => a = 1) /\ (Slots(j) = {} => a = 0)
        /\ b \in Nat /\ b <= 1 /\ (Takers(j) # {} => b = 1) /\ (Takers(j) = {} => b = 0)
    <3> HIDE DEF Slots
    <3> QED BY <2>3, <2>4, AtMostOne
  <2> HIDE DEF a, b
  <2>9. a + b <= 1
    BY <2>5, <2>8
  <2>10. j \notin done /\ mainPc \notin {"create", "add", "notify"} => a + b = 1
    BY <2>5, <2>7, <2>8
  <2> QED BY <2>6, <2>9, <2>10 DEF a, b
<1> QED BY <1>1 DEF InOnePlace

\* With the mutexes of HTL_EXTRA_LOCKS the reordering and the stealing lose no job and
\* double none, until the user quits: the Clear of Shutdown takes no mutex.
THEOREM InOnePlaceThm ==
  ASSUME ExtraLocks, MaxDeletes = 0, IsFiniteSet(Jobs)
  PROVE  Spec => [](quitPc = "waiting" => InOnePlace)
<1>1. Init => IInv /\ PlacesKept
  BY InitInv, InitPlaces DEF PlacesKept
<1>2. IInv /\ PlacesKept /\ [Next]_vars => IInv' /\ PlacesKept'
  BY StepKeepsAll
<1>3. IInv /\ PlacesKept => (quitPc = "waiting" => InOnePlace)
  BY PlacesAreOne DEF PlacesKept
<1> QED BY <1>1, <1>2, <1>3, PTL DEF Spec

\* Until the user quits no job is executed twice: its counter is positive until its
\* function has returned and 0 from then on (job.h:20-23), however long it is stolen,
\* put back and asked for CanExecute.
THEOREM CounterMeaningThm ==
  ASSUME ExtraLocks, MaxDeletes = 0, IsFiniteSet(Jobs)
  PROVE  Spec => [](quitPc = "waiting" => CounterMeaning)
<1>1. Init => IInv /\ PlacesKept
  BY InitInv, InitPlaces DEF PlacesKept
<1>2. IInv /\ PlacesKept /\ [Next]_vars => IInv' /\ PlacesKept'
  BY StepKeepsAll
<1>3. IInv /\ PlacesKept => (quitPc = "waiting" => CounterMeaning)
  <2> SUFFICES ASSUME IInv, LockedInv
               PROVE  CounterMeaning
    BY DEF PlacesKept
  <2>1. created \subseteq Jobs
    BY JobsFacts DEF IInv, Graph!TypeOK
  <2>2. \A j \in Jobs \ done : unfinished[j] >= 1
    <3>1. JobsInv
      BY DEF IInv
    <3> QED BY <3>1, CounterFacts, Zenon
  <2>3. \A j \in done : unfinished[j] = 0
    BY DEF LockedInv, OnceInv
  <2> QED BY <2>1, <2>2, <2>3 DEF CounterMeaning
<1> QED BY <1>1, <1>2, <1>3, PTL DEF Spec

=============================================================================
