---------------------------- MODULE TracerProofs ----------------------------
(***************************************************************************)
(* What the tracer promises for every number of cores and threads: when a  *)
(* capture is over nobody uses it any more, and a system call is reported  *)
(* as one of the thread that made it, with its own exit if the thread was  *)
(* not switched out meanwhile.                                             *)
(*                                                                         *)
(* Windows tells the core, not the thread.  The proof follows the events   *)
(* on their way: the consumer sees the threads that ran on the cores when  *)
(* the next event happened (ViewInv), and nothing has happened on a core   *)
(* between a call and its exit (ExitsInv, OpenInv).                    *)
(***************************************************************************)
EXTENDS Tracer, SequenceTheorems, WellFoundedInduction, TLAPS

-----------------------------------------------------------------------------
(* The invariant.                                                          *)

Event ==
  [what : {"switch"}, core : Cores, old : ThreadIds, new : ThreadIds]
    \cup [what : {"enter"}, core : Cores, call : Nat, by : ThreadIds]
    \cup [what : {"exit"}, core : Cores, call : Int, straight : BOOLEAN]

Entry == [core : Cores, call : Nat]

Call ==
  [call : Nat, by : ThreadIds, threadID : ThreadIds, endedBy : Int, straight : BOOLEAN]

TypeInv ==
  /\ buffer \in Seq(Event)
  /\ running \in [Cores -> ThreadIds]
  /\ calls \in [ThreadIds -> Int]
  /\ made \in Nat
  /\ runtime \in [tracked : SUBSET Registered,
                  cores : [Cores -> Registered \cup {Invalid}],
                  syscalls : Seq(Entry)]
  /\ pool \in SUBSET Call

\* Core has a consumer from the start of the tracer to the end of Stop, and the
\* session runs in between or was left by a start that failed.
ControlInv ==
  /\ pc \in {"on", "close", "wait"} <=> consumer # "none"
  /\ session = "ours" => leaked \/ pc \in {"info", "open", "on"}

\* A thread in a call made in a capture runs, or has been switched out in it.
ThreadsInv ==
  /\ \A c, d \in Cores : running[c] = running[d] => c = d
  /\ \A t \in ThreadIds : calls[t] \in {NoCall, Old} \cup 1 .. made
  /\ \A t \in ThreadIds :
       calls[t] \notin {NoCall, Old} /\ t \notin switched => \E c \in Cores : running[c] = t

\* h[n] is what ran on each core before the nth event not consumed yet.
Ran(h, e, n) ==
  /\ e.what = "switch" =>
       h[n][e.core] = e.old /\ h[n + 1] = [h[n] EXCEPT ![e.core] = e.new]
  /\ e.what # "switch" => h[n + 1] = h[n]
  /\ e.what = "enter" => e.by = h[n][e.core]

Follows(h) ==
  /\ h \in [1 .. Len(buffer) + 1 -> [Cores -> ThreadIds]]
  /\ h[Len(buffer) + 1] = running
  /\ \A n \in DOMAIN buffer : Ran(h, buffer[n], n)
  /\ \A c \in Cores : runtime.cores[c] # Invalid => runtime.cores[c] = h[1][c]

\* What the consumer takes for the thread of a core is one the program has
\* registered, and ran there when the next event happened.
ViewInv ==
  /\ \A c \in Cores : runtime.cores[c] \in runtime.tracked \cup {Invalid}
  /\ consumer = "none" => \A c \in Cores : runtime.cores[c] = Invalid
  /\ \E h : Follows(h)

PoolCalls == {s.call : s \in pool}

\* Every call is entered once; the entries that wait for an exit are those of
\* different calls of the pool, and none that was straight.
CallsInv ==
  /\ PoolCalls \subseteq 1 .. made
  /\ \A i \in DOMAIN buffer : buffer[i].what = "enter" =>
       /\ buffer[i].call \in 1 .. made \ PoolCalls
       /\ \A k \in DOMAIN buffer :
            buffer[k].what = "enter" /\ buffer[i].call = buffer[k].call => i = k
  /\ consumer = "none" => runtime.syscalls = <<>>
  /\ \A i \in DOMAIN runtime.syscalls :
       /\ runtime.syscalls[i].call \in PoolCalls
       /\ \A k \in DOMAIN runtime.syscalls :
            runtime.syscalls[i].call = runtime.syscalls[k].call => i = k
  /\ \A s \in pool : s.straight =>
       \A i \in DOMAIN runtime.syscalls : runtime.syscalls[i].call # s.call

\* The last entry of core c is that of call k.
IsLast(syscalls, c, k) ==
  \E i \in DOMAIN syscalls :
    /\ syscalls[i].core = c /\ syscalls[i].call = k
    /\ \A n \in DOMAIN syscalls : syscalls[n].core = c => n <= i

\* The consumer would match an exit on core c with call k, if it saw either.
Expects(c, k) ==
  k \in PoolCalls => runtime.cores[c] = Invalid \/ IsLast(runtime.syscalls, c, k)

\* Call k was entered on core c, and nothing has happened there from then on to
\* the nth event not consumed yet.
Entered(c, k, n) ==
  \E i \in 1 .. n - 1 :
    /\ buffer[i].what = "enter" /\ buffer[i].core = c /\ buffer[i].call = k
    /\ \A j \in i + 1 .. n - 1 : buffer[j].core # c

Silent(c, k, n) ==
  \A j \in 1 .. n - 1 :
    buffer[j].core # c /\ (buffer[j].what = "enter" => buffer[j].call # k)

Undisturbed(c, k, n) == Entered(c, k, n) \/ (Silent(c, k, n) /\ Expects(c, k))

\* The exits on their way, and the calls that may still end straight.
ExitsInv ==
  \A n \in DOMAIN buffer : \A c \in Cores, k \in Int \ {Old} :
    buffer[n].what = "exit" /\ buffer[n].straight /\ buffer[n].core = c /\ buffer[n].call = k =>
      Undisturbed(c, k, n)

OpenInv ==
  \A c \in Cores, k \in Int \ {NoCall, Old} :
    calls[running[c]] = k /\ running[c] \notin switched => Undisturbed(c, k, Len(buffer) + 1)

IInv ==
  /\ TypeInv /\ ControlInv /\ ThreadsInv /\ ViewInv /\ CallsInv /\ ExitsInv /\ OpenInv
  /\ SyscallsMatched

-----------------------------------------------------------------------------
(* The control of the tracer and of the session.                           *)

LEMMA ControlStep ==
  ASSUME ControlInv, [Next]_vars
  PROVE  ControlInv'
<1>1. CASE Windows
  BY <1>1 DEF Windows, SwitchTo, EnterCall, ExitCall, OtherProgram, Logged, ControlInv
<1>2. CASE Start
  <2>1. ASSUME NEW modes \in SUBSET {"sampling", "syscalls"}, Activate(modes)
        PROVE  ControlInv'
    BY <2>1 DEF Activate, Attempt, ControlInv
  <2>2. CASE StartTraceSucceeds
    BY <2>2 DEF StartTraceSucceeds, ControlInv
  <2>3. CASE NoPrivilege
    BY <2>3 DEF NoPrivilege, Again, Fail, Attempt, ControlInv
  <2>4. CASE Denied
    BY <2>4 DEF Denied, Fail, Attempt, ControlInv
  <2>5. CASE AlreadyExists
    BY <2>5 DEF AlreadyExists, ControlInv
  <2>6. CASE StopExisting
    BY <2>6 DEF StopExisting, Again, Fail, Attempt, ControlInv
  <2>7. CASE SetInformation
    BY <2>7 DEF SetInformation, ControlInv
  <2>8. CASE FailLate
    BY <2>8 DEF FailLate, Fail, Attempt, ControlInv
  <2>9. CASE OpenTrace
    BY <2>9 DEF OpenTrace, ControlInv
  <2> QED BY <1>2, <2>1, <2>2, <2>3, <2>4, <2>5, <2>6, <2>7, <2>8, <2>9 DEF Start
<1>3. CASE Stop
  BY <1>3 DEF Stop, ControlTrace, CloseTrace, WaitForConsumer, StopInactive, Dump, ControlInv
<1>4. CASE ConsumerBegins
  BY <1>4 DEF ConsumerBegins, ConsumerFrame, ControlInv
<1>5. CASE ConsumerEnds
  BY <1>5 DEF ConsumerEnds, ConsumerFrame, ControlInv
<1>6. CASE Consume
  BY <1>6 DEF Consume, ConsumerFrame, ControlInv
<1>7. CASE UNCHANGED vars
  BY <1>7 DEF vars, ControlInv
<1> QED BY <1>1, <1>2, <1>3, <1>4, <1>5, <1>6, <1>7 DEF Next

\* Once a capture is over no consumer is left, and no session but one that a failed
\* start has left (win.h:1260-1379, core.cpp:1393-1400).
THEOREM NothingLeftThm == Spec => []NothingLeft
<1>1. Init => ControlInv
  BY DEF Init, ControlInv
<1>2. ControlInv /\ [Next]_vars => ControlInv'
  BY ControlStep
<1>3. ControlInv => NothingLeft
  BY DEF ControlInv, NothingLeft
<1> QED BY <1>1, <1>2, <1>3, PTL DEF Spec

-----------------------------------------------------------------------------
(* What happens on the machine: an event is added to those on their way.   *)

LEMMA Appended ==
  ASSUME TypeInv, NEW e \in Event, buffer' = Append(buffer, e)
  PROVE  /\ buffer' \in Seq(Event)
         /\ Len(buffer) \in Nat /\ Len(buffer') = Len(buffer) + 1
         /\ DOMAIN buffer = 1 .. Len(buffer) /\ DOMAIN buffer' = 1 .. Len(buffer) + 1
         /\ \A i \in 1 .. Len(buffer) : buffer'[i] = buffer[i]
         /\ buffer'[Len(buffer) + 1] = e
<1>1. buffer \in Seq(Event)
  BY DEF TypeInv
<1>2. buffer' \in Seq(Event) /\ Len(buffer') = Len(buffer) + 1
  BY <1>1, AppendProperties
<1>3. Len(buffer) \in Nat /\ DOMAIN buffer = 1 .. Len(buffer)
  BY <1>1, LenProperties
<1>4. DOMAIN buffer' = 1 .. Len(buffer) + 1
  BY <1>2, LenProperties
<1>5. /\ \A i \in 1 .. Len(buffer) : buffer'[i] = buffer[i]
      /\ buffer'[Len(buffer) + 1] = e
  BY <1>1, <1>3, AppendProperties
<1> QED BY <1>2, <1>3, <1>4, <1>5

\* What the machine did, as the event says it.
Happened(e) ==
  /\ running' \in [Cores -> ThreadIds]
  /\ e.what = "switch" =>
       e.old = running[e.core] /\ running' = [running EXCEPT ![e.core] = e.new]
  /\ e.what # "switch" => running' = running
  /\ e.what = "enter" => e.by = running[e.core]

LEMMA LoggedView ==
  ASSUME TypeInv, ViewInv, NEW e \in Event, Logged(e), Happened(e)
  PROVE  ViewInv'
<1>1. runtime' = runtime /\ consumer' = consumer /\ buffer' = Append(buffer, e)
  BY DEF Logged
<1>2. PICK h : Follows(h)
  BY DEF ViewInv
<1> PICK n : n = Len(buffer)
  OBVIOUS
<1> PICK g : g = [i \in 1 .. n + 2 |-> IF i <= n + 1 THEN h[i] ELSE running']
  OBVIOUS
<1>3. /\ n \in Nat /\ Len(buffer') = n + 1
      /\ DOMAIN buffer = 1 .. n /\ DOMAIN buffer' = 1 .. n + 1
      /\ \A i \in 1 .. n : buffer'[i] = buffer[i]
      /\ buffer'[n + 1] = e
  BY <1>1, Appended
<1>4. h \in [1 .. n + 1 -> [Cores -> ThreadIds]] /\ h[n + 1] = running
  BY <1>2 DEF Follows
<1>5. /\ \A i \in 1 .. n : Ran(h, buffer[i], i)
      /\ \A c \in Cores : runtime.cores[c] # Invalid => runtime.cores[c] = h[1][c]
  BY <1>2, <1>3 DEF Follows
<1>6. g \in [1 .. n + 2 -> [Cores -> ThreadIds]]
  BY <1>3, <1>4 DEF Happened
<1>7. g[n + 2] = running' /\ \A i \in 1 .. n + 1 : g[i] = h[i]
  BY <1>3
<1>8. ASSUME NEW i \in 1 .. n
      PROVE  Ran(g, buffer'[i], i)
  <2>1. buffer'[i] = buffer[i] /\ g[i] = h[i] /\ g[i + 1] = h[i + 1]
    BY <1>3, <1>7
  <2> QED BY <1>5, <2>1 DEF Ran
<1>9. Ran(g, e, n + 1)
  <2>1. g[n + 1] = running /\ g[n + 1 + 1] = running'
    BY <1>3, <1>4, <1>7
  <2> QED BY <2>1 DEF Ran, Happened
<1>10. \A i \in DOMAIN buffer' : Ran(g, buffer'[i], i)
  BY <1>3, <1>8, <1>9
<1>11. g[1] = h[1]
  BY <1>3, <1>7
<1>12. Len(buffer') + 1 = n + 2
  BY <1>3
<1>13. Follows(g)'
  BY <1>1, <1>5, <1>6, <1>7, <1>10, <1>11, <1>12 DEF Follows
<1> QED BY <1>1, <1>13 DEF ViewInv

\* Nothing that was undisturbed is disturbed by an event on another core.
LEMMA LoggedUndisturbed ==
  ASSUME TypeInv, NEW e \in Event, Logged(e), NEW c \in Cores, NEW k \in Int,
         NEW m, m = Len(buffer)
  PROVE  /\ \A n \in 1 .. m + 1 : Undisturbed(c, k, n) => Undisturbed(c, k, n)'
         /\ e.core # c /\ (e.what = "enter" => e.call # k) =>
              (Undisturbed(c, k, m + 1) => Undisturbed(c, k, m + 2)')
<1>1. runtime' = runtime /\ pool' = pool /\ buffer' = Append(buffer, e)
  BY DEF Logged
<1>2. /\ m \in Nat
      /\ \A i \in 1 .. m : buffer'[i] = buffer[i]
      /\ buffer'[m + 1] = e
  BY <1>1, Appended
<1>3. Expects(c, k)' = Expects(c, k)
  BY <1>1 DEF Expects, PoolCalls
<1>4. ASSUME NEW n \in 1 .. m + 1, Undisturbed(c, k, n)
      PROVE  Undisturbed(c, k, n)'
  <2>1. \A i \in 1 .. n - 1 : buffer'[i] = buffer[i]
    BY <1>2
  <2>2. Entered(c, k, n) => Entered(c, k, n)'
    <3> SUFFICES ASSUME Entered(c, k, n)
                 PROVE  Entered(c, k, n)'
      OBVIOUS
    <3>1. PICK i \in 1 .. n - 1 :
            /\ buffer[i].what = "enter" /\ buffer[i].core = c /\ buffer[i].call = k
            /\ \A j \in i + 1 .. n - 1 : buffer[j].core # c
      BY DEF Entered
    <3>2. \A j \in i + 1 .. n - 1 : j \in 1 .. n - 1
      BY <3>1
    <3> QED BY <2>1, <3>1, <3>2 DEF Entered
  <2>3. Silent(c, k, n) => Silent(c, k, n)'
    BY <2>1 DEF Silent
  <2> QED BY <1>3, <1>4, <2>2, <2>3 DEF Undisturbed
<1>5. ASSUME e.core # c, e.what = "enter" => e.call # k, Undisturbed(c, k, m + 1)
      PROVE  Undisturbed(c, k, m + 2)'
  <2>0. m + 1 - 1 = m /\ m + 2 - 1 = m + 1
    BY <1>2
  <2>1. Entered(c, k, m + 1) => Entered(c, k, m + 2)'
    <3> SUFFICES ASSUME Entered(c, k, m + 1)
                 PROVE  Entered(c, k, m + 2)'
      OBVIOUS
    <3>1. PICK i \in 1 .. m :
            /\ buffer[i].what = "enter" /\ buffer[i].core = c /\ buffer[i].call = k
            /\ \A j \in i + 1 .. m : buffer[j].core # c
      BY <2>0 DEF Entered
    <3>2. i \in 1 .. m + 1 /\ buffer'[i] = buffer[i]
      BY <1>2, <3>1
    <3>3. \A j \in i + 1 .. m + 1 : buffer'[j].core # c
      <4> TAKE j \in i + 1 .. m + 1
      <4>1. CASE j = m + 1
        BY <1>2, <1>5, <4>1
      <4>2. CASE j \in i + 1 .. m
        BY <1>2, <3>1, <4>2
      <4> QED BY <1>2, <4>1, <4>2
    <3> QED BY <2>0, <3>1, <3>2, <3>3 DEF Entered
  <2>2. Silent(c, k, m + 1) => Silent(c, k, m + 2)'
    <3> SUFFICES ASSUME Silent(c, k, m + 1), NEW j \in 1 .. m + 1
                 PROVE  buffer'[j].core # c /\ (buffer'[j].what = "enter" => buffer'[j].call # k)
      BY <2>0 DEF Silent
    <3>1. CASE j = m + 1
      BY <1>2, <1>5, <3>1
    <3>2. CASE j \in 1 .. m
      BY <1>2, <2>0, <3>2 DEF Silent
    <3> QED BY <1>2, <3>1, <3>2
  <2> QED BY <1>3, <1>5, <2>1, <2>2 DEF Undisturbed
<1> QED BY <1>4, <1>5

LEMMA LoggedCalls ==
  ASSUME TypeInv, CallsInv, NEW e \in Event, Logged(e), made' \in Nat, made <= made',
         e.what = "enter" => e.call = made + 1 /\ made' = made + 1
  PROVE  CallsInv'
<1>1. /\ runtime' = runtime /\ pool' = pool /\ consumer' = consumer
      /\ buffer' = Append(buffer, e)
  BY DEF Logged
<1>2. PICK m : m = Len(buffer)
  OBVIOUS
<1>3. /\ m \in Nat /\ DOMAIN buffer = 1 .. m /\ DOMAIN buffer' = 1 .. m + 1
      /\ \A i \in 1 .. m : buffer'[i] = buffer[i]
      /\ buffer'[m + 1] = e
  BY <1>1, <1>2, Appended
<1>4. made \in Nat /\ PoolCalls' = PoolCalls
  BY <1>1 DEF TypeInv, PoolCalls
<1>5. PoolCalls' \subseteq 1 .. made'
  BY <1>4 DEF CallsInv
<1>6. ASSUME NEW i \in DOMAIN buffer', buffer'[i].what = "enter"
      PROVE  /\ buffer'[i].call \in 1 .. made' \ PoolCalls'
             /\ i \in 1 .. m => buffer'[i].call \in 1 .. made
             /\ i = m + 1 => buffer'[i].call = made + 1
  <2>1. CASE i \in 1 .. m
    BY <1>3, <1>4, <1>6, <2>1 DEF CallsInv
  <2>2. CASE i = m + 1
    <3>1. buffer'[i].call = made + 1 /\ made' = made + 1
      BY <1>3, <1>6, <2>2
    <3>2. made + 1 \notin PoolCalls
      BY <1>4 DEF CallsInv
    <3> QED BY <1>3, <1>4, <2>2, <3>1, <3>2
  <2> QED BY <1>3, <2>1, <2>2
<1>7. ASSUME NEW i \in DOMAIN buffer', NEW k \in DOMAIN buffer',
             buffer'[i].what = "enter", buffer'[k].what = "enter",
             buffer'[i].call = buffer'[k].call
      PROVE  i = k
  <2>1. CASE i \in 1 .. m /\ k \in 1 .. m
    BY <1>3, <1>7, <2>1 DEF CallsInv
  <2>2. CASE i = m + 1 /\ k = m + 1
    BY <2>2
  <2>3. CASE (i = m + 1 /\ k \in 1 .. m) \/ (k = m + 1 /\ i \in 1 .. m)
    BY <1>4, <1>6, <1>7, <2>3
  <2> QED BY <1>3, <2>1, <2>2, <2>3
<1> QED BY <1>1, <1>4, <1>5, <1>6, <1>7 DEF CallsInv

\* An event keeps what is said of the exits on their way, if it is not an exit
\* that ends a call undisturbed without being right about it.
LEMMA LoggedExits ==
  ASSUME TypeInv, ExitsInv, NEW e \in Event, Logged(e), NEW m, m = Len(buffer),
         e.what = "exit" /\ e.straight /\ e.call # Old => Undisturbed(e.core, e.call, m + 1)
  PROVE  ExitsInv'
<1>1. buffer' = Append(buffer, e)
  BY DEF Logged
<1>2. /\ m \in Nat /\ DOMAIN buffer = 1 .. m /\ DOMAIN buffer' = 1 .. m + 1
      /\ \A i \in 1 .. m : buffer'[i] = buffer[i]
      /\ buffer'[m + 1] = e
  BY <1>1, Appended
<1> SUFFICES ASSUME NEW n \in DOMAIN buffer', NEW c \in Cores, NEW k \in Int \ {Old},
                    buffer'[n].what = "exit", buffer'[n].straight,
                    buffer'[n].core = c, buffer'[n].call = k
             PROVE  Undisturbed(c, k, n)'
  BY DEF ExitsInv
<1>3. CASE n = m + 1
  BY <1>2, <1>3, LoggedUndisturbed
<1>4. CASE n \in 1 .. m
  <2>1. Undisturbed(c, k, n)
    BY <1>2, <1>4 DEF ExitsInv
  <2> QED BY <1>2, <1>4, <2>1, LoggedUndisturbed
<1> QED BY <1>2, <1>3, <1>4

\* A call goes on undisturbed where nothing happens.
LEMMA LoggedOpen ==
  ASSUME TypeInv, OpenInv, NEW e \in Event, Logged(e), NEW c \in Cores, e.core # c,
         NEW k \in Int \ {NoCall, Old}, e.what = "enter" => e.call # k,
         calls[running[c]] = k, running[c] \notin switched
  PROVE  Undisturbed(c, k, Len(buffer) + 1)'
<1>1. PICK m : m = Len(buffer)
  OBVIOUS
<1>2. buffer' = Append(buffer, e)
  BY DEF Logged
<1>3. m \in Nat /\ Len(buffer') = m + 1
  BY <1>1, <1>2, Appended
<1>4. Undisturbed(c, k, m + 1)
  BY <1>1 DEF OpenInv
<1>5. Undisturbed(c, k, m + 2)'
  BY <1>1, <1>4, LoggedUndisturbed
<1>6. Len(buffer') + 1 = m + 2
  BY <1>3
<1> QED BY <1>5, <1>6

-----------------------------------------------------------------------------
(* The steps of the machine.                                               *)

LEMMA SwitchStep ==
  ASSUME IInv, NEW c \in Cores, NEW t \in ThreadIds, SwitchTo(c, t)
  PROVE  TypeInv' /\ ThreadsInv' /\ ViewInv' /\ CallsInv' /\ ExitsInv' /\ OpenInv'
<1> DEFINE e == [what |-> "switch", core |-> c, old |-> running[c], new |-> t]
<1> USE DEF IInv
<1>1. /\ \A d \in Cores : running[d] # t
      /\ running' = [running EXCEPT ![c] = t]
      /\ switched' = IF calls[running[c]] = NoCall THEN switched ELSE switched \cup {running[c]}
      /\ Logged(e) /\ calls' = calls /\ made' = made
  BY DEF SwitchTo
<1>2. e \in Event /\ e.what = "switch" /\ e.core = c /\ e.old = running[c] /\ e.new = t
  BY DEF Event, TypeInv
<1> HIDE DEF e
<1>3. buffer' = Append(buffer, e) /\ runtime' = runtime /\ pool' = pool
  BY <1>1 DEF Logged
<1>4. TypeInv'
  <2>1. buffer' \in Seq(Event)
    BY <1>2, <1>3, Appended
  <2> QED BY <1>1, <1>3, <2>1 DEF TypeInv
<1>5. ThreadsInv'
  BY <1>1 DEF ThreadsInv, TypeInv
<1>6. ViewInv'
  <2>1. Happened(e)
    BY <1>1, <1>2, <1>4 DEF Happened, TypeInv
  <2> QED BY <1>1, <1>2, <2>1, LoggedView
<1>7. CallsInv'
  <2>1. made' \in Nat /\ made <= made'
    BY <1>1 DEF TypeInv
  <2> QED BY <1>1, <1>2, <2>1, LoggedCalls
<1>8. ExitsInv'
  BY <1>1, <1>2, LoggedExits
<1>9. OpenInv'
  <2> SUFFICES ASSUME NEW d \in Cores, NEW k \in Int \ {NoCall, Old},
                      calls'[running'[d]] = k, running'[d] \notin switched'
               PROVE  Undisturbed(d, k, Len(buffer) + 1)'
    BY DEF OpenInv
  <2>1. CASE d = c
    <3>1. calls[t] = k /\ t \notin switched
      BY <1>1, <2>1 DEF TypeInv
    <3> QED BY <1>1, <3>1 DEF ThreadsInv
  <2>2. CASE d # c
    <3>1. calls[running[d]] = k /\ running[d] \notin switched
      BY <1>1, <2>2 DEF TypeInv
    <3> QED BY <1>1, <1>2, <2>2, <3>1, LoggedOpen
  <2> QED BY <2>1, <2>2
<1> QED BY <1>4, <1>5, <1>6, <1>7, <1>8, <1>9

LEMMA EnterStep ==
  ASSUME IInv, NEW c \in Cores, EnterCall(c)
  PROVE  TypeInv' /\ ThreadsInv' /\ ViewInv' /\ CallsInv' /\ ExitsInv' /\ OpenInv'
<1> DEFINE e == [what |-> "enter", core |-> c, call |-> made', by |-> running[c]]
<1> USE DEF IInv
<1>1. /\ made' = made + 1 /\ calls' = [calls EXCEPT ![running[c]] = made']
      /\ Logged(e) /\ running' = running /\ switched' = switched
  BY DEF EnterCall
<1>2. made \in Nat /\ made' \in Nat /\ running[c] \in ThreadIds
  BY <1>1 DEF TypeInv
<1>3. e \in Event /\ e.what = "enter" /\ e.core = c /\ e.call = made + 1 /\ e.by = running[c]
  BY <1>1, <1>2 DEF Event
<1> HIDE DEF e
<1>4. buffer' = Append(buffer, e) /\ runtime' = runtime /\ pool' = pool
  BY <1>1 DEF Logged
<1>5. TypeInv'
  <2>1. buffer' \in Seq(Event)
    BY <1>3, <1>4, Appended
  <2> QED BY <1>1, <1>2, <1>4, <2>1 DEF TypeInv
<1>6. ThreadsInv'
  <2>1. ASSUME NEW t \in ThreadIds
        PROVE  /\ calls'[t] \in {NoCall, Old} \cup 1 .. made'
               /\ calls'[t] \notin {NoCall, Old} /\ t \notin switched' =>
                    \E d \in Cores : running'[d] = t
    <3>1. CASE t = running[c]
      BY <1>1, <1>2, <3>1 DEF TypeInv
    <3>2. CASE t # running[c]
      BY <1>1, <1>2, <3>2 DEF ThreadsInv, TypeInv
    <3> QED BY <3>1, <3>2
  <2> QED BY <1>1, <2>1 DEF ThreadsInv
<1>7. ViewInv'
  <2>1. Happened(e)
    BY <1>1, <1>3, <1>5 DEF Happened, TypeInv
  <2> QED BY <1>1, <1>3, <2>1, LoggedView
<1>8. CallsInv'
  BY <1>1, <1>2, <1>3, LoggedCalls
<1>9. ExitsInv'
  BY <1>1, <1>3, LoggedExits
<1>10. OpenInv'
  <2> SUFFICES ASSUME NEW d \in Cores, NEW k \in Int \ {NoCall, Old},
                      calls'[running'[d]] = k, running'[d] \notin switched'
               PROVE  Undisturbed(d, k, Len(buffer) + 1)'
    BY DEF OpenInv
  <2>1. CASE d = c
    <3>1. k = made + 1
      BY <1>1, <1>2, <2>1 DEF TypeInv
    <3>2. PICK m : m = Len(buffer)
      OBVIOUS
    <3>3. m \in Nat /\ Len(buffer') = m + 1 /\ buffer'[m + 1] = e
      BY <1>3, <1>4, <3>2, Appended
    <3>4. Entered(c, k, m + 2)'
      <4>1. m + 1 \in 1 .. (m + 2) - 1 /\ \A j \in (m + 1) + 1 .. (m + 2) - 1 : FALSE
        BY <3>3
      <4> QED BY <1>3, <3>1, <3>3, <4>1 DEF Entered
    <3>5. Len(buffer') + 1 = m + 2
      BY <3>3
    <3> QED BY <2>1, <3>4, <3>5 DEF Undisturbed
  <2>2. CASE d # c
    <3>1. running[d] # running[c]
      BY <2>2 DEF ThreadsInv
    <3>2. calls[running[d]] = k /\ running[d] \notin switched
      BY <1>1, <3>1 DEF TypeInv
    <3>3. e.call # k
      BY <1>2, <1>3, <3>2 DEF ThreadsInv, TypeInv
    <3> QED BY <1>1, <1>3, <2>2, <3>2, <3>3, LoggedOpen
  <2> QED BY <2>1, <2>2
<1> QED BY <1>5, <1>6, <1>7, <1>8, <1>9, <1>10

LEMMA ExitStep ==
  ASSUME IInv, NEW c \in Cores, ExitCall(c)
  PROVE  TypeInv' /\ ThreadsInv' /\ ViewInv' /\ CallsInv' /\ ExitsInv' /\ OpenInv'
<1> DEFINE e == [what |-> "exit", core |-> c, call |-> calls[running[c]],
                 straight |-> running[c] \notin switched]
<1> USE DEF IInv
<1>1. /\ calls[running[c]] # NoCall
      /\ calls' = [calls EXCEPT ![running[c]] = NoCall]
      /\ switched' = switched \ {running[c]}
      /\ Logged(e) /\ running' = running /\ made' = made
  BY DEF ExitCall
<1>2. made \in Nat /\ running[c] \in ThreadIds /\ calls[running[c]] \in Int
  BY DEF TypeInv
<1>3. /\ e \in Event /\ e.what = "exit" /\ e.core = c /\ e.call = calls[running[c]]
      /\ e.straight <=> running[c] \notin switched
  BY <1>2 DEF Event
<1> HIDE DEF e
<1>4. buffer' = Append(buffer, e) /\ runtime' = runtime /\ pool' = pool
  BY <1>1 DEF Logged
<1>5. TypeInv'
  <2>1. buffer' \in Seq(Event)
    BY <1>3, <1>4, Appended
  <2>2. NoCall \in Int
    BY DEF NoCall
  <2> QED BY <1>1, <1>2, <1>4, <2>1, <2>2 DEF TypeInv
<1>6. ThreadsInv'
  <2>1. ASSUME NEW t \in ThreadIds
        PROVE  /\ calls'[t] \in {NoCall, Old} \cup 1 .. made'
               /\ calls'[t] \notin {NoCall, Old} /\ t \notin switched' =>
                    \E d \in Cores : running'[d] = t
    <3>1. CASE t = running[c]
      BY <1>1, <1>2, <3>1 DEF TypeInv
    <3>2. CASE t # running[c]
      BY <1>1, <1>2, <3>2 DEF ThreadsInv, TypeInv
    <3> QED BY <3>1, <3>2
  <2> QED BY <1>1, <2>1 DEF ThreadsInv
<1>7. ViewInv'
  <2>1. Happened(e)
    BY <1>1, <1>3, <1>5 DEF Happened, TypeInv
  <2> QED BY <1>1, <1>3, <2>1, LoggedView
<1>8. CallsInv'
  BY <1>1, <1>2, <1>3, LoggedCalls
<1>9. ExitsInv'
  <2>1. PICK m : m = Len(buffer)
    OBVIOUS
  <2>2. e.what = "exit" /\ e.straight /\ e.call # Old => Undisturbed(e.core, e.call, m + 1)
    BY <1>1, <1>2, <1>3, <2>1 DEF OpenInv
  <2> QED BY <1>1, <1>3, <2>1, <2>2, LoggedExits
<1>10. OpenInv'
  <2> SUFFICES ASSUME NEW d \in Cores, NEW k \in Int \ {NoCall, Old},
                      calls'[running'[d]] = k, running'[d] \notin switched'
               PROVE  Undisturbed(d, k, Len(buffer) + 1)'
    BY DEF OpenInv
  <2>1. d # c /\ running[d] # running[c]
    BY <1>1, <1>2 DEF ThreadsInv, TypeInv
  <2>2. calls[running[d]] = k /\ running[d] \notin switched
    BY <1>1, <2>1 DEF TypeInv
  <2> QED BY <1>1, <1>3, <2>1, <2>2, LoggedOpen
<1> QED BY <1>5, <1>6, <1>7, <1>8, <1>9, <1>10

-----------------------------------------------------------------------------
(* The steps of Core: the runtime is kept or a new one, and no event goes. *)

Renewed == \E threads \in SUBSET Registered : runtime' = Reset(threads)

Quiet ==
  /\ UNCHANGED <<buffer, running, calls, switched, made>>
  /\ runtime' = runtime \/ Renewed
  /\ pool' = pool \/ (pool' = {} /\ runtime' = runtime /\ consumer = "none")
  /\ consumer' = "none" => consumer = "none" \/ Renewed

LEMMA RenewedIs ==
  ASSUME Renewed
  PROVE  /\ runtime' \in [tracked : SUBSET Registered,
                          cores : [Cores -> Registered \cup {Invalid}],
                          syscalls : Seq(Entry)]
         /\ \A c \in Cores : runtime'.cores[c] = Invalid
         /\ runtime'.syscalls = <<>>
<1>1. PICK threads \in SUBSET Registered : runtime' = Reset(threads)
  BY DEF Renewed
<1>2. <<>> \in Seq(Entry)
  BY EmptySeq
<1> QED BY <1>1, <1>2 DEF Reset

LEMMA QuietStep ==
  ASSUME IInv, Quiet
  PROVE  TypeInv' /\ ThreadsInv' /\ ViewInv' /\ CallsInv' /\ ExitsInv' /\ OpenInv'
<1> USE DEF IInv
<1>1. UNCHANGED <<buffer, running, calls, switched, made>>
  BY DEF Quiet
<1>2. \/ runtime' = runtime
      \/ /\ runtime' \in [tracked : SUBSET Registered,
                          cores : [Cores -> Registered \cup {Invalid}],
                          syscalls : Seq(Entry)]
         /\ \A c \in Cores : runtime'.cores[c] = Invalid
         /\ runtime'.syscalls = <<>>
  BY RenewedIs DEF Quiet
<1>3. consumer' = "none" => (\A c \in Cores : runtime'.cores[c] = Invalid) /\ runtime'.syscalls = <<>>
  BY <1>2, RenewedIs DEF Quiet, ViewInv, CallsInv
<1>4. pool' \subseteq pool /\ (pool' = pool \/ runtime'.syscalls = <<>>)
  BY DEF Quiet, CallsInv
<1>5. PoolCalls' \subseteq PoolCalls
  BY <1>4 DEF PoolCalls
<1>6. TypeInv'
  BY <1>1, <1>2, <1>4 DEF TypeInv
<1>7. ThreadsInv'
  BY <1>1 DEF ThreadsInv
<1>8. ViewInv'
  <2>1. PICK h : Follows(h)
    BY DEF ViewInv
  <2>2. Follows(h)'
    BY <1>1, <1>2, <2>1 DEF Follows
  <2>3. \A c \in Cores : runtime'.cores[c] \in runtime'.tracked \cup {Invalid}
    BY <1>2 DEF ViewInv
  <2> QED BY <1>3, <2>2, <2>3 DEF ViewInv
<1>9. CallsInv'
  <2>1. ASSUME NEW i \in DOMAIN runtime'.syscalls
        PROVE  runtime' = runtime /\ pool' = pool
    <3>1. DOMAIN <<>> = {}
      OBVIOUS
    <3> QED BY <1>2, <1>4, <2>1, <3>1
  <2>2. \A i \in DOMAIN runtime'.syscalls :
          /\ runtime'.syscalls[i].call \in PoolCalls'
          /\ \A k \in DOMAIN runtime'.syscalls :
               runtime'.syscalls[i].call = runtime'.syscalls[k].call => i = k
    BY <2>1 DEF CallsInv, PoolCalls
  <2>3. \A s \in pool' : s.straight =>
          \A i \in DOMAIN runtime'.syscalls : runtime'.syscalls[i].call # s.call
    BY <2>1 DEF CallsInv
  <2> QED BY <1>1, <1>3, <1>5, <2>2, <2>3 DEF CallsInv
<1>10. ASSUME NEW c \in Cores, NEW k, NEW n, Undisturbed(c, k, n)
       PROVE  Undisturbed(c, k, n)'
  <2>1. Entered(c, k, n)' = Entered(c, k, n) /\ Silent(c, k, n)' = Silent(c, k, n)
    BY <1>1 DEF Entered, Silent
  <2>2. Expects(c, k) => Expects(c, k)'
    <3>1. CASE runtime' = runtime
      BY <1>5, <3>1 DEF Expects
    <3>2. CASE runtime' # runtime
      BY <1>2, <3>2 DEF Expects
    <3> QED BY <3>1, <3>2
  <2> QED BY <1>10, <2>1, <2>2 DEF Undisturbed
<1>11. ExitsInv'
  BY <1>1, <1>10 DEF ExitsInv
<1>12. OpenInv'
  <2> SUFFICES ASSUME NEW c \in Cores, NEW k \in Int \ {NoCall, Old},
                      calls[running[c]] = k, running[c] \notin switched
               PROVE  Undisturbed(c, k, Len(buffer) + 1)'
    BY <1>1 DEF OpenInv
  <2>1. PICK n : n = Len(buffer) + 1
    OBVIOUS
  <2>2. Undisturbed(c, k, n)
    BY <2>1 DEF OpenInv
  <2>3. Undisturbed(c, k, n)'
    BY <1>10, <2>2
  <2> QED BY <1>1, <2>1, <2>3
<1> QED BY <1>6, <1>7, <1>8, <1>9, <1>11, <1>12

\* The buffer of a new session is empty.
LEMMA StartTraceStep ==
  ASSUME IInv, StartTraceSucceeds
  PROVE  TypeInv' /\ ThreadsInv' /\ ViewInv' /\ CallsInv' /\ ExitsInv' /\ OpenInv'
<1> USE DEF IInv
<1>1. /\ UNCHANGED <<runtime, pool, consumer, running, calls, switched, made>>
      /\ buffer' = <<>> /\ consumer = "none"
  BY DEF StartTraceSucceeds, CoreFrame, osVars, ControlInv
<1>2. buffer' \in Seq(Event) /\ Len(buffer') = 0 /\ DOMAIN buffer' = {}
  <2>1. <<>> \in Seq(Event) /\ Len(<<>>) = 0 /\ DOMAIN <<>> = {}
    BY EmptySeq
  <2> QED BY <1>1, <2>1
<1>3. TypeInv'
  BY <1>1, <1>2 DEF TypeInv
<1>4. ThreadsInv'
  BY <1>1 DEF ThreadsInv
<1>5. ViewInv'
  <2>1. PICK h : h = [n \in 1 .. 1 |-> running]
    OBVIOUS
  <2>2. h \in [1 .. Len(buffer') + 1 -> [Cores -> ThreadIds]] /\ h[Len(buffer') + 1] = running'
    BY <1>1, <1>2, <2>1 DEF TypeInv
  <2>3. Follows(h)'
    BY <1>1, <1>2, <2>2 DEF Follows, ViewInv
  <2> QED BY <1>1, <2>3 DEF ViewInv
<1>6. CallsInv'
  BY <1>1, <1>2 DEF CallsInv, PoolCalls
<1>7. ExitsInv'
  BY <1>2 DEF ExitsInv
<1>8. OpenInv'
  <2>1. ASSUME NEW c \in Cores, NEW k
        PROVE  Undisturbed(c, k, 1)'
    BY <1>1 DEF Undisturbed, Silent, Expects, ViewInv
  <2>2. Len(buffer') + 1 = 1
    BY <1>2
  <2> QED BY <2>1, <2>2 DEF OpenInv
<1> QED BY <1>3, <1>4, <1>5, <1>6, <1>7, <1>8

LEMMA CoreQuiet ==
  ASSUME ControlInv,
         \/ OtherProgram \/ (Start /\ ~StartTraceSucceeds) \/ Stop
         \/ ConsumerBegins \/ ConsumerEnds \/ UNCHANGED vars
  PROVE  Quiet
<1> USE DEF dataVars, osVars, CoreFrame
<1>0. Registered \in SUBSET Registered /\ {} \in SUBSET Registered
  OBVIOUS
<1>1. CASE OtherProgram
  BY <1>1 DEF OtherProgram, Quiet
<1>2. CASE Start /\ ~StartTraceSucceeds
  <2>1. ASSUME NEW modes \in SUBSET {"sampling", "syscalls"}, Activate(modes)
        PROVE  Quiet
    BY <1>0, <2>1 DEF Activate, Attempt, Quiet, Renewed
  <2>2. CASE NoPrivilege
    BY <1>0, <2>2 DEF NoPrivilege, Again, Fail, Attempt, Quiet, Renewed
  <2>3. CASE Denied
    BY <1>0, <2>3 DEF Denied, Fail, Attempt, Quiet, Renewed
  <2>4. CASE AlreadyExists
    BY <2>4 DEF AlreadyExists, Quiet
  <2>5. CASE StopExisting
    BY <1>0, <2>5 DEF StopExisting, Again, Fail, Attempt, Quiet, Renewed
  <2>6. CASE SetInformation
    BY <2>6 DEF SetInformation, Quiet
  <2>7. CASE FailLate
    BY <1>0, <2>7 DEF FailLate, Fail, Attempt, Quiet, Renewed
  <2>8. CASE OpenTrace
    BY <2>8 DEF OpenTrace, Quiet
  <2> QED BY <1>2, <2>1, <2>2, <2>3, <2>4, <2>5, <2>6, <2>7, <2>8 DEF Start
<1>3. CASE Stop
  <2>1. CASE ControlTrace
    BY <2>1 DEF ControlTrace, Quiet
  <2>2. CASE CloseTrace
    BY <2>2 DEF CloseTrace, Quiet
  <2>3. CASE WaitForConsumer
    BY <1>0, <2>3 DEF WaitForConsumer, Quiet, Renewed
  <2>4. CASE StopInactive
    BY <1>0, <2>4 DEF StopInactive, Quiet, Renewed
  <2>5. ASSUME NEW sent \in BOOLEAN, Dump(sent)
        PROVE  Quiet
    BY <2>5 DEF Dump, Quiet, ControlInv
  <2> QED BY <1>3, <2>1, <2>2, <2>3, <2>4, <2>5 DEF Stop
<1>4. CASE ConsumerBegins
  BY <1>4 DEF ConsumerBegins, ConsumerFrame, Quiet
<1>5. CASE ConsumerEnds
  BY <1>5 DEF ConsumerEnds, ConsumerFrame, Quiet
<1>6. CASE UNCHANGED vars
  BY <1>6 DEF vars, Quiet
<1> QED BY <1>1, <1>2, <1>3, <1>4, <1>5, <1>6

-----------------------------------------------------------------------------
(* The entries that wait for their exit.                                   *)

\* A bounded set of numbers has a first and a last.
LEMMA FirstIs ==
  ASSUME NEW P \in SUBSET Nat, P # {}
  PROVE  Min(P) \in P /\ \A k \in P : Min(P) <= k
<1>1. PICK m \in P : \A k \in P : ~(<<k, m>> \in OpToRel(<, Nat))
  BY NatLessThanWellFounded, WFMin
<1>2. \A k \in P : m <= k
  <2>1. ASSUME NEW k \in P, k < m
        PROVE  FALSE
    <3>1. <<k, m>> \in Nat \X Nat /\ <<k, m>>[1] < <<k, m>>[2]
      BY <2>1
    <3> QED BY <1>1, <3>1 DEF OpToRel
  <2> QED BY <2>1
<1> QED BY <1>2 DEF Min

LEMMA LastIs ==
  ASSUME NEW n \in Nat, NEW P \in SUBSET (1 .. n), P # {}
  PROVE  Max(P) \in P /\ \A k \in P : Max(P) >= k
<1> DEFINE Q == {n - k : k \in P}
<1>0. \A k \in P : k \in Nat /\ n - k \in Nat
  OBVIOUS
<1>1. Q \in SUBSET Nat /\ Q # {}
  BY <1>0
<1>2. PICK m \in P : n - m = Min(Q)
  BY <1>1, FirstIs
<1>3. \A k \in P : n - m <= n - k
  BY <1>1, <1>2, FirstIs
<1>4. \A k \in P : m >= k
  BY <1>0, <1>3
<1> QED BY <1>4 DEF Max

LEMMA RemoveAtIs ==
  ASSUME NEW S, NEW s \in Seq(S), NEW i \in DOMAIN s
  PROVE  /\ RemoveAt(s, i) \in Seq(S)
         /\ Len(RemoveAt(s, i)) = Len(s) - 1
         /\ \A k \in 1 .. Len(s) - 1 : RemoveAt(s, i)[k] = s[IF k < i THEN k ELSE k + 1]
<1> DEFINE a == SubSeq(s, 1, i - 1)
           b == SubSeq(s, i + 1, Len(s))
<1>1. Len(s) \in Nat /\ i \in 1 .. Len(s) /\ \A k \in 1 .. Len(s) : s[k] \in S
  BY ElementOfSeq, LenProperties
<1>2. a \in Seq(S) /\ Len(a) = i - 1 /\ \A k \in 1 .. i - 1 : a[k] = s[k]
  <2>1. i - 1 - 1 + 1 = i - 1 /\ \A k \in Int : 1 + k - 1 = k
    BY <1>1
  <2> QED BY <1>1, <2>1, SubSeqProperties
<1>3. b \in Seq(S) /\ Len(b) = Len(s) - i /\ \A k \in 1 .. Len(s) - i : b[k] = s[i + k]
  <2>1. /\ Len(s) - (i + 1) + 1 = Len(s) - i /\ \A k \in Int : i + 1 + k - 1 = i + k
        /\ i + 1 <= Len(s) \/ Len(s) - i = 0
    BY <1>1
  <2>2. \A k \in i + 1 .. Len(s) : s[k] \in S
    BY <1>1
  <2>3. /\ b \in Seq(S)
        /\ Len(b) = IF i + 1 <= Len(s) THEN Len(s) - (i + 1) + 1 ELSE 0
        /\ \A k \in 1 .. Len(s) - (i + 1) + 1 : b[k] = s[i + 1 + k - 1]
    BY <1>1, <2>2, SubSeqProperties
  <2>4. Len(b) = Len(s) - i
    BY <1>1, <2>1, <2>3
  <2>5. \A k \in 1 .. Len(s) - i : b[k] = s[i + k]
    <3> HIDE DEF b
    <3> TAKE k \in 1 .. Len(s) - i
    <3>1. i + 1 + k - 1 = i + k /\ k \in 1 .. Len(s) - (i + 1) + 1
      BY <1>1
    <3>2. b[k] = s[i + 1 + k - 1]
      BY <2>3, <3>1
    <3> QED BY <3>1, <3>2
  <2> QED BY <2>3, <2>4, <2>5
<1> HIDE DEF a, b
<1>4. /\ a \o b \in Seq(S) /\ Len(a \o b) = Len(s) - 1
      /\ \A k \in 1 .. Len(s) - 1 : (a \o b)[k] = s[IF k < i THEN k ELSE k + 1]
  <2> DEFINE c == a \o b
             n == Len(s)
  <2>1. /\ c \in Seq(S) /\ Len(c) = Len(a) + Len(b)
        /\ \A k \in 1 .. Len(a) + Len(b) :
             c[k] = IF k <= Len(a) THEN a[k] ELSE b[k - Len(a)]
    BY <1>2, <1>3, ConcatProperties
  <2> HIDE DEF c
  <2>2. n \in Nat /\ i \in 1 .. n /\ Len(a) = i - 1 /\ Len(b) = n - i
    BY <1>1, <1>2, <1>3
  <2> HIDE DEF n
  <2>3. Len(a) + Len(b) = n - 1
    BY <2>2
  <2>4. ASSUME NEW k \in 1 .. n - 1
        PROVE  c[k] = s[IF k < i THEN k ELSE k + 1]
    <3>1. c[k] = IF k <= i - 1 THEN a[k] ELSE b[k - (i - 1)]
      BY <2>1, <2>2, <2>3
    <3>2. CASE k < i
      <4>1. k <= i - 1 /\ k \in 1 .. i - 1
        BY <2>2, <3>2
      <4> QED BY <1>2, <3>1, <3>2, <4>1
    <3>3. CASE ~(k < i)
      <4>1. ~(k <= i - 1) /\ k - (i - 1) \in 1 .. n - i /\ i + (k - (i - 1)) = k + 1
        BY <2>2, <3>3
      <4>2. b[k - (i - 1)] = s[i + (k - (i - 1))]
        BY <1>3, <4>1 DEF n
      <4> QED BY <3>1, <3>3, <4>1, <4>2
    <3> QED BY <3>2, <3>3
  <2> QED BY <2>1, <2>3, <2>4 DEF c, n
<1> QED BY <1>4 DEF a, b, RemoveAt

\* Match finds the last entry of the core.
LEMMA MatchIs ==
  ASSUME TypeInv, NEW e \in Event
  PROVE  LET P == {i \in DOMAIN runtime.syscalls : runtime.syscalls[i].core = e.core}
         IN /\ P = {} => Match(e) = 0
            /\ P # {} => Match(e) \in P /\ \A i \in P : i <= Match(e)
            /\ DOMAIN runtime.syscalls = 1 .. Len(runtime.syscalls)
            /\ Len(runtime.syscalls) \in Nat
<1> DEFINE s == runtime.syscalls
           P == {i \in 1 .. Len(s) : s[i].core = e.core}
<1>1. s \in Seq(Entry)
  BY DEF TypeInv
<1>2. Len(s) \in Nat /\ DOMAIN s = 1 .. Len(s)
  BY <1>1, LenProperties
<1>3. Match(e) = IF P # {} THEN Max(P) ELSE 0
  BY DEF Match, SelectLastInSeq
<1>4. P # {} => Max(P) \in P /\ \A i \in P : Max(P) >= i
  BY <1>2, LastIs
<1>5. \A i \in P, n \in P : n >= i => i <= n
  BY <1>2
<1> QED BY <1>2, <1>3, <1>4, <1>5

LEMMA IsLastAppended ==
  ASSUME NEW s \in Seq(Entry), NEW x \in Entry, NEW c, NEW k
  PROVE  /\ x.core = c /\ x.call = k => IsLast(Append(s, x), c, k)
         /\ x.core # c /\ IsLast(s, c, k) => IsLast(Append(s, x), c, k)
<1> DEFINE t == Append(s, x)
           n == Len(s)
<1>1. n \in Nat /\ DOMAIN s = 1 .. n /\ DOMAIN t = 1 .. n + 1
  BY AppendProperties, LenProperties
<1>2. (\A i \in 1 .. n : t[i] = s[i]) /\ t[n + 1] = x
  BY AppendProperties, LenProperties
<1> HIDE DEF t, n
<1>3. ASSUME x.core = c, x.call = k
      PROVE  IsLast(t, c, k)
  <2>1. n + 1 \in DOMAIN t /\ \A i \in DOMAIN t : i <= n + 1
    BY <1>1
  <2> QED BY <1>2, <1>3, <2>1 DEF IsLast
<1>4. ASSUME x.core # c, IsLast(s, c, k)
      PROVE  IsLast(t, c, k)
  <2>1. PICK i \in 1 .. n : /\ s[i].core = c /\ s[i].call = k
                            /\ \A l \in 1 .. n : s[l].core = c => l <= i
    BY <1>1, <1>4 DEF IsLast
  <2>2. \A l \in DOMAIN t : t[l].core = c => l <= i
    <3> SUFFICES ASSUME NEW l \in 1 .. n + 1, t[l].core = c
                 PROVE  l <= i
      BY <1>1
    <3>1. l # n + 1
      BY <1>2, <1>4
    <3>2. l \in 1 .. n
      BY <1>1, <3>1
    <3> QED BY <1>2, <2>1, <3>2
  <2>3. i \in DOMAIN t /\ t[i] = s[i]
    BY <1>1, <1>2
  <2> QED BY <2>1, <2>2, <2>3 DEF IsLast
<1> QED BY <1>3, <1>4 DEF t

LEMMA IsLastRemoved ==
  ASSUME NEW s \in Seq(Entry), NEW p \in DOMAIN s, NEW c, NEW k,
         s[p].core # c, IsLast(s, c, k)
  PROVE  IsLast(RemoveAt(s, p), c, k)
<1> DEFINE t == RemoveAt(s, p)
           n == Len(s)
<1>1. n \in Nat /\ DOMAIN s = 1 .. n /\ DOMAIN t = 1 .. n - 1 /\ p \in 1 .. n
  BY RemoveAtIs, LenProperties
<1>2. \A l \in 1 .. n - 1 : t[l] = s[IF l < p THEN l ELSE l + 1]
  BY RemoveAtIs
<1> HIDE DEF t, n
<1>3. PICK i \in 1 .. n : /\ s[i].core = c /\ s[i].call = k
                          /\ \A l \in 1 .. n : s[l].core = c => l <= i
  BY <1>1 DEF IsLast
<1>4. i # p
  BY <1>3
<1> DEFINE j == IF i < p THEN i ELSE i - 1
<1>5. j \in 1 .. n - 1 /\ (IF j < p THEN j ELSE j + 1) = i
  BY <1>1, <1>4
<1>6. t[j] = s[i]
  BY <1>2, <1>5
<1>7. ASSUME NEW l \in 1 .. n - 1, t[l].core = c
      PROVE  l <= j
  <2>1. CASE l < p
    <3>1. s[l].core = c /\ l \in 1 .. n
      BY <1>1, <1>2, <1>7, <2>1
    <3> QED BY <1>1, <1>3, <1>4, <2>1, <3>1
  <2>2. CASE ~(l < p)
    <3>1. s[l + 1].core = c /\ l + 1 \in 1 .. n
      BY <1>1, <1>2, <1>7, <2>2
    <3>2. l + 1 <= i
      BY <1>3, <3>1
    <3> QED BY <1>1, <1>4, <2>2, <3>2
  <2> QED BY <2>1, <2>2
<1> HIDE DEF j
<1> QED BY <1>1, <1>3, <1>5, <1>6, <1>7 DEF IsLast, t

-----------------------------------------------------------------------------
(* The consumer takes an event.                                            *)

LEMMA Taken ==
  ASSUME TypeInv, Consume
  PROVE  /\ Head(buffer) \in Event /\ Head(buffer) = buffer[1]
         /\ Len(buffer) \in Nat \ {0} /\ DOMAIN buffer = 1 .. Len(buffer)
         /\ buffer' \in Seq(Event) /\ Len(buffer') = Len(buffer) - 1
         /\ DOMAIN buffer' = 1 .. Len(buffer) - 1
         /\ \A i \in 1 .. Len(buffer) - 1 : buffer'[i] = buffer[i + 1]
         /\ UNCHANGED <<running, calls, switched, made, consumer>>
         /\ consumer = "processing"
<1>1. buffer \in Seq(Event) /\ buffer # <<>> /\ buffer' = Tail(buffer)
  BY DEF TypeInv, Consume
<1>2. Len(buffer) \in Nat \ {0} /\ DOMAIN buffer = 1 .. Len(buffer)
  BY <1>1, EmptySeq, LenProperties
<1>3. Head(buffer) \in Event /\ Head(buffer) = buffer[1]
  BY <1>1, <1>2, HeadTailProperties
<1>4. buffer' \in Seq(Event) /\ Len(buffer') = Len(buffer) - 1
  BY <1>1, HeadTailProperties
<1>5. DOMAIN buffer' = 1 .. Len(buffer) - 1
  BY <1>4, LenProperties
<1>6. \A i \in 1 .. Len(buffer) - 1 : buffer'[i] = buffer[i + 1]
  BY <1>1, <1>4, HeadTailProperties
<1> QED BY <1>2, <1>3, <1>4, <1>5, <1>6 DEF Consume, ConsumerFrame, osVars

\* What an event does to the runtime and the pool, as far as the other calls
\* are concerned.
Effect(e) ==
  /\ runtime' \in [tracked : SUBSET Registered,
                   cores : [Cores -> Registered \cup {Invalid}],
                   syscalls : Seq(Entry)]
  /\ pool' \in SUBSET Call
  /\ runtime'.tracked = runtime.tracked
  /\ e.what = "switch" => runtime'.cores = [runtime.cores EXCEPT ![e.core] = CoreAfter(e)]
  /\ e.what # "switch" => runtime'.cores = runtime.cores
  /\ PoolCalls' \subseteq PoolCalls \cup (IF e.what = "enter" THEN {e.call} ELSE {})
  /\ \A c \in Cores \ {e.core}, k \in Int :
       IsLast(runtime.syscalls, c, k) => IsLast(runtime'.syscalls, c, k)
  /\ e.what = "enter" =>
       runtime'.cores[e.core] = Invalid \/ IsLast(runtime'.syscalls, e.core, e.call)

LEMMA TakenView ==
  ASSUME TypeInv, ViewInv, Consume, Effect(Head(buffer))
  PROVE  ViewInv'
<1> DEFINE e == Head(buffer)
<1>1. PICK h : Follows(h)
  BY DEF ViewInv
<1>2. PICK m : m = Len(buffer)
  OBVIOUS
<1>3. /\ m \in Nat \ {0} /\ DOMAIN buffer = 1 .. m /\ DOMAIN buffer' = 1 .. m - 1
      /\ Len(buffer') = m - 1
      /\ \A i \in 1 .. m - 1 : buffer'[i] = buffer[i + 1]
      /\ e = buffer[1] /\ e \in Event /\ consumer' = "processing" /\ running' = running
  BY <1>2, Taken
<1> HIDE DEF e
<1>4. PICK g : g = [i \in 1 .. m |-> h[i + 1]]
  OBVIOUS
<1>5. /\ h \in [1 .. m + 1 -> [Cores -> ThreadIds]] /\ h[m + 1] = running
      /\ \A i \in 1 .. m : Ran(h, buffer[i], i)
      /\ \A c \in Cores : runtime.cores[c] # Invalid => runtime.cores[c] = h[1][c]
  BY <1>1, <1>2, <1>3 DEF Follows
<1>6. g \in [1 .. m -> [Cores -> ThreadIds]] /\ g[m] = running'
  BY <1>3, <1>4, <1>5
<1>7. ASSUME NEW i \in 1 .. m - 1
      PROVE  Ran(g, buffer'[i], i)
  <2>1. buffer'[i] = buffer[i + 1] /\ g[i] = h[i + 1] /\ g[i + 1] = h[i + 1 + 1]
    BY <1>3, <1>4
  <2>2. Ran(h, buffer[i + 1], i + 1)
    BY <1>3, <1>5
  <2> QED BY <2>1, <2>2 DEF Ran
<1>8. Ran(h, e, 1) /\ g[1] = h[2] /\ h[1] \in [Cores -> ThreadIds] /\ e.core \in Cores
  BY <1>3, <1>4, <1>5 DEF Event
<1>9. /\ runtime'.tracked = runtime.tracked
      /\ e.what = "switch" => runtime'.cores = [runtime.cores EXCEPT ![e.core] = CoreAfter(e)]
      /\ e.what # "switch" => runtime'.cores = runtime.cores
  BY DEF Effect, e
<1>10. ASSUME NEW c \in Cores
       PROVE  /\ runtime'.cores[c] \in runtime'.tracked \cup {Invalid}
              /\ runtime'.cores[c] # Invalid => runtime'.cores[c] = g[1][c]
  <2>1. /\ runtime.cores[c] \in runtime.tracked \cup {Invalid}
        /\ runtime.cores[c] # Invalid => runtime.cores[c] = h[1][c]
    BY <1>5 DEF ViewInv
  <2>2. runtime.cores \in [Cores -> Registered \cup {Invalid}]
    BY DEF TypeInv
  <2>3. CASE e.what # "switch"
    BY <1>8, <1>9, <2>1, <2>3 DEF Ran
  <2>4. CASE e.what = "switch" /\ c # e.core
    BY <1>8, <1>9, <2>1, <2>2, <2>4 DEF Ran
  <2>5. CASE e.what = "switch" /\ c = e.core
    <3>1. h[1][c] = e.old /\ g[1][c] = e.new
      BY <1>8, <2>5 DEF Ran
    <3>2. runtime'.cores[c] = CoreAfter(e)
      BY <1>9, <2>2, <2>5
    <3>3. CASE e.new \in runtime.tracked
      <4>1. CoreAfter(e) = e.new
        BY <3>3, Zenon DEF CoreAfter
      <4> QED BY <1>9, <3>1, <3>2, <3>3, <4>1
    <3>4. CASE e.new \notin runtime.tracked /\ e.old \in runtime.tracked
      <4>1. CoreAfter(e) = Invalid
        BY <3>4, Zenon DEF CoreAfter
      <4> QED BY <3>2, <4>1
    <3>5. CASE e.new \notin runtime.tracked /\ e.old \notin runtime.tracked
      <4>1. CoreAfter(e) = runtime.cores[e.core]
        BY <3>5, Zenon DEF CoreAfter
      <4>2. runtime.cores[c] = Invalid
        BY <2>1, <3>1, <3>5
      <4> QED BY <2>5, <3>2, <4>1, <4>2
    <3> QED BY <3>3, <3>4, <3>5
  <2> QED BY <2>3, <2>4, <2>5
<1>11. Len(buffer') + 1 = m
  BY <1>3
<1>12. Follows(g)'
  BY <1>3, <1>6, <1>7, <1>10, <1>11 DEF Follows
<1> QED BY <1>3, <1>10, <1>12 DEF ViewInv

\* What was undisturbed still is, one event earlier.
LEMMA TakenUndisturbed ==
  ASSUME TypeInv, CallsInv, Consume, Effect(Head(buffer)),
         NEW m, m = Len(buffer), NEW c \in Cores, NEW k \in Int, NEW n \in 1 .. m,
         Undisturbed(c, k, n + 1)
  PROVE  Undisturbed(c, k, n)'
<1>1. PICK e : e = Head(buffer)
  OBVIOUS
<1>2. /\ m \in Nat \ {0} /\ DOMAIN buffer = 1 .. m
      /\ \A i \in 1 .. m - 1 : buffer'[i] = buffer[i + 1]
      /\ e = buffer[1] /\ e \in Event
  BY <1>1, Taken
<1>3. Effect(e)
  BY <1>1
<1>4. n + 1 - 1 = n /\ \A j \in 1 .. n - 1 : buffer'[j] = buffer[j + 1] /\ j + 1 \in 1 .. n
  BY <1>2
<1>5. runtime.cores \in [Cores -> Registered \cup {Invalid}]
  BY DEF TypeInv
<1>6. ASSUME NEW i \in 2 .. n, buffer[i].what = "enter", buffer[i].core = c,
             buffer[i].call = k, \A j \in i + 1 .. n : buffer[j].core # c
      PROVE  Entered(c, k, n)'
  <2>1. i - 1 \in 1 .. n - 1 /\ buffer'[i - 1] = buffer[i]
    BY <1>2
  <2>2. \A j \in (i - 1) + 1 .. n - 1 : buffer'[j].core # c
    <3> TAKE j \in (i - 1) + 1 .. n - 1
    <3>1. j + 1 \in i + 1 .. n /\ j \in 1 .. n - 1
      BY <1>2
    <3> QED BY <1>4, <1>6, <3>1
  <2> QED BY <1>6, <2>1, <2>2 DEF Entered
<1>7. ASSUME e.what = "enter", e.core = c, e.call = k,
             \A j \in 2 .. n : buffer[j].core # c
      PROVE  Silent(c, k, n)' /\ Expects(c, k)'
  <2>1. ASSUME NEW j \in 1 .. n - 1
        PROVE  buffer'[j].core # c /\ (buffer'[j].what = "enter" => buffer'[j].call # k)
    <3>1. buffer'[j] = buffer[j + 1] /\ j + 1 \in 2 .. n /\ j + 1 \in 1 .. m /\ 1 \in 1 .. m /\ 1 # j + 1
      BY <1>2, <1>4
    <3>2. buffer[j + 1].what = "enter" => buffer[j + 1].call # buffer[1].call
      BY <1>2, <1>7, <3>1 DEF CallsInv
    <3> QED BY <1>2, <1>7, <3>1, <3>2
  <2>2. Silent(c, k, n)'
    BY <2>1 DEF Silent
  <2> QED BY <1>3, <1>7, <2>2 DEF Effect, Expects
<1>8. ASSUME e.core # c, e.what = "enter" => e.call # k,
             Silent(c, k, n + 1), Expects(c, k)
      PROVE  Silent(c, k, n)' /\ Expects(c, k)'
  <2>1. Silent(c, k, n)'
    BY <1>4, <1>8 DEF Silent
  <2>2. runtime'.cores[c] = runtime.cores[c]
    BY <1>3, <1>5, <1>8 DEF Effect
  <2>3. k \in PoolCalls' => k \in PoolCalls
    BY <1>3, <1>8 DEF Effect
  <2>4. IsLast(runtime.syscalls, c, k) => IsLast(runtime'.syscalls, c, k)
    BY <1>3, <1>8 DEF Effect
  <2> QED BY <1>8, <2>1, <2>2, <2>3, <2>4 DEF Expects
<1>9. CASE Entered(c, k, n + 1)
  <2>1. PICK i \in 1 .. n : /\ buffer[i].what = "enter" /\ buffer[i].core = c
                            /\ buffer[i].call = k
                            /\ \A j \in i + 1 .. n : buffer[j].core # c
    BY <1>2, <1>4, <1>9 DEF Entered
  <2>2. CASE i = 1
    BY <1>2, <1>7, <2>1, <2>2 DEF Undisturbed
  <2>3. CASE i \in 2 .. n
    BY <1>6, <2>1, <2>3 DEF Undisturbed
  <2> QED BY <1>2, <2>2, <2>3
<1>10. CASE Silent(c, k, n + 1) /\ Expects(c, k)
  <2>1. 1 \in 1 .. n
    BY <1>2
  <2> QED BY <1>2, <1>4, <1>8, <1>10, <2>1 DEF Silent, Undisturbed
<1> QED BY <1>9, <1>10 DEF Undisturbed

\* Each event has such an effect, and keeps the calls apart and matched.
LEMMA SwitchTaken ==
  ASSUME IInv, Consume, NEW e, e = Head(buffer), OnSwitch(e)
  PROVE  /\ Effect(e)
         /\ UNCHANGED <<pool, PoolCalls>> /\ runtime'.syscalls = runtime.syscalls
<1>1. e \in Event /\ e.what = "switch"
  BY Taken DEF IInv, OnSwitch
<1>2. runtime' = [runtime EXCEPT !.cores[e.core] = CoreAfter(e)] /\ pool' = pool
  BY DEF OnSwitch
<1>3. runtime \in [tracked : SUBSET Registered,
                   cores : [Cores -> Registered \cup {Invalid}],
                   syscalls : Seq(Entry)]
  BY DEF IInv, TypeInv
<1>4. e.core \in Cores
  BY <1>1 DEF Event
<1>5. CoreAfter(e) \in Registered \cup {Invalid}
  <2>1. CASE e.new \in runtime.tracked
    <3>1. CoreAfter(e) = e.new
      BY <2>1, Zenon DEF CoreAfter
    <3> QED BY <1>3, <2>1, <3>1
  <2>2. CASE e.new \notin runtime.tracked /\ e.old \in runtime.tracked
    <3>1. CoreAfter(e) = Invalid
      BY <2>2, Zenon DEF CoreAfter
    <3> QED BY <3>1
  <2>3. CASE e.new \notin runtime.tracked /\ e.old \notin runtime.tracked
    <3>1. CoreAfter(e) = runtime.cores[e.core]
      BY <2>3, Zenon DEF CoreAfter
    <3> QED BY <1>3, <1>4, <3>1
  <2> QED BY <2>1, <2>2, <2>3
<1>6. PICK x : x = CoreAfter(e)
  OBVIOUS
<1>7. /\ runtime'.tracked = runtime.tracked /\ runtime'.syscalls = runtime.syscalls
      /\ runtime'.cores = [runtime.cores EXCEPT ![e.core] = x]
      /\ runtime' \in [tracked : SUBSET Registered,
                       cores : [Cores -> Registered \cup {Invalid}],
                       syscalls : Seq(Entry)]
  BY <1>2, <1>3, <1>4, <1>5, <1>6
<1>8. PoolCalls' = PoolCalls
  BY <1>2 DEF PoolCalls
<1>9. pool' \in SUBSET Call
  BY <1>2 DEF IInv, TypeInv
<1> QED BY <1>1, <1>2, <1>6, <1>7, <1>8, <1>9 DEF Effect

LEMMA EnterTaken ==
  ASSUME IInv, Consume, NEW e, e = Head(buffer), OnEnter(e)
  PROVE  /\ Effect(e) /\ e \in Event /\ e.what = "enter"
         /\ runtime'.syscalls = Append(runtime.syscalls, [core |-> e.core, call |-> e.call])
         /\ \E s \in Call : /\ pool' = pool \cup {s} /\ s.call = e.call /\ ~s.straight
                            /\ s.threadID = s.by
<1>1. e \in Event /\ e.what = "enter" /\ e = buffer[1]
  BY Taken DEF IInv, OnEnter
<1>2. e.core \in Cores /\ e.call \in Nat /\ e.by \in ThreadIds
  BY <1>1 DEF Event
<1>3. runtime \in [tracked : SUBSET Registered,
                   cores : [Cores -> Registered \cup {Invalid}],
                   syscalls : Seq(Entry)]
  BY DEF IInv, TypeInv
<1> DEFINE x == [core |-> e.core, call |-> e.call]
           s == [call |-> e.call, by |-> e.by, threadID |-> runtime.cores[e.core],
                 endedBy |-> NoCall, straight |-> FALSE]
<1>4. runtime' = [runtime EXCEPT !.syscalls = Append(@, x)] /\ pool' = pool \cup {s}
  BY DEF OnEnter
<1>5. x \in Entry /\ x.core = e.core /\ x.call = e.call
  BY <1>2 DEF Entry
<1>6. runtime.cores[e.core] # Invalid
  BY DEF OnEnter, Visible
<1>7. runtime.cores[e.core] = e.by
  <2>1. PICK h : Follows(h)
    BY DEF IInv, ViewInv
  <2>2. 1 \in DOMAIN buffer
    BY Taken DEF IInv
  <2>3. Ran(h, buffer[1], 1)
    BY <2>1, <2>2 DEF Follows
  <2> QED BY <1>1, <1>2, <1>6, <2>1, <2>3 DEF Follows, Ran
<1>8. s \in Call /\ s.call = e.call /\ ~s.straight /\ s.threadID = s.by
  BY <1>2, <1>7 DEF Call, NoCall
<1> HIDE DEF x, s
<1>9. Append(runtime.syscalls, x) \in Seq(Entry)
  BY <1>3, <1>5, AppendProperties
<1>10. /\ runtime'.tracked = runtime.tracked /\ runtime'.cores = runtime.cores
       /\ runtime'.syscalls = Append(runtime.syscalls, x)
       /\ runtime' \in [tracked : SUBSET Registered,
                        cores : [Cores -> Registered \cup {Invalid}],
                        syscalls : Seq(Entry)]
  BY <1>3, <1>4, <1>9
<1>11. PoolCalls' \subseteq PoolCalls \cup {e.call}
  BY <1>4, <1>8 DEF PoolCalls
<1>12. pool' \in SUBSET Call
  BY <1>4, <1>8 DEF IInv, TypeInv
<1>13. runtime.syscalls \in Seq(Entry)
  BY <1>3
<1>14. /\ \A c \in Cores \ {e.core}, k \in Int :
            IsLast(runtime.syscalls, c, k) => IsLast(runtime'.syscalls, c, k)
       /\ IsLast(runtime'.syscalls, e.core, e.call)
  BY <1>5, <1>10, <1>13, IsLastAppended
<1>15. Effect(e)
  BY <1>1, <1>10, <1>11, <1>12, <1>14 DEF Effect
<1> QED BY <1>1, <1>4, <1>8, <1>10, <1>15 DEF x

LEMMA IgnoredTaken ==
  ASSUME IInv, Consume, NEW e, e = Head(buffer), Ignored(e)
  PROVE  Effect(e) /\ UNCHANGED <<runtime, pool, PoolCalls>>
<1>1. e \in Event /\ e.what # "switch" /\ runtime' = runtime /\ pool' = pool
  BY Taken DEF IInv, Ignored, dataVars
<1>2. PoolCalls' = PoolCalls
  BY <1>1 DEF PoolCalls
<1>3. e.what = "enter" => runtime.cores[e.core] = Invalid
  BY <1>1 DEF Ignored, Visible
<1> QED BY <1>1, <1>2, <1>3 DEF Effect, IInv, TypeInv

\* t is what an exit makes of s, if it ends the call ended.
Exited(s, t, ended, e) ==
  /\ t \in Call
  /\ t.call = s.call /\ t.by = s.by /\ t.threadID = s.threadID
  /\ t.endedBy = IF s.call = ended THEN e.call ELSE s.endedBy
  /\ t.straight <=> s.straight \/ (s.call = e.call /\ e.straight)

LEMMA ExitTaken ==
  ASSUME IInv, Consume, NEW e, e = Head(buffer), OnExit(e)
  PROVE  /\ Effect(e) /\ e \in Event /\ e.what = "exit"
         /\ \E p \in DOMAIN runtime.syscalls :
              /\ runtime.cores[e.core] # Invalid
              /\ runtime.syscalls[p].core = e.core
              /\ \A i \in DOMAIN runtime.syscalls :
                   runtime.syscalls[i].core = e.core => i <= p
              /\ runtime'.syscalls = RemoveAt(runtime.syscalls, p)
              /\ PoolCalls' = PoolCalls
              /\ \A t \in pool' : \E s \in pool : Exited(s, t, runtime.syscalls[p].call, e)
<1>1. e \in Event /\ e.what = "exit"
  BY Taken DEF IInv, OnExit
<1>2. e.core \in Cores /\ e.call \in Int /\ e.straight \in BOOLEAN
  BY <1>1 DEF Event
<1>3. runtime \in [tracked : SUBSET Registered,
                   cores : [Cores -> Registered \cup {Invalid}],
                   syscalls : Seq(Entry)]
  BY DEF IInv, TypeInv
<1>4. PICK p : p = Match(e)
  OBVIOUS
<1>5. /\ p \in DOMAIN runtime.syscalls /\ runtime.syscalls[p].core = e.core
      /\ \A i \in DOMAIN runtime.syscalls : runtime.syscalls[i].core = e.core => i <= p
  <2>1. Match(e) # 0
    BY DEF OnExit
  <2> QED BY <1>1, <1>4, <2>1, MatchIs DEF IInv
<1>6. PICK ended : ended = runtime.syscalls[p].call
  OBVIOUS
<1> DEFINE After(s) == [s EXCEPT !.endedBy = IF s.call = ended THEN e.call ELSE @,
                                 !.straight = @ \/ (s.call = e.call /\ e.straight)]
<1>7. pool' = {After(s) : s \in pool} /\ runtime' = [runtime EXCEPT !.syscalls = RemoveAt(@, p)]
  BY <1>4, <1>6 DEF OnExit
<1>8. ASSUME NEW s \in Call
      PROVE  Exited(s, After(s), ended, e)
  <2>1. PICK b \in BOOLEAN : b = (s.straight \/ (s.call = e.call /\ e.straight))
    BY <1>2
  <2>2. PICK k \in Int : k = IF s.call = ended THEN e.call ELSE s.endedBy
    BY <1>2 DEF Call
  <2>3. After(s) = [s EXCEPT !.endedBy = k, !.straight = b]
    <3>1. After(s) = [s EXCEPT !.endedBy = IF s.call = ended THEN e.call ELSE s.endedBy,
                               !.straight = s.straight \/ (s.call = e.call /\ e.straight)]
      BY DEF Call
    <3> QED BY <2>1, <2>2, <3>1
  <2>4. [s EXCEPT !.endedBy = k, !.straight = b] \in Call
    BY DEF Call
  <2>5. /\ After(s).call = s.call /\ After(s).by = s.by /\ After(s).threadID = s.threadID
        /\ After(s).endedBy = k /\ After(s).straight = b
    BY <2>3 DEF Call
  <2> HIDE DEF After
  <2>6. After(s).straight <=> s.straight \/ (s.call = e.call /\ e.straight)
    BY <2>1, <2>5, Zenon
  <2> QED BY <2>2, <2>3, <2>4, <2>5, <2>6 DEF Exited
<1> HIDE DEF After
<1>9. pool \in SUBSET Call
  BY DEF IInv, TypeInv
<1>10. /\ \A t \in pool' : \E s \in pool : Exited(s, t, ended, e)
       /\ \A s \in pool : \E t \in pool' : Exited(s, t, ended, e)
       /\ pool' \in SUBSET Call
  <2>1. \A s \in pool : Exited(s, After(s), ended, e) /\ After(s) \in Call
    BY <1>8, <1>9 DEF Exited
  <2> QED BY <1>7, <2>1
<1>11. PoolCalls' = PoolCalls
  <2>1. ASSUME NEW k \in PoolCalls
        PROVE  k \in PoolCalls'
    BY <1>10, <2>1 DEF PoolCalls, Exited
  <2>2. ASSUME NEW k \in PoolCalls'
        PROVE  k \in PoolCalls
    BY <1>10, <2>2 DEF PoolCalls, Exited
  <2> QED BY <2>1, <2>2
<1>12. runtime.syscalls \in Seq(Entry) /\ RemoveAt(runtime.syscalls, p) \in Seq(Entry)
  BY <1>3, <1>5, RemoveAtIs
<1>13. /\ runtime'.tracked = runtime.tracked /\ runtime'.cores = runtime.cores
       /\ runtime'.syscalls = RemoveAt(runtime.syscalls, p)
       /\ runtime' \in [tracked : SUBSET Registered,
                        cores : [Cores -> Registered \cup {Invalid}],
                        syscalls : Seq(Entry)]
  BY <1>3, <1>7, <1>12
<1>14. \A c \in Cores \ {e.core}, k \in Int :
         IsLast(runtime.syscalls, c, k) => IsLast(runtime'.syscalls, c, k)
  BY <1>5, <1>12, <1>13, IsLastRemoved
<1>15. Effect(e)
  BY <1>1, <1>10, <1>11, <1>13, <1>14 DEF Effect
<1>16. runtime.cores[e.core] # Invalid
  BY DEF OnExit, Visible
<1> QED BY <1>1, <1>5, <1>6, <1>10, <1>11, <1>13, <1>15, <1>16

\* The enters on their way are still those of calls not seen yet.
EntersInv ==
  \A i \in DOMAIN buffer : buffer[i].what = "enter" =>
    /\ buffer[i].call \in 1 .. made \ PoolCalls
    /\ \A k \in DOMAIN buffer :
         buffer[k].what = "enter" /\ buffer[i].call = buffer[k].call => i = k

LEMMA TakenEnters ==
  ASSUME IInv, Consume, Effect(Head(buffer))
  PROVE  EntersInv' /\ PoolCalls' \subseteq 1 .. made'
<1>1. PICK e, m : e = Head(buffer) /\ m = Len(buffer)
  OBVIOUS
<1>2. /\ m \in Nat \ {0} /\ DOMAIN buffer = 1 .. m /\ DOMAIN buffer' = 1 .. m - 1
      /\ \A i \in 1 .. m - 1 : buffer'[i] = buffer[i + 1]
      /\ e = buffer[1] /\ made' = made
  BY <1>1, Taken DEF IInv
<1>3. PoolCalls' \subseteq PoolCalls \cup (IF e.what = "enter" THEN {e.call} ELSE {})
  BY <1>1 DEF Effect
<1>4. EntersInv /\ PoolCalls \subseteq 1 .. made
  BY DEF IInv, CallsInv, EntersInv
<1>5. 1 \in DOMAIN buffer
  BY <1>2
<1>6. PoolCalls' \subseteq 1 .. made'
  BY <1>2, <1>3, <1>4, <1>5 DEF EntersInv
<1>7. ASSUME NEW i \in 1 .. m - 1, buffer'[i].what = "enter"
      PROVE  /\ buffer'[i].call \in 1 .. made' \ PoolCalls'
             /\ \A k \in 1 .. m - 1 :
                  buffer'[k].what = "enter" /\ buffer'[i].call = buffer'[k].call => i = k
  <2>1. i + 1 \in DOMAIN buffer /\ i + 1 # 1 /\ buffer'[i] = buffer[i + 1]
    BY <1>2
  <2>2. buffer[i + 1].call \in 1 .. made \ PoolCalls
    BY <1>4, <1>7, <2>1 DEF EntersInv
  <2>3. e.what = "enter" => buffer[i + 1].call # e.call
    BY <1>2, <1>4, <1>5, <1>7, <2>1 DEF EntersInv
  <2>4. buffer'[i].call \in 1 .. made' \ PoolCalls'
    BY <1>2, <1>3, <2>1, <2>2, <2>3
  <2>5. ASSUME NEW k \in 1 .. m - 1, buffer'[k].what = "enter", buffer'[i].call = buffer'[k].call
        PROVE  i = k
    <3>1. k + 1 \in DOMAIN buffer /\ buffer'[k] = buffer[k + 1]
      BY <1>2
    <3>2. i + 1 = k + 1
      BY <1>4, <1>7, <2>1, <2>5, <3>1 DEF EntersInv
    <3> QED BY <3>2
  <2> QED BY <2>4, <2>5
<1> QED BY <1>2, <1>6, <1>7 DEF EntersInv

\* The entries that wait are those of different calls of the pool.
EntriesInv ==
  /\ \A i \in DOMAIN runtime.syscalls :
       /\ runtime.syscalls[i].call \in PoolCalls
       /\ \A k \in DOMAIN runtime.syscalls :
            runtime.syscalls[i].call = runtime.syscalls[k].call => i = k
  /\ \A s \in pool : s.straight =>
       \A i \in DOMAIN runtime.syscalls : runtime.syscalls[i].call # s.call

LEMMA EnterMatched ==
  ASSUME IInv, Consume, OnEnter(Head(buffer))
  PROVE  EntriesInv' /\ SyscallsMatched'
<1>1. PICK e : e = Head(buffer)
  OBVIOUS
<1> DEFINE x == [core |-> e.core, call |-> e.call]
<1>2. e \in Event /\ e.what = "enter" /\ runtime'.syscalls = Append(runtime.syscalls, x)
  BY <1>1, EnterTaken
<1>3. PICK s \in Call : /\ pool' = pool \cup {s} /\ s.call = e.call /\ ~s.straight
                        /\ s.threadID = s.by
  BY <1>1, EnterTaken
<1>4. runtime.syscalls \in Seq(Entry)
  BY DEF IInv, TypeInv
<1>5. PICK t : t = runtime.syscalls
  OBVIOUS
<1>6. PICK u : u = runtime'.syscalls
  OBVIOUS
<1>7. x \in Entry /\ x.call = e.call
  BY <1>2 DEF Event, Entry
<1> HIDE DEF x
<1>8. PICK n \in Nat : /\ n = Len(t) /\ DOMAIN t = 1 .. n /\ DOMAIN u = 1 .. n + 1
                       /\ \A i \in 1 .. n : u[i] = t[i]
                       /\ u[n + 1] = x
  <2>1. t \in Seq(Entry) /\ u = Append(t, x)
    BY <1>2, <1>4, <1>5, <1>6
  <2> QED BY <1>7, <2>1, AppendProperties, LenProperties
<1>9. PoolCalls' = PoolCalls \cup {e.call}
  BY <1>3 DEF PoolCalls
<1>10. e.call \notin PoolCalls
  <2>1. 1 \in DOMAIN buffer /\ e = buffer[1]
    BY <1>1, Taken DEF IInv
  <2> QED BY <1>2, <2>1 DEF IInv, CallsInv
<1>11. \A i \in 1 .. n : t[i].call \in PoolCalls /\ u[i].call = t[i].call
  BY <1>5, <1>8 DEF IInv, CallsInv
<1>12. u[n + 1].call = e.call
  BY <1>7, <1>8
<1>13. ASSUME NEW i \in DOMAIN u
       PROVE  /\ u[i].call \in PoolCalls'
              /\ \A k \in DOMAIN u : u[i].call = u[k].call => i = k
  <2>1. \A k, l \in 1 .. n : t[k].call = t[l].call => k = l
    BY <1>5, <1>8 DEF IInv, CallsInv
  <2>2. \A k \in DOMAIN u : k \in 1 .. n \/ k = n + 1
    BY <1>8
  <2> QED BY <1>9, <1>10, <1>11, <1>12, <2>1, <2>2
<1>14. ASSUME NEW r \in pool', r.straight
       PROVE  \A i \in DOMAIN u : u[i].call # r.call
  <2>1. r \in pool /\ r.call \in PoolCalls
    BY <1>3, <1>14 DEF PoolCalls
  <2>2. \A i \in 1 .. n : t[i].call # r.call
    BY <1>5, <1>8, <1>14, <2>1 DEF IInv, CallsInv
  <2>3. \A i \in DOMAIN u : i \in 1 .. n \/ i = n + 1
    BY <1>8
  <2> QED BY <1>10, <1>11, <1>12, <2>1, <2>2, <2>3
<1>15. EntriesInv'
  BY <1>6, <1>13, <1>14 DEF EntriesInv
<1>16. SyscallsMatched'
  BY <1>3 DEF SyscallsMatched, IInv
<1> QED BY <1>15, <1>16

LEMMA ExitMatched ==
  ASSUME IInv, Consume, OnExit(Head(buffer))
  PROVE  EntriesInv' /\ SyscallsMatched'
<1>1. PICK e : e = Head(buffer)
  OBVIOUS
<1>2. e \in Event /\ e.what = "exit"
  BY <1>1, ExitTaken
<1>3. PICK p \in DOMAIN runtime.syscalls :
        /\ runtime.cores[e.core] # Invalid
        /\ runtime.syscalls[p].core = e.core
        /\ \A i \in DOMAIN runtime.syscalls : runtime.syscalls[i].core = e.core => i <= p
        /\ runtime'.syscalls = RemoveAt(runtime.syscalls, p)
        /\ PoolCalls' = PoolCalls
        /\ \A t \in pool' : \E s \in pool : Exited(s, t, runtime.syscalls[p].call, e)
  BY <1>1, ExitTaken
<1>4. PICK ended : ended = runtime.syscalls[p].call
  OBVIOUS
<1>5. PICK w, u : w = runtime.syscalls /\ u = runtime'.syscalls
  OBVIOUS
<1>6. PICK n \in Nat : /\ n = Len(w) /\ DOMAIN w = 1 .. n /\ DOMAIN u = 1 .. n - 1
                       /\ \A i \in 1 .. n - 1 : u[i] = w[IF i < p THEN i ELSE i + 1]
                       /\ p \in 1 .. n
  <2>1. w \in Seq(Entry) /\ p \in DOMAIN w /\ u = RemoveAt(w, p)
    BY <1>3, <1>5 DEF IInv, TypeInv
  <2>2. Len(w) \in Nat /\ DOMAIN w = 1 .. Len(w)
    BY <2>1, LenProperties
  <2>3. /\ u \in Seq(Entry) /\ Len(u) = Len(w) - 1
        /\ \A i \in 1 .. Len(w) - 1 : u[i] = w[IF i < p THEN i ELSE i + 1]
    BY <2>1, RemoveAtIs
  <2>4. DOMAIN u = 1 .. Len(w) - 1
    BY <2>3, LenProperties
  <2> QED BY <2>1, <2>2, <2>3, <2>4
<1>7. /\ \A i \in 1 .. n : w[i].call \in PoolCalls
      /\ \A i, k \in 1 .. n : w[i].call = w[k].call => i = k
      /\ \A s \in pool : s.straight => \A i \in 1 .. n : w[i].call # s.call
  <2>1. CallsInv /\ DOMAIN w = 1 .. n
    BY <1>6 DEF IInv
  <2>2. \A s \in pool : s.straight => \A i \in DOMAIN w : w[i].call # s.call
    BY <1>5, <2>1 DEF CallsInv
  <2>3. \A i \in DOMAIN w : /\ w[i].call \in PoolCalls
                            /\ \A k \in DOMAIN w : w[i].call = w[k].call => i = k
    BY <1>5, <2>1 DEF CallsInv
  <2> QED BY <2>1, <2>2, <2>3
<1>8. ASSUME NEW i \in 1 .. n - 1
      PROVE  \E k \in 1 .. n : k # p /\ u[i] = w[k] /\ k = IF i < p THEN i ELSE i + 1
  BY <1>6
<1>9. e.straight /\ e.call \in PoolCalls => ended = e.call
  <2> SUFFICES ASSUME e.straight, e.call \in PoolCalls
               PROVE  ended = e.call
    OBVIOUS
  <2>1. PICK c \in Cores, k \in Int : c = e.core /\ k = e.call
    BY <1>2 DEF Event
  <2>2. k # Old
    BY <2>1 DEF IInv, CallsInv, Old
  <2>3. 1 \in DOMAIN buffer /\ e = buffer[1]
    BY <1>1, Taken DEF IInv
  <2>4. Undisturbed(c, k, 1)
    BY <1>2, <2>1, <2>2, <2>3 DEF IInv, ExitsInv
  <2>5. Expects(c, k)
    BY <2>4 DEF Undisturbed, Entered
  <2>6. IsLast(runtime.syscalls, c, k)
    BY <1>3, <2>1, <2>5 DEF Expects
  <2>7. PICK i \in 1 .. n : /\ w[i].core = c /\ w[i].call = k
                            /\ \A l \in 1 .. n : w[l].core = c => l <= i
    BY <1>5, <1>6, <2>6 DEF IsLast
  <2>8. i = p
    BY <1>3, <1>5, <1>6, <2>1, <2>7
  <2> QED BY <1>4, <1>5, <2>1, <2>7, <2>8
<1>10. ASSUME NEW i \in DOMAIN u
       PROVE  /\ u[i].call \in PoolCalls'
              /\ u[i].call # ended
              /\ \A k \in DOMAIN u : u[i].call = u[k].call => i = k
  <2>1. PICK j \in 1 .. n : j # p /\ u[i] = w[j] /\ j = IF i < p THEN i ELSE i + 1
    BY <1>6, <1>8
  <2>2. u[i].call \in PoolCalls' /\ u[i].call # ended
    BY <1>3, <1>4, <1>5, <1>6, <1>7, <2>1
  <2>3. ASSUME NEW k \in DOMAIN u, u[i].call = u[k].call
        PROVE  i = k
    <3>1. PICK l \in 1 .. n : l # p /\ u[k] = w[l] /\ l = IF k < p THEN k ELSE k + 1
      BY <1>6, <1>8
    <3>2. j = l
      BY <1>7, <2>1, <2>3, <3>1
    <3> QED BY <1>6, <2>1, <3>1, <3>2
  <2> QED BY <2>2, <2>3
<1>11. ASSUME NEW t \in pool'
       PROVE  /\ t.threadID = t.by
              /\ t.straight => t.endedBy = t.call
              /\ t.straight => \A i \in DOMAIN u : u[i].call # t.call
  <2>1. PICK s \in pool : Exited(s, t, ended, e)
    BY <1>3, <1>4
  <2>2. s.threadID = s.by /\ (s.straight => s.endedBy = s.call)
    BY DEF IInv, SyscallsMatched
  <2>3. CASE s.straight
    <3>1. s.call # ended
      BY <1>4, <1>5, <1>6, <1>7, <2>3
    <3>2. \A i \in DOMAIN u : u[i].call # s.call
      BY <1>6, <1>7, <1>8, <2>3
    <3> QED BY <2>1, <2>2, <2>3, <3>1, <3>2 DEF Exited
  <2>4. CASE s.call = e.call /\ e.straight
    <3>1. e.call \in PoolCalls
      BY <2>4 DEF PoolCalls
    <3>2. ended = e.call
      BY <1>9, <2>4, <3>1
    <3> QED BY <1>10, <2>1, <2>2, <2>4, <3>2 DEF Exited
  <2>5. CASE ~s.straight /\ ~(s.call = e.call /\ e.straight)
    BY <2>1, <2>2, <2>5 DEF Exited
  <2> QED BY <2>3, <2>4, <2>5
<1>12. EntriesInv'
  BY <1>5, <1>10, <1>11 DEF EntriesInv
<1>13. SyscallsMatched'
  BY <1>11 DEF SyscallsMatched
<1> QED BY <1>12, <1>13

LEMMA ConsumeStep ==
  ASSUME IInv, Consume
  PROVE  /\ TypeInv' /\ ThreadsInv' /\ ViewInv' /\ CallsInv' /\ ExitsInv' /\ OpenInv'
         /\ SyscallsMatched'
<1>1. PICK e, m : e = Head(buffer) /\ m = Len(buffer)
  OBVIOUS
<1>2. /\ m \in Nat \ {0} /\ DOMAIN buffer = 1 .. m /\ DOMAIN buffer' = 1 .. m - 1
      /\ Len(buffer') = m - 1 /\ buffer' \in Seq(Event)
      /\ \A i \in 1 .. m - 1 : buffer'[i] = buffer[i + 1]
      /\ UNCHANGED <<running, calls, switched, made>> /\ consumer' = "processing"
  BY <1>1, Taken DEF IInv
<1>4. OnSwitch(e) \/ OnEnter(e) \/ OnExit(e) \/ Ignored(e)
  BY <1>1 DEF Consume
<1>5. Effect(e)
  BY <1>1, <1>4, SwitchTaken, EnterTaken, ExitTaken, IgnoredTaken
<1>6. EntriesInv' /\ SyscallsMatched'
  <2>1. CASE OnSwitch(e)
    BY <1>1, <2>1, SwitchTaken DEF IInv, CallsInv, EntriesInv, SyscallsMatched
  <2>2. CASE Ignored(e)
    BY <1>1, <2>2, IgnoredTaken DEF IInv, CallsInv, EntriesInv, SyscallsMatched
  <2> QED BY <1>1, <1>4, <2>1, <2>2, EnterMatched, ExitMatched
<1>7. TypeInv'
  BY <1>2, <1>5 DEF IInv, TypeInv, Effect
<1>8. ThreadsInv'
  BY <1>2 DEF IInv, ThreadsInv
<1>9. ViewInv'
  BY <1>1, <1>5, TakenView DEF IInv
<1>10. CallsInv'
  BY <1>1, <1>2, <1>5, <1>6, TakenEnters DEF CallsInv, EntersInv, EntriesInv
<1>11. ExitsInv'
  <2> SUFFICES ASSUME NEW n \in 1 .. m - 1, NEW c \in Cores, NEW k \in Int \ {Old},
                      buffer'[n].what = "exit", buffer'[n].straight,
                      buffer'[n].core = c, buffer'[n].call = k
               PROVE  Undisturbed(c, k, n)'
    BY <1>2 DEF ExitsInv
  <2>1. buffer'[n] = buffer[n + 1] /\ n + 1 \in DOMAIN buffer /\ n \in 1 .. m
    BY <1>2
  <2>2. Undisturbed(c, k, n + 1)
    BY <2>1 DEF IInv, ExitsInv
  <2> QED BY <1>1, <1>5, <2>1, <2>2, TakenUndisturbed DEF IInv
<1>12. OpenInv'
  <2> SUFFICES ASSUME NEW c \in Cores, NEW k \in Int \ {NoCall, Old},
                      calls[running[c]] = k, running[c] \notin switched
               PROVE  Undisturbed(c, k, Len(buffer) + 1)'
    BY <1>2 DEF OpenInv
  <2>1. Undisturbed(c, k, m + 1)
    BY <1>1 DEF IInv, OpenInv
  <2>2. m \in 1 .. m
    BY <1>2
  <2>3. Undisturbed(c, k, m)'
    BY <1>1, <1>5, <2>1, <2>2, TakenUndisturbed DEF IInv
  <2>4. Len(buffer') + 1 = m
    BY <1>2
  <2> QED BY <2>3, <2>4
<1> QED BY <1>6, <1>7, <1>8, <1>9, <1>10, <1>11, <1>12

-----------------------------------------------------------------------------
(* The theorems.                                                           *)

LEMMA InitInv == Init => IInv
<1> SUFFICES ASSUME Init
             PROVE  IInv
  OBVIOUS
<1>1. /\ buffer = <<>> /\ pool = {} /\ made = 0 /\ runtime = Reset({}) /\ consumer = "none"
      /\ running \in [Cores -> ThreadIds] /\ \A c, d \in Cores : running[c] = running[d] => c = d
      /\ calls \in [ThreadIds -> {NoCall, Old}]
  BY DEF Init
<1>2. <<>> \in Seq(Event) /\ Len(<<>>) = 0 /\ DOMAIN <<>> = {} /\ <<>> \in Seq(Entry)
  BY EmptySeq
<1>3. /\ runtime \in [tracked : SUBSET Registered,
                      cores : [Cores -> Registered \cup {Invalid}],
                      syscalls : Seq(Entry)]
      /\ runtime.syscalls = <<>> /\ \A c \in Cores : runtime.cores[c] = Invalid
  BY <1>1, <1>2 DEF Reset
<1>4. TypeInv
  <2>1. NoCall \in Int /\ Old \in Int
    BY DEF NoCall, Old
  <2> QED BY <1>1, <1>2, <1>3, <2>1 DEF TypeInv
<1>5. ControlInv
  BY DEF Init, ControlInv
<1>6. ThreadsInv
  BY <1>1 DEF ThreadsInv
<1>7. ViewInv
  <2>1. PICK h : h = [n \in 1 .. 1 |-> running]
    OBVIOUS
  <2>2. Follows(h)
    BY <1>1, <1>2, <1>3, <2>1 DEF Follows
  <2> QED BY <1>3, <2>2 DEF ViewInv
<1>8. CallsInv
  BY <1>1, <1>2, <1>3 DEF CallsInv, PoolCalls
<1>9. ExitsInv
  BY <1>1, <1>2 DEF ExitsInv
<1>10. OpenInv
  BY <1>1 DEF OpenInv
<1>11. SyscallsMatched
  BY <1>1 DEF SyscallsMatched
<1> QED BY <1>4, <1>5, <1>6, <1>7, <1>8, <1>9, <1>10, <1>11 DEF IInv

LEMMA StepInv ==
  ASSUME IInv, [Next]_vars
  PROVE  IInv'
<1>1. ControlInv'
  BY ControlStep DEF IInv
<1>2. ASSUME pool' \subseteq pool
      PROVE  SyscallsMatched'
  BY <1>2 DEF IInv, SyscallsMatched
<1>3. ASSUME NEW c \in Cores, NEW t \in ThreadIds, SwitchTo(c, t)
      PROVE  IInv'
  BY <1>1, <1>2, <1>3, SwitchStep DEF IInv, SwitchTo, Logged
<1>4. ASSUME NEW c \in Cores, EnterCall(c)
      PROVE  IInv'
  BY <1>1, <1>2, <1>4, EnterStep DEF IInv, EnterCall, Logged
<1>5. ASSUME NEW c \in Cores, ExitCall(c)
      PROVE  IInv'
  BY <1>1, <1>2, <1>5, ExitStep DEF IInv, ExitCall, Logged
<1>6. CASE StartTraceSucceeds
  <2>1. pool' = pool
    BY <1>6 DEF StartTraceSucceeds, CoreFrame
  <2> QED BY <1>1, <1>2, <1>6, <2>1, StartTraceStep DEF IInv
<1>7. CASE Quiet
  <2>1. pool' \subseteq pool
    BY <1>7 DEF Quiet
  <2> QED BY <1>1, <1>2, <1>7, <2>1, QuietStep DEF IInv
<1>8. CASE Consume
  BY <1>1, <1>8, ConsumeStep DEF IInv
<1>9. ASSUME \/ OtherProgram \/ (Start /\ ~StartTraceSucceeds) \/ Stop
             \/ ConsumerBegins \/ ConsumerEnds \/ UNCHANGED vars
      PROVE  Quiet
  BY <1>9, CoreQuiet DEF IInv
<1> QED BY <1>3, <1>4, <1>5, <1>6, <1>7, <1>8, <1>9 DEF Next, Windows, Start

\* The inductive invariant: the events under way and what the consumer has seen.
THEOREM Invariance == Spec => []IInv
<1>1. IInv /\ [Next]_vars => IInv'
  BY StepInv
<1> QED BY InitInv, <1>1, PTL DEF Spec

\* A call is reported as one of the thread that made it, and ends with its own
\* exit if its thread was not switched out (win.h:970-982, 1052-1098).
THEOREM SyscallsMatchedThm == Spec => []SyscallsMatched
<1>1. IInv => SyscallsMatched
  BY DEF IInv
<1> QED BY Invariance, <1>1, PTL

=============================================================================
