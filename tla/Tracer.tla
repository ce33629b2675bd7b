------------------------------- MODULE Tracer -------------------------------
(***************************************************************************)
(* Optick's tracer on Windows (ETW, src/optick/src/optick_core.win.h), as  *)
(* Core::Activate and Core::DumpFrames use it: the one kernel session of   *)
(* the machine, which other programs want as well, the thread that         *)
(* consumes its events, and the system calls that these events make up.    *)
(*                                                                         *)
(* Windows is external: threads run on cores, are switched, and enter and  *)
(* leave system calls.  The session delivers every event, in order.        *)
(***************************************************************************)
EXTENDS Integers, Sequences, FiniteSets, SequencesExt

CONSTANTS
  Cores,
  Registered,   \* the threads registered and alive when a capture starts
  Strangers,    \* other threads
  Invalid,      \* INVALID_THREAD_ID
  MaxCaptures, MaxCalls, MaxBuffer, MaxOthers  \* bounds

ASSUME InvalidAssumption == Invalid \notin Registered \cup Strangers

VARIABLES
  pc,        \* where Core is with the tracer
  tries,     \* retryCount
  mode,      \* which of AUTOSAMPLING and SYS_CALLS the tracer was started with
  isActive,
  consumer,  \* where RunProcessTraceThreadFunction is
  runtime,   \* ETWRuntime
  pool,      \* syscallCollector
  session,   \* whose the kernel session is
  buffer,    \* the events not delivered
  running,   \* the thread on each core
  calls,     \* the system call that each thread is in
  switched,  \* history: the threads switched out in their call
  made,      \* history: the calls made, for their names
  captures, others, \* for the bounds
  leaked     \* history: whether a start failed and left the session

osVars == <<running, calls, switched, made>>
dataVars == <<runtime, pool>>
vars == <<pc, tries, mode, isActive, consumer, runtime, pool, session, buffer,
          running, calls, switched, made, captures, others, leaked>>

ThreadIds == Registered \cup Strangers

Pcs == {"idle", "trace", "conflict", "info", "open", "on", "failed", "close", "wait", "stopped"}

\* No call, and a call made before the first capture.
NoCall == 0
Old == -1

Reset(threads) == [tracked |-> threads, cores |-> [c \in Cores |-> Invalid], syscalls |-> <<>>]

Init ==
  /\ pc = "idle"
  /\ tries = 0
  /\ mode = {}
  /\ isActive = FALSE
  /\ consumer = "none"
  /\ runtime = Reset({})
  /\ pool = {}
  /\ session = "none"
  /\ buffer = <<>>
  /\ running \in {r \in [Cores -> ThreadIds] : \A c, d \in Cores : r[c] = r[d] => c = d}
  /\ calls \in [ThreadIds -> {NoCall, Old}]
  /\ switched = {}
  /\ made = 0
  /\ captures = 0
  /\ others = 0
  /\ leaked = FALSE

-----------------------------------------------------------------------------
(* Windows.                                                                *)

\* A session that runs records what happens.  Nobody ever reads the events of one
\* that a failed start has left.
Logged(event) ==
  /\ session = "ours" /\ pc \in {"info", "open", "on"}
  /\ Len(buffer) < MaxBuffer
  /\ buffer' = Append(buffer, event)
  /\ UNCHANGED <<pc, tries, mode, isActive, consumer, runtime, pool, session,
                 captures, others, leaked>>

SwitchTo(c, t) ==
  /\ \A d \in Cores : running[d] # t
  /\ running' = [running EXCEPT ![c] = t]
  /\ switched' = IF calls[running[c]] = NoCall THEN switched ELSE switched \cup {running[c]}
  /\ Logged([what |-> "switch", core |-> c, old |-> running[c], new |-> t])
  /\ UNCHANGED <<calls, made>>

EnterCall(c) ==
  /\ "syscalls" \in mode
  /\ calls[running[c]] = NoCall
  /\ made < MaxCalls
  /\ made' = made + 1
  /\ calls' = [calls EXCEPT ![running[c]] = made']
  /\ Logged([what |-> "enter", core |-> c, call |-> made', by |-> running[c]])
  /\ UNCHANGED <<running, switched>>

ExitCall(c) ==
  /\ "syscalls" \in mode
  /\ calls[running[c]] # NoCall
  /\ calls' = [calls EXCEPT ![running[c]] = NoCall]
  /\ switched' = switched \ {running[c]}
  /\ Logged([what |-> "exit", core |-> c, call |-> calls[running[c]],
             straight |-> running[c] \notin switched])
  /\ UNCHANGED <<running, made>>

\* Another program stops the session and starts one of its own.
OtherProgram ==
  /\ others < MaxOthers
  /\ others' = others + 1
  /\ session' = "other"
  /\ UNCHANGED <<pc, tries, mode, isActive, consumer, dataVars, buffer, osVars, captures, leaked>>

-----------------------------------------------------------------------------
(* ETW::Start and Stop, as Core::Activate calls them.                      *)

CoreFrame == UNCHANGED <<osVars, others, pool>>

\* Each attempt begins with a new runtime.
Attempt(modes) ==
  /\ pc' = "trace"
  /\ tries' = 4
  /\ mode' = modes
  /\ runtime' = Reset(Registered)

Activate(modes) ==
  /\ pc = "idle"
  /\ captures < MaxCaptures
  /\ captures' = captures + 1
  /\ Attempt(modes)
  /\ CoreFrame
  /\ UNCHANGED <<isActive, consumer, session, buffer, leaked>>

\* An error; Core tries once more without AUTOSAMPLING.
Fail ==
  /\ IF "sampling" \in mode
     THEN Attempt(mode \ {"sampling"})
     ELSE pc' = "failed" /\ tries' = 0 /\ UNCHANGED <<mode, runtime>>
  /\ UNCHANGED <<isActive, consumer>>

\* After an attempt of StartTrace that may be repeated.
Again(next) ==
  IF tries > 1
  THEN pc' = next /\ tries' = tries - 1 /\ UNCHANGED <<mode, isActive, consumer, runtime>>
  ELSE Fail

StartTraceSucceeds ==
  /\ pc = "trace" /\ session = "none"
  /\ session' = "ours"
  /\ buffer' = <<>>
  /\ leaked' = FALSE
  /\ tries' = 0
  /\ pc' = IF mode = {} THEN "open" ELSE "info"
  /\ CoreFrame
  /\ UNCHANGED <<mode, isActive, consumer, runtime, captures>>

\* ERROR_NO_SUCH_PRIVILEGE.
NoPrivilege ==
  /\ pc = "trace" /\ session = "none"
  /\ Again("trace")
  /\ CoreFrame
  /\ UNCHANGED <<session, buffer, captures, leaked>>

\* ERROR_ACCESS_DENIED, or any other error.
Denied ==
  /\ pc = "trace"
  /\ Fail
  /\ CoreFrame
  /\ UNCHANGED <<session, buffer, captures, leaked>>

\* ERROR_ALREADY_EXISTS.
AlreadyExists ==
  /\ pc = "trace" /\ session # "none"
  /\ pc' = "conflict"
  /\ CoreFrame
  /\ UNCHANGED <<tries, mode, isActive, consumer, runtime, session, buffer, captures, leaked>>

\* The session is stopped, whose ever it is.
StopExisting ==
  /\ pc = "conflict"
  /\ session' = "none"
  /\ leaked' = FALSE
  /\ Again("trace")
  /\ CoreFrame
  /\ UNCHANGED <<buffer, captures>>

SetInformation ==
  /\ pc = "info"
  /\ pc' = "open"
  /\ CoreFrame
  /\ UNCHANGED <<tries, mode, isActive, consumer, runtime, session, buffer, captures, leaked>>

\* TraceSetInformation or OpenTrace fails, and the session goes on.
FailLate ==
  /\ pc \in {"info", "open"}
  /\ leaked' = TRUE
  /\ Fail
  /\ CoreFrame
  /\ UNCHANGED <<session, buffer, captures>>

\* OpenTrace and CreateThread.
OpenTrace ==
  /\ pc = "open"
  /\ pc' = "on"
  /\ consumer' = "starting"
  /\ isActive' = TRUE
  /\ CoreFrame
  /\ UNCHANGED <<tries, mode, runtime, session, buffer, captures, leaked>>

\* Variant: the session is not stopped.
ControlNothing ==
  /\ pc = "on"
  /\ pc' = "close"
  /\ CoreFrame
  /\ UNCHANGED <<tries, mode, isActive, consumer, runtime, session, buffer, captures, leaked>>

\* Stop: ControlTrace stops the kernel session, by its name.
ControlTrace ==
  /\ pc = "on"
  /\ pc' = "close"
  /\ session' = "none"
  /\ CoreFrame
  /\ UNCHANGED <<tries, mode, isActive, consumer, runtime, buffer, captures, leaked>>

CloseTrace ==
  /\ pc = "close"
  /\ pc' = "wait"
  /\ CoreFrame
  /\ UNCHANGED <<tries, mode, isActive, consumer, runtime, session, buffer, captures, leaked>>

\* WaitForSingleObject, the end of Stop, and that of the tracer.
WaitForConsumer ==
  /\ pc = "wait"
  /\ consumer = "ended"
  /\ pc' = "stopped"
  /\ consumer' = "none"
  /\ isActive' = FALSE
  /\ mode' = {}
  /\ runtime' = Reset({})
  /\ CoreFrame
  /\ UNCHANGED <<tries, session, buffer, captures, leaked>>

\* Stop without a session.
StopInactive ==
  /\ pc = "failed"
  /\ ~isActive
  /\ pc' = "stopped"
  /\ mode' = {}
  /\ runtime' = Reset({})
  /\ CoreFrame
  /\ UNCHANGED <<tries, isActive, consumer, session, buffer, captures, leaked>>

\* The capture is dumped and the calls sent, or it was cancelled.
Dump(sent) ==
  /\ pc = "stopped"
  /\ pc' = "idle"
  /\ pool' = IF sent THEN {} ELSE pool
  /\ UNCHANGED <<tries, mode, isActive, consumer, runtime, session, buffer, osVars,
                 captures, others, leaked>>

-----------------------------------------------------------------------------
(* The consumer.                                                           *)

ConsumerFrame ==
  UNCHANGED <<pc, tries, mode, isActive, session, osVars, captures, others, leaked>>

ConsumerBegins ==
  /\ consumer = "starting"
  /\ consumer' = "processing"
  /\ ConsumerFrame
  /\ UNCHANGED <<dataVars, buffer>>

\* ProcessTrace delivers what is left after the session or the handle is closed.
ConsumerEnds ==
  /\ consumer = "processing"
  /\ buffer = <<>>
  /\ session # "ours" \/ pc = "wait"
  /\ consumer' = "ended"
  /\ ConsumerFrame
  /\ UNCHANGED <<dataVars, buffer>>

\* OnThreadEvent: the thread that a core runs now.
CoreAfter(event) ==
  CASE event.new \in runtime.tracked -> event.new
    [] event.new \notin runtime.tracked /\ event.old \in runtime.tracked -> Invalid
    [] OTHER -> runtime.cores[event.core]

OnSwitch(event) ==
  /\ event.what = "switch"
  /\ runtime' = [runtime EXCEPT !.cores[event.core] = CoreAfter(event)]
  /\ UNCHANGED pool

Visible(event) == runtime.cores[event.core] # Invalid

\* SysCallEnter: a new entry of the pool, and a pointer to it.
OnEnter(event) ==
  /\ event.what = "enter" /\ Visible(event)
  /\ pool' = pool \cup {[call |-> event.call, by |-> event.by,
                         threadID |-> runtime.cores[event.core], endedBy |-> NoCall,
                         straight |-> FALSE]}
  /\ runtime' = [runtime EXCEPT !.syscalls =
                   Append(@, [core |-> event.core, call |-> event.call])]

\* Variant: the first entry of the core.
MatchFirst(event) ==
  SelectInSeq(runtime.syscalls, LAMBDA s : s.core = event.core)

\* The last entry of the core, 0 if there is none.
Match(event) ==
  SelectLastInSeq(runtime.syscalls, LAMBDA s : s.core = event.core)

\* SysCallExit: the call of that entry is over.  Whose it was is not asked.
OnExit(event) ==
  /\ event.what = "exit" /\ Visible(event) /\ Match(event) # 0
  /\ LET ended == runtime.syscalls[Match(event)].call
     IN pool' = {[s EXCEPT !.endedBy = IF s.call = ended THEN event.call ELSE @,
                           !.straight = @ \/ (s.call = event.call /\ event.straight)]
                   : s \in pool}
  /\ runtime' = [runtime EXCEPT !.syscalls = RemoveAt(@, Match(event))]

Ignored(event) ==
  /\ event.what # "switch"
  /\ ~Visible(event) \/ (event.what = "exit" /\ Match(event) = 0)
  /\ UNCHANGED dataVars

\* OnRecordEvent.
Consume ==
  /\ consumer = "processing"
  /\ buffer # <<>>
  /\ LET event == Head(buffer)
     IN OnSwitch(event) \/ OnEnter(event) \/ OnExit(event) \/ Ignored(event)
  /\ buffer' = Tail(buffer)
  /\ consumer' = consumer
  /\ ConsumerFrame

Windows ==
  \/ \E c \in Cores : (\E t \in ThreadIds : SwitchTo(c, t)) \/ EnterCall(c) \/ ExitCall(c)
  \/ OtherProgram

Start ==
  \/ \E modes \in SUBSET {"sampling", "syscalls"} : Activate(modes)
  \/ StartTraceSucceeds \/ NoPrivilege \/ Denied \/ AlreadyExists \/ StopExisting
  \/ SetInformation \/ FailLate \/ OpenTrace

Stop == ControlTrace \/ CloseTrace \/ WaitForConsumer \/ StopInactive \/ \E sent \in BOOLEAN : Dump(sent)

Next == Windows \/ Start \/ Stop \/ ConsumerBegins \/ ConsumerEnds \/ Consume

Spec == Init /\ [][Next]_vars

-----------------------------------------------------------------------------
(* Properties.                                                             *)

\* A call is reported as one of the thread that made it, though Windows names
\* only the core; and one in which its thread was not switched out ends with its
\* own exit (optick_core.win.h:970-982, 1052-1098).
SyscallsMatched ==
  \A s \in pool :
    /\ s.threadID = s.by
    /\ s.straight => s.endedBy = s.call

\* Once a capture is over no consumer uses the tracer, which is deleted, or the
\* calls, which are sent; and the session is not left running but by a start that
\* failed after StartTrace (win.h:1260-1379, core.cpp:1393-1400).
NothingLeft ==
  pc \in {"stopped", "idle"} => consumer = "none" /\ (session = "ours" => leaked)

=============================================================================
