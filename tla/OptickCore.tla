----------------------------- MODULE OptickCore -----------------------------
(***************************************************************************)
(* Optick's Core (src/optick/src/optick_core.cpp): the registered threads  *)
(* and their storages, the capture state machine and the dump of a         *)
(* capture, as the profiled program calls them.  Program conjoins these    *)
(* operations with the program counters of the threads that call them.     *)
(*                                                                         *)
(* A timestamp is the number of the frame it falls into.  Core::Update     *)
(* runs on one thread and is one step per lock region; threadsLock is      *)
(* held over several steps by DumpFrames only.                             *)
(***************************************************************************)
EXTENDS Integers, Sequences, FiniteSets, SequencesExt

CONSTANTS
  Threads,      \* the threads of the process
  Entries,      \* the ThreadEntry objects there may be, by name
  Owner,        \* the thread that registers each
  None,         \* the null pointer
  Starts        \* the settings of the Start messages: whether the mode is not
                \* OFF, and the frameLimit, 0 for none

ASSUME OwnerAssumption == Owner \in [Entries -> Threads]
ASSUME NoneAssumption == None \notin Entries
ASSUME StartsAssumption == Starts \subseteq [mode : BOOLEAN, limit : Nat]

VARIABLES
  threads,      \* Core::threads
  alive,        \* the entries with ThreadEntry::isAlive
  storage,      \* the events in each entry's EventStorage
  tls,          \* Core::storage of each thread
  on,           \* whether currentMode is not OFF
  state,        \* currentState
  pending,      \* pendingState
  settings,     \* the settings of the last Start
  frames,       \* frames[FrameType::CPU].m_Frames
  frameNumber,  \* m_FrameNumber
  captures,     \* history: the captures started so far
  asked,        \* history: the mode with which START_CAPTURE was entered last
  cancelled,    \* history: whether a capture was cancelled since the last dump
  step,         \* where Core::Update is
  locked,       \* whether DumpFrames holds threadsLock
  report        \* what DumpFrames sends

threadVars == <<threads, alive, storage, tls>>
stateVars == <<on, state, pending, settings, captures, asked, cancelled, step>>
frameVars == <<frames, frameNumber>>
dumpVars == <<locked, report>>
coreVars == <<threads, alive, storage, tls, on, state, pending, settings, frames,
              frameNumber, captures, asked, cancelled, step, locked, report>>

NoSettings == [mode |-> FALSE, limit |-> 0]
States == {"start", "stop", "dump", "cancel"}

\* What Event::Start leaves in a storage.
NewEvent(t) ==
  [by |-> t, frame |-> frameNumber, capture |-> captures, finished |-> FALSE]

NoReport == [list |-> <<>>, frames |-> <<>>, events |-> <<>>]

CoreTypeOK ==
  /\ ToSet(threads) \subseteq Entries
  /\ alive \subseteq ToSet(threads)
  /\ IsInjective(threads)
  /\ \A e \in Entries : \A i \in DOMAIN storage[e] : storage[e][i].by \in Threads
  /\ tls \in [Threads -> Entries \cup {None}]
  /\ on \in BOOLEAN
  /\ state \in States
  /\ pending \in States
  /\ settings \in Starts \cup {NoSettings}
  /\ asked \in BOOLEAN
  /\ cancelled \in BOOLEAN
  /\ step \in {"idle", "limit", "events", "state", "activate", "dump"}
  /\ locked <=> step = "dump"
  /\ Len(report.events) <= Len(report.list)

CoreInit ==
  /\ threads = <<>>
  /\ alive = {}
  /\ storage = [e \in Entries |-> <<>>]
  /\ tls = [t \in Threads |-> None]
  /\ on = FALSE
  /\ state = "dump"
  /\ pending = "dump"
  /\ settings = NoSettings
  /\ frames = <<>>
  /\ frameNumber = 0
  /\ captures = 0
  /\ asked = FALSE
  /\ cancelled = FALSE
  /\ step = "idle"
  /\ locked = FALSE
  /\ report = NoReport

-----------------------------------------------------------------------------
(* Threads.                                                                *)

\* Core::RegisterThread; no thread registers a name twice.
RegisterThread(e) ==
  /\ ~locked
  /\ threads' = Append(threads, e)
  /\ alive' = alive \cup {e}
  /\ tls' = IF on THEN [tls EXCEPT ![Owner[e]] = e] ELSE tls
  /\ UNCHANGED storage

\* The places of the living entries of a thread.
Registered(t) == {i \in DOMAIN threads : Owner[threads[i]] = t /\ threads[i] \in alive}

\* The fate of the entry at place i, whose thread ends.
Delete(i) ==
  /\ threads' = RemoveAt(threads, i)
  /\ alive' = alive \ {threads[i]}
  /\ storage' = [storage EXCEPT ![threads[i]] = <<>>]

Retire(i) ==
  /\ alive' = alive \ {threads[i]}
  /\ UNCHANGED <<threads, storage>>

\* Variant: an entry is deleted during a capture as well.
UnRegisterAlways(t) ==
  /\ ~locked
  /\ UNCHANGED tls
  /\ IF Registered(t) = {}
     THEN UNCHANGED <<threads, alive, storage>>
     ELSE Delete(Min(Registered(t)))

\* Core::UnRegisterThread(id, false): the first living entry goes.
UnRegisterThread(t) ==
  /\ ~locked
  /\ UNCHANGED tls
  /\ CASE Registered(t) = {} -> UNCHANGED <<threads, alive, storage>>
       [] Registered(t) # {} /\ ~on -> Delete(Min(Registered(t)))
       [] OTHER -> Retire(Min(Registered(t)))

\* Core::Shutdown; the storages of the threads are not told.
Shutdown ==
  /\ ~locked
  /\ threads' = <<>>
  /\ alive' = {}
  /\ storage' = [e \in Entries |-> <<>>]
  /\ UNCHANGED tls

-----------------------------------------------------------------------------
(* Events of a thread.                                                     *)

\* Event::Start through the storage e that the thread read: NextEvent.
AddEvent(t, e) ==
  /\ storage' = [storage EXCEPT ![e] = Append(@, NewEvent(t))]
  /\ UNCHANGED <<threads, alive, tls>>

\* The event of t that is open in e, 0 if the memory was given away.
Open(t, e) == SelectLastInSeq(storage[e], LAMBDA x : x.by = t /\ ~x.finished)

\* Event::Stop: data.Stop().  What it writes to memory that was given away is no
\* event any more.
FinishEvent(t, e) ==
  /\ storage' = IF Open(t, e) = 0 THEN storage
                ELSE [storage EXCEPT ![e][Open(t, e)].finished = TRUE]
  /\ UNCHANGED <<threads, alive, tls>>

-----------------------------------------------------------------------------
(* Frames.                                                                 *)

BeginUpdateFrame ==
  /\ frameNumber' = frameNumber + 1
  /\ frames' = IF on
               THEN Append(frames, [number |-> frameNumber + 1, capture |-> captures,
                                    ended |-> FALSE])
               ELSE frames

EndUpdateFrame ==
  /\ frames' = IF on /\ frames # <<>>
               THEN [frames EXCEPT ![Len(frames)].ended = TRUE]
               ELSE frames
  /\ UNCHANGED frameNumber

-----------------------------------------------------------------------------
(* Core::Update.                                                           *)

LimitReached == on /\ settings.limit > 0 /\ Len(frames) >= settings.limit

CheckLimit ==
  /\ step = "limit"
  /\ pending' = IF LimitReached THEN "dump" ELSE pending
  /\ step' = "events"
  /\ UNCHANGED <<on, state, settings, captures, asked, cancelled>>
  /\ UNCHANGED <<threadVars, frameVars, dumpVars>>

\* The Apply of one message that Server::Update found.
ApplyMessage ==
  /\ step = "events"
  /\ \/ pending' = "start" /\ settings' \in Starts
     \/ pending' = "dump" /\ UNCHANGED settings
     \/ pending' = "cancel" /\ UNCHANGED settings
  /\ UNCHANGED <<on, state, captures, asked, cancelled, step>>
  /\ UNCHANGED <<threadVars, frameVars, dumpVars>>

EventsDone ==
  /\ step = "events"
  /\ step' = "state"
  /\ UNCHANGED <<on, state, pending, settings, captures, asked, cancelled>>
  /\ UNCHANGED <<threadVars, frameVars, dumpVars>>

\* Variant: a dump does not stop the capture first.
NextStateDirect == pending

\* The state that UpdateState enters.
NextState == IF pending = "dump" /\ state = "start" THEN "stop" ELSE pending

\* Activate: the new mode, before threadsLock is taken.  Nobody has checked the
\* mode of the Start; if it is OFF, START_CAPTURE is entered and nothing else.
SetMode ==
  /\ step = "state" /\ state # pending /\ NextState # "dump"
  /\ on' = (NextState = "start" /\ settings.mode)
  /\ asked' = IF NextState = "start" THEN settings.mode ELSE asked
  /\ IF on' = on
     THEN state' = NextState /\ UNCHANGED <<step, captures, cancelled>>
     ELSE /\ step' = "activate"
          /\ captures' = IF on' THEN captures + 1 ELSE captures
          /\ cancelled' = (cancelled \/ NextState = "cancel")
          /\ UNCHANGED state
  /\ UNCHANGED <<pending, settings>>
  /\ UNCHANGED <<threadVars, frameVars, dumpVars>>

\* The entry that is activated last for a thread.
LastEntry(t) == IF Registered(t) = {} THEN None ELSE threads[Max(Registered(t))]

\* Variant: the storages keep what they hold.
ClearedNever(e) == storage[e]

\* ThreadEntry::Activate clears what an earlier capture left.
ClearedFor(e) == IF on /\ e \in alive THEN <<>> ELSE storage[e]

\* Activate: ThreadEntry::Activate of every entry that is alive.
ActivateThreads ==
  /\ step = "activate"
  /\ storage' = [e \in Entries |-> ClearedFor(e)]
  /\ tls' = [t \in Threads |-> CASE Registered(t) = {} -> tls[t]
                                 [] Registered(t) # {} /\ on -> LastEntry(t)
                                 [] OTHER -> None]
  /\ state' = NextState
  /\ step' = "state"
  /\ UNCHANGED <<threads, alive, on, pending, settings, captures, asked, cancelled>>
  /\ UNCHANGED <<frameVars, dumpVars>>

UpdateDone ==
  /\ step = "state" /\ state = pending
  /\ step' = "idle"
  /\ UNCHANGED <<on, state, pending, settings, captures, asked, cancelled>>
  /\ UNCHANGED <<threadVars, frameVars, dumpVars>>

-----------------------------------------------------------------------------
(* DumpFrames.                                                             *)

\* Up to and with DumpBoard and the pack of the frames.  Without any thread
\* DumpFrames returns at once, but main_runner, which calls it, is registered.
BeginDump ==
  /\ step = "state" /\ state # pending /\ NextState = "dump"
  /\ locked' = TRUE
  /\ report' = [list |-> threads, frames |-> frames, events |-> <<>>]
  /\ step' = "dump"
  /\ UNCHANGED <<on, state, pending, settings, captures, asked, cancelled>>
  /\ UNCHANGED <<threadVars, frameVars>>

\* CalculateRange: from the start of a frame to the end of a frame.
InRange(event) ==
  /\ \E i \in DOMAIN frames : frames[i].number <= event.frame
  /\ \E i \in DOMAIN frames :
       frames[i].number > event.frame \/ (frames[i].number = event.frame /\ frames[i].ended)

Sent(event) == event.finished /\ InRange(event)

\* DumpThread of the next entry.  EventStorage has the order and the scopes of
\* the events.
DumpThread ==
  LET i == Len(report.events) + 1
  IN /\ step = "dump" /\ i \in DOMAIN report.list
     /\ report' = [report EXCEPT !.events =
                                Append(@, {event \in ToSet(storage[threads[i]]) : Sent(event)})]
     /\ storage' = [storage EXCEPT ![threads[i]] = <<>>]
     /\ UNCHANGED <<threads, alive, tls, locked>>
     /\ UNCHANGED <<stateVars, frameVars>>

Dumped == step = "dump" /\ Len(report.events) = Len(report.list)

\* CleanupThreadsAndFibers: the entries of the threads that ended go, the first
\* one first.
CleanupThread ==
  LET dead == {i \in DOMAIN threads : threads[i] \notin alive}
  IN /\ Dumped /\ dead # {}
     /\ threads' = RemoveAt(threads, Min(dead))
     /\ UNCHANGED <<alive, storage, tls>>
     /\ UNCHANGED <<stateVars, frameVars, dumpVars>>

\* Variant: threadsLock is not released.
EndDumpLocked ==
  /\ Dumped /\ ToSet(threads) = alive
  /\ frames' = <<>>
  /\ state' = "dump"
  /\ cancelled' = FALSE
  /\ step' = "state"
  /\ UNCHANGED <<on, pending, settings, captures, asked, frameNumber, report, locked>>
  /\ UNCHANGED threadVars

\* The frames are cleared; SendFinish.
EndDump ==
  /\ Dumped /\ ToSet(threads) = alive
  /\ frames' = <<>>
  /\ locked' = FALSE
  /\ report' = NoReport
  /\ state' = "dump"
  /\ cancelled' = FALSE
  /\ step' = "state"
  /\ UNCHANGED <<on, pending, settings, captures, asked, frameNumber>>
  /\ UNCHANGED threadVars

Update ==
  \/ CheckLimit \/ ApplyMessage \/ EventsDone
  \/ SetMode \/ ActivateThreads
  \/ BeginDump \/ DumpThread \/ CleanupThread \/ EndDump

=============================================================================
