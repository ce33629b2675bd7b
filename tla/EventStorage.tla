---------------------------- MODULE EventStorage ----------------------------
(***************************************************************************)
(* The events of one thread: MemoryPool (src/optick/src/optick_memory.h)   *)
(* gives them memory, chunk by chunk, and Core::DumpEvents (optick_core.cpp *)
(* 885-925) cuts them into the scopes that are sent.                       *)
(*                                                                         *)
(* The thread nests its events.  A capture may end while some are open;    *)
(* that none is open when the next one begins is NoStaleEvent of Program.  *)
(* Time stands still or goes on between two readings of the clock.         *)
(***************************************************************************)
EXTENDS Integers, Sequences, SequencesExt

CONSTANTS
  Size,        \* entries of a MemoryChunk
  BatchLimit,  \* batchLimitMs, in ticks
  Garbage,     \* what the finish of an entry of new memory may read as
  MaxTime,     \* bound: the clock
  MaxEvents,   \* bound: the events of a capture
  MaxCaptures  \* bound

ASSUME SizeAssumption == Size \in Nat \ {0}
ASSUME LimitAssumption == BatchLimit \in Nat

Kinds == {"frame", "plain", "sleep"}

VARIABLES
  chunks,    \* the chunks from root on, each an array of EventData
  chunk,     \* the number of the current one, 0 for nullptr
  index,     \* the entries used of it
  open,      \* the events that the thread has started and not stopped
  now,       \* the clock
  on,        \* whether the thread records
  captures,  \* captures so far, for the bound
  log,       \* history: the events of this capture as the program sees them
  sent,      \* the scopes of the last dump
  dumped     \* history: its log and its time slice

vars == <<chunks, chunk, index, open, now, on, captures, log, sent, dumped>>
pool == <<chunks, chunk, index>>

\* The last instant is no reading of the clock.
Never == MaxTime + 1

NoDump == [log |-> <<>>, start |-> 0, finish |-> 0]

Init ==
  /\ chunks = <<>>
  /\ chunk = 0
  /\ index = Size
  /\ open = <<>>
  /\ now = 1
  /\ on = FALSE
  /\ captures = 0
  /\ log = <<>>
  /\ sent = <<>>
  /\ dumped = NoDump

-----------------------------------------------------------------------------
(* MemoryPool.                                                             *)

\* An entry not in use: what else it holds is written before it is read.
Unused(finish) == [start |-> Never, finish |-> finish, kind |-> "plain", event |-> 0]

\* A new chunk is not initialized.
NewChunk(finish) == [i \in 1 .. Size |-> Unused(finish)]

\* The memory stays, and the finish of every entry in it.
Kept == [c \in DOMAIN chunks |-> [i \in 1 .. Size |-> Unused(chunks[c][i].finish)]]

\* Where Add puts the next entry; AddChunk goes on to the next chunk.
Place == IF index >= Size THEN <<chunk + 1, 1>> ELSE <<chunk, index + 1>>

\* Chunks that an earlier capture left are used again.
Memory(finish) ==
  IF Place[1] <= Len(chunks) THEN chunks ELSE Append(chunks, NewChunk(finish))

\* Variant: the current chunk stays the current one.
RewindIndex ==
  /\ chunks' = Kept
  /\ UNCHANGED chunk
  /\ index' = IF chunks = <<>> THEN index ELSE 0

\* Clear(true) keeps the memory.
Rewind ==
  /\ chunks' = Kept
  /\ IF chunks = <<>> THEN UNCHANGED <<chunk, index>> ELSE chunk' = 1 /\ index' = 0

\* Clear(false) frees it.
Release == chunks' = <<>> /\ chunk' = 0 /\ index' = Size

IsEmpty == chunk = 0 \/ (chunk = 1 /\ index = 0)

\* ForEach.
Contents ==
  FlattenSeq([c \in 1 .. chunk |-> SubSeq(chunks[c], 1, IF c < chunk THEN Size ELSE index)])

-----------------------------------------------------------------------------
(* The thread.                                                             *)

Tick == now' \in {now, now + 1} /\ now' <= MaxTime

\* Event::Start: the finish of the entry stays what it is.
Start(kind) ==
  /\ on
  /\ Len(log) < MaxEvents
  /\ Tick
  /\ \E finish \in Garbage :
       LET data == Memory(finish)[Place[1]][Place[2]]
       IN chunks' = [Memory(finish) EXCEPT ![Place[1]][Place[2]] =
                       [data EXCEPT !.start = now', !.kind = kind, !.event = Len(log) + 1]]
  /\ chunk' = Place[1]
  /\ index' = Place[2]
  /\ open' = Append(open, Place)
  /\ log' = Append(log, [start |-> now', finish |-> Never, kind |-> kind])
  /\ UNCHANGED <<on, captures, sent, dumped>>

\* Event::Stop through the pointer that Start returned; nothing after the
\* capture.
Stop ==
  /\ open # <<>>
  /\ open' = Front(open)
  /\ IF on
     THEN LET at == Last(open)
          IN /\ Tick
             /\ chunks' = [chunks EXCEPT ![at[1]][at[2]].finish = now']
             /\ log' = [log EXCEPT ![chunks[at[1]][at[2]].event].finish = now']
     ELSE UNCHANGED <<chunks, log, now>>
  /\ UNCHANGED <<chunk, index, on, captures, sent, dumped>>

\* ThreadEntry::Activate with a mode.
Activate ==
  /\ ~on
  /\ open = <<>>
  /\ captures < MaxCaptures
  /\ captures' = captures + 1
  /\ on' = TRUE
  /\ Rewind
  /\ log' = <<>>
  /\ sent' = <<>>
  /\ dumped' = NoDump
  /\ UNCHANGED <<open, now>>

\* ThreadEntry::Activate(Mode::OFF).
Deactivate ==
  /\ on
  /\ on' = FALSE
  /\ UNCHANGED <<pool, open, now, captures, log, sent, dumped>>

-----------------------------------------------------------------------------
(* The dump.                                                               *)

NoScope == [start |-> Never, finish |-> 0, roots |-> <<>>, events |-> <<>>]
NoRoot == [start |-> Never, finish |-> Never, kind |-> "plain", event |-> 0]

IsSleepOnlyScope(scope) == \A i \in DOMAIN scope.events : scope.events[i].kind = "sleep"

\* ScopeData::Send and Clear.
Send(d) ==
  [d EXCEPT !.scope = NoScope,
            !.sent = IF IsSleepOnlyScope(d.scope) THEN d.sent ELSE Append(d.sent, d.scope)]

SmallerOf(a, b) == IF a < b THEN a ELSE b
LargerOf(a, b) == IF a < b THEN b ELSE a

\* ScopeData::AddEvent.
AddEvent(d, data) == [d EXCEPT !.scope.events = Append(@, data)]

\* ScopeData::InitRootEvent.
InitRootEvent(d, data) ==
  [AddEvent(d, data) EXCEPT !.root = data,
                            !.scope.start = SmallerOf(data.start, @),
                            !.scope.finish = LargerOf(data.finish, @),
                            !.scope.roots = Append(@, data)]

\* Variant: what a root is batched with does not matter.
BatchEndsLate(d, data) == d.scope.finish - d.scope.start > BatchLimit

\* Whether the scope is sent before the new root data joins it.
BatchEnds(d, data) ==
  \/ d.root.kind = "frame"
  \/ d.scope.finish - d.scope.start > BatchLimit
  \/ data.kind = "sleep"
  \/ IsSleepOnlyScope(d.scope)

InSlice(data, start, finish) ==
  data.finish >= data.start /\ data.start >= start /\ finish >= data.finish

\* The function that DumpEvents gives to ForEach.
DumpEvent(d, data, start, finish) ==
  CASE ~InSlice(data, start, finish) -> d
    [] InSlice(data, start, finish) /\ d.root = NoRoot -> InitRootEvent(d, data)
    [] InSlice(data, start, finish) /\ d.root # NoRoot /\ d.root.finish >= data.finish ->
         AddEvent(d, data)
    [] OTHER -> InitRootEvent(IF BatchEnds(d, data) THEN Send(d) ELSE d, data)

\* Variant: the last scope is not sent.
ScopesButLast(start, finish) ==
  FoldLeft(LAMBDA d, data : DumpEvent(d, data, start, finish),
           [scope |-> NoScope, root |-> NoRoot, sent |-> <<>>], Contents).sent

\* What Core::DumpEvents sends of a time slice.
Scopes(start, finish) ==
  Send(FoldLeft(LAMBDA d, data : DumpEvent(d, data, start, finish),
                [scope |-> NoScope, root |-> NoRoot, sent |-> <<>>], Contents)).sent

DumpEvents ==
  /\ ~on /\ ~IsEmpty
  /\ \E start, finish \in 1 .. now :
       /\ start <= finish
       /\ sent' = Scopes(start, finish)
       /\ dumped' = [log |-> log, start |-> start, finish |-> finish]
  /\ Release
  /\ log' = <<>>
  /\ UNCHANGED <<open, now, on, captures>>

Next ==
  \/ \E kind \in Kinds : Start(kind)
  \/ Stop \/ Activate \/ Deactivate \/ DumpEvents

Spec == Init /\ [][Next]_vars

-----------------------------------------------------------------------------
(* Properties.                                                             *)

\* The pool holds exactly the events that the thread started in this capture,
\* in order and with the times it measured, whatever chunks earlier captures
\* left behind (optick_memory.h:206-237, 320-337, 402-412).
PoolKeepsEvents ==
  /\ Len(Contents) = Len(log)
  /\ \A i \in DOMAIN log :
       /\ Contents[i].event = i
       /\ Contents[i].start = log[i].start
       /\ Contents[i].kind = log[i].kind
       /\ log[i].finish # Never => Contents[i].finish = log[i].finish

\* The events that the thread has finished, if the time slice covers them.
Complete(i) == InSlice(dumped.log[i], dumped.start, dumped.finish)
Encloses(i, k) ==
  /\ i < k
  /\ dumped.log[k].start < dumped.log[i].finish
  /\ dumped.log[k].finish <= dumped.log[i].finish

SentEvents == FlattenSeq([s \in DOMAIN sent |-> sent[s].events])
InScope(i, s) == \E n \in DOMAIN sent[s].events : sent[s].events[n].event = i

\* No event is sent twice or out of order, and every complete one is sent but
\* those of the scopes in which the thread only sleeps (optick_core.cpp:885-925).
SentOnce ==
  /\ \A n, m \in DOMAIN SentEvents : n < m => SentEvents[n].event < SentEvents[m].event
  /\ \A i \in DOMAIN dumped.log :
       Complete(i) /\ dumped.log[i].kind # "sleep" => \E s \in DOMAIN sent : InScope(i, s)

\* A scope covers its events; an event is sent in the scope of the one that
\* encloses it; frames are not batched together; and if the thread finished all
\* its events, the scopes follow each other (optick_core.cpp:894-918, core.h:105-124).
ScopesNest ==
  /\ \A s \in DOMAIN sent : \A n \in DOMAIN sent[s].events :
       sent[s].start <= sent[s].events[n].start /\ sent[s].events[n].finish <= sent[s].finish
  /\ \A i, k \in DOMAIN dumped.log : \A s \in DOMAIN sent :
       Complete(i) /\ Complete(k) /\ Encloses(i, k) => (InScope(i, s) <=> InScope(k, s))
  /\ \A s \in DOMAIN sent : \A n, m \in DOMAIN sent[s].roots :
       sent[s].roots[n].kind = "frame" /\ sent[s].roots[m].kind = "frame" => n = m
  /\ (\A i \in DOMAIN dumped.log : dumped.log[i].finish # Never) =>
       \A s, t \in DOMAIN sent : s < t => sent[s].finish <= sent[t].start

=============================================================================
