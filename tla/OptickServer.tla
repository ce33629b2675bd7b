---------------------------- MODULE OptickServer ----------------------------
(***************************************************************************)
(* The network side of Optick: Server::Update and Socket                   *)
(* (src/optick/src/optick_server.cpp), IMessage::Create and MessageFactory *)
(* (optick_message.cpp) and InputDataStream (optick_serialization.cpp),    *)
(* in the release build, where OPTICK_FAILED does nothing but the          *)
(* OPTICK_VERIFY of an unknown message type still breaks.                  *)
(*                                                                         *)
(* The stream is a sequence of 32-bit words: the mark, the length, the     *)
(* application id with the message type, and data.  A word is its message  *)
(* and its place in it: the server tells by the place whether it is a      *)
(* mark, a length, ids or data, and by the message what a length or ids    *)
(* say.  A skipped byte never begins a mark, so that garbage is skipped by *)
(* words.  The last of the settings is the length of the password, which   *)
(* clients leave empty: only a word of another message that is read for it *)
(* announces characters.                                                   *)
(***************************************************************************)
EXTENDS Integers, Sequences, FiniteSets

CONSTANTS
  Scripts,       \* the sequences of messages that a client may send
  Settings,      \* the words of CaptureSettings
  MaxReconnects  \* bound: the connections a client opens after its first

\* Messages of this version, a type it does not know, and the start messages
\* of a client with one setting less, or one more behind the password.
Kinds == {"start", "stop", "cancel", "sampling", "unknown", "older", "newer"}

ASSUME ScriptsAssumption == Scripts \subseteq Seq(Kinds) /\ <<>> \notin Scripts
ASSUME SettingsAssumption == Settings \in Nat \ {0}
ASSUME MaxReconnectsAssumption == MaxReconnects \in Nat

VARIABLES
  script,      \* the messages of this client
  position,    \* the word that is sent next
  wires,       \* what the client sent over each connection and nobody read
  accepted,    \* Socket::acceptSocket, 0 for none
  stream,      \* Server::networkStream
  failed,      \* whether a read behind its end has made it useless
  halted,      \* whether the process stopped, at a breakpoint or an exception
  pc,          \* where Server::Update is
  applied,     \* history: the words of every message applied
  lost         \* history: the messages that did not reach the stream whole

vars == <<script, position, wires, accepted, stream, failed, halted, pc,
          applied, lost>>

-----------------------------------------------------------------------------
(* Messages.                                                               *)

\* The data words the client sends, and those this version reads.
Sent(kind) ==
  CASE kind = "start" -> Settings
    [] kind = "older" -> Settings - 1
    [] kind = "newer" -> Settings + 1
    [] kind = "sampling" -> 1
    [] OTHER -> 0

Read(kind) ==
  CASE kind \in {"start", "older", "newer"} -> Settings
    [] kind = "sampling" -> 1
    [] OTHER -> 0

\* Mark, length, ids and data.
Size(kind) == 3 + Sent(kind)

Word(m, i) == [of |-> m, at |-> i]

After(word) ==
  IF word.at = Size(script[word.of]) THEN Word(word.of + 1, 1) ELSE Word(word.of, word.at + 1)

IsMark(word) == word.at = 1
IsLength(word) == word.at = 2

\* A stream long enough for MessageHeader, which Peek requires.
HasHeader(s) == Len(s) >= 2

\* Variant: the header is enough.
CompleteHeader(s) == IsLength(s[2]) /\ Len(s) >= 3

\* MessageHeader::length in words.  The mark read as a length is 3 gigabytes.
Complete(s) ==
  /\ IsLength(s[2])
  /\ Len(s) >= 2 + 1 + Sent(script[s[2].of])

\* The factory has a creator for the type.
Known(word) == word.at = 3 /\ script[word.of] # "unknown"

Length(s) == 1 + Sent(script[s[2].of])

-----------------------------------------------------------------------------
TypeOK ==
  /\ script \in Scripts
  /\ position.of \in 1 .. Len(script) + 1
  /\ position.of \in DOMAIN script => position.at \in 1 .. Size(script[position.of])
  /\ Len(wires) \in 1 .. MaxReconnects + 1
  /\ accepted \in 0 .. Len(wires)
  /\ failed \in BOOLEAN
  /\ halted \in BOOLEAN
  /\ pc \in {"accept", "receive", "create"}
  /\ lost \subseteq DOMAIN script
  /\ \A i \in DOMAIN stream : stream[i].of \in DOMAIN script
  /\ \A i \in DOMAIN applied : Len(applied[i]) >= 3

Init ==
  /\ script \in Scripts
  /\ position = Word(1, 1)
  /\ wires = <<<<>>>>
  /\ accepted = 0
  /\ stream = <<>>
  /\ failed = FALSE
  /\ halted = FALSE
  /\ pc = "accept"
  /\ applied = <<>>
  /\ lost = {}

-----------------------------------------------------------------------------
(* The client.                                                             *)

ClientVars == <<script, accepted, stream, failed, halted, pc, applied>>

Messages(words) == {words[i].of : i \in DOMAIN words}

SendWord ==
  /\ position.of \in DOMAIN script
  /\ wires' = [wires EXCEPT ![Len(wires)] = Append(@, position)]
  /\ position' = After(position)
  /\ UNCHANGED lost
  /\ UNCHANGED ClientVars

\* The connection breaks; the client opens another and goes on with the next
\* message.
Reconnect ==
  /\ Len(wires) <= MaxReconnects
  /\ position.of \in DOMAIN script
  /\ wires' = Append(wires, <<>>)
  /\ position' = IF IsMark(position) THEN position ELSE Word(position.of + 1, 1)
  /\ lost' = IF IsMark(position) THEN lost ELSE lost \cup {position.of}
  /\ UNCHANGED ClientVars

-----------------------------------------------------------------------------
(* Server::Update.                                                         *)

ServerVars == <<script, position, halted>>

\* Socket::Accept takes the connection that waits longest and forgets the last.
Accept ==
  /\ pc = "accept"
  /\ IF accepted < Len(wires)
     THEN /\ accepted' = accepted + 1
          /\ lost' = IF accepted = 0 THEN lost ELSE lost \cup Messages(wires[accepted])
          /\ wires' = IF accepted = 0 THEN wires ELSE [wires EXCEPT ![accepted] = <<>>]
     ELSE /\ accepted > 0
          /\ UNCHANGED <<accepted, lost, wires>>
  /\ pc' = "receive"
  /\ UNCHANGED <<stream, failed, applied>>
  /\ UNCHANGED ServerVars

\* Socket::Receive until nothing is left, and InputDataStream::Append.
Receive ==
  /\ pc = "receive"
  /\ wires' = [wires EXCEPT ![accepted] = <<>>]
  /\ IF failed
     THEN /\ lost' = lost \cup Messages(wires[accepted])
          /\ UNCHANGED stream
     ELSE /\ stream' = stream \o wires[accepted]
          /\ UNCHANGED lost
  /\ pc' = "create"
  /\ UNCHANGED <<accepted, failed, applied>>
  /\ UNCHANGED ServerVars

CreateVars == <<script, position, wires, accepted, lost>>

\* Variant: nothing is skipped.
NoGarbage == FALSE

Garbage == HasHeader(stream) /\ ~IsMark(Head(stream))

\* A whole message at the head of the stream.
Ready == HasHeader(stream) /\ IsMark(Head(stream)) /\ Complete(stream)

\* Some garbage in the stream?
Skip ==
  /\ pc = "create"
  /\ Garbage
  /\ stream' = Tail(stream)
  /\ UNCHANGED <<failed, halted, pc, applied>>
  /\ UNCHANGED CreateVars

\* Not enough data yet, or none; Server::Update returns.
Wait ==
  /\ pc = "create"
  /\ ~Garbage /\ ~Ready
  /\ pc' = "accept"
  /\ UNCHANGED <<stream, failed, halted, applied>>
  /\ UNCHANGED CreateVars

\* MessageFactory::Create: the type is none of the factory's.
Break ==
  /\ pc = "create"
  /\ Ready /\ ~Known(stream[3])
  /\ halted' = TRUE
  /\ UNCHANGED <<stream, failed, pc, applied>>
  /\ UNCHANGED CreateVars

\* The length of the password is read from the words of another message.
Foreign(s) ==
  /\ Read(script[s[3].of]) = Settings
  /\ Len(s) >= 3 + Settings
  /\ s[3 + Settings].of # s[3].of

\* The words of the password: as many as a length says, any number for ids and
\* data.  A mark is negative.
Password(s) ==
  IF ~Foreign(s) THEN {0}
  ELSE LET word == s[3 + Settings]
       IN  IF IsMark(word) THEN {}
           ELSE IF IsLength(word) THEN {1 + Sent(script[word.of])}
           ELSE 0 .. Len(s)

\* What the creator of the type reads, n words of a password with it.
\* Variant: without the header and the ids.
ContentOnly(s, n) == SubSeq(s, 4, 3 + Read(script[s[3].of]) + n)

Content(s, n) == SubSeq(s, 1, 3 + Read(script[s[3].of]) + n)

\* Variant: everything received is dropped.
RestNothing(s, n) == <<>>

Rest(s, n) == SubSeq(s, 4 + Read(script[s[3].of]) + n, Len(s))
Readable(s, n) == Len(s) >= 3 + Read(script[s[3].of]) + n

\* header.length + str.Length() == length.
Fits(s, n) == Length(s) = 1 + Read(script[s[3].of]) + n

\* IMessage::Create and Apply.
Apply ==
  /\ pc = "create"
  /\ Ready /\ Known(stream[3])
  /\ \E n \in Password(stream) :
       /\ Readable(stream, n) /\ Fits(stream, n)
       /\ applied' = Append(applied, Content(stream, n))
       /\ stream' = Rest(stream, n)
  /\ UNCHANGED <<failed, halted, pc>>
  /\ UNCHANGED CreateVars

\* Invalid protocol: the message read is dropped and Server::Update returns.
Reject ==
  /\ pc = "create"
  /\ Ready /\ Known(stream[3])
  /\ \E n \in Password(stream) :
       /\ Readable(stream, n) /\ ~Fits(stream, n)
       /\ stream' = Rest(stream, n)
  /\ pc' = "accept"
  /\ UNCHANGED <<failed, halted, applied>>
  /\ UNCHANGED CreateVars

\* A negative length of the password: val.resize throws and nobody catches.
Throw ==
  /\ pc = "create"
  /\ Ready /\ Known(stream[3])
  /\ Foreign(stream) /\ ~IsLength(stream[3 + Settings])
  /\ halted' = TRUE
  /\ UNCHANGED <<stream, failed, pc, applied>>
  /\ UNCHANGED CreateVars

\* The creator reads behind the end: the stream's state is bad from then on,
\* its length is 0 and Append adds nothing.
Fail ==
  /\ pc = "create"
  /\ Ready /\ Known(stream[3])
  /\ \E n \in Password(stream) : ~Readable(stream, n)
  /\ failed' = TRUE
  /\ stream' = <<>>
  /\ pc' = "accept"
  /\ UNCHANGED <<halted, applied>>
  /\ UNCHANGED CreateVars

Update ==
  /\ ~halted
  /\ \/ Accept \/ Receive
     \/ Skip \/ Wait \/ Break \/ Apply \/ Reject \/ Throw \/ Fail

Next == SendWord \/ Reconnect \/ Update

Spec == Init /\ [][Next]_vars

\* main_runner calls Server::Update in every frame; the client sends it all.
FairSpec == Spec /\ WF_vars(Update) /\ WF_vars(SendWord)

-----------------------------------------------------------------------------
(* Properties.                                                             *)

\* The message whose type a sequence of words has.
Origin(words) == words[3].of

\* Commands are applied in the order in which the client sent them and none
\* twice, whatever breaks (optick_server.cpp:300-318): Stop after Start, say.
InOrder ==
  \A i, k \in DOMAIN applied : i < k => Origin(applied[i]) < Origin(applied[k])

\* A command has only words of the one message it was sent in, a start message
\* with too few settings is not filled up with the next (optick_message.cpp:
\* 77-101); except after a message cut short: the stream survives the connection,
\* and the settings of two connections become one command.
WholeMessages ==
  \A i \in DOMAIN applied :
    \/ Cardinality(Messages(applied[i])) = 1
    \/ Messages(applied[i]) \cap lost # {}

\* A client of this version whose messages arrive whole.
Undamaged ==
  /\ lost = {}
  /\ \A m \in DOMAIN script : script[m] \notin {"unknown", "older"}

\* Whoever reconnects between two messages, or sends one with more data, loses
\* no message that reached the stream (optick_message.cpp:110-131; one nobody had
\* read when the next connection was accepted is lost): what is applied are the
\* first messages this version can read, the resynchronisation on the mark skips
\* no other.
Readables == {m \in DOMAIN script : script[m] # "newer"}
NothingSkipped ==
  Undamaged => \A i \in DOMAIN applied :
                 Cardinality({m \in Readables : m <= Origin(applied[i])}) = i

\* The program stops listening, or stops, only after damage
\* (optick_message.cpp:77-131): a stream that failed, a mark taken for a length.
Deaf == failed \/ (Len(stream) >= 2 /\ IsMark(stream[1]) /\ IsMark(stream[2]))
HearsUntilDamaged == Undamaged => ~Deaf /\ ~halted

\* What the program does is what the client said (optick_message.cpp:77-131).
CommandsFaithful == InOrder /\ WholeMessages /\ NothingSkipped

\* Every command of an undamaged connection is applied
\* (optick_server.cpp:300-318), though a rejected message ends the loop early.
AllApplied ==
  <>[](Undamaged => \A m \in Readables : \E i \in DOMAIN applied : Origin(applied[i]) = m)

=============================================================================
