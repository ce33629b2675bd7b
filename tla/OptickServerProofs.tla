------------------------- MODULE OptickServerProofs -------------------------
(***************************************************************************)
(* What the server makes of a client's commands, for every script of       *)
(* messages, any number of settings and of broken connections: commands    *)
(* are applied in order and none twice, only a message cut short can be    *)
(* mixed with another, and a client whose messages arrive whole is heard.  *)
(*                                                                         *)
(* The proof follows the words from the client to the server: between two  *)
(* neighbours in the stream, and from it to the words that are still on    *)
(* the wires, nothing is missing but messages that are lost (PathInv).     *)
(***************************************************************************)
EXTENDS OptickServer, FiniteSetTheorems, SequenceTheorems, WellFoundedInduction, TLAPS

-----------------------------------------------------------------------------
(* The invariant.                                                          *)

Words(k) == {w \in [of : DOMAIN k, at : Nat] : w.at \in 1 .. Size(k[w.of])}

\* Where the words of a client may go on: at one of them or at their end.
Places(k) == Words(k) \cup {Word(Len(k) + 1, 1)}

\* After for any script k.
Succ(k, w) ==
  IF w.at = Size(k[w.of]) THEN Word(w.of + 1, 1) ELSE Word(w.of, w.at + 1)

\* From p the words go on at q: only messages of l are missing between.
Reach(l, p, q) ==
  \/ p = q
  \/ q.at = 1 /\ q.of > p.of /\ \A m \in p.of .. q.of - 1 : m \in l

\* What comes before the i-th word of s, and the word; p and q are the ends.
Before(k, s, p, i) == IF i = 1 THEN p ELSE Succ(k, s[i - 1])
Nth(s, q, i) == IF i = Len(s) + 1 THEN q ELSE s[i]

\* The words of s lead from p to q.
Chain(k, l, s, p, q) ==
  \A i \in 1 .. Len(s) + 1 : Reach(l, Before(k, s, p, i), Nth(s, q, i))

\* The connection the server reads, or will read.
Base(a) == IF a = 0 THEN 1 ELSE a

\* The stream goes from head to where the current connection begins, and each
\* connection w from b[w] to the next.  One opens with a mark.
Path(k, l, s, ws, a, p, head, b) ==
  /\ b[Len(ws) + 1] = p
  /\ \A w \in a + 1 .. Len(ws) : b[w].at = 1
  /\ Chain(k, l, s, head, b[Base(a)])
  /\ \A w \in Base(a) .. Len(ws) : Chain(k, l, ws[w], b[w], b[w + 1])

\* The type of a message is read.
Past(m, p) == m < p.of \/ (m = p.of /\ p.at > 3)

AppliedInv(head) == \A i \in DOMAIN applied : Past(Origin(applied[i]), head)

CountInv(head) ==
  /\ head.at = 1 \/ script[head.of] = "newer"
  /\ Len(applied) = Cardinality({m \in Readables : m < head.of})

Ends(k, n) == [1 .. n + 1 -> Places(k)]

PathInv ==
  ~failed => \E head \in Places(script), b \in Ends(script, Len(wires)) :
               /\ Path(script, lost, stream, wires, accepted, position, head, b)
               /\ AppliedInv(head)
               /\ Undamaged => CountInv(head)

TypeInv ==
  /\ script \in Scripts
  /\ position \in Places(script)
  /\ wires \in Seq(Seq(Words(script))) /\ Len(wires) \in 1 .. MaxReconnects + 1
  /\ accepted \in 0 .. Len(wires)
  /\ stream \in Seq(Words(script)) /\ (failed => stream = <<>>)
  /\ failed \in BOOLEAN /\ halted \in BOOLEAN
  /\ pc \in {"accept", "receive", "create"} /\ (pc # "accept" => accepted # 0)
  /\ lost \subseteq DOMAIN script
  /\ applied \in Seq(Seq(Words(script))) /\ \A i \in DOMAIN applied : Len(applied[i]) >= 3

Hears == Undamaged => ~failed /\ ~halted

IInv == TypeInv /\ PathInv /\ CommandsFaithful /\ Hears

-----------------------------------------------------------------------------
(* Messages and words.                                                     *)

LEMMA KindSizes ==
  ASSUME NEW kind \in Kinds
  PROVE  /\ Sent(kind) \in Nat /\ Read(kind) \in Nat /\ Size(kind) = 3 + Sent(kind)
         /\ kind \notin {"older", "newer"} => Sent(kind) = Read(kind)
         /\ kind = "newer" => Sent(kind) = Read(kind) + 1
<1>0. Settings \in Nat /\ Settings - 1 \in Nat /\ Settings + 1 \in Nat
  BY SettingsAssumption
<1>1. CASE kind = "start"
  <2>1. Sent(kind) = Settings /\ Read(kind) = Settings
    BY <1>1, Zenon DEF Sent, Read
  <2> QED BY <1>0, <1>1, <2>1 DEF Size
<1>2. CASE kind = "older"
  <2>1. Sent(kind) = Settings - 1 /\ Read(kind) = Settings
    BY <1>2, Zenon DEF Sent, Read
  <2> QED BY <1>0, <1>2, <2>1 DEF Size
<1>3. CASE kind = "newer"
  <2>1. Sent(kind) = Settings + 1 /\ Read(kind) = Settings
    BY <1>3, Zenon DEF Sent, Read
  <2> QED BY <1>0, <1>3, <2>1 DEF Size
<1>4. CASE kind = "sampling"
  <2>1. Sent(kind) = 1 /\ Read(kind) = 1
    BY <1>4, Zenon DEF Sent, Read
  <2> QED BY <1>4, <2>1 DEF Size
<1>5. CASE kind \in {"stop", "cancel", "unknown"}
  <2>1. Sent(kind) = 0 /\ Read(kind) = 0
    BY <1>5, Zenon DEF Sent, Read
  <2> QED BY <1>5, <2>1 DEF Size
<1> QED BY <1>1, <1>2, <1>3, <1>4, <1>5 DEF Kinds

LEMMA Scripted ==
  ASSUME TypeInv
  PROVE  script \in Seq(Kinds) /\ script # <<>>
BY ScriptsAssumption DEF TypeInv

LEMMA SizeIs ==
  ASSUME NEW k \in Seq(Kinds), NEW m \in DOMAIN k
  PROVE  /\ k[m] \in Kinds /\ Size(k[m]) \in Nat /\ Size(k[m]) >= 3
         /\ DOMAIN k = 1 .. Len(k) /\ Len(k) \in Nat /\ m \in Nat
<1>1. k[m] \in Kinds /\ DOMAIN k = 1 .. Len(k) /\ Len(k) \in Nat
  BY ElementOfSeq, LenProperties
<1> QED BY <1>1, KindSizes

LEMMA PlaceIs ==
  ASSUME NEW k \in Seq(Kinds), NEW p \in Places(k)
  PROVE  /\ p = Word(p.of, p.at)
         /\ p.of \in 1 .. Len(k) + 1 /\ p.at \in Nat \ {0}
         /\ p.of \in DOMAIN k => p \in Words(k)
         /\ p.of \notin DOMAIN k => p.at = 1
         /\ p \in Words(k) => p.of \in DOMAIN k /\ p.at \in 1 .. Size(k[p.of])
<1>0. Len(k) \in Nat /\ DOMAIN k = 1 .. Len(k)
  BY LenProperties
<1>1. CASE p \in Words(k)
  <2>1. p \in [of : DOMAIN k, at : Nat] /\ p.at \in 1 .. Size(k[p.of])
    BY <1>1 DEF Words
  <2>2. Size(k[p.of]) \in Nat
    BY <2>1, SizeIs
  <2>3. p = [of |-> p.of, at |-> p.at]
    BY <2>1
  <2> QED BY <1>0, <1>1, <2>1, <2>2, <2>3 DEF Word
<1>2. CASE p = Word(Len(k) + 1, 1) /\ p \notin Words(k)
  <2>1. p.of = Len(k) + 1 /\ p.at = 1
    BY <1>2 DEF Word
  <2> QED BY <1>0, <1>2, <2>1
<1> QED BY <1>1, <1>2 DEF Places

LEMMA WordPlace ==
  ASSUME NEW k \in Seq(Kinds), NEW w \in Words(k)
  PROVE  /\ w \in Places(k)
         /\ w.of \in DOMAIN k /\ w.of \in Nat /\ w.at \in Nat
         /\ w.at \in 1 .. Size(k[w.of]) /\ Size(k[w.of]) \in Nat /\ Size(k[w.of]) >= 3
<1>1. w \in [of : DOMAIN k, at : Nat] /\ w.at \in 1 .. Size(k[w.of]) /\ w \in Places(k)
  BY DEF Words, Places
<1> QED BY <1>1, SizeIs

LEMMA MarkPlace ==
  ASSUME NEW k \in Seq(Kinds), NEW m \in 1 .. Len(k) + 1
  PROVE  /\ Word(m, 1) \in Places(k) /\ Word(m, 1).of = m /\ Word(m, 1).at = 1
         /\ m \in DOMAIN k => \A i \in 1 .. Size(k[m]) : Word(m, i) \in Words(k)
<1>0. Len(k) \in Nat /\ DOMAIN k = 1 .. Len(k)
  BY LenProperties
<1>1. ASSUME m \in DOMAIN k, NEW i \in 1 .. Size(k[m])
      PROVE  Word(m, i) \in Words(k)
  <2>1. Size(k[m]) \in Nat /\ i \in Nat
    BY <1>1, SizeIs
  <2> QED BY <1>1, <2>1 DEF Word, Words
<1>2. CASE m \in DOMAIN k
  <2>1. 1 \in 1 .. Size(k[m])
    BY <1>2, SizeIs
  <2> QED BY <1>1, <1>2, <2>1 DEF Word, Places
<1>3. CASE m = Len(k) + 1
  BY <1>0, <1>1, <1>3 DEF Word, Places
<1> QED BY <1>0, <1>2, <1>3

\* A message goes on, or is over.
LEMMA SuccIs ==
  ASSUME NEW k \in Seq(Kinds), NEW w \in Words(k)
  PROVE  /\ Succ(k, w) \in Places(k)
         /\ \/ w.at < Size(k[w.of]) /\ Succ(k, w).of = w.of /\ Succ(k, w).at = w.at + 1
            \/ w.at = Size(k[w.of]) /\ Succ(k, w).of = w.of + 1 /\ Succ(k, w).at = 1
<1>0. /\ Len(k) \in Nat /\ DOMAIN k = 1 .. Len(k)
      /\ w.of \in DOMAIN k /\ w.at \in 1 .. Size(k[w.of]) /\ Size(k[w.of]) \in Nat
  BY LenProperties, WordPlace
<1>1. CASE w.at = Size(k[w.of])
  <2>1. Succ(k, w) = Word(w.of + 1, 1) /\ w.of + 1 \in 1 .. Len(k) + 1
    BY <1>0, <1>1 DEF Succ
  <2> QED BY <1>1, <2>1, MarkPlace
<1>2. CASE w.at # Size(k[w.of])
  <2>1. /\ Succ(k, w) = Word(w.of, w.at + 1) /\ w.at + 1 \in 1 .. Size(k[w.of])
        /\ w.of \in 1 .. Len(k) + 1
    BY <1>0, <1>2 DEF Succ
  <2>2. Succ(k, w) \in Words(k)
    BY <1>0, <2>1, MarkPlace
  <2>3. Succ(k, w).of = w.of /\ Succ(k, w).at = w.at + 1
    BY <2>1 DEF Word
  <2> QED BY <1>0, <1>2, <2>2, <2>3 DEF Places
<1> QED BY <1>1, <1>2

-----------------------------------------------------------------------------
(* What is missing between two places.                                     *)

LEMMA ReachTrans ==
  ASSUME NEW k \in Seq(Kinds), NEW l,
         NEW p \in Places(k), NEW q \in Places(k), NEW r \in Places(k),
         Reach(l, p, q), Reach(l, q, r)
  PROVE  Reach(l, p, r)
<1>1. p.of \in Nat /\ q.of \in Nat /\ r.of \in Nat
  <2>1. Len(k) \in Nat
    BY LenProperties
  <2> QED BY <2>1, PlaceIs
<1>2. CASE p = q \/ q = r
  BY <1>2
<1>3. CASE p # q /\ q # r
  <2>1. /\ q.of > p.of /\ \A m \in p.of .. q.of - 1 : m \in l
        /\ r.at = 1 /\ r.of > q.of /\ \A m \in q.of .. r.of - 1 : m \in l
    BY <1>3 DEF Reach
  <2>2. ASSUME NEW m \in p.of .. r.of - 1
        PROVE  m \in l
    BY <1>1, <2>1
  <2>3. r.of > p.of
    BY <1>1, <2>1
  <2> QED BY <2>1, <2>2, <2>3 DEF Reach
<1> QED BY <1>2, <1>3

LEMMA ReachMore ==
  ASSUME NEW l, NEW g, NEW p, NEW q, l \subseteq g, Reach(l, p, q)
  PROVE  Reach(g, p, q)
BY DEF Reach

\* A message that is lost may be missing as well.
LEMMA ReachOver ==
  ASSUME NEW k \in Seq(Kinds), NEW l, NEW w \in Words(k), NEW q \in Places(k),
         w.of \in l, q.at = 1, Reach(l, Succ(k, w), q)
  PROVE  Reach(l, w, q)
<1>0. w.of \in Nat /\ q.of \in Nat /\ Succ(k, w).of \in {w.of, w.of + 1}
  <2>1. Len(k) \in Nat
    BY LenProperties
  <2> QED BY <2>1, PlaceIs, WordPlace, SuccIs
<1>1. CASE Succ(k, w) = q
  <2>1. w.at \in Nat /\ w.at # 0
    BY WordPlace
  <2>2. q.of = w.of + 1
    BY <1>1, <2>1, SuccIs
  <2>3. \A m \in w.of .. q.of - 1 : m = w.of
    BY <1>0, <2>2
  <2> QED BY <1>0, <2>2, <2>3 DEF Reach
<1>2. CASE Succ(k, w) # q
  <2>1. /\ q.of > Succ(k, w).of
        /\ \A m \in Succ(k, w).of .. q.of - 1 : m \in l
    BY <1>2 DEF Reach
  <2>2. ASSUME NEW m \in w.of .. q.of - 1
        PROVE  m \in l
    BY <1>0, <2>1
  <2>3. q.of > w.of
    BY <1>0, <2>1
  <2> QED BY <2>2, <2>3 DEF Reach
<1> QED BY <1>1, <1>2

-----------------------------------------------------------------------------
(* Chains of words.                                                        *)

LEMMA ChainPlaces ==
  ASSUME NEW k \in Seq(Kinds), NEW s \in Seq(Words(k)),
         NEW p \in Places(k), NEW q \in Places(k), NEW i \in 1 .. Len(s) + 1
  PROVE  /\ Before(k, s, p, i) \in Places(k) /\ Nth(s, q, i) \in Places(k)
         /\ i <= Len(s) => Nth(s, q, i) = s[i] /\ s[i] \in Words(k)
         /\ Len(s) \in Nat
<1>0. Len(s) \in Nat /\ \A n \in 1 .. Len(s) : s[n] \in Words(k)
  BY LenProperties, ElementOfSeq
<1>1. Before(k, s, p, i) \in Places(k)
  <2>1. CASE i = 1
    BY <2>1 DEF Before
  <2>2. CASE i # 1
    <3>1. i - 1 \in 1 .. Len(s)
      BY <1>0, <2>2
    <3>2. Succ(k, s[i - 1]) \in Places(k)
      BY <1>0, <3>1, SuccIs
    <3> QED BY <2>2, <3>2 DEF Before
  <2> QED BY <2>1, <2>2
<1>2. CASE i = Len(s) + 1
  BY <1>0, <1>1, <1>2 DEF Nth
<1>3. CASE i # Len(s) + 1
  <2>1. i \in 1 .. Len(s)
    BY <1>0, <1>3
  <2>2. Nth(s, q, i) = s[i]
    BY <1>3 DEF Nth
  <2> QED BY <1>0, <1>1, <2>1, <2>2, WordPlace
<1> QED BY <1>2, <1>3

LEMMA ChainNone ==
  ASSUME NEW k, NEW l, NEW p
  PROVE  Chain(k, l, <<>>, p, p)
<1>1. Len(<<>>) = 0 /\ \A i \in 1 .. 0 + 1 : i = 1
  OBVIOUS
<1> QED BY <1>1 DEF Chain, Reach, Before, Nth

LEMMA ChainMore ==
  ASSUME NEW k, NEW l, NEW g, NEW s, NEW p, NEW q, l \subseteq g, Chain(k, l, s, p, q)
  PROVE  Chain(k, g, s, p, q)
BY ReachMore DEF Chain

\* The end of a chain may move on.
LEMMA ChainEnd ==
  ASSUME NEW k \in Seq(Kinds), NEW l, NEW s \in Seq(Words(k)),
         NEW p \in Places(k), NEW q \in Places(k), NEW r \in Places(k),
         Chain(k, l, s, p, q), Reach(l, q, r)
  PROVE  Chain(k, l, s, p, r)
<1> SUFFICES ASSUME NEW i \in 1 .. Len(s) + 1
             PROVE  Reach(l, Before(k, s, p, i), Nth(s, r, i))
  BY DEF Chain
<1>1. Reach(l, Before(k, s, p, i), Nth(s, q, i))
  BY DEF Chain
<1>2. CASE i = Len(s) + 1
  <2>1. Nth(s, q, i) = q /\ Nth(s, r, i) = r
    BY <1>2 DEF Nth
  <2> QED BY <1>1, <2>1, ChainPlaces, ReachTrans
<1>3. CASE i # Len(s) + 1
  BY <1>1, <1>3 DEF Nth
<1> QED BY <1>2, <1>3

LEMMA ChainAppend ==
  ASSUME NEW k \in Seq(Kinds), NEW l, NEW s \in Seq(Words(k)),
         NEW p \in Places(k), NEW w \in Words(k), Chain(k, l, s, p, w)
  PROVE  Chain(k, l, Append(s, w), p, Succ(k, w))
<1> DEFINE t == Append(s, w)
<1>0. /\ Len(s) \in Nat /\ Len(t) = Len(s) + 1 /\ t[Len(s) + 1] = w
      /\ \A i \in 1 .. Len(s) : t[i] = s[i]
  BY AppendProperties, LenProperties
<1> HIDE DEF t
<1>1. ASSUME NEW i \in 1 .. Len(s) + 1
      PROVE  Reach(l, Before(k, t, p, i), Nth(t, Succ(k, w), i))
  <2>1. Reach(l, Before(k, s, p, i), Nth(s, w, i))
    BY DEF Chain
  <2>2. Before(k, t, p, i) = Before(k, s, p, i)
    <3>1. CASE i = 1
      BY <3>1 DEF Before
    <3>2. CASE i # 1
      <4>1. t[i - 1] = s[i - 1]
        BY <1>0, <3>2
      <4> QED BY <3>2, <4>1 DEF Before
    <3> QED BY <3>1, <3>2
  <2>3. Nth(t, Succ(k, w), i) = t[i] /\ Nth(s, w, i) = t[i]
    BY <1>0 DEF Nth
  <2> QED BY <2>1, <2>2, <2>3
<1>2. Reach(l, Before(k, t, p, Len(s) + 2), Nth(t, Succ(k, w), Len(s) + 2))
  <2>1. Before(k, t, p, Len(s) + 2) = Succ(k, t[Len(s) + 1])
    <3>1. Len(s) + 2 # 1 /\ Len(s) + 2 - 1 = Len(s) + 1
      BY <1>0
    <3> QED BY <3>1 DEF Before
  <2>2. Nth(t, Succ(k, w), Len(s) + 2) = Succ(k, w)
    BY <1>0 DEF Nth
  <2> QED BY <1>0, <2>1, <2>2 DEF Reach
<1>3. \A i \in 1 .. Len(t) + 1 : i \in 1 .. Len(s) + 1 \/ i = Len(s) + 2
  BY <1>0
<1>4. Chain(k, l, t, p, Succ(k, w))
  BY <1>1, <1>2, <1>3 DEF Chain
<1> QED BY <1>4 DEF t

LEMMA ChainConcat ==
  ASSUME NEW k \in Seq(Kinds), NEW l, NEW s \in Seq(Words(k)), NEW t \in Seq(Words(k)),
         NEW p \in Places(k), NEW q \in Places(k), NEW r \in Places(k),
         Chain(k, l, s, p, q), Chain(k, l, t, q, r)
  PROVE  Chain(k, l, s \o t, p, r)
<1> DEFINE u == s \o t
<1>0. /\ Len(s) \in Nat /\ Len(t) \in Nat /\ Len(u) = Len(s) + Len(t)
      /\ \A i \in 1 .. Len(s) + Len(t) : u[i] = IF i <= Len(s) THEN s[i] ELSE t[i - Len(s)]
  BY ConcatProperties, LenProperties
<1> HIDE DEF u
<1>a. \A i \in 1 .. Len(s) : u[i] = s[i]
  BY <1>0
<1>b. \A i \in 1 .. Len(t) : u[Len(s) + i] = t[i]
  <2> TAKE i \in 1 .. Len(t)
  <2>1. Len(s) + i \in 1 .. Len(s) + Len(t) /\ ~(Len(s) + i <= Len(s)) /\ Len(s) + i - Len(s) = i
    BY <1>0
  <2> QED BY <1>0, <2>1
<1>1. ASSUME NEW i \in 1 .. Len(s) + 1
      PROVE  Before(k, u, p, i) = Before(k, s, p, i)
  <2>1. CASE i = 1
    BY <2>1 DEF Before
  <2>2. CASE i # 1
    <3>1. u[i - 1] = s[i - 1]
      BY <1>0, <1>a, <2>2
    <3> QED BY <2>2, <3>1 DEF Before
  <2> QED BY <2>1, <2>2
<1>2. ASSUME NEW i \in 1 .. Len(t) + 1
      PROVE  Nth(u, r, Len(s) + i) = Nth(t, r, i)
  <2>1. CASE i = Len(t) + 1
    <3>1. Len(s) + i = Len(u) + 1
      BY <1>0, <2>1
    <3> QED BY <2>1, <3>1 DEF Nth
  <2>2. CASE i # Len(t) + 1
    <3>1. Len(s) + i # Len(u) + 1 /\ i \in 1 .. Len(t)
      BY <1>0, <2>2
    <3> QED BY <1>b, <2>2, <3>1 DEF Nth
  <2> QED BY <2>1, <2>2
<1>3. ASSUME NEW i \in 1 .. Len(s)
      PROVE  Reach(l, Before(k, u, p, i), Nth(u, r, i))
  <2>1. Reach(l, Before(k, s, p, i), Nth(s, q, i))
    BY <1>0 DEF Chain
  <2>2. Nth(s, q, i) = s[i] /\ Nth(u, r, i) = u[i]
    BY <1>0 DEF Nth
  <2>3. Before(k, u, p, i) = Before(k, s, p, i)
    BY <1>0, <1>1
  <2> QED BY <1>a, <2>1, <2>2, <2>3
<1>4. Reach(l, Before(k, u, p, Len(s) + 1), Nth(u, r, Len(s) + 1))
  <2>1. Reach(l, Before(k, s, p, Len(s) + 1), q)
    <3>1. Len(s) + 1 \in 1 .. Len(s) + 1 /\ Nth(s, q, Len(s) + 1) = q
      BY <1>0 DEF Nth
    <3> QED BY <3>1 DEF Chain
  <2>2. Reach(l, q, Nth(t, r, 1))
    <3>1. 1 \in 1 .. Len(t) + 1 /\ Before(k, t, q, 1) = q
      BY <1>0 DEF Before
    <3> QED BY <3>1 DEF Chain
  <2>3. /\ Before(k, s, p, Len(s) + 1) \in Places(k)
        /\ Nth(t, r, 1) \in Places(k)
    <3>1. Len(s) + 1 \in 1 .. Len(s) + 1 /\ 1 \in 1 .. Len(t) + 1
      BY <1>0
    <3> QED BY <3>1, ChainPlaces
  <2>4. Reach(l, Before(k, s, p, Len(s) + 1), Nth(t, r, 1))
    BY <2>1, <2>2, <2>3, ReachTrans
  <2>5. Len(s) + 1 \in 1 .. Len(s) + 1 /\ 1 \in 1 .. Len(t) + 1
    BY <1>0
  <2> QED BY <1>1, <1>2, <2>4, <2>5
<1>5. ASSUME NEW i \in 2 .. Len(t) + 1
      PROVE  Reach(l, Before(k, u, p, Len(s) + i), Nth(u, r, Len(s) + i))
  <2>0. /\ i \in 1 .. Len(t) + 1 /\ i # 1 /\ i - 1 \in 1 .. Len(t) /\ Len(s) + i # 1
        /\ Len(s) + i - 1 = Len(s) + (i - 1)
    BY <1>0
  <2>1. Reach(l, Before(k, t, q, i), Nth(t, r, i))
    BY <2>0 DEF Chain
  <2>2. Before(k, u, p, Len(s) + i) = Succ(k, t[i - 1])
    <3>1. u[Len(s) + i - 1] = t[i - 1]
      BY <1>b, <2>0
    <3> QED BY <2>0, <3>1 DEF Before
  <2>3. Before(k, t, q, i) = Succ(k, t[i - 1])
    BY <2>0 DEF Before
  <2> QED BY <1>2, <2>0, <2>1, <2>2, <2>3
<1>6. ASSUME NEW i \in 1 .. Len(u) + 1
      PROVE  Reach(l, Before(k, u, p, i), Nth(u, r, i))
  <2>1. CASE i <= Len(s)
    BY <1>0, <1>3, <2>1
  <2>2. CASE i = Len(s) + 1
    BY <1>4, <2>2
  <2>3. CASE i > Len(s) + 1
    <3>1. i - Len(s) \in 2 .. Len(t) + 1 /\ i = Len(s) + (i - Len(s))
      BY <1>0, <2>3
    <3> QED BY <1>5, <3>1
  <2> QED BY <1>0, <2>1, <2>2, <2>3
<1>7. Chain(k, l, u, p, r)
  BY <1>6 DEF Chain
<1> QED BY <1>7 DEF u

\* The first words of a chain may be taken.
LEMMA ChainDrop ==
  ASSUME NEW k \in Seq(Kinds), NEW l, NEW s \in Seq(Words(k)),
         NEW p \in Places(k), NEW q \in Places(k), Chain(k, l, s, p, q),
         NEW n \in 1 .. Len(s)
  PROVE  /\ SubSeq(s, n + 1, Len(s)) \in Seq(Words(k))
         /\ Chain(k, l, SubSeq(s, n + 1, Len(s)), Succ(k, s[n]), q)
<1> DEFINE t == SubSeq(s, n + 1, Len(s))
<1>0. Len(s) \in Nat /\ n \in Nat /\ \A i \in 1 .. Len(s) : s[i] \in Words(k)
  BY LenProperties, ElementOfSeq
<1>1. /\ t \in Seq(Words(k)) /\ Len(t) = Len(s) - n
      /\ \A i \in 1 .. Len(s) - n : t[i] = s[n + i]
  <2>1. \A i \in n + 1 .. Len(s) : s[i] \in Words(k)
    BY <1>0
  <2>2. /\ t \in Seq(Words(k))
        /\ Len(t) = IF n + 1 <= Len(s) THEN Len(s) - (n + 1) + 1 ELSE 0
        /\ \A i \in 1 .. Len(s) - (n + 1) + 1 : t[i] = s[n + 1 + i - 1]
    BY <1>0, <2>1, SubSeqProperties
  <2> HIDE DEF t
  <2>3. Len(t) = Len(s) - n
    BY <1>0, <2>2
  <2>4. \A i \in 1 .. Len(s) - n : t[i] = s[n + i]
    <3> TAKE i \in 1 .. Len(s) - n
    <3>1. i \in 1 .. Len(s) - (n + 1) + 1 /\ n + 1 + i - 1 = n + i
      BY <1>0
    <3>2. t[i] = s[n + 1 + i - 1]
      BY <2>2, <3>1
    <3> QED BY <3>1, <3>2
  <2> QED BY <2>2, <2>3, <2>4
<1> HIDE DEF t
<1>2. ASSUME NEW i \in 1 .. Len(t) + 1
      PROVE  Reach(l, Before(k, t, Succ(k, s[n]), i), Nth(t, q, i))
  <2>0. n + i \in 1 .. Len(s) + 1 /\ n + i # 1 /\ n + i - 1 = n + (i - 1)
    BY <1>0, <1>1
  <2>1. Reach(l, Before(k, s, p, n + i), Nth(s, q, n + i))
    BY <2>0 DEF Chain
  <2>2. Nth(s, q, n + i) = Nth(t, q, i)
    <3>1. CASE i = Len(t) + 1
      <4>1. n + i = Len(s) + 1
        BY <1>0, <1>1, <3>1
      <4> QED BY <3>1, <4>1 DEF Nth
    <3>2. CASE i # Len(t) + 1
      <4>0. Len(t) = Len(s) - n
        BY <1>1
      <4>1. n + i # Len(s) + 1 /\ i \in 1 .. Len(s) - n
        BY <1>0, <3>2, <4>0
      <4> QED BY <1>1, <3>2, <4>1 DEF Nth
    <3> QED BY <3>1, <3>2
  <2>3. Before(k, s, p, n + i) = Succ(k, s[n + (i - 1)])
    BY <2>0 DEF Before
  <2>4. Before(k, t, Succ(k, s[n]), i) = Succ(k, s[n + (i - 1)])
    <3>1. CASE i = 1
      <4>1. n + (i - 1) = n
        BY <1>0, <3>1
      <4> QED BY <3>1, <4>1 DEF Before
    <3>2. CASE i # 1
      <4>1. t[i - 1] = s[n + (i - 1)]
        <5>1. i - 1 \in 1 .. Len(s) - n
          BY <1>0, <1>1, <3>2
        <5> QED BY <1>1, <5>1
      <4> QED BY <3>2, <4>1 DEF Before
    <3> QED BY <3>1, <3>2
  <2> QED BY <2>1, <2>2, <2>3, <2>4
<1>3. Chain(k, l, t, Succ(k, s[n]), q)
  BY <1>2 DEF Chain
<1> QED BY <1>1, <1>3 DEF t

\* A set of numbers with a bound has a last.
LEMMA LastIs ==
  ASSUME NEW n \in Nat, NEW P \in SUBSET (1 .. n), P # {}
  PROVE  \E m \in P : \A i \in P : i <= m
<1> DEFINE Q == {n - i : i \in P}
<1>0. \A i \in P : i \in Nat /\ n - i \in Nat
  OBVIOUS
<1>1. Q \in SUBSET Nat /\ Q # {}
  BY <1>0
<1>2. PICK c \in Q : \A i \in Q : ~(<<i, c>> \in OpToRel(<, Nat))
  BY <1>1, NatLessThanWellFounded, WFMin
<1>3. PICK m \in P : c = n - m
  OBVIOUS
<1>4. ASSUME NEW i \in P, i > m
      PROVE  FALSE
  <2>0. n - i \in Q
    OBVIOUS
  <2>1. n - i \in Nat /\ n - m \in Nat /\ n - i < n - m
    <3>1. i \in Nat /\ m \in Nat /\ n - i \in Nat /\ n - m \in Nat
      BY <1>0
    <3> QED BY <1>4, <3>1
  <2>2. <<n - i, c>> \in Nat \X Nat /\ <<n - i, c>>[1] < <<n - i, c>>[2]
    BY <1>3, <2>1
  <2> QED BY <1>2, <2>0, <2>2 DEF OpToRel
<1> QED BY <1>0, <1>4

\* The words of a chain may be lost altogether if a mark follows them.
LEMMA ChainLost ==
  ASSUME NEW k \in Seq(Kinds), NEW l, NEW s \in Seq(Words(k)),
         NEW p \in Places(k), NEW q \in Places(k), Chain(k, l, s, p, q),
         q.at = 1, Messages(s) \subseteq l
  PROVE  Reach(l, p, q)
<1>0. /\ Len(s) \in Nat /\ DOMAIN s = 1 .. Len(s)
      /\ \A i \in 1 .. Len(s) : s[i] \in Words(k) /\ s[i].of \in l
  BY LenProperties, ElementOfSeq DEF Messages
<1> DEFINE P == {i \in 1 .. Len(s) + 1 : ~Reach(l, Before(k, s, p, i), q)}
<1>1. P = {}
  <2> SUFFICES ASSUME P # {}
               PROVE  FALSE
    OBVIOUS
  <2>0. Len(s) + 1 \in Nat /\ P \in SUBSET (1 .. Len(s) + 1)
    BY <1>0
  <2>1. PICK m \in P : \A i \in P : i <= m
    <3> HIDE DEF P
    <3> QED BY <2>0, LastIs
  <2>2. /\ m \in 1 .. Len(s) + 1 /\ ~Reach(l, Before(k, s, p, m), q)
        /\ Reach(l, Before(k, s, p, m), Nth(s, q, m))
    BY DEF Chain
  <2>3. m # Len(s) + 1
    BY <2>2 DEF Nth
  <2>4. m \in 1 .. Len(s) /\ m + 1 \in 1 .. Len(s) + 1 /\ ~(m + 1 <= m) /\ m + 1 - 1 = m /\ m + 1 # 1
    BY <1>0, <2>2, <2>3
  <2>5. Reach(l, Before(k, s, p, m + 1), q)
    BY <2>1, <2>4
  <2>6. Before(k, s, p, m + 1) = Succ(k, s[m])
    BY <2>4 DEF Before
  <2>7. Reach(l, s[m], q)
    BY <1>0, <2>4, <2>5, <2>6, ReachOver
  <2>8. Nth(s, q, m) = s[m]
    BY <2>3 DEF Nth
  <2>9. Before(k, s, p, m) \in Places(k) /\ s[m] \in Places(k)
    BY <1>0, <2>2, <2>4, ChainPlaces, WordPlace
  <2> QED BY <2>2, <2>7, <2>8, <2>9, ReachTrans
<1>2. Reach(l, Before(k, s, p, 1), q)
  BY <1>0, <1>1
<1> QED BY <1>2 DEF Before

\* j words after the first: still in its message, unless that is lost.
Farther(k, l, s, j) ==
  \/ s[j].of = s[1].of /\ s[j].at = s[1].at + (j - 1)
  \/ s[j].of > s[1].of /\ (s[1].at + (j - 1) <= Size(k[s[1].of]) => s[1].of \in l)

LEMMA ChainRun ==
  ASSUME NEW k \in Seq(Kinds), NEW l, NEW s \in Seq(Words(k)),
         NEW p \in Places(k), NEW q \in Places(k), Chain(k, l, s, p, q)
  PROVE  \A j \in 1 .. Len(s) : Farther(k, l, s, j)
<1>0. Len(s) \in Nat /\ \A i \in 1 .. Len(s) : s[i] \in Words(k)
  BY LenProperties, ElementOfSeq
<1> DEFINE P == {j \in 1 .. Len(s) : ~Farther(k, l, s, j)}
<1>1. P = {}
  <2> SUFFICES ASSUME P # {}
               PROVE  FALSE
    OBVIOUS
  <2>0. P \in SUBSET Nat
    BY <1>0
  <2>1. PICK j \in P : \A i \in P : ~(<<i, j>> \in OpToRel(<, Nat))
    <3> HIDE DEF P
    <3> QED BY <2>0, NatLessThanWellFounded, WFMin
  <2>2. j \in 1 .. Len(s) /\ ~Farther(k, l, s, j)
    OBVIOUS
  <2>3. s[1] \in Words(k) /\ s[1].at \in Nat /\ s[1].of \in Nat /\ Size(k[s[1].of]) \in Nat
    BY <1>0, <2>2, WordPlace
  <2>4. j # 1
    <3>1. s[1].at = s[1].at + (1 - 1)
      BY <2>3
    <3> QED BY <2>2, <3>1 DEF Farther
  <2> DEFINE i == j - 1
  <2>5. i \in 1 .. Len(s) /\ j = i + 1 /\ i < j /\ i \in Nat /\ j \in Nat
    BY <1>0, <2>2, <2>4
  <2> HIDE DEF i
  <2>6. Farther(k, l, s, i)
    <3> SUFFICES ASSUME i \in P
                 PROVE  FALSE
      BY <2>5
    <3>1. <<i, j>> \in Nat \X Nat /\ <<i, j>>[1] < <<i, j>>[2]
      BY <2>5
    <3> QED BY <2>1, <3>1 DEF OpToRel
  <2>7. Reach(l, Succ(k, s[i]), s[j])
    <3>1. Reach(l, Before(k, s, p, j), Nth(s, q, j))
      BY <1>0, <2>2 DEF Chain
    <3>2. Before(k, s, p, j) = Succ(k, s[i]) /\ Nth(s, q, j) = s[j]
      BY <1>0, <2>2, <2>4 DEF Before, Nth, i
    <3> QED BY <3>1, <3>2
  <2> DEFINE a == s[1]
             v == s[i]
             w == s[j]
             u == Succ(k, v)
             n == Size(k[a.of])
  <2>8. /\ v.of \in Nat /\ v.at \in Nat /\ w.of \in Nat /\ w.at \in Nat /\ u.of \in Nat
        /\ a.at \in Nat /\ a.of \in Nat /\ n \in Nat
    <3>1. Succ(k, s[i]) \in Places(k) /\ Len(k) \in Nat
      BY <1>0, <2>5, SuccIs, LenProperties
    <3>2. u.of \in Nat
      BY <3>1, PlaceIs
    <3>3. v.of \in Nat /\ v.at \in Nat /\ w.of \in Nat /\ w.at \in Nat
      <4>1. s[i] \in Words(k) /\ s[j] \in Words(k)
        BY <1>0, <2>2, <2>5
      <4> QED BY <4>1, WordPlace
    <3> QED BY <2>3, <3>2, <3>3
  <2>9. \/ v.at < Size(k[v.of]) /\ u.of = v.of /\ u.at = v.at + 1
        \/ v.at = Size(k[v.of]) /\ u.of = v.of + 1 /\ u.at = 1
    BY <1>0, <2>5, SuccIs
  <2>10. \/ v.of = a.of /\ v.at = a.at + (i - 1)
         \/ v.of > a.of /\ (a.at + (i - 1) <= n => a.of \in l)
    BY <2>6 DEF Farther
  <2>11. u = w \/ (w.of > u.of /\ \A m \in u.of .. w.of - 1 : m \in l)
    BY <2>7 DEF Reach
  <2>12. ~(w.of = a.of /\ w.at = a.at + i)
    <3>1. j - 1 = i
      BY <2>5
    <3> QED BY <2>2, <3>1 DEF Farther
  <2>13. ~(w.of > a.of /\ (a.at + i <= n => a.of \in l))
    <3>1. j - 1 = i
      BY <2>5
    <3> QED BY <2>2, <3>1 DEF Farther
  <2>14. v.of = a.of => Size(k[v.of]) = n
    OBVIOUS
  <2> HIDE DEF a, v, w, u, n
  <2>15. CASE v.of = a.of /\ v.at = a.at + (i - 1)
    <3>1. CASE u = w
      BY <2>5, <2>8, <2>9, <2>12, <2>13, <2>14, <2>15, <3>1
    <3>2. CASE w.of > u.of /\ \A m \in u.of .. w.of - 1 : m \in l
      <4>1. u.of \in l
        <5>1. u.of \in u.of .. w.of - 1
          BY <2>8, <3>2
        <5> QED BY <3>2, <5>1
      <4> QED BY <2>5, <2>8, <2>9, <2>13, <2>14, <2>15, <3>2, <4>1
    <3> QED BY <2>11, <3>1, <3>2
  <2>16. CASE v.of > a.of /\ (a.at + (i - 1) <= n => a.of \in l)
    <3>1. u.of > a.of /\ w.of > a.of
      BY <2>8, <2>9, <2>11, <2>16
    <3>2. a.at + i <= n => a.at + (i - 1) <= n
      BY <2>5, <2>8
    <3> QED BY <2>13, <2>16, <3>1, <3>2
  <2> QED BY <2>10, <2>15, <2>16
<1> QED BY <1>1

-----------------------------------------------------------------------------
(* The way of the words through the connections.                           *)

LEMMA BaseIs ==
  ASSUME NEW n \in Nat, n >= 1, NEW a \in 0 .. n
  PROVE  Base(a) \in 1 .. n /\ Base(a) >= a /\ (a # 0 => Base(a) = a)
BY DEF Base

LEMMA PathMore ==
  ASSUME NEW k, NEW l, NEW g, NEW s, NEW ws, NEW a, NEW p, NEW head, NEW b,
         l \subseteq g, Path(k, l, s, ws, a, p, head, b)
  PROVE  Path(k, g, s, ws, a, p, head, b)
BY ChainMore DEF Path

LEMMA PathSend ==
  ASSUME NEW k \in Seq(Kinds), NEW l, NEW s \in Seq(Words(k)),
         NEW ws \in Seq(Seq(Words(k))), Len(ws) >= 1, NEW a \in 0 .. Len(ws),
         NEW p \in Words(k), NEW head \in Places(k), NEW b \in Ends(k, Len(ws)),
         Path(k, l, s, ws, a, p, head, b),
         NEW v, v = [ws EXCEPT ![Len(ws)] = Append(@, p)],
         NEW c, c = [b EXCEPT ![Len(ws) + 1] = Succ(k, p)]
  PROVE  /\ c \in Ends(k, Len(ws))
         /\ Path(k, l, s, v, a, Succ(k, p), head, c)
<1> DEFINE n == Len(ws)
<1>0. /\ n \in Nat /\ n >= 1 /\ a \in 0 .. n
      /\ DOMAIN ws = 1 .. n /\ \A w \in 1 .. n : ws[w] \in Seq(Words(k))
  BY LenProperties, ElementOfSeq
<1>1. /\ v \in Seq(Seq(Words(k))) /\ Len(v) = n /\ v[n] = Append(ws[n], p)
      /\ \A w \in 1 .. n : w # n => v[w] = ws[w]
  <2>1. Append(ws[n], p) \in Seq(Words(k))
    BY <1>0, AppendProperties
  <2>2. v = [ws EXCEPT ![n] = Append(ws[n], p)]
    OBVIOUS
  <2> HIDE DEF n
  <2> QED BY <1>0, <2>1, <2>2, ExceptSeq
<1>2. \A w \in 1 .. n + 1 : b[w] \in Places(k)
  BY DEF Ends
<1>3. Succ(k, p) \in Places(k)
  BY SuccIs
<1>4. c \in Ends(k, n) /\ c[n + 1] = Succ(k, p) /\ \A w \in 1 .. n : c[w] = b[w]
  <2> HIDE DEF n
  <2>1. b \in [1 .. n + 1 -> Places(k)] /\ c = [b EXCEPT ![n + 1] = Succ(k, p)]
    BY DEF Ends, n
  <2>2. n + 1 \in 1 .. n + 1 /\ \A w \in 1 .. n : w \in 1 .. n + 1 /\ w # n + 1
    BY <1>0
  <2> QED BY <1>3, <2>1, <2>2 DEF Ends
<1>5. /\ b[n + 1] = p
      /\ \A w \in a + 1 .. n : b[w].at = 1
      /\ Chain(k, l, s, head, b[Base(a)])
      /\ \A w \in Base(a) .. n : Chain(k, l, ws[w], b[w], b[w + 1])
  BY DEF Path
<1> HIDE DEF n
<1>6. Base(a) \in 1 .. n
  BY <1>0, BaseIs
<1>7. \A w \in a + 1 .. n : c[w].at = 1
  <2>1. \A w \in a + 1 .. n : w \in 1 .. n
    BY <1>0
  <2> QED BY <1>4, <1>5, <2>1
<1>8. ASSUME NEW w \in Base(a) .. n
      PROVE  Chain(k, l, v[w], c[w], c[w + 1])
  <2>1. w \in 1 .. n /\ w \in 1 .. n + 1
    BY <1>0, <1>6
  <2>2. CASE w = n
    <3>1. Chain(k, l, ws[n], b[n], p)
      BY <1>5, <2>2
    <3>2. Chain(k, l, Append(ws[n], p), b[n], Succ(k, p))
      <4>1. b[n] \in Places(k) /\ ws[n] \in Seq(Words(k))
        BY <1>0, <1>2, <2>1, <2>2
      <4> QED BY <3>1, <4>1, ChainAppend
    <3> QED BY <1>1, <1>4, <2>1, <2>2, <3>2
  <2>3. CASE w # n
    <3>1. w + 1 \in 1 .. n
      BY <1>0, <2>1, <2>3
    <3>2. v[w] = ws[w] /\ c[w] = b[w] /\ c[w + 1] = b[w + 1]
      BY <1>1, <1>4, <2>1, <2>3, <3>1
    <3> QED BY <1>5, <3>2
  <2> QED BY <2>2, <2>3
<1>9. Path(k, l, s, v, a, Succ(k, p), head, c)
  BY <1>1, <1>4, <1>5, <1>6, <1>7, <1>8 DEF Path
<1> QED BY <1>4, <1>9 DEF n

Opened(b, n, r) == [w \in 1 .. n + 2 |-> IF w <= n THEN b[w] ELSE r]

LEMMA PathReconnect ==
  ASSUME NEW k \in Seq(Kinds), NEW l, NEW g, l \subseteq g, NEW s \in Seq(Words(k)),
         NEW ws \in Seq(Seq(Words(k))), Len(ws) >= 1, NEW a \in 0 .. Len(ws),
         NEW p \in Places(k), NEW head \in Places(k), NEW b \in Ends(k, Len(ws)),
         Path(k, l, s, ws, a, p, head, b),
         NEW r \in Places(k), r.at = 1, Reach(g, p, r),
         NEW c, c = Opened(b, Len(ws), r)
  PROVE  /\ c \in Ends(k, Len(ws) + 1)
         /\ Path(k, g, s, Append(ws, <<>>), a, r, head, c)
<1> DEFINE n == Len(ws)
           v == Append(ws, <<>>)
<1>0. /\ n \in Nat /\ n >= 1 /\ a \in 0 .. n
      /\ \A w \in 1 .. n : ws[w] \in Seq(Words(k))
  BY LenProperties, ElementOfSeq
<1>1. Len(v) = n + 1 /\ v[n + 1] = <<>> /\ \A w \in 1 .. n : v[w] = ws[w]
  <2>1. <<>> \in Seq(Words(k))
    BY EmptySeq
  <2> QED BY <2>1, AppendProperties
<1>2. /\ b[n + 1] = p
      /\ \A w \in a + 1 .. n : b[w].at = 1
      /\ Chain(k, g, s, head, b[Base(a)])
      /\ \A w \in Base(a) .. n : Chain(k, g, ws[w], b[w], b[w + 1])
  <2>1. Path(k, g, s, ws, a, p, head, b)
    BY PathMore
  <2> QED BY <2>1 DEF Path
<1>3. \A w \in 1 .. n + 1 : b[w] \in Places(k)
  BY DEF Ends
<1> HIDE DEF n, v
<1>4. c = [w \in 1 .. n + 2 |-> IF w <= n THEN b[w] ELSE r]
  BY DEF Opened, n
<1>5. /\ \A w \in 1 .. n : c[w] = b[w]
      /\ c[n + 1] = r /\ c[n + 1 + 1] = r
  <2>1. /\ n + 1 \in 1 .. n + 2 /\ ~(n + 1 <= n)
        /\ n + 1 + 1 \in 1 .. n + 2 /\ ~(n + 1 + 1 <= n)
        /\ \A w \in 1 .. n : w \in 1 .. n + 2 /\ w <= n
    BY <1>0
  <2> QED BY <1>4, <2>1
<1>6. c \in Ends(k, n + 1)
  <2>1. n + 1 + 1 = n + 2 /\ \A w \in 1 .. n + 2 : w <= n => w \in 1 .. n + 1
    BY <1>0
  <2> QED BY <1>3, <1>4, <2>1 DEF Ends
<1>7. Base(a) \in 1 .. n
  BY <1>0, BaseIs
<1>8. \A w \in a + 1 .. n + 1 : c[w].at = 1
  <2>1. \A w \in a + 1 .. n + 1 : w = n + 1 \/ (w \in 1 .. n /\ w \in a + 1 .. n)
    BY <1>0
  <2> QED BY <1>2, <1>5, <2>1
<1>9. ASSUME NEW w \in Base(a) .. n + 1
      PROVE  Chain(k, g, v[w], c[w], c[w + 1])
  <2>1. CASE w = n + 1
    BY <1>1, <1>5, <2>1, ChainNone
  <2>2. CASE w = n
    <3>1. Chain(k, g, ws[n], b[n], p) /\ b[n] \in Places(k) /\ ws[n] \in Seq(Words(k))
      <4>1. n \in Base(a) .. n /\ n \in 1 .. n /\ n \in 1 .. n + 1
        BY <1>0, <1>7
      <4> QED BY <1>0, <1>2, <1>3, <4>1
    <3>2. Chain(k, g, ws[n], b[n], r)
      BY <3>1, ChainEnd
    <3>3. v[n] = ws[n] /\ c[n] = b[n]
      <4>1. n \in 1 .. n
        BY <1>0
      <4> QED BY <1>1, <1>5, <4>1
    <3> QED BY <1>5, <2>2, <3>2, <3>3
  <2>3. CASE w # n + 1 /\ w # n
    <3>1. w \in 1 .. n /\ w + 1 \in 1 .. n /\ w \in Base(a) .. n
      BY <1>0, <1>7, <2>3
    <3>2. v[w] = ws[w] /\ c[w] = b[w] /\ c[w + 1] = b[w + 1]
      BY <1>1, <1>5, <3>1
    <3> QED BY <1>2, <3>1, <3>2
  <2> QED BY <2>1, <2>2, <2>3
<1>10. Path(k, g, s, v, a, r, head, c)
  BY <1>1, <1>2, <1>5, <1>7, <1>8, <1>9 DEF Path
<1> QED BY <1>6, <1>10 DEF n, v

\* What the server has not read of a connection it leaves is lost.
LEMMA PathAccept ==
  ASSUME NEW k \in Seq(Kinds), NEW l, NEW s \in Seq(Words(k)),
         NEW ws \in Seq(Seq(Words(k))), NEW a \in 1 .. Len(ws), a < Len(ws),
         NEW p \in Places(k), NEW head \in Places(k), NEW b \in Ends(k, Len(ws)),
         Path(k, l, s, ws, a, p, head, b),
         NEW g, g = l \cup Messages(ws[a]),
         NEW v, v = [ws EXCEPT ![a] = <<>>]
  PROVE  Path(k, g, s, v, a + 1, p, head, b)
<1> DEFINE n == Len(ws)
<1>0. /\ n \in Nat /\ n >= 1 /\ a \in 1 .. n /\ a < n
      /\ \A w \in 1 .. n : ws[w] \in Seq(Words(k))
  BY LenProperties, ElementOfSeq
<1>1. Len(v) = n /\ \A w \in 1 .. n : w # a => v[w] = ws[w]
  <2>1. <<>> \in Seq(Words(k))
    BY EmptySeq
  <2> QED BY <2>1, ExceptSeq
<1>2. \A w \in 1 .. n + 1 : b[w] \in Places(k)
  BY DEF Ends
<1>3. Base(a) = a /\ Base(a + 1) = a + 1
  BY <1>0 DEF Base
<1>4. /\ b[n + 1] = p
      /\ \A w \in a + 1 .. n : b[w].at = 1
      /\ Chain(k, g, s, head, b[a])
      /\ \A w \in a .. n : Chain(k, g, ws[w], b[w], b[w + 1])
  <2>1. Path(k, g, s, ws, a, p, head, b)
    BY PathMore
  <2> QED BY <1>3, <2>1 DEF Path
<1>5. Reach(g, b[a], b[a + 1])
  <2>1. /\ a \in a .. n /\ a + 1 \in a + 1 .. n
        /\ a \in 1 .. n + 1 /\ a + 1 \in 1 .. n + 1
    BY <1>0
  <2>2. Chain(k, g, ws[a], b[a], b[a + 1]) /\ b[a + 1].at = 1
    BY <1>4, <2>1
  <2>3. b[a] \in Places(k) /\ b[a + 1] \in Places(k) /\ ws[a] \in Seq(Words(k))
    BY <1>0, <1>2, <2>1
  <2> QED BY <2>2, <2>3, ChainLost
<1>6. Chain(k, g, s, head, b[a + 1])
  <2>1. b[a] \in Places(k) /\ b[a + 1] \in Places(k)
    <3>1. a \in 1 .. n + 1 /\ a + 1 \in 1 .. n + 1
      BY <1>0
    <3> QED BY <1>2, <3>1
  <2> QED BY <1>4, <1>5, <2>1, ChainEnd
<1> HIDE DEF n
<1>7. /\ \A w \in a + 1 + 1 .. n : w \in a + 1 .. n
      /\ \A w \in a + 1 .. n : w \in a .. n /\ w \in 1 .. n /\ w # a
  BY <1>0
<1>8. \A w \in a + 1 .. n : Chain(k, g, v[w], b[w], b[w + 1])
  BY <1>1, <1>4, <1>7
<1> QED BY <1>1, <1>3, <1>4, <1>6, <1>7, <1>8 DEF Path

LEMMA PathReceive ==
  ASSUME NEW k \in Seq(Kinds), NEW l, NEW s \in Seq(Words(k)),
         NEW ws \in Seq(Seq(Words(k))), NEW a \in 1 .. Len(ws),
         NEW p \in Places(k), NEW head \in Places(k), NEW b \in Ends(k, Len(ws)),
         Path(k, l, s, ws, a, p, head, b),
         NEW v, v = [ws EXCEPT ![a] = <<>>],
         NEW c, c = [b EXCEPT ![a] = b[a + 1]]
  PROVE  /\ c \in Ends(k, Len(ws))
         /\ Path(k, l, s \o ws[a], v, a, p, head, c)
<1> DEFINE n == Len(ws)
<1>0. /\ n \in Nat /\ n >= 1 /\ a \in 1 .. n
      /\ \A w \in 1 .. n : ws[w] \in Seq(Words(k))
  BY LenProperties, ElementOfSeq
<1>1. Len(v) = n /\ v[a] = <<>> /\ \A w \in 1 .. n : w # a => v[w] = ws[w]
  <2>1. <<>> \in Seq(Words(k))
    BY EmptySeq
  <2> QED BY <2>1, ExceptSeq
<1>2. b \in [1 .. n + 1 -> Places(k)]
  BY DEF Ends
<1> HIDE DEF n
<1>3. a \in 1 .. n + 1 /\ a + 1 \in 1 .. n + 1 /\ a + 1 # a /\ n + 1 # a /\ n + 1 \in 1 .. n + 1
  BY <1>0
<1>4. /\ c \in [1 .. n + 1 -> Places(k)] /\ c[a] = b[a + 1]
      /\ \A w \in 1 .. n + 1 : w # a => c[w] = b[w]
  BY <1>2, <1>3
<1>5. Base(a) = a
  BY <1>0 DEF Base
<1>6. /\ b[n + 1] = p
      /\ \A w \in a + 1 .. n : b[w].at = 1
      /\ Chain(k, l, s, head, b[a])
      /\ \A w \in a .. n : Chain(k, l, ws[w], b[w], b[w + 1])
  BY <1>5 DEF Path, n
<1>7. Chain(k, l, s \o ws[a], head, b[a + 1])
  <2>1. /\ b[a] \in Places(k) /\ b[a + 1] \in Places(k) /\ ws[a] \in Seq(Words(k))
        /\ Chain(k, l, ws[a], b[a], b[a + 1])
    <3>1. a \in a .. n
      BY <1>0
    <3> QED BY <1>0, <1>2, <1>3, <1>6, <3>1
  <2> QED BY <1>6, <2>1, ChainConcat
<1>8. \A w \in a + 1 .. n : c[w].at = 1
  <2>1. \A w \in a + 1 .. n : w \in 1 .. n + 1 /\ w # a
    BY <1>0
  <2> QED BY <1>4, <1>6, <2>1
<1>9. ASSUME NEW w \in a .. n
      PROVE  Chain(k, l, v[w], c[w], c[w + 1])
  <2>1. CASE w = a
    <3>1. v[w] = <<>> /\ c[w] = b[a + 1] /\ c[w + 1] = b[a + 1]
      BY <1>1, <1>3, <1>4, <2>1
    <3> QED BY <3>1, ChainNone
  <2>2. CASE w # a
    <3>1. /\ w \in 1 .. n /\ w \in 1 .. n + 1 /\ w + 1 \in 1 .. n + 1 /\ w + 1 # a
      BY <1>0, <2>2
    <3>2. v[w] = ws[w] /\ c[w] = b[w] /\ c[w + 1] = b[w + 1]
      BY <1>1, <1>4, <2>2, <3>1
    <3> QED BY <1>6, <3>2
  <2> QED BY <2>1, <2>2
<1>10. c[n + 1] = p
  BY <1>3, <1>4, <1>6
<1> QED BY <1>1, <1>4, <1>5, <1>7, <1>8, <1>9, <1>10 DEF Path, Ends, n

LEMMA PathDrop ==
  ASSUME NEW k \in Seq(Kinds), NEW l, NEW s \in Seq(Words(k)),
         NEW ws \in Seq(Seq(Words(k))), Len(ws) >= 1, NEW a \in 0 .. Len(ws),
         NEW p, NEW head \in Places(k), NEW b \in Ends(k, Len(ws)),
         Path(k, l, s, ws, a, p, head, b), NEW m \in 1 .. Len(s)
  PROVE  /\ SubSeq(s, m + 1, Len(s)) \in Seq(Words(k))
         /\ Succ(k, s[m]) \in Places(k)
         /\ Path(k, l, SubSeq(s, m + 1, Len(s)), ws, a, p, Succ(k, s[m]), b)
<1>1. Len(ws) \in Nat
  BY LenProperties
<1>2. Base(a) \in 1 .. Len(ws) + 1
  BY <1>1, BaseIs
<1>3. b[Base(a)] \in Places(k) /\ Chain(k, l, s, head, b[Base(a)])
  BY <1>2 DEF Path, Ends
<1>4. s[m] \in Words(k)
  BY ElementOfSeq
<1> QED BY <1>3, <1>4, ChainDrop, SuccIs DEF Path

-----------------------------------------------------------------------------
(* The message at the head of the stream.                                  *)

LEMMA ChainHead ==
  ASSUME NEW k \in Seq(Kinds), NEW l, NEW s \in Seq(Words(k)),
         NEW p \in Places(k), NEW q \in Places(k), Chain(k, l, s, p, q), Len(s) >= 1
  PROVE  /\ s[1] \in Words(k) /\ Reach(l, p, s[1])
         /\ \A i \in 1 .. Len(s) - 1 : s[i + 1] \in Words(k) /\ Reach(l, Succ(k, s[i]), s[i + 1])
<1>0. Len(s) \in Nat /\ \A i \in 1 .. Len(s) : s[i] \in Words(k)
  BY LenProperties, ElementOfSeq
<1>1. Reach(l, p, s[1])
  <2>1. 1 \in 1 .. Len(s) + 1 /\ Before(k, s, p, 1) = p /\ Nth(s, q, 1) = s[1]
    BY <1>0 DEF Before, Nth
  <2> QED BY <2>1 DEF Chain
<1>2. ASSUME NEW i \in 1 .. Len(s) - 1
      PROVE  s[i + 1] \in Words(k) /\ Reach(l, Succ(k, s[i]), s[i + 1])
  <2>1. i + 1 \in 1 .. Len(s) + 1 /\ i + 1 \in 1 .. Len(s) /\ i + 1 # 1 /\ i + 1 - 1 = i /\ i + 1 # Len(s) + 1
    BY <1>0
  <2>2. Before(k, s, p, i + 1) = Succ(k, s[i]) /\ Nth(s, q, i + 1) = s[i + 1]
    BY <2>1 DEF Before, Nth
  <2>3. Reach(l, Before(k, s, p, i + 1), Nth(s, q, i + 1))
    BY <2>1 DEF Chain
  <2> QED BY <1>0, <2>1, <2>2, <2>3
<1> QED BY <1>0, <1>1, <1>2

\* The word after one of a message is the next of that message, or a mark.
LEMMA NextWord ==
  ASSUME NEW k \in Seq(Kinds), NEW l, NEW v \in Words(k), NEW w \in Words(k),
         Reach(l, Succ(k, v), w), v.at < 3, w.at = v.at + 1
  PROVE  w.of = v.of
<1>1. v.at \in 1 .. Size(k[v.of]) /\ Size(k[v.of]) >= 3 /\ Size(k[v.of]) \in Nat
  BY WordPlace
<1>2. Succ(k, v).of = v.of /\ Succ(k, v).at = v.at + 1
  BY <1>1, SuccIs
<1>3. w = Succ(k, v)
  BY <1>1 DEF Reach
<1> QED BY <1>2, <1>3

\* What Create knows of a message that it reads.
LEMMA ReadyIs ==
  ASSUME NEW k \in Seq(Kinds), NEW l, NEW s \in Seq(Words(k)),
         NEW p \in Places(k), NEW q \in Places(k), Chain(k, l, s, p, q),
         Len(s) >= 3, s[1].at = 1, s[2].at = 2
  PROVE  /\ s[1].of \in DOMAIN k /\ s[1].of \in Nat /\ k[s[1].of] \in Kinds
         /\ s[2].of = s[1].of
         /\ s[3].at = 3 => s[3].of = s[1].of
         /\ p = Word(s[1].of, 1) \/ (s[1].of > p.of /\ \A m \in p.of .. s[1].of - 1 : m \in l)
<1>0. Len(s) \in Nat
  BY LenProperties
<1>1. /\ s[1] \in Words(k) /\ Reach(l, p, s[1])
      /\ s[1 + 1] \in Words(k) /\ Reach(l, Succ(k, s[1]), s[1 + 1])
      /\ s[2 + 1] \in Words(k) /\ Reach(l, Succ(k, s[2]), s[2 + 1])
  <2>1. 1 \in 1 .. Len(s) - 1 /\ 2 \in 1 .. Len(s) - 1 /\ Len(s) >= 1
    BY <1>0
  <2> QED BY <2>1, ChainHead
<1>2. 1 + 1 = 2 /\ 2 + 1 = 3
  OBVIOUS
<1>3. /\ s[1] \in Words(k) /\ s[2] \in Words(k) /\ s[3] \in Words(k)
      /\ Reach(l, Succ(k, s[1]), s[2]) /\ Reach(l, Succ(k, s[2]), s[3])
  BY <1>1, <1>2
<1>4. s[2].of = s[1].of
  <2>1. s[1].at < 3 /\ s[2].at = s[1].at + 1
    OBVIOUS
  <2> QED BY <1>3, <2>1, NextWord
<1>5. s[3].at = 3 => s[3].of = s[2].of
  <2>1. s[2].at < 3 /\ (s[3].at = 3 => s[3].at = s[2].at + 1)
    OBVIOUS
  <2> QED BY <1>3, <2>1, NextWord
<1>6. s[1].of \in DOMAIN k /\ s[1].of \in Nat /\ k[s[1].of] \in Kinds
  BY <1>3, WordPlace, SizeIs
<1>7. p = Word(s[1].of, 1) \/ (s[1].of > p.of /\ \A m \in p.of .. s[1].of - 1 : m \in l)
  <2>1. CASE p = s[1]
    BY <2>1, PlaceIs
  <2>2. CASE p # s[1]
    BY <1>1, <2>2 DEF Reach
  <2> QED BY <2>1, <2>2
<1> QED BY <1>4, <1>5, <1>6, <1>7

-----------------------------------------------------------------------------
(* What steps keep.                                                        *)

LEMMA UndamagedBefore ==
  ASSUME script' = script, lost \subseteq lost', Undamaged'
  PROVE  Undamaged
BY DEF Undamaged

LEMMA CommandsKept ==
  ASSUME CommandsFaithful, script' = script, applied' = applied, lost \subseteq lost'
  PROVE  CommandsFaithful'
<1>1. Undamaged' => Undamaged
  BY UndamagedBefore
<1>2. InOrder'
  BY DEF CommandsFaithful, InOrder, Origin
<1>3. WholeMessages'
  <2>1. \A i \in DOMAIN applied : Messages(applied[i]) \cap lost \subseteq Messages(applied[i]) \cap lost'
    OBVIOUS
  <2> QED BY <2>1 DEF CommandsFaithful, WholeMessages, Messages
<1>4. NothingSkipped'
  BY <1>1 DEF CommandsFaithful, NothingSkipped, Origin, Readables
<1> QED BY <1>2, <1>3, <1>4 DEF CommandsFaithful

LEMMA HeadKept ==
  ASSUME NEW head, AppliedInv(head), Undamaged => CountInv(head),
         script' = script, applied' = applied, lost \subseteq lost'
  PROVE  AppliedInv(head)' /\ (Undamaged' => CountInv(head)')
<1>1. Undamaged' => Undamaged
  BY UndamagedBefore
<1>2. AppliedInv(head)'
  BY DEF AppliedInv, Origin, Past
<1> QED BY <1>1, <1>2 DEF CountInv, Readables

\* What the steps of the client and the connections leave alone.
LEMMA NewPath ==
  ASSUME TypeInv, NEW head \in Places(script), AppliedInv(head), Undamaged => CountInv(head),
         script' = script, applied' = applied, lost \subseteq lost',
         NEW c \in Ends(script, Len(wires')),
         Path(script, lost', stream', wires', accepted', position', head, c)
  PROVE  PathInv'
<1>1. AppliedInv(head)' /\ (Undamaged' => CountInv(head)')
  BY HeadKept
<1>2. head \in Places(script') /\ c \in Ends(script', Len(wires'))
  OBVIOUS
<1>3. Path(script', lost', stream', wires', accepted', position', head, c)
  OBVIOUS
<1> QED BY <1>1, <1>2, <1>3 DEF PathInv

-----------------------------------------------------------------------------
(* The client.                                                             *)

LEMMA WordsPlace ==
  ASSUME TypeInv
  PROVE  /\ script \in Seq(Kinds)
         /\ Len(wires) \in Nat /\ Len(wires) >= 1 /\ Len(wires) \in 1 .. Len(wires)
         /\ \A w \in 1 .. Len(wires) : wires[w] \in Seq(Words(script))
         /\ position \in Places(script)
         /\ position.of \in DOMAIN script => position \in Words(script)
<1>1. wires \in Seq(Seq(Words(script))) /\ Len(wires) >= 1 /\ position \in Places(script)
  BY DEF TypeInv
<1> QED BY <1>1, Scripted, PlaceIs, LenProperties, ElementOfSeq

LEMMA AfterIs ==
  ASSUME NEW w
  PROVE  After(w) = Succ(script, w)
BY DEF After, Succ

LEMMA SendWordKeeps ==
  ASSUME TypeInv, PathInv, CommandsFaithful, Hears, SendWord
  PROVE  TypeInv' /\ PathInv' /\ CommandsFaithful' /\ Hears'
<1>0. /\ position \in Words(script) /\ position' = Succ(script, position)
      /\ wires' = [wires EXCEPT ![Len(wires)] = Append(@, position)]
      /\ UNCHANGED <<script, accepted, stream, failed, halted, pc, applied, lost>>
  BY WordsPlace, AfterIs DEF SendWord, ClientVars
<1>1. /\ position' \in Places(script)
      /\ wires' \in Seq(Seq(Words(script))) /\ Len(wires') = Len(wires)
  <2>1. Append(wires[Len(wires)], position) \in Seq(Words(script))
    BY <1>0, WordsPlace, AppendProperties
  <2>2. wires' = [wires EXCEPT ![Len(wires)] = Append(wires[Len(wires)], position)]
    BY <1>0
  <2>3. wires \in Seq(Seq(Words(script)))
    BY DEF TypeInv
  <2> QED BY <1>0, <2>1, <2>2, <2>3, WordsPlace, ExceptSeq, SuccIs
<1>2. TypeInv'
  BY <1>0, <1>1 DEF TypeInv
<1>3. PathInv'
  <2> SUFFICES ASSUME ~failed
               PROVE  PathInv'
    BY <1>0 DEF PathInv
  <2>1. PICK head \in Places(script), b \in Ends(script, Len(wires)) :
          /\ Path(script, lost, stream, wires, accepted, position, head, b)
          /\ AppliedInv(head)
          /\ Undamaged => CountInv(head)
    BY DEF PathInv
  <2>2. PICK c : c = [b EXCEPT ![Len(wires) + 1] = Succ(script, position)]
    OBVIOUS
  <2>3. stream \in Seq(Words(script)) /\ wires \in Seq(Seq(Words(script))) /\ accepted \in 0 .. Len(wires)
    BY DEF TypeInv
  <2>4. /\ c \in Ends(script, Len(wires))
        /\ Path(script, lost, stream, wires', accepted, position', head, c)
    BY <1>0, <2>1, <2>2, <2>3, WordsPlace, PathSend
  <2> QED BY <1>0, <1>1, <2>1, <2>4, NewPath
<1>4. CommandsFaithful'
  BY <1>0, CommandsKept
<1>5. Hears'
  BY <1>0, UndamagedBefore DEF Hears
<1> QED BY <1>2, <1>3, <1>4, <1>5

LEMMA ReconnectKeeps ==
  ASSUME TypeInv, PathInv, CommandsFaithful, Hears, Reconnect
  PROVE  TypeInv' /\ PathInv' /\ CommandsFaithful' /\ Hears'
<1>0. /\ position \in Words(script) /\ position.of \in DOMAIN script
      /\ Len(wires) <= MaxReconnects
      /\ wires' = Append(wires, <<>>)
      /\ position' = IF IsMark(position) THEN position ELSE Word(position.of + 1, 1)
      /\ lost' = IF IsMark(position) THEN lost ELSE lost \cup {position.of}
      /\ UNCHANGED <<script, accepted, stream, failed, halted, pc, applied>>
  BY WordsPlace DEF Reconnect, ClientVars
<1>1. /\ position' \in Places(script) /\ position'.at = 1
      /\ lost \subseteq lost' /\ lost' \subseteq DOMAIN script
      /\ Reach(lost', position, position')
  <2>0. lost \subseteq DOMAIN script /\ position \in Places(script)
    BY DEF TypeInv
  <2>1. CASE IsMark(position)
    BY <1>0, <2>0, <2>1 DEF IsMark, Reach
  <2>2. CASE ~IsMark(position)
    <3>1. /\ position.of + 1 \in 1 .. Len(script) + 1 /\ position.of \in Nat
          /\ \A m \in position.of .. position.of + 1 - 1 : m = position.of
      <4>1. Len(script) \in Nat /\ position.of \in 1 .. Len(script)
        BY <1>0, WordsPlace, LenProperties
      <4> QED BY <4>1
    <3>2. position' = Word(position.of + 1, 1) /\ lost' = lost \cup {position.of}
      BY <1>0, <2>2
    <3>3. position' \in Places(script) /\ position'.of = position.of + 1 /\ position'.at = 1
      BY <3>1, <3>2, MarkPlace, WordsPlace
    <3>4. Reach(lost', position, position')
      BY <3>1, <3>2, <3>3 DEF Reach
    <3> QED BY <1>0, <2>0, <3>2, <3>3, <3>4
  <2> QED BY <2>1, <2>2
<1>2. wires' \in Seq(Seq(Words(script))) /\ Len(wires') = Len(wires) + 1
  <2>1. wires \in Seq(Seq(Words(script))) /\ <<>> \in Seq(Words(script))
    BY EmptySeq DEF TypeInv
  <2> QED BY <1>0, <2>1, AppendProperties
<1>3. TypeInv'
  <2>1. Len(wires') \in 1 .. MaxReconnects + 1 /\ accepted \in 0 .. Len(wires')
    BY <1>0, <1>2, WordsPlace, MaxReconnectsAssumption DEF TypeInv
  <2> QED BY <1>0, <1>1, <1>2, <2>1 DEF TypeInv
<1>4. PathInv'
  <2> SUFFICES ASSUME ~failed
               PROVE  PathInv'
    BY <1>0 DEF PathInv
  <2>1. PICK head \in Places(script), b \in Ends(script, Len(wires)) :
          /\ Path(script, lost, stream, wires, accepted, position, head, b)
          /\ AppliedInv(head)
          /\ Undamaged => CountInv(head)
    BY DEF PathInv
  <2>2. PICK c : c = Opened(b, Len(wires), position')
    OBVIOUS
  <2>3. stream \in Seq(Words(script)) /\ wires \in Seq(Seq(Words(script))) /\ accepted \in 0 .. Len(wires)
    BY DEF TypeInv
  <2>4. /\ c \in Ends(script, Len(wires) + 1)
        /\ Path(script, lost', stream, wires', accepted, position', head, c)
    <3>0. PICK g : g = lost'
      OBVIOUS
    <3>1. PICK r \in Places(script) : r = position'
      BY <1>1
    <3>2. /\ lost \subseteq g /\ r.at = 1 /\ Reach(g, position, r)
          /\ c = Opened(b, Len(wires), r)
      BY <1>1, <2>2, <3>0, <3>1
    <3>3. /\ c \in Ends(script, Len(wires) + 1)
          /\ Path(script, g, stream, Append(wires, <<>>), accepted, r, head, c)
      <4>1. script \in Seq(Kinds) /\ Len(wires) >= 1 /\ position \in Places(script)
        BY WordsPlace
      <4>2. Path(script, lost, stream, wires, accepted, position, head, b)
        BY <2>1
      <4> QED BY <2>3, <3>2, <4>1, <4>2, PathReconnect
    <3> QED BY <1>0, <3>0, <3>1, <3>3
  <2> QED BY <1>0, <1>1, <1>2, <2>1, <2>4, NewPath
<1>5. CommandsFaithful'
  BY <1>0, <1>1, CommandsKept
<1>6. Hears'
  BY <1>0, <1>1, UndamagedBefore DEF Hears
<1> QED BY <1>3, <1>4, <1>5, <1>6

-----------------------------------------------------------------------------
(* The connections.                                                        *)

LEMMA AcceptKeeps ==
  ASSUME TypeInv, PathInv, CommandsFaithful, Hears, Accept
  PROVE  TypeInv' /\ PathInv' /\ CommandsFaithful' /\ Hears'
<1> DEFINE a == accepted
<1>0. /\ script \in Seq(Kinds) /\ wires \in Seq(Seq(Words(script)))
      /\ stream \in Seq(Words(script)) /\ a \in 0 .. Len(wires) /\ position \in Places(script)
      /\ Len(wires) \in Nat /\ Len(wires) >= 1 /\ lost \subseteq DOMAIN script
      /\ \A w \in 1 .. Len(wires) : wires[w] \in Seq(Words(script))
  BY WordsPlace DEF TypeInv
<1>1. /\ UNCHANGED <<stream, failed, applied, script, position, halted>> /\ pc' = "receive"
      /\ \/ a < Len(wires) /\ a # 0 /\ accepted' = a + 1 /\ lost' = lost \cup Messages(wires[a])
            /\ wires' = [wires EXCEPT ![a] = <<>>]
         \/ a < Len(wires) /\ a = 0 /\ accepted' = 1 /\ lost' = lost /\ wires' = wires
         \/ a # 0 /\ accepted' = a /\ lost' = lost /\ wires' = wires
  <2>1. /\ UNCHANGED <<stream, failed, applied, script, position, halted>> /\ pc' = "receive"
        /\ IF accepted < Len(wires)
           THEN /\ accepted' = accepted + 1
                /\ lost' = IF accepted = 0 THEN lost ELSE lost \cup Messages(wires[accepted])
                /\ wires' = IF accepted = 0 THEN wires ELSE [wires EXCEPT ![accepted] = <<>>]
           ELSE /\ accepted > 0
                /\ UNCHANGED <<accepted, lost, wires>>
    BY DEF Accept, ServerVars
  <2> QED BY <1>0, <2>1
<1> HIDE DEF a
<1>2. /\ wires' \in Seq(Seq(Words(script))) /\ Len(wires') = Len(wires)
      /\ lost \subseteq lost' /\ lost' \subseteq DOMAIN script
      /\ accepted' \in 0 .. Len(wires) /\ accepted' # 0
  <2>1. CASE a < Len(wires) /\ a # 0
    <3>1. a \in 1 .. Len(wires) /\ a + 1 \in 1 .. Len(wires)
      BY <1>0, <2>1
    <3>2. <<>> \in Seq(Words(script))
      BY EmptySeq
    <3>3. /\ [wires EXCEPT ![a] = <<>>] \in Seq(Seq(Words(script)))
          /\ Len([wires EXCEPT ![a] = <<>>]) = Len(wires)
      BY <1>0, <3>1, <3>2, ExceptSeq
    <3>4. Messages(wires[a]) \subseteq DOMAIN script
      <4>1. wires[a] \in Seq(Words(script))
        BY <1>0, <3>1
      <4>2. \A i \in DOMAIN wires[a] : wires[a][i] \in Words(script)
        BY <4>1, LenProperties, ElementOfSeq
      <4> QED BY <1>0, <4>2, WordPlace DEF Messages
    <3>5. \/ accepted' = a + 1 /\ lost' = lost \cup Messages(wires[a])
             /\ wires' = [wires EXCEPT ![a] = <<>>]
          \/ accepted' = a /\ lost' = lost /\ wires' = wires
      BY <1>1, <2>1
    <3>6. CASE accepted' = a /\ lost' = lost /\ wires' = wires
      BY <1>0, <2>1, <3>6
    <3>7. CASE accepted' = a + 1 /\ lost' = lost \cup Messages(wires[a])
               /\ wires' = [wires EXCEPT ![a] = <<>>]
      <4>1. a + 1 # 0 /\ a + 1 \in 0 .. Len(wires)
        BY <1>0, <3>1
      <4>2. lost \subseteq lost' /\ lost' \subseteq DOMAIN script
        BY <1>0, <3>4, <3>7
      <4> QED BY <3>3, <3>7, <4>1, <4>2
    <3> QED BY <3>5, <3>6, <3>7
  <2>2. CASE ~(a < Len(wires) /\ a # 0)
    BY <1>0, <1>1, <2>2
  <2> QED BY <2>1, <2>2
<1>3. TypeInv'
  BY <1>0, <1>1, <1>2 DEF TypeInv
<1>4. PathInv'
  <2> SUFFICES ASSUME ~failed
               PROVE  PathInv'
    BY <1>1 DEF PathInv
  <2>1. PICK head \in Places(script), b \in Ends(script, Len(wires)) :
          /\ Path(script, lost, stream, wires, a, position, head, b)
          /\ AppliedInv(head)
          /\ Undamaged => CountInv(head)
    BY DEF PathInv, a
  <2>2. Path(script, lost', stream, wires', accepted', position, head, b)
    <3>1. CASE a < Len(wires) /\ a # 0 /\ accepted' = a + 1 /\ lost' = lost \cup Messages(wires[a])
               /\ wires' = [wires EXCEPT ![a] = <<>>]
      <4>1. a \in 1 .. Len(wires) /\ a < Len(wires)
        BY <1>0, <3>1
      <4>2. PICK g, v : g = lost' /\ v = wires'
        OBVIOUS
      <4>3. g = lost \cup Messages(wires[a]) /\ v = [wires EXCEPT ![a] = <<>>]
        BY <3>1, <4>2
      <4>4. Path(script, g, stream, v, a + 1, position, head, b)
        BY <1>0, <2>1, <4>1, <4>3, PathAccept
      <4> QED BY <3>1, <4>2, <4>4
    <3>2. CASE a < Len(wires) /\ a = 0 /\ accepted' = 1 /\ lost' = lost /\ wires' = wires
      <4>1. Base(a) = 1 /\ Base(1) = 1 /\ \A w \in 1 + 1 .. Len(wires) : w \in a + 1 .. Len(wires)
        BY <1>0, <3>2 DEF Base
      <4>2. Path(script, lost, stream, wires, 1, position, head, b)
        BY <2>1, <4>1 DEF Path
      <4> QED BY <3>2, <4>2
    <3>3. CASE a # 0 /\ accepted' = a /\ lost' = lost /\ wires' = wires
      BY <2>1, <3>3
    <3> QED BY <1>1, <3>1, <3>2, <3>3
  <2> QED BY <1>1, <1>2, <2>1, <2>2, NewPath
<1>5. CommandsFaithful'
  BY <1>1, <1>2, CommandsKept
<1>6. Hears'
  BY <1>1, <1>2, UndamagedBefore DEF Hears
<1> QED BY <1>3, <1>4, <1>5, <1>6

LEMMA ReceiveKeeps ==
  ASSUME TypeInv, PathInv, CommandsFaithful, Hears, Receive
  PROVE  TypeInv' /\ PathInv' /\ CommandsFaithful' /\ Hears'
<1> DEFINE a == accepted
<1>0. /\ script \in Seq(Kinds) /\ wires \in Seq(Seq(Words(script)))
      /\ stream \in Seq(Words(script)) /\ a \in 1 .. Len(wires) /\ position \in Places(script)
      /\ Len(wires) \in Nat /\ lost \subseteq DOMAIN script
      /\ wires[a] \in Seq(Words(script))
  <2>1. pc = "receive"
    BY DEF Receive
  <2>2. a \in 1 .. Len(wires)
    BY <2>1, WordsPlace DEF TypeInv
  <2> QED BY <2>2, WordsPlace DEF TypeInv
<1>1. /\ UNCHANGED <<accepted, failed, applied, script, position, halted>> /\ pc' = "create"
      /\ wires' = [wires EXCEPT ![a] = <<>>]
      /\ failed => lost' = lost \cup Messages(wires[a]) /\ stream' = stream
      /\ ~failed => lost' = lost /\ stream' = stream \o wires[a]
  BY DEF Receive, ServerVars
<1> HIDE DEF a
<1>2. wires' \in Seq(Seq(Words(script))) /\ Len(wires') = Len(wires)
  <2>1. <<>> \in Seq(Words(script))
    BY EmptySeq
  <2> QED BY <1>0, <1>1, <2>1, ExceptSeq
<1>3. lost \subseteq lost' /\ lost' \subseteq DOMAIN script
  <2>1. \A i \in DOMAIN wires[a] : wires[a][i] \in Words(script)
    BY <1>0, LenProperties, ElementOfSeq
  <2>2. Messages(wires[a]) \subseteq DOMAIN script
    BY <1>0, <2>1, WordPlace DEF Messages
  <2> QED BY <1>0, <1>1, <2>2
<1>4. stream' \in Seq(Words(script)) /\ (failed' => stream' = <<>>)
  <2>1. stream \o wires[a] \in Seq(Words(script))
    BY <1>0, ConcatProperties
  <2>2. failed => stream = <<>>
    BY DEF TypeInv
  <2> QED BY <1>0, <1>1, <2>1, <2>2
<1>5. TypeInv'
  <2>1. accepted # 0 /\ accepted \in 0 .. Len(wires')
    BY <1>0, <1>2 DEF a
  <2>2. Len(wires') \in 1 .. MaxReconnects + 1
    BY <1>2 DEF TypeInv
  <2> QED BY <1>1, <1>2, <1>3, <1>4, <2>1, <2>2 DEF TypeInv
<1>6. PathInv'
  <2> SUFFICES ASSUME ~failed
               PROVE  PathInv'
    BY <1>1 DEF PathInv
  <2>1. PICK head \in Places(script), b \in Ends(script, Len(wires)) :
          /\ Path(script, lost, stream, wires, a, position, head, b)
          /\ AppliedInv(head)
          /\ Undamaged => CountInv(head)
    BY DEF PathInv, a
  <2>2. PICK c : c = [b EXCEPT ![a] = b[a + 1]]
    OBVIOUS
  <2>3. PICK v : v = wires'
    OBVIOUS
  <2>4. v = [wires EXCEPT ![a] = <<>>]
    BY <1>1, <2>3
  <2>5. /\ c \in Ends(script, Len(wires))
        /\ Path(script, lost, stream \o wires[a], v, a, position, head, c)
    BY <1>0, <2>1, <2>2, <2>4, PathReceive
  <2>6. Path(script, lost', stream', wires', accepted', position', head, c)
    BY <1>1, <2>3, <2>5 DEF a
  <2> QED BY <1>1, <1>2, <1>3, <2>1, <2>5, <2>6, NewPath
<1>7. CommandsFaithful'
  BY <1>1, <1>3, CommandsKept
<1>8. Hears'
  BY <1>1, <1>3, UndamagedBefore DEF Hears
<1> QED BY <1>5, <1>6, <1>7, <1>8

-----------------------------------------------------------------------------
(* The stream.                                                             *)

LEMMA ReachNone ==
  ASSUME NEW k \in Seq(Kinds), NEW p \in Places(k), NEW q \in Places(k), Reach({}, p, q)
  PROVE  p = q
<1>1. p.of \in Nat /\ q.of \in Nat
  <2>1. Len(k) \in Nat
    BY LenProperties
  <2> QED BY <2>1, PlaceIs
<1>2. q.of > p.of => p.of \in p.of .. q.of - 1
  BY <1>1
<1> QED BY <1>2 DEF Reach

\* What is past stays past when a word is taken.
LEMMA PastKept ==
  ASSUME NEW k \in Seq(Kinds), NEW l, NEW p \in Places(k), NEW w \in Words(k),
         Reach(l, p, w), NEW m \in Nat, Past(m, p)
  PROVE  Past(m, Succ(k, w))
<1>1. p.of \in Nat /\ p.at \in Nat /\ w.of \in Nat /\ w.at \in Nat
  <2>1. Len(k) \in Nat
    BY LenProperties
  <2> QED BY <2>1, PlaceIs, WordPlace
<1>2. \/ Succ(k, w).of = w.of /\ Succ(k, w).at = w.at + 1
      \/ Succ(k, w).of = w.of + 1
  BY SuccIs
<1>3. p = w \/ w.of > p.of
  BY DEF Reach
<1> QED BY <1>1, <1>2, <1>3 DEF Past

LEMMA CountAfter ==
  ASSUME TypeInv, NEW n \in DOMAIN script
  PROVE  /\ n \notin Readables =>
              {m \in Readables : m < n + 1} = {m \in Readables : m < n}
         /\ n \in Readables =>
              Cardinality({m \in Readables : m < n + 1}) = Cardinality({m \in Readables : m < n}) + 1
         /\ Cardinality({m \in Readables : m < n}) \in Nat
         /\ {m \in Readables : m < n + 1} = {m \in Readables : m <= n}
<1>0. Readables \subseteq 1 .. Len(script) /\ n \in 1 .. Len(script) /\ Len(script) \in Nat
  BY Scripted, LenProperties DEF Readables
<1> DEFINE S == {m \in Readables : m < n}
<1>1. IsFiniteSet(S)
  <2>1. S \in SUBSET (1 .. Len(script))
    BY <1>0
  <2>2. IsFiniteSet(1 .. Len(script))
    BY <1>0, FS_Interval
  <2> HIDE DEF S
  <2> QED BY <2>1, <2>2, FS_Subset
<1>2. Cardinality(S) \in Nat
  BY <1>1, FS_CardinalityType
<1>3. /\ {m \in Readables : m < n + 1} = {m \in Readables : m <= n}
      /\ \A m \in Readables : m < n + 1 <=> (m < n \/ m = n)
  <2>1. \A m \in Readables : m \in Int
    BY <1>0
  <2>2. \A m \in Int : (m < n + 1 <=> m <= n) /\ (m < n + 1 <=> (m < n \/ m = n))
    BY <1>0
  <2>3. \A m \in Readables : (m < n + 1 <=> m <= n) /\ (m < n + 1 <=> (m < n \/ m = n))
    BY <2>1, <2>2
  <2> QED BY <2>3
<1>4. n \notin Readables => {m \in Readables : m < n + 1} = S
  BY <1>3
<1>5. n \in Readables => {m \in Readables : m < n + 1} = S \cup {n}
  BY <1>3
<1>6. n \notin S
  BY <1>0
<1> HIDE DEF S
<1>7. Cardinality(S \cup {n}) = Cardinality(S) + 1
  BY <1>1, <1>6, FS_AddElement
<1>8. /\ n \notin Readables => {m \in Readables : m < n + 1} = S
      /\ n \in Readables => Cardinality({m \in Readables : m < n + 1}) = Cardinality(S) + 1
  BY <1>4, <1>5, <1>7
<1> QED BY <1>2, <1>3, <1>8 DEF S

\* Words are taken from the stream.
LEMMA Taken ==
  ASSUME TypeInv, NEW head \in Places(script), NEW b \in Ends(script, Len(wires)),
         Path(script, lost, stream, wires, accepted, position, head, b),
         NEW n \in 1 .. Len(stream), stream' = SubSeq(stream, n + 1, Len(stream)),
         UNCHANGED <<script, position, wires, accepted, lost>>,
         NEW g, g = Succ(script, stream[n]), AppliedInv(g)', Undamaged' => CountInv(g)'
  PROVE  stream' \in Seq(Words(script)) /\ PathInv'
<1>1. /\ script \in Seq(Kinds) /\ stream \in Seq(Words(script)) /\ wires \in Seq(Seq(Words(script)))
      /\ Len(wires) >= 1 /\ accepted \in 0 .. Len(wires)
  BY WordsPlace DEF TypeInv
<1>2. /\ SubSeq(stream, n + 1, Len(stream)) \in Seq(Words(script)) /\ g \in Places(script)
      /\ Path(script, lost, SubSeq(stream, n + 1, Len(stream)), wires, accepted, position, g, b)
  BY <1>1, PathDrop
<1>3. Path(script', lost', stream', wires', accepted', position', g, b)
  BY <1>2
<1>4. g \in Places(script') /\ b \in Ends(script', Len(wires'))
  BY <1>2
<1> QED BY <1>2, <1>3, <1>4 DEF PathInv

\* The stream begins at head.
LEMMA StreamChain ==
  ASSUME TypeInv, NEW head \in Places(script), NEW b \in Ends(script, Len(wires)),
         Path(script, lost, stream, wires, accepted, position, head, b)
  PROVE  \E q \in Places(script) : Chain(script, lost, stream, head, q)
<1>1. Base(accepted) \in 1 .. Len(wires) + 1
  BY WordsPlace, BaseIs DEF TypeInv
<1> QED BY <1>1 DEF Path, Ends

LEMMA AppliedWords ==
  ASSUME TypeInv
  PROVE  /\ DOMAIN applied = 1 .. Len(applied) /\ Len(applied) \in Nat
         /\ \A i \in DOMAIN applied : Origin(applied[i]) \in Nat
<1>1. /\ applied \in Seq(Seq(Words(script))) /\ DOMAIN applied = 1 .. Len(applied) /\ Len(applied) \in Nat
      /\ script \in Seq(Kinds)
  BY WordsPlace, LenProperties DEF TypeInv
<1>2. ASSUME NEW i \in DOMAIN applied
      PROVE  Origin(applied[i]) \in Nat
  <2>1. applied[i] \in Seq(Words(script)) /\ Len(applied[i]) >= 3
    BY <1>1, ElementOfSeq DEF TypeInv
  <2>2. 3 \in 1 .. Len(applied[i])
    BY <2>1, LenProperties
  <2>3. applied[i][3] \in Words(script)
    BY <2>1, <2>2, ElementOfSeq
  <2> QED BY <1>1, <2>3, WordPlace DEF Origin
<1> QED BY <1>1, <1>2

LEMMA CreateFrame ==
  ASSUME TypeInv, UNCHANGED CreateVars, stream' \in Seq(Words(script)),
         failed' \in BOOLEAN, failed' => stream' = <<>>, halted' \in BOOLEAN,
         pc' \in {"accept", "create"}, pc = "create",
         applied' \in Seq(Seq(Words(script))), \A i \in DOMAIN applied' : Len(applied'[i]) >= 3
  PROVE  TypeInv'
BY DEF TypeInv, CreateVars

LEMMA SkipKeeps ==
  ASSUME TypeInv, PathInv, CommandsFaithful, Hears, Skip
  PROVE  TypeInv' /\ PathInv' /\ CommandsFaithful' /\ Hears'
<1>0. /\ script \in Seq(Kinds) /\ stream \in Seq(Words(script)) /\ Len(stream) \in Nat
      /\ \A i \in 1 .. Len(stream) : stream[i] \in Words(script)
  BY WordsPlace, LenProperties, ElementOfSeq DEF TypeInv
<1>1. /\ pc = "create" /\ Len(stream) >= 2 /\ Head(stream).at # 1 /\ stream' = Tail(stream)
      /\ UNCHANGED <<failed, halted, pc, applied, script, position, wires, accepted, lost>>
  BY DEF Skip, Garbage, HasHeader, IsMark, CreateVars
<1>2. stream # <<>> /\ Head(stream) = stream[1] /\ 1 \in 1 .. Len(stream)
  <2>1. Len(<<>>) = 0
    BY EmptySeq
  <2> QED BY <1>0, <1>1, <2>1
<1>3. ~failed
  BY <1>2 DEF TypeInv
<1>4. stream' = SubSeq(stream, 1 + 1, Len(stream))
  <2>1. Tail(stream) = SubSeq(stream, 2, Len(stream))
    BY <1>0, <1>2, TailIsSubSeq
  <2> QED BY <1>1, <2>1
<1>5. PICK head \in Places(script), b \in Ends(script, Len(wires)) :
        /\ Path(script, lost, stream, wires, accepted, position, head, b)
        /\ AppliedInv(head)
        /\ Undamaged => CountInv(head)
  BY <1>3 DEF PathInv
<1>6. PICK q \in Places(script) : Chain(script, lost, stream, head, q)
  BY <1>5, StreamChain
<1>7. stream[1] \in Words(script) /\ Reach(lost, head, stream[1]) /\ stream[1].at # 1
  BY <1>0, <1>1, <1>2, <1>6, ChainHead
<1>8. PICK g : g = Succ(script, stream[1])
  OBVIOUS
<1>9. AppliedInv(g)'
  <2>1. \A i \in DOMAIN applied : Origin(applied[i]) \in Nat
    BY AppliedWords
  <2>2. \A i \in DOMAIN applied : Past(Origin(applied[i]), g)
    BY <1>0, <1>5, <1>7, <1>8, <2>1, PastKept DEF AppliedInv
  <2> QED BY <1>1, <2>2 DEF AppliedInv, Origin
<1>10. Undamaged' => CountInv(g)'
  <2> SUFFICES ASSUME Undamaged'
               PROVE  CountInv(g)'
    OBVIOUS
  <2>1. Undamaged /\ CountInv(head) /\ lost = {}
    BY <1>1, <1>5, UndamagedBefore DEF Undamaged
  <2>2. head = stream[1]
    BY <1>0, <1>7, <2>1, WordPlace, ReachNone
  <2>3. PICK m : m = head.of
    OBVIOUS
  <2>4. /\ m \in DOMAIN script /\ m \in Nat /\ script[m] = "newer"
        /\ Len(applied) = Cardinality({r \in Readables : r < m})
    BY <1>0, <1>7, <2>1, <2>2, <2>3, WordPlace DEF CountInv
  <2>5. g.of = m \/ (g.of = m + 1 /\ g.at = 1)
    BY <1>0, <1>7, <1>8, <2>2, <2>3, SuccIs
  <2>6. m \notin Readables
    BY <2>4 DEF Readables
  <2>7. {r \in Readables : r < m + 1} = {r \in Readables : r < m}
    BY <2>4, <2>6, CountAfter
  <2>8. (g.at = 1 \/ script[g.of] = "newer") /\ Len(applied) = Cardinality({r \in Readables : r < g.of})
    BY <2>4, <2>5, <2>7
  <2> QED BY <1>1, <2>8 DEF CountInv, Readables
<1>11. stream' \in Seq(Words(script)) /\ PathInv'
  BY <1>1, <1>2, <1>4, <1>5, <1>8, <1>9, <1>10, Taken
<1>12. TypeInv'
  <2>1. /\ failed \in BOOLEAN /\ halted \in BOOLEAN /\ applied \in Seq(Seq(Words(script)))
        /\ \A i \in DOMAIN applied : Len(applied[i]) >= 3
    BY DEF TypeInv
  <2> QED BY <1>1, <1>3, <1>11, <2>1, CreateFrame DEF CreateVars
<1>13. CommandsFaithful'
  BY <1>1, CommandsKept
<1>14. Hears'
  BY <1>1, UndamagedBefore DEF Hears
<1> QED BY <1>11, <1>12, <1>13, <1>14

LEMMA WaitKeeps ==
  ASSUME TypeInv, PathInv, CommandsFaithful, Hears, Wait
  PROVE  TypeInv' /\ PathInv' /\ CommandsFaithful' /\ Hears'
<1>1. /\ pc = "create" /\ pc' = "accept"
      /\ UNCHANGED <<stream, failed, halted, applied, script, position, wires, accepted, lost>>
  BY DEF Wait, CreateVars
<1>2. TypeInv'
  BY <1>1 DEF TypeInv
<1>3. PathInv'
  BY <1>1 DEF PathInv, AppliedInv, CountInv, Undamaged, Readables, Origin
<1>4. CommandsFaithful'
  BY <1>1, CommandsKept
<1>5. Hears'
  BY <1>1, UndamagedBefore DEF Hears
<1> QED BY <1>2, <1>3, <1>4, <1>5

\* What holds of the head of the stream when a message is created.
LEMMA CommandIs ==
  ASSUME TypeInv, PathInv, Ready, Known(stream[3])
  PROVE  \E m \in DOMAIN script, head \in Places(script), b \in Ends(script, Len(wires)) :
           /\ Path(script, lost, stream, wires, accepted, position, head, b)
           /\ AppliedInv(head)
           /\ Undamaged => CountInv(head)
           /\ m \in Nat /\ script[m] \in Kinds
           /\ stream[1].of = m /\ stream[2].of = m /\ stream[3].of = m
           /\ stream[1].at = 1 /\ script[m] # "unknown"
           /\ Len(stream) \in Nat /\ Len(stream) >= 3 + Sent(script[m])
           /\ head = Word(m, 1) \/ (m > head.of /\ \A i \in head.of .. m - 1 : i \in lost)
           /\ \A j \in 1 .. Len(stream) : Farther(script, lost, stream, j)
<1>0. /\ script \in Seq(Kinds) /\ stream \in Seq(Words(script)) /\ Len(stream) \in Nat
      /\ \A i \in 1 .. Len(stream) : stream[i] \in Words(script)
  BY WordsPlace, LenProperties, ElementOfSeq DEF TypeInv
<1>1. /\ Len(stream) >= 2 /\ Head(stream).at = 1 /\ stream[2].at = 2
      /\ Len(stream) >= 2 + 1 + Sent(script[stream[2].of])
      /\ stream[3].at = 3 /\ script[stream[3].of] # "unknown"
  BY DEF Ready, HasHeader, IsMark, IsLength, Complete, Known
<1>2. stream # <<>> /\ Head(stream) = stream[1]
  <2>1. Len(<<>>) = 0
    BY EmptySeq
  <2> QED BY <1>0, <1>1, <2>1
<1>3. ~failed
  BY <1>2 DEF TypeInv
<1>4. PICK head \in Places(script), b \in Ends(script, Len(wires)) :
        /\ Path(script, lost, stream, wires, accepted, position, head, b)
        /\ AppliedInv(head)
        /\ Undamaged => CountInv(head)
  BY <1>3 DEF PathInv
<1>5. PICK q \in Places(script) : Chain(script, lost, stream, head, q)
  BY <1>4, StreamChain
<1>6. Len(stream) >= 3
  <2>1. 2 \in 1 .. Len(stream)
    BY <1>0, <1>1
  <2>2. script[stream[2].of] \in Kinds
    BY <1>0, <2>1, WordPlace, SizeIs
  <2>3. Sent(script[stream[2].of]) \in Nat
    BY <2>2, KindSizes
  <2> QED BY <1>0, <1>1, <2>3
<1>7. PICK m : m = stream[1].of
  OBVIOUS
<1>8. stream[1].at = 1
  BY <1>1, <1>2
<1>9. /\ m \in DOMAIN script /\ m \in Nat /\ script[m] \in Kinds
      /\ stream[2].of = m /\ stream[3].of = m
      /\ head = Word(m, 1) \/ (m > head.of /\ \A i \in head.of .. m - 1 : i \in lost)
  BY <1>0, <1>1, <1>5, <1>6, <1>7, <1>8, ReadyIs
<1>10. Len(stream) >= 3 + Sent(script[m])
  <2>1. Sent(script[m]) \in Nat
    BY <1>9, KindSizes
  <2> QED BY <1>0, <1>1, <1>9, <2>1
<1>11. \A j \in 1 .. Len(stream) : Farther(script, lost, stream, j)
  BY <1>0, <1>5, ChainRun
<1> QED BY <1>0, <1>1, <1>4, <1>7, <1>8, <1>9, <1>10, <1>11

LEMMA PasswordIs ==
  ASSUME TypeInv, NEW x \in Password(stream)
  PROVE  x \in Nat /\ (~Foreign(stream) => x = 0)
<1>0. /\ script \in Seq(Kinds) /\ Len(stream) \in Nat
      /\ \A i \in 1 .. Len(stream) : stream[i] \in Words(script)
  BY WordsPlace, LenProperties, ElementOfSeq DEF TypeInv
<1>1. CASE ~Foreign(stream)
  BY <1>1 DEF Password
<1>2. CASE Foreign(stream)
  <2>1. 3 + Settings \in 1 .. Len(stream)
    BY <1>0, <1>2, SettingsAssumption DEF Foreign
  <2>2. stream[3 + Settings] \in Words(script)
    BY <1>0, <2>1
  <2>3. stream[3 + Settings].of \in DOMAIN script
    BY <1>0, <2>2, WordPlace
  <2>4. script[stream[3 + Settings].of] \in Kinds
    BY <1>0, <2>3, SizeIs
  <2>5. Sent(script[stream[3 + Settings].of]) \in Nat
    BY <2>4, KindSizes
  <2>6. \/ x = 1 + Sent(script[stream[3 + Settings].of])
        \/ x \in 0 .. Len(stream)
    BY <1>2 DEF Password
  <2> QED BY <1>0, <1>2, <2>5, <2>6
<1> QED BY <1>1, <1>2

\* A client whose messages arrive whole announces its own password.
LEMMA OwnPassword ==
  ASSUME TypeInv, PathInv, Ready, Known(stream[3]), Undamaged
  PROVE  ~Foreign(stream)
<1> SUFFICES ASSUME Foreign(stream)
             PROVE  FALSE
  OBVIOUS
<1>1. PICK m \in DOMAIN script :
        /\ m \in Nat /\ script[m] \in Kinds
        /\ stream[1].of = m /\ stream[1].at = 1 /\ stream[3].of = m
        /\ Len(stream) \in Nat
        /\ \A j \in 1 .. Len(stream) : Farther(script, lost, stream, j)
  BY CommandIs
<1>2. lost = {} /\ script[m] # "older"
  BY DEF Undamaged
<1>3. Read(script[m]) = Settings /\ Len(stream) >= 3 + Settings /\ stream[3 + Settings].of # m
  BY <1>1 DEF Foreign
<1>4. 3 + Settings \in 1 .. Len(stream) /\ 3 + Settings <= Size(script[m])
  <2>1. /\ Sent(script[m]) \in Nat /\ Read(script[m]) \in Nat /\ Size(script[m]) = 3 + Sent(script[m])
        /\ Sent(script[m]) >= Read(script[m])
    BY <1>1, <1>2, KindSizes
  <2> QED BY <1>1, <1>3, <2>1, SettingsAssumption
<1>5. stream[3 + Settings].of = m
  <2>1. 1 + (3 + Settings - 1) = 3 + Settings
    BY SettingsAssumption
  <2>2. Farther(script, lost, stream, 3 + Settings)
    BY <1>1, <1>4
  <2> QED BY <1>1, <1>2, <1>4, <2>1, <2>2 DEF Farther
<1> QED BY <1>3, <1>5

LEMMA FailKeeps ==
  ASSUME TypeInv, PathInv, CommandsFaithful, Hears, Fail
  PROVE  TypeInv' /\ PathInv' /\ CommandsFaithful' /\ Hears'
<1>1. /\ pc = "create" /\ pc' = "accept" /\ failed' = TRUE /\ stream' = <<>>
      /\ Ready /\ Known(stream[3]) /\ \E x \in Password(stream) : ~Readable(stream, x)
      /\ UNCHANGED <<halted, applied, script, position, wires, accepted, lost>>
  BY DEF Fail, CreateVars
<1>2. TypeInv'
  <2>1. stream' \in Seq(Words(script))
    BY <1>1, EmptySeq
  <2> QED BY <1>1, <2>1 DEF TypeInv
<1>3. PathInv'
  BY <1>1 DEF PathInv
<1>4. CommandsFaithful'
  BY <1>1, CommandsKept
<1>5. ~Undamaged'
  <2> SUFFICES ASSUME Undamaged'
               PROVE  FALSE
    OBVIOUS
  <2>1. Undamaged
    BY <1>1, UndamagedBefore
  <2>2. PICK m \in DOMAIN script :
          /\ script[m] \in Kinds /\ stream[3].of = m
          /\ Len(stream) \in Nat /\ Len(stream) >= 3 + Sent(script[m])
    BY <1>1, CommandIs
  <2>3. script[m] # "older"
    BY <2>1 DEF Undamaged
  <2>4. Sent(script[m]) \in Nat /\ Read(script[m]) \in Nat /\ Sent(script[m]) >= Read(script[m])
    BY <2>2, <2>3, KindSizes
  <2>5. PICK x \in Password(stream) : ~Readable(stream, x)
    BY <1>1
  <2>6. x = 0
    BY <1>1, <2>1, OwnPassword, PasswordIs
  <2>7. Len(stream) >= 3 + Read(script[m]) + 0
    BY <2>2, <2>4
  <2> QED BY <2>2, <2>5, <2>6, <2>7 DEF Readable
<1>6. Hears'
  BY <1>5 DEF Hears
<1> QED BY <1>2, <1>3, <1>4, <1>6

LEMMA ThrowKeeps ==
  ASSUME TypeInv, PathInv, CommandsFaithful, Hears, Throw
  PROVE  TypeInv' /\ PathInv' /\ CommandsFaithful' /\ Hears'
<1>1. /\ pc = "create" /\ halted' = TRUE /\ Ready /\ Known(stream[3]) /\ Foreign(stream)
      /\ UNCHANGED <<stream, failed, pc, applied, script, position, wires, accepted, lost>>
  BY DEF Throw, CreateVars
<1>2. TypeInv'
  BY <1>1 DEF TypeInv
<1>3. PathInv'
  BY <1>1 DEF PathInv, AppliedInv, CountInv, Undamaged, Readables, Origin
<1>4. CommandsFaithful'
  BY <1>1, CommandsKept
<1>5. ~Undamaged'
  BY <1>1, UndamagedBefore, OwnPassword
<1>6. Hears'
  BY <1>5 DEF Hears
<1> QED BY <1>2, <1>3, <1>4, <1>6

LEMMA BreakKeeps ==
  ASSUME TypeInv, PathInv, CommandsFaithful, Hears, Break
  PROVE  TypeInv' /\ PathInv' /\ CommandsFaithful' /\ Hears'
<1>1. /\ pc = "create" /\ halted' = TRUE /\ Ready /\ ~Known(stream[3])
      /\ UNCHANGED <<stream, failed, pc, applied, script, position, wires, accepted, lost>>
  BY DEF Break, CreateVars
<1>2. TypeInv'
  BY <1>1 DEF TypeInv
<1>3. PathInv'
  BY <1>1 DEF PathInv, AppliedInv, CountInv, Undamaged, Readables, Origin
<1>4. CommandsFaithful'
  BY <1>1, CommandsKept
<1>5. ~Undamaged'
  <2> SUFFICES ASSUME Undamaged'
               PROVE  FALSE
    OBVIOUS
  <2>1. Undamaged /\ ~failed /\ lost = {}
    BY <1>1, UndamagedBefore DEF Hears, Undamaged
  <2>2. /\ script \in Seq(Kinds) /\ stream \in Seq(Words(script)) /\ Len(stream) \in Nat
        /\ \A i \in 1 .. Len(stream) : stream[i] \in Words(script)
    BY WordsPlace, LenProperties, ElementOfSeq DEF TypeInv
  <2>3. PICK head \in Places(script), b \in Ends(script, Len(wires)) :
          Path(script, lost, stream, wires, accepted, position, head, b)
    BY <2>1 DEF PathInv
  <2>4. PICK q \in Places(script) : Chain(script, lost, stream, head, q)
    BY <2>3, StreamChain
  <2>5. /\ Len(stream) >= 2 /\ stream[2].at = 2
        /\ Len(stream) >= 2 + 1 + Sent(script[stream[2].of])
    BY <1>1 DEF Ready, HasHeader, IsLength, Complete
  <2>6. Len(stream) >= 3
    <3>1. 2 \in 1 .. Len(stream)
      BY <2>2, <2>5
    <3>2. Sent(script[stream[2].of]) \in Nat
      BY <2>2, <3>1, WordPlace, SizeIs, KindSizes
    <3> QED BY <2>2, <2>5, <3>2
  <2>7. stream[2] \in Words(script) /\ stream[3] \in Words(script) /\ Reach({}, Succ(script, stream[2]), stream[3])
    <3>1. 2 \in 1 .. Len(stream) - 1 /\ 2 + 1 = 3 /\ 2 \in 1 .. Len(stream) /\ Len(stream) >= 1
      BY <2>2, <2>6
    <3>2. stream[2 + 1] \in Words(script) /\ Reach(lost, Succ(script, stream[2]), stream[2 + 1])
      BY <2>2, <2>4, <3>1, ChainHead
    <3> QED BY <2>1, <2>2, <3>1, <3>2
  <2>8. stream[3] = Succ(script, stream[2])
    BY <2>2, <2>7, SuccIs, WordPlace, ReachNone
  <2>9. stream[3].at = 3
    <3>1. Size(script[stream[2].of]) \in Nat /\ Size(script[stream[2].of]) >= 3
      BY <2>2, <2>7, WordPlace
    <3> QED BY <2>2, <2>5, <2>7, <2>8, <3>1, SuccIs
  <2>10. script[stream[3].of] # "unknown"
    BY <2>1, <2>7, WordPlace, <2>2 DEF Undamaged
  <2> QED BY <1>1, <2>9, <2>10 DEF Known
<1>6. Hears'
  BY <1>5 DEF Hears
<1> QED BY <1>2, <1>3, <1>4, <1>6

\* What holds of a message whose words are read.
LEMMA MessageIs ==
  ASSUME TypeInv, PathInv, Ready, Known(stream[3]),
         NEW x \in Password(stream), Readable(stream, x)
  PROVE  \E m \in DOMAIN script, head \in Places(script), b \in Ends(script, Len(wires)), n \in Nat :
           /\ Path(script, lost, stream, wires, accepted, position, head, b)
           /\ m \in Nat /\ script[m] \in Kinds /\ stream[1].of = m /\ stream[2].of = m /\ stream[3].of = m
           /\ n = 3 + Read(script[m]) + x /\ n \in 1 .. Len(stream) /\ n >= 3 /\ Len(stream) \in Nat
           /\ \A j \in 1 .. Len(stream) :
                stream[j] \in Words(script) /\ stream[j].of \in Nat
                /\ (stream[j].of = m \/ (j <= Size(script[m]) => m \in lost))
           /\ Past(m, Succ(script, stream[n]))
           /\ \A i \in DOMAIN applied : Origin(applied[i]) < m
           /\ Undamaged =>
                /\ Len(applied) = Cardinality({r \in Readables : r < m})
                /\ Succ(script, stream[n]) = IF n = Size(script[m]) THEN Word(m + 1, 1) ELSE Word(m, n + 1)
<1>1. PICK m \in DOMAIN script, head \in Places(script), b \in Ends(script, Len(wires)) :
        /\ Path(script, lost, stream, wires, accepted, position, head, b)
        /\ AppliedInv(head)
        /\ Undamaged => CountInv(head)
        /\ m \in Nat /\ script[m] \in Kinds
        /\ stream[1].of = m /\ stream[2].of = m /\ stream[3].of = m
        /\ stream[1].at = 1 /\ script[m] # "unknown"
        /\ Len(stream) \in Nat /\ Len(stream) >= 3 + Sent(script[m])
        /\ head = Word(m, 1) \/ (m > head.of /\ \A i \in head.of .. m - 1 : i \in lost)
        /\ \A j \in 1 .. Len(stream) : Farther(script, lost, stream, j)
  BY CommandIs
<1>2. /\ script \in Seq(Kinds) /\ \A j \in 1 .. Len(stream) : stream[j] \in Words(script)
  BY WordsPlace, ElementOfSeq DEF TypeInv
<1>3. \A j \in 1 .. Len(stream) : stream[j].of \in Nat /\ stream[j].at \in Nat
  BY <1>2, WordPlace
<1>4. /\ Sent(script[m]) \in Nat /\ Read(script[m]) \in Nat /\ Size(script[m]) = 3 + Sent(script[m])
      /\ x \in Nat
  BY <1>1, KindSizes, PasswordIs
<1>5. PICK n \in Nat : n = 3 + Read(script[m]) + x /\ n >= 3
  BY <1>4
<1>6. n \in 1 .. Len(stream)
  <2>1. Len(stream) >= n
    BY <1>1, <1>5 DEF Readable
  <2> QED BY <1>1, <1>5, <2>1
<1>7. \A j \in 1 .. Len(stream) :
        \/ stream[j].of = m /\ stream[j].at = j
        \/ stream[j].of > m /\ (j <= Size(script[m]) => m \in lost)
  <2> TAKE j \in 1 .. Len(stream)
  <2>1. 1 + (j - 1) = j
    OBVIOUS
  <2>2. Farther(script, lost, stream, j)
    BY <1>1
  <2> QED BY <1>1, <2>1, <2>2 DEF Farther
<1>8. Past(m, Succ(script, stream[n]))
  <2>1. \/ stream[n].of = m /\ stream[n].at = n
        \/ stream[n].of > m
    BY <1>6, <1>7
  <2>2. \/ Succ(script, stream[n]).of = stream[n].of /\ Succ(script, stream[n]).at = stream[n].at + 1
        \/ Succ(script, stream[n]).of = stream[n].of + 1
    BY <1>2, <1>6, SuccIs
  <2> QED BY <1>1, <1>3, <1>5, <1>6, <2>1, <2>2 DEF Past
<1>9. ASSUME NEW i \in DOMAIN applied
      PROVE  Origin(applied[i]) < m
  <2>1. Past(Origin(applied[i]), head) /\ Origin(applied[i]) \in Nat
    BY <1>1, AppliedWords DEF AppliedInv
  <2>2. head.of \in Nat
    <3>1. Len(script) \in Nat
      BY <1>2, LenProperties
    <3> QED BY <1>2, <3>1, PlaceIs
  <2>3. CASE head = Word(m, 1)
    <3>1. head.of = m /\ head.at = 1
      BY <2>3 DEF Word
    <3> QED BY <2>1, <3>1 DEF Past
  <2>4. CASE m > head.of
    BY <1>1, <2>1, <2>2, <2>4 DEF Past
  <2> QED BY <1>1, <2>3, <2>4
<1>10. ASSUME Undamaged
       PROVE  /\ Len(applied) = Cardinality({r \in Readables : r < m})
              /\ Succ(script, stream[n]) = IF n = Size(script[m]) THEN Word(m + 1, 1) ELSE Word(m, n + 1)
  <2>1. lost = {} /\ script[m] # "older"
    BY <1>10 DEF Undamaged
  <2>2. head.of = m
    <3>1. head.of \in Nat
      <4>1. Len(script) \in Nat
        BY <1>2, LenProperties
      <4> QED BY <1>2, <4>1, PlaceIs
    <3>2. m > head.of => head.of \in head.of .. m - 1
      BY <1>1, <3>1
    <3>3. head = Word(m, 1)
      BY <1>1, <2>1, <3>2
    <3> QED BY <3>3 DEF Word
  <2>3. n <= Size(script[m])
    <3>1. x = 0
      BY <1>10, OwnPassword, PasswordIs
    <3> QED BY <1>1, <1>4, <1>5, <2>1, <3>1, KindSizes
  <2>4. stream[n].of = m /\ stream[n].at = n
    BY <1>6, <1>7, <2>1, <2>3
  <2>5. Succ(script, stream[n]) = IF n = Size(script[m]) THEN Word(m + 1, 1) ELSE Word(m, n + 1)
    BY <2>4 DEF Succ
  <2> QED BY <1>1, <1>10, <2>2, <2>5 DEF CountInv
<1>11. \A j \in 1 .. Len(stream) :
         stream[j] \in Words(script) /\ stream[j].of \in Nat
         /\ (stream[j].of = m \/ (j <= Size(script[m]) => m \in lost))
  BY <1>2, <1>3, <1>7
<1> QED BY <1>1, <1>5, <1>6, <1>8, <1>9, <1>10, <1>11

LEMMA RejectKeeps ==
  ASSUME TypeInv, PathInv, CommandsFaithful, Hears, Reject
  PROVE  TypeInv' /\ PathInv' /\ CommandsFaithful' /\ Hears'
<1>1. /\ pc = "create" /\ pc' = "accept" /\ Ready /\ Known(stream[3])
      /\ UNCHANGED <<failed, halted, applied, script, position, wires, accepted, lost>>
  BY DEF Reject, CreateVars
<1>0. PICK x \in Password(stream) :
        Readable(stream, x) /\ ~Fits(stream, x) /\ stream' = Rest(stream, x)
  BY DEF Reject
<1>2. PICK m \in DOMAIN script, head \in Places(script), b \in Ends(script, Len(wires)), n \in Nat :
        /\ Path(script, lost, stream, wires, accepted, position, head, b)
        /\ m \in Nat /\ script[m] \in Kinds /\ stream[1].of = m /\ stream[2].of = m /\ stream[3].of = m
        /\ n = 3 + Read(script[m]) + x /\ n \in 1 .. Len(stream) /\ n >= 3 /\ Len(stream) \in Nat
        /\ \A j \in 1 .. Len(stream) :
             stream[j] \in Words(script) /\ stream[j].of \in Nat
             /\ (stream[j].of = m \/ (j <= Size(script[m]) => m \in lost))
        /\ Past(m, Succ(script, stream[n]))
        /\ \A i \in DOMAIN applied : Origin(applied[i]) < m
        /\ Undamaged =>
             /\ Len(applied) = Cardinality({r \in Readables : r < m})
             /\ Succ(script, stream[n]) = IF n = Size(script[m]) THEN Word(m + 1, 1) ELSE Word(m, n + 1)
  BY <1>0, <1>1, MessageIs
<1>3. ~failed
  <2>1. Len(<<>>) = 0
    BY EmptySeq
  <2> QED BY <1>2, <2>1 DEF TypeInv
<1>4. /\ Sent(script[m]) \in Nat /\ Read(script[m]) \in Nat /\ Size(script[m]) = 3 + Sent(script[m])
      /\ x \in Nat
  BY <1>2, KindSizes, PasswordIs
<1>5. stream' = SubSeq(stream, n + 1, Len(stream))
  <2>1. 4 + Read(script[m]) + x = n + 1
    BY <1>2, <1>4
  <2> QED BY <1>0, <1>2, <2>1 DEF Rest
<1>6. PICK g : g = Succ(script, stream[n])
  OBVIOUS
<1>7. AppliedInv(g)'
  <2>1. g.of \in Nat
    <3>1. script \in Seq(Kinds) /\ Len(script) \in Nat /\ stream[n] \in Words(script)
      BY <1>2, WordsPlace, LenProperties, ElementOfSeq DEF TypeInv
    <3> QED BY <1>6, <3>1, SuccIs, PlaceIs
  <2>2. \A i \in DOMAIN applied : Past(Origin(applied[i]), g)
    <3> TAKE i \in DOMAIN applied
    <3>1. Origin(applied[i]) \in Nat /\ Origin(applied[i]) < m
      BY <1>2, AppliedWords
    <3> QED BY <1>2, <1>6, <2>1, <3>1 DEF Past
  <2> QED BY <1>1, <2>2 DEF AppliedInv, Origin
<1>8. Undamaged' => CountInv(g)'
  <2> SUFFICES ASSUME Undamaged'
               PROVE  CountInv(g)'
    OBVIOUS
  <2>1. Undamaged
    BY <1>1, UndamagedBefore
  <2>6. x = 0
    BY <1>1, <2>1, OwnPassword, PasswordIs
  <2>2. Sent(script[m]) # Read(script[m])
    BY <1>0, <1>2, <1>4, <2>6 DEF Fits, Length
  <2>3. script[m] = "newer" /\ n # Size(script[m])
    BY <1>2, <1>4, <2>1, <2>2, <2>6, KindSizes DEF Undamaged
  <2>4. g = Word(m, n + 1) /\ Len(applied) = Cardinality({r \in Readables : r < m})
    BY <1>2, <1>6, <2>1, <2>3
  <2>5. g.of = m
    BY <2>4 DEF Word
  <2> QED BY <1>1, <2>3, <2>4, <2>5 DEF CountInv, Readables
<1>9. stream' \in Seq(Words(script)) /\ PathInv'
  BY <1>1, <1>2, <1>5, <1>6, <1>7, <1>8, Taken
<1>10. TypeInv'
  <2>1. /\ failed \in BOOLEAN /\ halted \in BOOLEAN /\ applied \in Seq(Seq(Words(script)))
        /\ \A i \in DOMAIN applied : Len(applied[i]) >= 3
    BY DEF TypeInv
  <2> QED BY <1>1, <1>3, <1>9, <2>1, CreateFrame DEF CreateVars
<1>11. CommandsFaithful'
  BY <1>1, CommandsKept
<1>12. Hears'
  BY <1>1, UndamagedBefore DEF Hears
<1> QED BY <1>9, <1>10, <1>11, <1>12

LEMMA ApplyKeeps ==
  ASSUME TypeInv, PathInv, CommandsFaithful, Hears, Apply
  PROVE  TypeInv' /\ PathInv' /\ CommandsFaithful' /\ Hears'
<1>1. /\ pc = "create" /\ Ready /\ Known(stream[3])
      /\ UNCHANGED <<failed, halted, pc, script, position, wires, accepted, lost>>
  BY DEF Apply, CreateVars
<1>0. PICK x \in Password(stream) :
        /\ Readable(stream, x) /\ Fits(stream, x)
        /\ stream' = Rest(stream, x) /\ applied' = Append(applied, Content(stream, x))
  BY DEF Apply
<1>2. PICK m \in DOMAIN script, head \in Places(script), b \in Ends(script, Len(wires)), n \in Nat :
        /\ Path(script, lost, stream, wires, accepted, position, head, b)
        /\ m \in Nat /\ script[m] \in Kinds /\ stream[1].of = m /\ stream[2].of = m /\ stream[3].of = m
        /\ n = 3 + Read(script[m]) + x /\ n \in 1 .. Len(stream) /\ n >= 3 /\ Len(stream) \in Nat
        /\ \A j \in 1 .. Len(stream) :
             stream[j] \in Words(script) /\ stream[j].of \in Nat
             /\ (stream[j].of = m \/ (j <= Size(script[m]) => m \in lost))
        /\ Past(m, Succ(script, stream[n]))
        /\ \A i \in DOMAIN applied : Origin(applied[i]) < m
        /\ Undamaged =>
             /\ Len(applied) = Cardinality({r \in Readables : r < m})
             /\ Succ(script, stream[n]) = IF n = Size(script[m]) THEN Word(m + 1, 1) ELSE Word(m, n + 1)
  BY <1>0, <1>1, MessageIs
<1>3. ~failed
  <2>1. Len(<<>>) = 0
    BY EmptySeq
  <2> QED BY <1>2, <2>1 DEF TypeInv
<1>4. /\ Sent(script[m]) \in Nat /\ Read(script[m]) \in Nat /\ Size(script[m]) = 3 + Sent(script[m])
      /\ Sent(script[m]) = Read(script[m]) + x /\ x \in Nat
  <2>1. Sent(script[m]) \in Nat /\ Read(script[m]) \in Nat /\ Size(script[m]) = 3 + Sent(script[m])
    BY <1>2, KindSizes
  <2>2. x \in Nat
    BY PasswordIs
  <2> QED BY <1>0, <1>2, <2>1, <2>2 DEF Fits, Length
<1>5. n = Size(script[m])
  BY <1>2, <1>4
<1>6. stream' = SubSeq(stream, n + 1, Len(stream))
  <2>1. 4 + Read(script[m]) + x = n + 1
    BY <1>2, <1>4
  <2> QED BY <1>0, <1>2, <2>1 DEF Rest
\* The new command.
<1>7. PICK c : c = Content(stream, x)
  OBVIOUS
<1>8. /\ c \in Seq(Words(script)) /\ Len(c) = n
      /\ \A j \in 1 .. n : c[j] = stream[j]
  <2>1. c = SubSeq(stream, 1, n)
    BY <1>2, <1>7 DEF Content
  <2>2. 1 \in Int /\ n \in Int /\ \A i \in 1 .. n : stream[i] \in Words(script)
    BY <1>2
  <2>3. /\ c \in Seq(Words(script)) /\ Len(c) = IF 1 <= n THEN n - 1 + 1 ELSE 0
        /\ \A i \in 1 .. n - 1 + 1 : c[i] = stream[1 + i - 1]
    BY <2>1, <2>2, SubSeqProperties
  <2>4. n - 1 + 1 = n /\ 1 <= n /\ \A j \in 1 .. n : 1 + j - 1 = j
    BY <1>2
  <2> QED BY <2>3, <2>4
<1>9. /\ Len(applied) \in Nat /\ Len(applied') = Len(applied) + 1
      /\ DOMAIN applied = 1 .. Len(applied) /\ DOMAIN applied' = 1 .. Len(applied) + 1
      /\ applied' \in Seq(Seq(Words(script)))
      /\ applied'[Len(applied) + 1] = c /\ \A i \in 1 .. Len(applied) : applied'[i] = applied[i]
  <2>1. applied \in Seq(Seq(Words(script))) /\ applied' = Append(applied, c)
    BY <1>0, <1>7 DEF TypeInv
  <2>2. /\ applied' \in Seq(Seq(Words(script))) /\ Len(applied') = Len(applied) + 1
        /\ applied'[Len(applied) + 1] = c /\ \A i \in 1 .. Len(applied) : applied'[i] = applied[i]
    BY <1>8, <2>1, AppendProperties
  <2>3. DOMAIN applied' = 1 .. Len(applied')
    BY <2>2, LenProperties
  <2> QED BY <2>2, <2>3, AppliedWords
<1>10. PICK a \in Nat : a = Len(applied)
  BY <1>9
<1>11. \A i \in DOMAIN applied' : (i \in DOMAIN applied /\ i \in 1 .. a) \/ i = a + 1
  BY <1>9, <1>10
<1>12. /\ Origin(applied'[a + 1]) = m
       /\ \A i \in 1 .. a : Origin(applied'[i]) = Origin(applied[i]) /\ Origin(applied[i]) \in Nat /\ Origin(applied[i]) < m
  <2>1. c[3].of = m
    <3>1. 3 \in 1 .. n
      BY <1>2
    <3> QED BY <1>2, <1>8, <3>1
  <2>2. \A i \in 1 .. a : i \in DOMAIN applied
    BY <1>9, <1>10
  <2> QED BY <1>2, <1>9, <1>10, <2>1, <2>2, AppliedWords DEF Origin
<1>13. PICK g : g = Succ(script, stream[n])
  OBVIOUS
<1>14. AppliedInv(g)'
  <2>1. g.of \in Nat
    <3>1. script \in Seq(Kinds) /\ Len(script) \in Nat /\ stream[n] \in Words(script)
      BY <1>2, WordsPlace, LenProperties
    <3> QED BY <1>13, <3>1, SuccIs, PlaceIs
  <2>2. ASSUME NEW i \in DOMAIN applied'
        PROVE  Past(Origin(applied'[i]), g)
    <3>1. CASE i = a + 1
      BY <1>2, <1>12, <1>13, <3>1
    <3>2. CASE i \in 1 .. a
      BY <1>2, <1>12, <1>13, <2>1, <3>2 DEF Past
    <3> QED BY <1>11, <3>1, <3>2
  <2> QED BY <2>2 DEF AppliedInv, Origin
<1>15. ASSUME Undamaged'
       PROVE  /\ CountInv(g)'
              /\ a + 1 = Cardinality({r \in Readables : r <= m})
  <2>1. Undamaged
    BY <1>1, <1>15, UndamagedBefore
  <2>2. g = Word(m + 1, 1) /\ a = Cardinality({r \in Readables : r < m})
    BY <1>2, <1>5, <1>10, <1>13, <2>1
  <2>8. m \in Readables
    <3>1. x = 0
      BY <1>1, <2>1, OwnPassword, PasswordIs
    <3>2. script[m] # "newer"
      BY <1>2, <1>4, <3>1, KindSizes
    <3> QED BY <1>2, <3>2 DEF Readables
  <2>3. /\ Cardinality({r \in Readables : r < m + 1}) = a + 1
        /\ {r \in Readables : r < m + 1} = {r \in Readables : r <= m}
    BY <2>2, <2>8, CountAfter
  <2>4. g.of = m + 1 /\ g.at = 1
    BY <2>2 DEF Word
  <2>5. Readables' = Readables
    BY <1>1 DEF Readables
  <2>6. Len(applied') = Cardinality({r \in Readables : r < g.of})
    BY <1>9, <1>10, <2>3, <2>4
  <2>7. CountInv(g)'
    BY <2>4, <2>5, <2>6 DEF CountInv
  <2> QED BY <2>3, <2>7
<1>16. stream' \in Seq(Words(script)) /\ PathInv'
  BY <1>1, <1>2, <1>6, <1>13, <1>14, <1>15, Taken
<1>17. TypeInv'
  <2>1. failed \in BOOLEAN /\ halted \in BOOLEAN /\ \A i \in DOMAIN applied : Len(applied[i]) >= 3
    BY DEF TypeInv
  <2>2. ASSUME NEW i \in DOMAIN applied'
        PROVE  Len(applied'[i]) >= 3
    BY <1>2, <1>8, <1>9, <1>10, <1>11, <2>1
  <2> QED BY <1>1, <1>3, <1>9, <1>16, <2>1, <2>2, CreateFrame DEF CreateVars
\* Commands stay faithful.
<1>18. InOrder'
  <2> SUFFICES ASSUME NEW i \in DOMAIN applied', NEW j \in DOMAIN applied', i < j
               PROVE  Origin(applied'[i]) < Origin(applied'[j])
    BY DEF InOrder, Origin
  <2>1. i \in 1 .. a
    BY <1>9, <1>10, <1>11
  <2>2. CASE j = a + 1
    BY <1>12, <2>1, <2>2
  <2>3. CASE j \in 1 .. a
    <3>1. i \in DOMAIN applied /\ j \in DOMAIN applied
      BY <1>9, <1>10, <2>1, <2>3
    <3>2. Origin(applied[i]) < Origin(applied[j])
      BY <3>1 DEF CommandsFaithful, InOrder
    <3> QED BY <1>12, <2>1, <2>3, <3>2
  <2> QED BY <1>11, <2>2, <2>3
<1>19. Cardinality(Messages(c)) = 1 \/ Messages(c) \cap lost # {}
  <2>1. DOMAIN c = 1 .. n
    BY <1>8, LenProperties
  <2>2. m \in Messages(c)
    <3>1. 1 \in 1 .. n
      BY <1>2
    <3>2. c[1].of = m
      BY <1>2, <1>8, <3>1
    <3> QED BY <2>1, <3>1, <3>2 DEF Messages
  <2>3. CASE m \in lost
    BY <2>2, <2>3
  <2>4. CASE m \notin lost
    <3>1. \A j \in 1 .. n : c[j].of = m
      <4> TAKE j \in 1 .. n
      <4>1. j \in 1 .. Len(stream) /\ j <= Size(script[m])
        BY <1>2, <1>5
      <4> QED BY <1>2, <1>8, <2>4, <4>1
    <3>2. Messages(c) = {m}
      BY <2>1, <2>2, <3>1 DEF Messages
    <3> QED BY <3>2, FS_Singleton
  <2> QED BY <2>3, <2>4
<1>20. WholeMessages'
  <2> SUFFICES ASSUME NEW i \in DOMAIN applied'
               PROVE  \/ Cardinality(Messages(applied'[i])) = 1
                      \/ Messages(applied'[i]) \cap lost # {}
    BY <1>1 DEF WholeMessages, Messages
  <2>1. CASE i = a + 1
    <3>1. applied'[i] = c
      BY <1>9, <1>10, <2>1
    <3> QED BY <1>19, <3>1
  <2>2. CASE i \in 1 .. a /\ i \in DOMAIN applied
    <3>1. applied'[i] = applied[i]
      BY <1>9, <1>10, <2>2
    <3> QED BY <2>2, <3>1 DEF CommandsFaithful, WholeMessages
  <2> QED BY <1>11, <2>1, <2>2
<1>21. NothingSkipped'
  <2> SUFFICES ASSUME Undamaged', NEW i \in DOMAIN applied'
               PROVE  Cardinality({r \in Readables' : r <= Origin(applied'[i])}) = i
    BY DEF NothingSkipped, Origin
  <2>1. Undamaged /\ Readables' = Readables
    BY <1>1, UndamagedBefore DEF Readables
  <2>2. CASE i = a + 1
    BY <1>12, <1>15, <2>1, <2>2
  <2>3. CASE i \in 1 .. a /\ i \in DOMAIN applied
    <3>1. Cardinality({r \in Readables : r <= Origin(applied[i])}) = i
      BY <2>1, <2>3 DEF CommandsFaithful, NothingSkipped
    <3> QED BY <1>12, <2>1, <2>3, <3>1
  <2> QED BY <1>11, <2>2, <2>3
<1>22. Hears'
  BY <1>1, UndamagedBefore DEF Hears
<1> QED BY <1>16, <1>17, <1>18, <1>20, <1>21, <1>22 DEF CommandsFaithful

-----------------------------------------------------------------------------
(* The theorems.                                                           *)

LEMMA InitServer ==
  ASSUME Init
  PROVE  IInv
<1>0. /\ script \in Scripts /\ position = Word(1, 1) /\ wires = <<<<>>>> /\ accepted = 0
      /\ stream = <<>> /\ failed = FALSE /\ halted = FALSE /\ pc = "accept"
      /\ applied = <<>> /\ lost = {}
  BY DEF Init
<1>1. script \in Seq(Kinds) /\ Len(script) \in Nat
  BY <1>0, ScriptsAssumption, LenProperties
<1>2. position \in Places(script) /\ position.of = 1 /\ position.at = 1
  <2>1. 1 \in 1 .. Len(script) + 1
    BY <1>1
  <2> QED BY <1>0, <1>1, <2>1, MarkPlace
<1>3. /\ <<>> \in Seq(Words(script)) /\ applied \in Seq(Seq(Words(script)))
      /\ Len(wires) = 1 /\ wires[1] = <<>> /\ Len(applied) = 0 /\ DOMAIN applied = {}
  BY <1>0, EmptySeq
<1>4. wires \in Seq(Seq(Words(script)))
  BY <1>0, <1>3
<1>5. TypeInv
  <2>1. Len(wires) \in 1 .. MaxReconnects + 1 /\ 0 \in 0 .. Len(wires)
    BY <1>3, MaxReconnectsAssumption
  <2>2. /\ stream \in Seq(Words(script)) /\ applied \in Seq(Seq(Words(script)))
        /\ \A i \in DOMAIN applied : Len(applied[i]) >= 3
    BY <1>0, <1>3
  <2> QED BY <1>0, <1>2, <1>4, <2>1, <2>2 DEF TypeInv
<1>6. PathInv
  <2>1. PICK p \in Places(script) : p = position
    BY <1>2
  <2>2. PICK b : b = [w \in 1 .. 1 + 1 |-> p]
    OBVIOUS
  <2>3. b \in Ends(script, Len(wires)) /\ b[1] = p /\ b[2] = p
    BY <1>3, <2>2 DEF Ends
  <2>4. Path(script, lost, stream, wires, accepted, position, p, b)
    <3>1. Base(0) = 1 /\ Len(wires) + 1 = 2 /\ \A w \in 0 + 1 .. Len(wires) : w = 1
      BY <1>3 DEF Base
    <3>2. Chain(script, lost, <<>>, p, p)
      BY ChainNone
    <3>3. \A w \in 0 + 1 .. Len(wires) : b[w].at = 1
      BY <1>2, <2>1, <2>3, <3>1
    <3>4. \A w \in Base(0) .. Len(wires) : Chain(script, lost, wires[w], b[w], b[w + 1])
      <4>1. \A w \in Base(0) .. Len(wires) : w = 1
        BY <1>3, <3>1
      <4>2. Chain(script, lost, wires[1], b[1], b[1 + 1])
        BY <1>3, <2>3, <3>2
      <4> QED BY <4>1, <4>2
    <3> QED BY <1>0, <2>1, <2>3, <3>1, <3>2, <3>3, <3>4 DEF Path
  <2>5. AppliedInv(p)
    BY <1>3 DEF AppliedInv
  <2>6. CountInv(p)
    <3>1. {m \in Readables : m < 1} = {}
      BY <1>1, LenProperties DEF Readables
    <3>2. Cardinality({m \in Readables : m < p.of}) = 0
      BY <1>2, <2>1, <3>1, FS_EmptySet
    <3> QED BY <1>2, <1>3, <2>1, <3>2 DEF CountInv
  <2> QED BY <2>3, <2>4, <2>5, <2>6 DEF PathInv
<1>7. CommandsFaithful
  BY <1>3 DEF CommandsFaithful, InOrder, WholeMessages, NothingSkipped
<1>8. Hears
  BY <1>0 DEF Hears
<1> QED BY <1>5, <1>6, <1>7, <1>8 DEF IInv

LEMMA StepKeeps ==
  ASSUME IInv, [Next]_vars
  PROVE  IInv'
<1>0. TypeInv /\ PathInv /\ CommandsFaithful /\ Hears
  BY DEF IInv
<1>1. CASE SendWord
  BY <1>0, <1>1, SendWordKeeps DEF IInv
<1>2. CASE Reconnect
  BY <1>0, <1>2, ReconnectKeeps DEF IInv
<1>3. CASE Accept
  BY <1>0, <1>3, AcceptKeeps DEF IInv
<1>4. CASE Receive
  BY <1>0, <1>4, ReceiveKeeps DEF IInv
<1>5. CASE Skip
  BY <1>0, <1>5, SkipKeeps DEF IInv
<1>6. CASE Wait
  BY <1>0, <1>6, WaitKeeps DEF IInv
<1>7. CASE Break
  BY <1>0, <1>7, BreakKeeps DEF IInv
<1>8. CASE Apply
  BY <1>0, <1>8, ApplyKeeps DEF IInv
<1>9. CASE Reject
  BY <1>0, <1>9, RejectKeeps DEF IInv
<1>10. CASE Fail
  BY <1>0, <1>10, FailKeeps DEF IInv
<1>12. CASE Throw
  BY <1>0, <1>12, ThrowKeeps DEF IInv
<1>11. CASE UNCHANGED vars
  <2>1. UNCHANGED <<script, position, wires, accepted, stream, failed, halted, pc, applied, lost>>
    BY <1>11 DEF vars
  <2>2. TypeInv'
    BY <1>0, <2>1 DEF TypeInv
  <2>3. PathInv'
    BY <1>0, <2>1 DEF PathInv, AppliedInv, CountInv, Undamaged, Readables, Origin
  <2>4. CommandsFaithful'
    BY <1>0, <2>1, CommandsKept
  <2>5. Hears'
    BY <1>0, <2>1 DEF Hears, Undamaged
  <2> QED BY <2>2, <2>3, <2>4, <2>5 DEF IInv
<1> QED BY <1>1, <1>2, <1>3, <1>4, <1>5, <1>6, <1>7, <1>8, <1>9, <1>10, <1>11, <1>12 DEF Next, Update

LEMMA InvTypes ==
  ASSUME IInv
  PROVE  TypeOK
<1>1. TypeInv /\ script \in Seq(Kinds) /\ position \in Places(script)
  BY WordsPlace DEF IInv
<1>2. DOMAIN script = 1 .. Len(script) /\ DOMAIN stream = 1 .. Len(stream)
  BY <1>1, LenProperties DEF TypeInv
<1>3. /\ position.of \in 1 .. Len(script) + 1
      /\ position.of \in DOMAIN script => position.at \in 1 .. Size(script[position.of])
  BY <1>1, PlaceIs
<1>4. \A i \in DOMAIN stream : stream[i].of \in DOMAIN script
  BY <1>1, <1>2, ElementOfSeq, WordPlace DEF TypeInv
<1> QED BY <1>1, <1>3, <1>4 DEF TypeInv, TypeOK

\* Two marks in a row are a message cut short.
LEMMA InvHears ==
  ASSUME IInv
  PROVE  HearsUntilDamaged
<1> SUFFICES ASSUME Undamaged
             PROVE  ~Deaf /\ ~halted
  BY DEF HearsUntilDamaged
<1>1. TypeInv /\ PathInv /\ ~failed /\ ~halted /\ lost = {}
  BY DEF IInv, Hears, Undamaged
<1>2. ASSUME Len(stream) >= 2, stream[1].at = 1, stream[2].at = 1
      PROVE  FALSE
  <2>1. /\ script \in Seq(Kinds) /\ stream \in Seq(Words(script)) /\ Len(stream) \in Nat
    BY <1>1, WordsPlace, LenProperties DEF TypeInv
  <2>2. PICK head \in Places(script), b \in Ends(script, Len(wires)) :
          Path(script, lost, stream, wires, accepted, position, head, b)
    BY <1>1 DEF PathInv
  <2>3. PICK q \in Places(script) : Chain(script, lost, stream, head, q)
    BY <1>1, <2>2, StreamChain
  <2>4. stream[1] \in Words(script) /\ stream[2] \in Words(script) /\ Reach({}, Succ(script, stream[1]), stream[2])
    <3>1. 1 \in 1 .. Len(stream) - 1 /\ 1 + 1 = 2 /\ Len(stream) >= 1
      BY <1>2, <2>1
    <3>2. /\ stream[1] \in Words(script) /\ stream[1 + 1] \in Words(script)
          /\ Reach(lost, Succ(script, stream[1]), stream[1 + 1])
      BY <2>1, <2>3, <3>1, ChainHead
    <3> QED BY <1>1, <3>1, <3>2
  <2>5. stream[2] = Succ(script, stream[1])
    BY <2>1, <2>4, SuccIs, WordPlace, ReachNone
  <2>6. Size(script[stream[1].of]) \in Nat /\ Size(script[stream[1].of]) >= 3
    BY <2>1, <2>4, WordPlace
  <2> QED BY <1>2, <2>1, <2>4, <2>5, <2>6, SuccIs
<1> QED BY <1>1, <1>2 DEF Deaf, IsMark

\* The inductive invariant, for the stream and the connections.
THEOREM Invariance == Spec => []IInv
<1>1. Init => IInv
  BY InitServer
<1>2. IInv /\ [Next]_vars => IInv'
  BY StepKeeps
<1> QED BY <1>1, <1>2, PTL DEF Spec

\* The types of the server: its stream has words of the client only, and a
\* command at least the three that every message has.
THEOREM TypeCorrect == Spec => []TypeOK
<1>1. IInv => TypeOK
  BY InvTypes
<1> QED BY <1>1, Invariance, PTL

\* What the server applies is what the client said (optick_message.cpp:77-131):
\* in order, no message twice, none mixed with another unless it was cut short,
\* and none left out for a client whose messages arrive whole.
THEOREM CommandsFaithfulThm == Spec => []CommandsFaithful
<1>1. IInv => CommandsFaithful
  BY DEF IInv
<1> QED BY <1>1, Invariance, PTL

\* A client whose messages arrive whole is heard (optick_message.cpp:77-131): its
\* stream never fails, never waits for a message as long as a mark says, and
\* never stops the program.
THEOREM HearsUntilDamagedThm == Spec => []HearsUntilDamaged
<1>1. IInv => HearsUntilDamaged
  BY InvHears
<1> QED BY <1>1, Invariance, PTL

=============================================================================
