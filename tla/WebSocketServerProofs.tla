----------------------- MODULE WebSocketServerProofs -----------------------
(***************************************************************************)
(* What the WebSocket server tells the core of its sessions, for any       *)
(* number of connections that come, talk and go at any moment and any      *)
(* bounds: SessionProtocol is an invariant.                                *)
(*                                                                         *)
(* What makes it inductive is what the core may not have been told yet: of *)
(* a connection that waits to be accepted or has not completed its         *)
(* handshake there is no event.                                            *)
(***************************************************************************)
EXTENDS WebSocketServer, SequenceTheorems, FiniteSetTheorems, TLAPS

Kinds == {"connected", "message", "disconnected"}
Events == [kind : Kinds, from : Tokens]
Sessions == {"fresh", "open", "closed", "illegal"}

----------------------------------------------------------------------------
(* Sequences of events.                                                    *)

LEMMA EventType ==
  ASSUME NEW kind \in Kinds, NEW t \in Tokens
  PROVE  /\ Event(kind, t) \in Events
         /\ Event(kind, t).kind = kind
         /\ Event(kind, t).from = t
BY DEF Event, Events

LEMMA EventIs ==
  ASSUME NEW e \in Events
  PROVE  e = Event(e.kind, e.from) /\ e.kind \in Kinds /\ e.from \in Tokens
BY DEF Event, Events

LEMMA ConcatFacts ==
  ASSUME NEW q \in Seq(Events), NEW r \in Seq(Events)
  PROVE  /\ q \o r \in Seq(Events)
         /\ Len(q) \in Nat /\ DOMAIN q = 1..Len(q)
         /\ Len(r) \in Nat /\ DOMAIN r = 1..Len(r)
         /\ Len(q \o r) = Len(q) + Len(r)
         /\ DOMAIN (q \o r) = 1..(Len(q) + Len(r))
         /\ \A i \in 1..Len(q) : (q \o r)[i] = q[i]
         /\ \A i \in 1..Len(r) : (q \o r)[Len(q) + i] = r[i]
<1>1. /\ q \o r \in Seq(Events)
      /\ Len(q) \in Nat /\ DOMAIN q = 1..Len(q)
      /\ Len(r) \in Nat /\ DOMAIN r = 1..Len(r)
      /\ Len(q \o r) = Len(q) + Len(r)
      /\ DOMAIN (q \o r) = 1..(Len(q) + Len(r))
  BY LenProperties, ConcatProperties
<1>2. \A i \in 1..(Len(q) + Len(r)) :
        (q \o r)[i] = IF i <= Len(q) THEN q[i] ELSE r[i - Len(q)]
  BY ConcatProperties
<1>3. ASSUME NEW i \in 1..Len(r)
      PROVE  (q \o r)[Len(q) + i] = r[i]
  <2>1. /\ Len(q) + i \in 1..(Len(q) + Len(r))
        /\ ~(Len(q) + i <= Len(q))
        /\ Len(q) + i - Len(q) = i
    BY <1>1
  <2> QED
    BY <1>2, <2>1
<1>4. \A i \in 1..Len(q) : (q \o r)[i] = q[i]
  BY <1>1, <1>2
<1> QED
  BY <1>1, <1>3, <1>4

\* What a longer sequence tells is what either part of it does.
LEMMA TellsPrefix ==
  ASSUME NEW q \in Seq(Events), NEW r \in Seq(Events), NEW kind, NEW t,
         NEW n \in 1..(Len(q) + 1)
  PROVE  Tells(q \o r, kind, t, n) <=> Tells(q, kind, t, n)
<1>1. \A i \in 1..(n - 1) : (q \o r)[i] = q[i]
  BY ConcatFacts
<1> QED
  BY <1>1 DEF Tells

LEMMA TellsConcat ==
  ASSUME NEW q \in Seq(Events), NEW r \in Seq(Events), NEW kind, NEW t,
         NEW m \in 1..(Len(r) + 1)
  PROVE  Tells(q \o r, kind, t, Len(q) + m) <=>
           Tells(q, kind, t, Len(q) + 1) \/ Tells(r, kind, t, m)
<1>1. /\ Len(q) \in Nat /\ Len(r) \in Nat
      /\ \A i \in 1..Len(q) : (q \o r)[i] = q[i]
      /\ \A i \in 1..Len(r) : (q \o r)[Len(q) + i] = r[i]
  BY ConcatFacts
<1>2. ASSUME Tells(q \o r, kind, t, Len(q) + m)
      PROVE  Tells(q, kind, t, Len(q) + 1) \/ Tells(r, kind, t, m)
  <2>1. PICK i \in 1..(Len(q) + m - 1) : (q \o r)[i] = Event(kind, t)
    BY <1>2 DEF Tells
  <2>2. CASE i <= Len(q)
    <3>1. i \in 1..(Len(q) + 1 - 1) /\ q[i] = Event(kind, t)
      BY <1>1, <2>1, <2>2
    <3> QED
      BY <3>1 DEF Tells
  <2>3. CASE ~(i <= Len(q))
    <3>1. i - Len(q) \in 1..(m - 1) /\ i - Len(q) \in 1..Len(r)
      BY <1>1, <2>3
    <3>2. Len(q) + (i - Len(q)) = i
      BY <1>1
    <3>3. r[i - Len(q)] = Event(kind, t)
      BY <1>1, <2>1, <3>1, <3>2
    <3> QED
      BY <3>1, <3>3 DEF Tells
  <2> QED
    BY <2>2, <2>3
<1>3. ASSUME Tells(q, kind, t, Len(q) + 1)
      PROVE  Tells(q \o r, kind, t, Len(q) + m)
  <2>1. PICK i \in 1..(Len(q) + 1 - 1) : q[i] = Event(kind, t)
    BY <1>3 DEF Tells
  <2>2. i \in 1..(Len(q) + m - 1) /\ (q \o r)[i] = q[i]
    BY <1>1
  <2> QED
    BY <2>1, <2>2 DEF Tells
<1>4. ASSUME Tells(r, kind, t, m)
      PROVE  Tells(q \o r, kind, t, Len(q) + m)
  <2>1. PICK i \in 1..(m - 1) : r[i] = Event(kind, t)
    BY <1>4 DEF Tells
  <2>2. Len(q) + i \in 1..(Len(q) + m - 1) /\ (q \o r)[Len(q) + i] = r[i]
    BY <1>1
  <2> QED
    BY <2>1, <2>2 DEF Tells
<1> QED
  BY <1>2, <1>3, <1>4
----------------------------------------------------------------------------
(* A session and the events of the core's channel.                         *)

\* No event of the session, and the session after all of them.
Silent(events, t) == \A i \in DOMAIN events : events[i].from # t

OpensAtLast(session, events, t) == Opens(session, events, t, Len(events) + 1)

LEMMA OpensPrefix ==
  ASSUME NEW q \in Seq(Events), NEW r \in Seq(Events), NEW session, NEW t,
         NEW n \in 1..(Len(q) + 1)
  PROVE  Opens(session, q \o r, t, n) <=> Opens(session, q, t, n)
BY TellsPrefix DEF Opens

LEMMA SilentTells ==
  ASSUME NEW q \in Seq(Events), NEW t \in Tokens, Silent(q, t),
         NEW kind \in Kinds, NEW n \in 1..(Len(q) + 1)
  PROVE  ~Tells(q, kind, t, n)
<1>1. Len(q) \in Nat /\ DOMAIN q = 1..Len(q)
  BY LenProperties
<1>2. \A i \in 1..(n - 1) : i \in DOMAIN q
  BY <1>1
<1> QED
  BY <1>2, EventType DEF Silent, Tells

\* Events that find the session as they must be added.
LEMMA InOrderConcat ==
  ASSUME NEW q \in Seq(Events), NEW r \in Seq(Events), NEW session, NEW t,
         InOrder(session, q, t),
         \A m \in DOMAIN r : r[m].from = t =>
           IF r[m].kind = "connected"
             THEN session = "fresh" /\ Silent(q, t) /\ \A i \in 1..(m - 1) : r[i].from # t
             ELSE Opens(session, q \o r, t, Len(q) + m)
  PROVE  InOrder(session, q \o r, t)
<1>1. /\ Len(q) \in Nat /\ DOMAIN q = 1..Len(q)
      /\ Len(r) \in Nat /\ DOMAIN r = 1..Len(r)
      /\ DOMAIN (q \o r) = 1..(Len(q) + Len(r))
      /\ \A i \in 1..Len(q) : (q \o r)[i] = q[i]
      /\ \A i \in 1..Len(r) : (q \o r)[Len(q) + i] = r[i]
  BY ConcatFacts
<1> SUFFICES ASSUME NEW n \in 1..(Len(q) + Len(r)), (q \o r)[n].from = t
             PROVE  IF (q \o r)[n].kind = "connected"
                      THEN session = "fresh" /\ \A i \in 1..(n - 1) : (q \o r)[i].from # t
                      ELSE Opens(session, q \o r, t, n)
  BY <1>1 DEF InOrder
<1>2. CASE n <= Len(q)
  <2>1. /\ n \in 1..Len(q) /\ n \in 1..(Len(q) + 1)
        /\ (q \o r)[n] = q[n]
        /\ \A i \in 1..(n - 1) : (q \o r)[i] = q[i]
    BY <1>1, <1>2
  <2>2. IF q[n].kind = "connected"
          THEN session = "fresh" /\ \A i \in 1..(n - 1) : q[i].from # t
          ELSE Opens(session, q, t, n)
    BY <1>1, <2>1 DEF InOrder
  <2> QED
    BY <2>1, <2>2, OpensPrefix
<1>3. CASE ~(n <= Len(q))
  <2> DEFINE m == n - Len(q)
  <2>1. m \in 1..Len(r) /\ n = Len(q) + m
    BY <1>1, <1>3
  <2> HIDE DEF m
  <2>2. (q \o r)[n] = r[m]
    BY <1>1, <2>1
  <2>3. CASE r[m].kind = "connected"
    <3>1. /\ session = "fresh"
          /\ Silent(q, t)
          /\ \A i \in 1..(m - 1) : r[i].from # t
      BY <1>1, <2>1, <2>2, <2>3
    <3>2. ASSUME NEW i \in 1..(n - 1)
          PROVE  (q \o r)[i].from # t
      <4>1. CASE i <= Len(q)
        BY <1>1, <3>1, <4>1 DEF Silent
      <4>2. CASE ~(i <= Len(q))
        <5>1. /\ i - Len(q) \in 1..(m - 1) /\ i - Len(q) \in 1..Len(r)
              /\ Len(q) + (i - Len(q)) = i
          BY <1>1, <2>1, <4>2
        <5>2. (q \o r)[i] = r[i - Len(q)]
          BY <1>1, <5>1
        <5> QED
          BY <3>1, <5>1, <5>2
      <4> QED
        BY <4>1, <4>2
    <3> QED
      BY <2>2, <2>3, <3>1, <3>2
  <2>4. CASE r[m].kind # "connected"
    BY <1>1, <2>1, <2>2, <2>4
  <2> QED
    BY <2>3, <2>4
<1> QED
  BY <1>2, <1>3

\* Where the session stands after events are added.
LEMMA OpensConcat ==
  ASSUME NEW q \in Seq(Events), NEW r \in Seq(Events), NEW session, NEW t,
         NEW m \in 1..(Len(r) + 1)
  PROVE  Opens(session, q \o r, t, Len(q) + m) <=>
           /\ \/ session = "open" \/ Tells(q, "connected", t, Len(q) + 1)
              \/ Tells(r, "connected", t, m)
           /\ ~Tells(q, "disconnected", t, Len(q) + 1)
           /\ ~Tells(r, "disconnected", t, m)
BY TellsConcat DEF Opens

LEMMA OpensAtLastConcat ==
  ASSUME NEW q \in Seq(Events), NEW r \in Seq(Events), NEW session, NEW t
  PROVE  OpensAtLast(session, q \o r, t) <=>
           /\ \/ session = "open" \/ Tells(q, "connected", t, Len(q) + 1)
              \/ Tells(r, "connected", t, Len(r) + 1)
           /\ ~Tells(q, "disconnected", t, Len(q) + 1)
           /\ ~Tells(r, "disconnected", t, Len(r) + 1)
<1>1. /\ Len(q) \in Nat /\ Len(r) \in Nat
      /\ Len(q \o r) = Len(q) + Len(r)
  BY ConcatFacts
<1>2. /\ Len(r) + 1 \in 1..(Len(r) + 1)
      /\ Len(q \o r) + 1 = Len(q) + (Len(r) + 1)
  BY <1>1
<1> QED
  BY <1>2, OpensConcat DEF OpensAtLast

\* Events of other sessions.
LEMMA OthersTold ==
  ASSUME NEW q \in Seq(Events), NEW r \in Seq(Events), NEW session, NEW t \in Tokens,
         InOrder(session, q, t), Silent(r, t)
  PROVE  /\ InOrder(session, q \o r, t)
         /\ OpensAtLast(session, q \o r, t) <=> OpensAtLast(session, q, t)
<1>1. InOrder(session, q \o r, t)
  BY InOrderConcat DEF Silent
<1>2. Len(r) + 1 \in 1..(Len(r) + 1)
  BY LenProperties
<1>3. ~Tells(r, "connected", t, Len(r) + 1) /\ ~Tells(r, "disconnected", t, Len(r) + 1)
  BY <1>2, SilentTells DEF Kinds
<1> QED
  BY <1>1, <1>3, OpensAtLastConcat DEF OpensAtLast, Opens

\* The only event of the session among those that are added.
Only(events, p, e) ==
  /\ p \in DOMAIN events
  /\ events[p] = e
  /\ \A i \in DOMAIN events : events[i].from = e.from => i = p

LEMMA OnlyTells ==
  ASSUME NEW r \in Seq(Events), NEW p, NEW kind \in Kinds, NEW t \in Tokens,
         Only(r, p, Event(kind, t)), NEW other \in Kinds
  PROVE  /\ p \in 1..Len(r)
         /\ \A i \in 1..(p - 1) : r[i].from # t
         /\ ~Tells(r, other, t, p)
         /\ Tells(r, other, t, Len(r) + 1) <=> other = kind
<1>1. /\ Len(r) \in Nat /\ DOMAIN r = 1..Len(r)
      /\ p \in 1..Len(r) /\ r[p] = Event(kind, t)
      /\ \A i \in 1..Len(r) : r[i].from = t => i = p
  BY LenProperties, EventType DEF Only
<1>2. \A i \in 1..(p - 1) : r[i].from # t
  BY <1>1
<1>3. ~Tells(r, other, t, p)
  BY <1>2, EventType DEF Tells
<1>4. Tells(r, other, t, Len(r) + 1) => other = kind
  <2> SUFFICES ASSUME NEW i \in 1..(Len(r) + 1 - 1), r[i] = Event(other, t)
               PROVE  other = kind
    BY DEF Tells
  <2>1. i \in 1..Len(r)
    BY <1>1
  <2>2. i = p
    BY <1>1, <2>1, EventType
  <2>3. Event(other, t) = Event(kind, t)
    BY <1>1, <2>2
  <2>4. Event(other, t).kind = other /\ Event(kind, t).kind = kind
    BY EventType
  <2> QED
    BY <2>3, <2>4
<1>5. other = kind => Tells(r, other, t, Len(r) + 1)
  <2>1. p \in 1..(Len(r) + 1 - 1)
    BY <1>1
  <2> QED
    BY <1>1, <2>1 DEF Tells
<1> QED
  BY <1>1, <1>2, <1>3, <1>4, <1>5
\* A session of which nothing was said is announced.
LEMMA SessionAnnounced ==
  ASSUME NEW q \in Seq(Events), NEW r \in Seq(Events), NEW p, NEW t \in Tokens,
         Silent(q, t), Only(r, p, Event("connected", t))
  PROVE  /\ InOrder("fresh", q \o r, t)
         /\ OpensAtLast("fresh", q \o r, t)
<1>1. /\ p \in 1..Len(r)
      /\ \A i \in 1..(p - 1) : r[i].from # t
      /\ Tells(r, "connected", t, Len(r) + 1)
      /\ ~Tells(r, "disconnected", t, Len(r) + 1)
  BY OnlyTells DEF Kinds
<1>2. Len(q) + 1 \in 1..(Len(q) + 1)
  BY LenProperties
<1>3. ~Tells(q, "disconnected", t, Len(q) + 1)
  BY <1>2, SilentTells DEF Kinds
<1>4. InOrder("fresh", q, t)
  BY DEF InOrder, Silent
<1>5. \A m \in DOMAIN r : r[m].from = t => m = p /\ r[m].kind = "connected"
  BY EventType DEF Only, Kinds
<1>6. InOrder("fresh", q \o r, t)
  BY <1>1, <1>4, <1>5, InOrderConcat
<1> QED
  BY <1>1, <1>3, <1>6, OpensAtLastConcat

\* Messages of a session that is open.
LEMMA MessagesTold ==
  ASSUME NEW q \in Seq(Events), NEW r \in Seq(Events), NEW session, NEW t \in Tokens,
         InOrder(session, q, t), OpensAtLast(session, q, t),
         \A i \in DOMAIN r : r[i] = Event("message", t)
  PROVE  InOrder(session, q \o r, t) /\ OpensAtLast(session, q \o r, t)
<1>1. Len(r) \in Nat /\ DOMAIN r = 1..Len(r)
  BY LenProperties
<1>2. ASSUME NEW kind \in {"connected", "disconnected"}, NEW m \in 1..(Len(r) + 1)
      PROVE  ~Tells(r, kind, t, m)
  <2>1. \A i \in 1..(m - 1) : r[i] = Event("message", t)
    BY <1>1
  <2> QED
    BY <2>1, EventType DEF Tells, Kinds
<1>3. /\ session = "open" \/ Tells(q, "connected", t, Len(q) + 1)
      /\ ~Tells(q, "disconnected", t, Len(q) + 1)
  BY DEF OpensAtLast, Opens
<1>4. \A m \in 1..(Len(r) + 1) : Opens(session, q \o r, t, Len(q) + m)
  BY <1>2, <1>3, OpensConcat
<1>5. \A m \in DOMAIN r : m \in 1..(Len(r) + 1) /\ r[m].kind # "connected"
  BY <1>1, EventType DEF Kinds
<1>6. InOrder(session, q \o r, t)
  BY <1>4, <1>5, InOrderConcat
<1>7. Len(r) + 1 \in 1..(Len(r) + 1)
  BY <1>1
<1>8. OpensAtLast(session, q \o r, t)
  BY <1>2, <1>3, <1>7, OpensAtLastConcat
<1> QED
  BY <1>6, <1>8

\* The end of a session that is open.
LEMMA EndTold ==
  ASSUME NEW q \in Seq(Events), NEW r \in Seq(Events), NEW p, NEW session, NEW t \in Tokens,
         InOrder(session, q, t), OpensAtLast(session, q, t),
         Only(r, p, Event("disconnected", t))
  PROVE  InOrder(session, q \o r, t) /\ ~OpensAtLast(session, q \o r, t)
<1>1. /\ p \in 1..Len(r)
      /\ ~Tells(r, "disconnected", t, p)
      /\ Tells(r, "disconnected", t, Len(r) + 1)
  BY OnlyTells DEF Kinds
<1>2. /\ session = "open" \/ Tells(q, "connected", t, Len(q) + 1)
      /\ ~Tells(q, "disconnected", t, Len(q) + 1)
  BY DEF OpensAtLast, Opens
<1>3. p \in 1..(Len(r) + 1)
  BY <1>1, LenProperties
<1>4. Opens(session, q \o r, t, Len(q) + p)
  BY <1>1, <1>2, <1>3, OpensConcat
<1>5. \A m \in DOMAIN r : r[m].from = t => m = p /\ r[m].kind = "disconnected"
  BY EventType DEF Only, Kinds
<1>6. InOrder(session, q \o r, t)
  BY <1>4, <1>5, InOrderConcat
<1> QED
  BY <1>1, <1>6, OpensAtLastConcat
\* The core handles the next event.
LEMMA NextTold ==
  ASSUME NEW q \in Seq(Events), q # <<>>, NEW session \in Sessions, session # "illegal",
         NEW t \in Tokens, t = Head(q).from, InOrder(session, q, t),
         NEW after, after = After(session, Head(q).kind)
  PROVE  /\ after \in Sessions /\ after # "illegal"
         /\ InOrder(after, Tail(q), t)
         /\ OpensAtLast(after, Tail(q), t) <=> OpensAtLast(session, q, t)
<1> DEFINE e == q[1]
           r == Tail(q)
<1>1. /\ Len(q) \in Nat \ {0} /\ DOMAIN q = 1..Len(q)
      /\ e \in Events /\ Head(q) = e
      /\ r \in Seq(Events) /\ Len(r) = Len(q) - 1 /\ DOMAIN r = 1..Len(r)
      /\ \A i \in 1..Len(r) : r[i] = q[i + 1]
  BY EmptySeq, LenProperties, HeadTailProperties, ElementOfSeq
<1>2. e = Event(e.kind, t) /\ e.kind \in Kinds /\ e.from = t
  BY <1>1, EventIs
<1> HIDE DEF e, r
<1>3. \A kind \in Kinds, n \in 1..(Len(r) + 1) :
        Tells(q, kind, t, n + 1) <=> e.kind = kind \/ Tells(r, kind, t, n)
  <2> TAKE kind \in Kinds, n \in 1..(Len(r) + 1)
  <2>1. ASSUME Tells(q, kind, t, n + 1), e.kind # kind
        PROVE  Tells(r, kind, t, n)
    <3>1. PICK i \in 1..(n + 1 - 1) : q[i] = Event(kind, t)
      BY <2>1 DEF Tells
    <3>2. i # 1
      BY <1>2, <2>1, <3>1, EventType DEF e
    <3>3. i - 1 \in 1..(n - 1) /\ i - 1 \in 1..Len(r) /\ (i - 1) + 1 = i
      BY <1>1, <3>2
    <3>4. r[i - 1] = Event(kind, t)
      BY <1>1, <3>1, <3>3
    <3> QED
      BY <3>3, <3>4 DEF Tells
  <2>2. ASSUME e.kind = kind
        PROVE  Tells(q, kind, t, n + 1)
    <3>1. 1 \in 1..(n + 1 - 1) /\ q[1] = Event(kind, t)
      BY <1>1, <1>2, <2>2 DEF e
    <3> QED
      BY <3>1 DEF Tells
  <2>3. ASSUME Tells(r, kind, t, n)
        PROVE  Tells(q, kind, t, n + 1)
    <3>1. PICK i \in 1..(n - 1) : r[i] = Event(kind, t)
      BY <2>3 DEF Tells
    <3>2. i + 1 \in 1..(n + 1 - 1) /\ q[i + 1] = r[i]
      BY <1>1
    <3> QED
      BY <3>1, <3>2 DEF Tells
  <2> QED
    BY <2>1, <2>2, <2>3
<1>4. IF e.kind = "connected" THEN session = "fresh" ELSE session = "open"
  <2>1. IF e.kind = "connected" THEN session = "fresh" ELSE Opens(session, q, t, 1)
    <3>1. 1 \in DOMAIN q /\ q[1].from = t /\ q[1] = e
      BY <1>1, <1>2 DEF e
    <3> QED
      BY <3>1 DEF InOrder
  <2>2. ~Tells(q, "connected", t, 1)
    BY DEF Tells
  <2> QED
    BY <2>1, <2>2 DEF Opens
<1>5. /\ after \in {"open", "closed"}
      /\ after = "open" <=> e.kind # "disconnected"
  BY <1>1, <1>2, <1>4 DEF After, Kinds
<1>6. \A n \in 1..Len(r) : r[n].from = t => r[n].kind # "connected"
  <2> SUFFICES ASSUME NEW n \in 1..Len(r), r[n].from = t, r[n].kind = "connected"
               PROVE  FALSE
    OBVIOUS
  <2>1. n + 1 \in DOMAIN q /\ q[n + 1] = r[n] /\ 1 \in 1..(n + 1 - 1)
    BY <1>1
  <2>2. q[1].from # t
    BY <2>1 DEF InOrder
  <2> QED
    BY <1>2, <2>2 DEF e
<1>7. \A n \in 1..(Len(r) + 1) : ~Tells(r, "connected", t, n)
  <2> SUFFICES ASSUME NEW n \in 1..(Len(r) + 1),
                      NEW i \in 1..(n - 1), r[i] = Event("connected", t)
               PROVE  FALSE
    BY DEF Tells
  <2>1. i \in 1..Len(r)
    BY <1>1
  <2> QED
    BY <1>6, <2>1, EventType DEF Kinds
<1>8. \A n \in 1..(Len(r) + 1) : Opens(after, r, t, n) <=> Opens(session, q, t, n + 1)
  <2> TAKE n \in 1..(Len(r) + 1)
  <2>1. Opens(after, r, t, n) <=> after = "open" /\ ~Tells(r, "disconnected", t, n)
    BY <1>7 DEF Opens
  <2>2. Opens(session, q, t, n + 1) <=>
          /\ session = "open" \/ e.kind = "connected"
          /\ e.kind # "disconnected"
          /\ ~Tells(r, "disconnected", t, n)
    BY <1>3, <1>7 DEF Opens, Kinds
  <2> QED
    BY <1>2, <1>4, <1>5, <2>1, <2>2
<1>9. InOrder(after, r, t)
  <2> SUFFICES ASSUME NEW n \in 1..Len(r), r[n].from = t
               PROVE  r[n].kind # "connected" /\ Opens(after, r, t, n)
    BY <1>1 DEF InOrder
  <2>1. n + 1 \in DOMAIN q /\ q[n + 1] = r[n] /\ n \in 1..(Len(r) + 1)
    BY <1>1
  <2>2. r[n].kind # "connected"
    BY <1>6
  <2>3. Opens(session, q, t, n + 1)
    BY <2>1, <2>2 DEF InOrder
  <2> QED
    BY <1>8, <2>1, <2>2, <2>3
<1>10. OpensAtLast(after, r, t) <=> OpensAtLast(session, q, t)
  <2>1. Len(r) + 1 \in 1..(Len(r) + 1) /\ Len(r) + 1 + 1 = Len(q) + 1
    BY <1>1
  <2> QED
    BY <1>8, <2>1 DEF OpensAtLast
<1> QED
  BY <1>5, <1>9, <1>10 DEF Sessions, r

\* The core handles an event of another session.
LEMMA NextOfOther ==
  ASSUME NEW q \in Seq(Events), q # <<>>, NEW session,
         NEW t \in Tokens, t # Head(q).from, InOrder(session, q, t)
  PROVE  /\ InOrder(session, Tail(q), t)
         /\ OpensAtLast(session, Tail(q), t) <=> OpensAtLast(session, q, t)
<1> DEFINE r == Tail(q)
<1>1. /\ Len(q) \in Nat \ {0} /\ DOMAIN q = 1..Len(q)
      /\ Head(q) = q[1] /\ q[1] \in Events
      /\ r \in Seq(Events) /\ Len(r) = Len(q) - 1 /\ DOMAIN r = 1..Len(r)
      /\ \A i \in 1..Len(r) : r[i] = q[i + 1]
  BY EmptySeq, LenProperties, HeadTailProperties, ElementOfSeq
<1> HIDE DEF r
<1>2. \A kind \in Kinds, n \in 1..(Len(r) + 1) :
        Tells(q, kind, t, n + 1) <=> Tells(r, kind, t, n)
  <2> TAKE kind \in Kinds, n \in 1..(Len(r) + 1)
  <2>1. ASSUME Tells(q, kind, t, n + 1)
        PROVE  Tells(r, kind, t, n)
    <3>1. PICK i \in 1..(n + 1 - 1) : q[i] = Event(kind, t)
      BY <2>1 DEF Tells
    <3>2. i # 1
      BY <1>1, <3>1, EventType
    <3>3. i - 1 \in 1..(n - 1) /\ i - 1 \in 1..Len(r) /\ (i - 1) + 1 = i
      BY <1>1, <3>2
    <3>4. r[i - 1] = Event(kind, t)
      BY <1>1, <3>1, <3>3
    <3> QED
      BY <3>3, <3>4 DEF Tells
  <2>2. ASSUME Tells(r, kind, t, n)
        PROVE  Tells(q, kind, t, n + 1)
    <3>1. PICK i \in 1..(n - 1) : r[i] = Event(kind, t)
      BY <2>2 DEF Tells
    <3>2. i + 1 \in 1..(n + 1 - 1) /\ q[i + 1] = r[i]
      BY <1>1
    <3> QED
      BY <3>1, <3>2 DEF Tells
  <2> QED
    BY <2>1, <2>2
<1>3. \A n \in 1..(Len(r) + 1) : Opens(session, r, t, n) <=> Opens(session, q, t, n + 1)
  BY <1>2 DEF Opens, Kinds
<1>4. InOrder(session, r, t)
  <2> SUFFICES ASSUME NEW n \in 1..Len(r), r[n].from = t
               PROVE  IF r[n].kind = "connected"
                        THEN session = "fresh" /\ \A i \in 1..(n - 1) : r[i].from # t
                        ELSE Opens(session, r, t, n)
    BY <1>1 DEF InOrder
  <2>1. n + 1 \in DOMAIN q /\ q[n + 1] = r[n] /\ n \in 1..(Len(r) + 1)
    BY <1>1
  <2>2. IF r[n].kind = "connected"
          THEN session = "fresh" /\ \A i \in 1..(n + 1 - 1) : q[i].from # t
          ELSE Opens(session, q, t, n + 1)
    BY <2>1 DEF InOrder
  <2>3. \A i \in 1..(n - 1) : i + 1 \in 1..(n + 1 - 1) /\ r[i] = q[i + 1]
    BY <1>1
  <2> QED
    BY <1>3, <2>1, <2>2, <2>3
<1>5. Len(r) + 1 \in 1..(Len(r) + 1) /\ Len(r) + 1 + 1 = Len(q) + 1
  BY <1>1
<1> QED
  BY <1>3, <1>4, <1>5 DEF OpensAtLast, r
----------------------------------------------------------------------------
(* What the server sends of what it reads.                                 *)

Frames == {"upgrade", "junk", "text", "other", "end"}

LEMMA SilentConcat ==
  ASSUME NEW q \in Seq(Events), NEW r \in Seq(Events), NEW t, Silent(q, t), Silent(r, t)
  PROVE  Silent(q \o r, t)
<1>1. /\ Len(q) \in Nat /\ DOMAIN q = 1..Len(q)
      /\ Len(r) \in Nat /\ DOMAIN r = 1..Len(r)
      /\ DOMAIN (q \o r) = 1..(Len(q) + Len(r))
      /\ \A i \in 1..Len(q) : (q \o r)[i] = q[i]
      /\ \A i \in 1..Len(r) : (q \o r)[Len(q) + i] = r[i]
  BY ConcatFacts
<1> SUFFICES ASSUME NEW n \in 1..(Len(q) + Len(r))
             PROVE  (q \o r)[n].from # t
  BY <1>1 DEF Silent
<1>2. CASE n <= Len(q)
  BY <1>1, <1>2 DEF Silent
<1>3. CASE ~(n <= Len(q))
  <2>1. n - Len(q) \in 1..Len(r) /\ Len(q) + (n - Len(q)) = n
    BY <1>1, <1>3
  <2>2. (q \o r)[n] = r[n - Len(q)]
    BY <1>1, <2>1
  <2> QED
    BY <1>1, <2>1, <2>2 DEF Silent
<1> QED
  BY <1>2, <1>3

LEMMA MessagesType ==
  ASSUME NEW t \in Tokens, NEW frames \in Seq(Frames)
  PROVE  /\ Messages(t, frames) \in Seq(Events)
         /\ \A i \in DOMAIN Messages(t, frames) : Messages(t, frames)[i] = Event("message", t)
<1> DEFINE texts == {j \in DOMAIN frames : frames[j] = "text"}
           n == Cardinality(texts)
<1>1. DOMAIN frames = 1..Len(frames) /\ Len(frames) \in Nat
  BY LenProperties
<1>2. IsFiniteSet(DOMAIN frames)
  BY <1>1, FS_Interval
<1>3. n \in Nat
  BY <1>2, FS_Subset, FS_CardinalityType
<1>4. Messages(t, frames) = [i \in 1..n |-> Event("message", t)]
  BY DEF Messages
<1> HIDE DEF n
<1>5. [i \in 1..n |-> Event("message", t)] \in [1..n -> Events]
  BY EventType DEF Kinds
<1>6. Messages(t, frames) \in Seq(Events)
  BY <1>3, <1>4, <1>5, SeqDef
<1> QED
  BY <1>4, <1>6

LEMMA OneEvent ==
  ASSUME NEW kind \in Kinds, NEW t \in Tokens
  PROVE  /\ <<Event(kind, t)>> \in Seq(Events)
         /\ Only(<<Event(kind, t)>>, 1, Event(kind, t))
         /\ \A u \in Tokens \ {t} : Silent(<<Event(kind, t)>>, u)
BY EventType DEF Only, Silent

LEMMA NoEvents ==
  /\ <<>> \in Seq(Events)
  /\ \A t : Silent(<<>>, t)
BY EmptySeq DEF Silent

Ends(frames) == "end" \in ToSet(frames)

\* The channel when a session has been read to the end of the stream or of what
\* is there.
Reading(events, t, frames) ==
  (events \o Messages(t, frames))
    \o (IF Ends(frames) THEN <<Event("disconnected", t)>> ELSE <<>>)

LEMMA ReadTells ==
  ASSUME NEW q \in Seq(Events), NEW t \in Tokens, NEW session,
         InOrder(session, q, t), OpensAtLast(session, q, t),
         NEW frames \in Seq(Frames)
  PROVE  /\ Reading(q, t, frames) \in Seq(Events)
         /\ InOrder(session, Reading(q, t, frames), t)
         /\ OpensAtLast(session, Reading(q, t, frames), t) <=> ~Ends(frames)
         /\ \A u \in Tokens \ {t} :
              /\ Silent(q, u) => Silent(Reading(q, t, frames), u)
              /\ \A other : InOrder(other, q, u) =>
                   /\ InOrder(other, Reading(q, t, frames), u)
                   /\ OpensAtLast(other, Reading(q, t, frames), u)
                        <=> OpensAtLast(other, q, u)
<1> DEFINE told == Reading(q, t, frames)
           m == Messages(t, frames)
           qm == q \o m
           d == IF Ends(frames) THEN <<Event("disconnected", t)>> ELSE <<>>
<1>1. m \in Seq(Events) /\ (\A i \in DOMAIN m : m[i] = Event("message", t))
  BY MessagesType
<1>2. d \in Seq(Events) /\ (\A u \in Tokens \ {t} : Silent(d, u))
  BY OneEvent, NoEvents DEF Kinds
<1>3. \A u \in Tokens \ {t} : Silent(m, u)
  BY <1>1, EventType DEF Silent, Kinds
<1>4. told = qm \o d
  BY DEF Reading
<1> HIDE DEF m, told
<1>5. qm \in Seq(Events)
  BY <1>1, ConcatProperties
<1>6. InOrder(session, qm, t) /\ OpensAtLast(session, qm, t)
  BY <1>1, MessagesTold
<1>7. InOrder(session, told, t) /\ (OpensAtLast(session, told, t) <=> ~Ends(frames))
  <2> HIDE DEF qm
  <2>1. CASE Ends(frames)
    <3>1. told = qm \o <<Event("disconnected", t)>>
      BY <1>4, <2>1
    <3> DEFINE last == <<Event("disconnected", t)>>
    <3>2. last \in Seq(Events) /\ Only(last, 1, Event("disconnected", t))
      BY OneEvent DEF Kinds
    <3>3. told = qm \o last
      BY <3>1
    <3> HIDE DEF last
    <3>4. InOrder(session, qm \o last, t) /\ ~OpensAtLast(session, qm \o last, t)
      BY <1>5, <1>6, <3>2, EndTold
    <3> QED
      BY <2>1, <3>3, <3>4
  <2>2. CASE ~Ends(frames)
    <3>1. told = qm \o <<>>
      BY <1>4, <2>2
    <3>2. told = qm
      BY <1>5, <3>1, ConcatEmptySeq
    <3> QED
      BY <1>6, <2>2, <3>2
  <2> QED
    BY <2>1, <2>2
<1>8. ASSUME NEW u \in Tokens \ {t}
      PROVE  /\ Silent(q, u) => Silent(told, u)
             /\ \A other : InOrder(other, q, u) =>
                   /\ InOrder(other, told, u)
                   /\ OpensAtLast(other, told, u) <=> OpensAtLast(other, q, u)
  <2> HIDE DEF d
  <2>1. Silent(q, u) => Silent(qm, u)
    BY <1>1, <1>3, SilentConcat
  <2>2. \A other : InOrder(other, q, u) =>
          /\ InOrder(other, qm, u)
          /\ OpensAtLast(other, qm, u) <=> OpensAtLast(other, q, u)
    BY <1>1, <1>3, OthersTold
  <2> HIDE DEF qm
  <2>3. Silent(qm, u) => Silent(told, u)
    BY <1>2, <1>4, <1>5, SilentConcat
  <2>4. \A other : InOrder(other, qm, u) =>
          /\ InOrder(other, told, u)
          /\ OpensAtLast(other, told, u) <=> OpensAtLast(other, qm, u)
    <3> SUFFICES ASSUME NEW other, InOrder(other, qm, u)
                 PROVE  /\ InOrder(other, qm \o d, u)
                        /\ OpensAtLast(other, qm \o d, u) <=> OpensAtLast(other, qm, u)
      BY <1>4
    <3>1. Silent(d, u)
      BY <1>2
    <3> QED
      BY <1>2, <1>5, <3>1, OthersTold
  <2> QED
    BY <2>1, <2>2, <2>3, <2>4
<1>9. told \in Seq(Events)
  BY <1>2, <1>4, <1>5, ConcatProperties
<1> QED
  BY <1>7, <1>8, <1>9 DEF told
----------------------------------------------------------------------------
(* The invariant.                                                          *)

ServerTyped ==
  /\ peer \in [Tokens -> {"idle", "dialed", "open", "ended"}]
  /\ wire \in [Tokens -> Seq(Frames)]
  /\ backlog \in Seq(Tokens)
  /\ clients \in [Tokens -> {"none", "handshaking", "connected"}]
  /\ inbound \in Seq(Events)
  /\ known \in [Tokens -> Sessions]

Waits(t) == t \in ToSet(backlog)

\* The core has not heard of a connection before its handshake is complete; a
\* connection waits in the backlog once, and before it is a client.
EarlyUntold ==
  /\ \A i, j \in DOMAIN backlog : backlog[i] = backlog[j] => i = j
  /\ \A t \in Tokens :
       /\ peer[t] = "idle" \/ Waits(t) => clients[t] = "none"
       /\ peer[t] = "idle" => ~Waits(t)
       /\ peer[t] = "idle" \/ Waits(t) \/ clients[t] = "handshaking" =>
            known[t] = "fresh" /\ Silent(inbound, t)

Told(t) ==
  /\ known[t] # "illegal"
  /\ InOrder(known[t], inbound, t)
  /\ clients[t] = "connected" <=> OpensAtLast(known[t], inbound, t)

ServerInv == ServerTyped /\ EarlyUntold /\ \A t \in Tokens : Told(t)

LEMMA ToldIsProtocol == SessionProtocol <=> \A t \in Tokens : Told(t)
BY DEF SessionProtocol, Told, OpensAtLast

LEMMA InitTold ==
  ASSUME Init
  PROVE  ServerInv
<1>1. <<>> \in Seq(Tokens) /\ <<>> \in Seq(Events) /\ <<>> \in Seq(Frames)
  BY EmptySeq
<1>2. ServerTyped
  BY <1>1 DEF Init, ServerTyped, Sessions
<1>3. EarlyUntold
  BY DEF Init, EarlyUntold, Waits, Silent, ToSet
<1>4. ASSUME NEW t \in Tokens
      PROVE  Told(t)
  <2>1. known[t] = "fresh" /\ clients[t] = "none" /\ inbound = <<>>
    BY DEF Init
  <2>2. ~OpensAtLast("fresh", <<>>, t)
    BY EmptySeq DEF OpensAtLast, Opens, Tells
  <2>3. InOrder("fresh", <<>>, t)
    BY DEF InOrder
  <2> QED
    BY <2>1, <2>2, <2>3 DEF Told
<1> QED
  BY <1>2, <1>3, <1>4 DEF ServerInv

\* What neither the sessions nor the channel see.
LEMMA UnseenKeeps ==
  ASSUME ServerInv, UNCHANGED <<peer, wire, backlog, clients, inbound, known>>
  PROVE  ServerInv'
BY DEF ServerInv, ServerTyped, EarlyUntold, Waits, Told

LEMMA FrameArrives ==
  ASSUME ServerInv, NEW t \in Tokens, NEW frame \in Frames, Arrives(t, frame),
         peer[t] # "idle",
         peer' \in [Tokens -> {"idle", "dialed", "open", "ended"}],
         \A u \in Tokens : peer'[u] = "idle" => peer[u] = "idle"
  PROVE  ServerInv'
<1>1. Append(wire[t], frame) \in Seq(Frames)
  BY AppendProperties DEF ServerInv, ServerTyped
<1>2. /\ wire' \in [Tokens -> Seq(Frames)]
      /\ UNCHANGED <<backlog, clients, inbound, known>>
  BY <1>1 DEF Arrives, ServerInv, ServerTyped
<1> QED
  BY <1>2 DEF ServerInv, ServerTyped, EarlyUntold, Waits, Told

LEMMA DialKeeps ==
  ASSUME ServerInv, NEW t \in Tokens, Dial(t)
  PROVE  ServerInv'
<1>1. /\ peer[t] = "idle"
      /\ peer' = [peer EXCEPT ![t] = "dialed"]
      /\ backlog' = Append(backlog, t)
      /\ UNCHANGED <<wire, clients, inbound, known>>
  BY DEF Dial
<1>2. /\ backlog' \in Seq(Tokens)
      /\ Len(backlog) \in Nat /\ DOMAIN backlog = 1..Len(backlog)
      /\ DOMAIN backlog' = 1..(Len(backlog) + 1)
      /\ \A i \in 1..Len(backlog) : backlog'[i] = backlog[i]
      /\ backlog'[Len(backlog) + 1] = t
  BY <1>1, AppendProperties, LenProperties DEF ServerInv, ServerTyped
<1>3. \A i \in 1..(Len(backlog) + 1) : i \in 1..Len(backlog) \/ i = Len(backlog) + 1
  BY <1>2
<1>4. \A i \in 1..Len(backlog) : backlog[i] # t
  BY <1>1, <1>2 DEF ServerInv, EarlyUntold, Waits, ToSet
<1>5. \A u \in Tokens : Waits(u)' => Waits(u) \/ u = t
  BY <1>2, <1>3 DEF Waits, ToSet
<1>6. \A i, j \in DOMAIN backlog' : backlog'[i] = backlog'[j] => i = j
  BY <1>2, <1>3, <1>4 DEF ServerInv, EarlyUntold
<1>7. peer' \in [Tokens -> {"idle", "dialed", "open", "ended"}]
  BY <1>1 DEF ServerInv, ServerTyped
<1>8. \A u \in Tokens : peer'[u] = IF u = t THEN "dialed" ELSE peer[u]
  BY <1>1 DEF ServerInv, ServerTyped
<1>9. EarlyUntold'
  BY <1>1, <1>5, <1>6, <1>8 DEF ServerInv, EarlyUntold, Silent
<1> QED
  BY <1>1, <1>2, <1>7, <1>9 DEF ServerInv, ServerTyped, Told

LEMMA PeersKeep ==
  ASSUME ServerInv, PeerStep
  PROVE  ServerInv'
<1>1. PICK t \in Tokens : Dial(t) \/ Upgrade(t) \/ Talk(t) \/ End(t)
  BY DEF PeerStep
<1>2. CASE Upgrade(t)
  <2>1. PICK state \in {"open", "ended"}, frame \in {"upgrade", "junk"} :
          peer' = [peer EXCEPT ![t] = state] /\ Arrives(t, frame)
    BY <1>2 DEF Upgrade
  <2>2. peer[t] # "idle"
    BY <1>2 DEF Upgrade
  <2> QED
    BY <2>1, <2>2, FrameArrives DEF Frames, ServerInv, ServerTyped
<1>3. CASE Talk(t)
  <2>1. PICK frame \in {"text", "other"} : Arrives(t, frame) /\ UNCHANGED peer
    BY <1>3 DEF Talk
  <2>2. peer[t] # "idle"
    BY <1>3 DEF Talk
  <2> QED
    BY <2>1, <2>2, FrameArrives DEF Frames, ServerInv, ServerTyped
<1>4. CASE End(t)
  <2>1. peer[t] # "idle" /\ peer' = [peer EXCEPT ![t] = "ended"] /\ Arrives(t, "end")
    BY <1>4 DEF End
  <2> QED
    BY <2>1, FrameArrives DEF Frames, ServerInv, ServerTyped
<1> QED
  BY <1>1, <1>2, <1>3, <1>4, DialKeeps
----------------------------------------------------------------------------
(* The event loop.                                                         *)

\* An order of a set has every element of it in one place.
LEMMA OrderOfSet ==
  ASSUME NEW S, IsFiniteSet(S), NEW at \in SetToSeqs(S)
  PROVE  /\ DOMAIN at = 1..Len(at) /\ Len(at) \in Nat
         /\ \A i \in DOMAIN at : at[i] \in S
         /\ \A i, j \in DOMAIN at : at[i] = at[j] => i = j
         /\ \A x \in S : \E p \in DOMAIN at : at[p] = x
<1> DEFINE n == Cardinality(S)
<1>1. n \in Nat
  BY FS_CardinalityType
<1>2. /\ at \in [1..n -> S]
      /\ \A i, j \in 1..n : i # j => at[i] # at[j]
  BY DEF SetToSeqs
<1> HIDE DEF n
<1>3. DOMAIN at = 1..n /\ Len(at) = n
  BY <1>1, <1>2, SeqDef, LenProperties
<1>4. at \in Injection(1..n, S)
  BY <1>2 DEF Injection, IsInjective
<1>5. IsFiniteSet(1..n) /\ Cardinality(1..n) = n
  BY <1>1, FS_Interval
<1>6. at \in Surjection(1..n, S)
  BY <1>4, <1>5, FS_Injection DEF n
<1>7. \A x \in S : \E p \in 1..n : at[p] = x
  BY <1>6 DEF Surjection
<1> QED
  BY <1>1, <1>2, <1>3, <1>7

LEMMA ReadAllKeeps ==
  ASSUME ServerInv, NEW t \in Tokens, clients[t] # "none",
         NEW frames \in Seq(Frames), NEW announced \in Seq(Events),
         \A u \in Tokens \ {t} : Silent(announced, u),
         InOrder(known[t], inbound \o announced, t),
         OpensAtLast(known[t], inbound \o announced, t),
         ReadAll(t, frames, announced), UNCHANGED <<peer, backlog, known>>
  PROVE  ServerInv'
<1> DEFINE base == inbound \o announced
<1>1. /\ wire' = [wire EXCEPT ![t] = <<>>]
      /\ clients' = [clients EXCEPT ![t] = IF Ends(frames) THEN "none" ELSE "connected"]
      /\ inbound' = (base \o Messages(t, frames))
                       \o (IF Ends(frames) THEN <<Event("disconnected", t)>> ELSE <<>>)
  BY DEF ReadAll, Ends
<1>2. base \in Seq(Events)
  BY ConcatProperties DEF ServerInv, ServerTyped
<1>3. \A u \in Tokens \ {t} :
        /\ Silent(inbound, u) => Silent(base, u)
        /\ \A other : InOrder(other, inbound, u) =>
             /\ InOrder(other, base, u)
             /\ OpensAtLast(other, base, u) <=> OpensAtLast(other, inbound, u)
  BY SilentConcat, OthersTold DEF ServerInv, ServerTyped
<1>4. InOrder(known[t], base, t) /\ OpensAtLast(known[t], base, t)
  OBVIOUS
<1> HIDE DEF base
<1> DEFINE told == inbound'
<1>5. told = Reading(base, t, frames)
  BY <1>1 DEF Reading
<1> HIDE DEF told
<1>6. /\ told \in Seq(Events)
      /\ InOrder(known[t], told, t)
      /\ OpensAtLast(known[t], told, t) <=> ~Ends(frames)
      /\ \A u \in Tokens \ {t} :
           /\ Silent(base, u) => Silent(told, u)
           /\ \A other : InOrder(other, base, u) =>
                /\ InOrder(other, told, u)
                /\ OpensAtLast(other, told, u) <=> OpensAtLast(other, base, u)
  BY <1>2, <1>4, <1>5, ReadTells
<1>7. /\ clients \in [Tokens -> {"none", "handshaking", "connected"}]
      /\ \A u \in Tokens : Told(u)
      /\ EarlyUntold
      /\ ServerTyped
  BY DEF ServerInv, ServerTyped
<1>8. /\ clients' \in [Tokens -> {"none", "handshaking", "connected"}]
      /\ clients'[t] = IF Ends(frames) THEN "none" ELSE "connected"
      /\ \A u \in Tokens \ {t} : clients'[u] = clients[u]
  BY <1>1, <1>7
<1>9. wire' \in [Tokens -> Seq(Frames)]
  BY <1>1, <1>7, EmptySeq DEF ServerTyped
<1>10. ServerTyped'
  BY <1>6, <1>7, <1>8, <1>9 DEF ServerTyped, told
<1>11. EarlyUntold'
  <2>1. peer[t] # "idle" /\ ~Waits(t)
    BY <1>7 DEF EarlyUntold
  <2>2. clients'[t] # "handshaking"
    BY <1>8
  <2>3. \A u \in Tokens : Waits(u)' <=> Waits(u)
    BY DEF Waits
  <2>4. \A u \in Tokens \ {t} : Silent(inbound, u) => Silent(told, u)
    BY <1>3, <1>6
  <2>5. ASSUME NEW u \in Tokens
        PROVE  /\ peer'[u] = "idle" \/ Waits(u)' => clients'[u] = "none"
               /\ peer'[u] = "idle" => ~Waits(u)'
               /\ peer'[u] = "idle" \/ Waits(u)' \/ clients'[u] = "handshaking" =>
                    known'[u] = "fresh" /\ Silent(told, u)
    <3>1. CASE u = t
      BY <2>1, <2>2, <2>3, <3>1
    <3>2. CASE u # t
      <4>1. clients'[u] = clients[u] /\ (Waits(u)' <=> Waits(u))
        BY <1>8, <2>3, <3>2
      <4> QED
        BY <1>7, <2>4, <3>2, <4>1 DEF EarlyUntold
    <3> QED
      BY <3>1, <3>2
  <2> QED
    BY <1>7, <2>5 DEF EarlyUntold, told
<1>12. ASSUME NEW u \in Tokens
       PROVE  Told(u)'
  <2>1. CASE u = t
    BY <1>6, <1>7, <1>8, <2>1 DEF Told, told
  <2>2. CASE u # t
    <3>1. InOrder(known[u], inbound, u) /\ known[u] # "illegal"
      BY <1>7 DEF Told
    <3>2. /\ InOrder(known[u], told, u)
          /\ OpensAtLast(known[u], told, u) <=> OpensAtLast(known[u], inbound, u)
      BY <1>3, <1>6, <2>2, <3>1
    <3> QED
      BY <1>7, <1>8, <2>2, <3>1, <3>2 DEF Told, told
  <2> QED
    BY <2>1, <2>2
<1> QED
  BY <1>10, <1>11, <1>12 DEF ServerInv
LEMMA HandlingKeeps ==
  ASSUME ServerInv, NEW t \in Tokens, HandleClientEvent(t)
  PROVE  ServerInv'
<1>1. /\ clients[t] \in {"none", "handshaking", "connected"}
      /\ wire[t] \in Seq(Frames) /\ inbound \in Seq(Events)
      /\ Told(t)
      /\ UNCHANGED <<peer, backlog, known>>
  BY DEF HandleClientEvent, ServerInv, ServerTyped
<1>2. CASE clients[t] = "connected"
  <2>1. ReadAll(t, wire[t], <<>>)
    BY <1>2 DEF HandleClientEvent
  <2>2. inbound \o <<>> = inbound
    BY <1>1, ConcatEmptySeq
  <2>3. InOrder(known[t], inbound \o <<>>, t) /\ OpensAtLast(known[t], inbound \o <<>>, t)
    BY <1>1, <1>2, <2>2 DEF Told
  <2> QED
    BY <1>1, <1>2, <2>1, <2>3, NoEvents, ReadAllKeeps
<1>3. CASE clients[t] = "handshaking" /\ wire[t] # <<>> /\ Head(wire[t]) = "upgrade"
  <2> DEFINE announced == <<Event("connected", t)>>
             rest == Tail(wire[t])
  <2>1. ReadAll(t, rest, announced)
    BY <1>3 DEF HandleClientEvent
  <2>2. rest \in Seq(Frames)
    BY <1>1, <1>3, HeadTailProperties
  <2>3. /\ announced \in Seq(Events)
        /\ Only(announced, 1, Event("connected", t))
        /\ \A u \in Tokens \ {t} : Silent(announced, u)
    BY OneEvent DEF Kinds
  <2>4. known[t] = "fresh" /\ Silent(inbound, t)
    BY <1>3 DEF ServerInv, EarlyUntold
  <2> HIDE DEF announced, rest
  <2>5. InOrder("fresh", inbound \o announced, t) /\ OpensAtLast("fresh", inbound \o announced, t)
    BY <1>1, <2>3, <2>4, SessionAnnounced
  <2> QED
    BY <1>1, <1>3, <2>1, <2>2, <2>3, <2>4, <2>5, ReadAllKeeps
<1>4. CASE clients[t] = "handshaking" /\ wire[t] # <<>> /\ Head(wire[t]) # "upgrade"
  <2>1. clients' = [clients EXCEPT ![t] = "none"] /\ UNCHANGED <<wire, inbound>>
    BY <1>4 DEF HandleClientEvent
  <2>2. clients' \in [Tokens -> {"none", "handshaking", "connected"}]
    BY <2>1 DEF ServerInv, ServerTyped
  <2>3. \A u \in Tokens : clients'[u] = IF u = t THEN "none" ELSE clients[u]
    BY <2>1 DEF ServerInv, ServerTyped
  <2>4. ServerTyped'
    BY <1>1, <2>1, <2>2 DEF ServerInv, ServerTyped
  <2>5. EarlyUntold'
    BY <1>1, <2>1, <2>3 DEF ServerInv, EarlyUntold, Waits
  <2>6. ASSUME NEW u \in Tokens
        PROVE  Told(u)'
    BY <1>1, <1>4, <2>1, <2>3 DEF ServerInv, Told
  <2> QED
    BY <2>4, <2>5, <2>6 DEF ServerInv
<1>5. CASE \/ clients[t] = "none"
           \/ clients[t] = "handshaking" /\ wire[t] = <<>>
  <2>1. UNCHANGED <<wire, clients, inbound>>
    BY <1>5 DEF HandleClientEvent
  <2> QED
    BY <1>1, <2>1, UnseenKeeps
<1> QED
  BY <1>1, <1>2, <1>3, <1>4, <1>5

\* The handshakes that are complete as soon as they are accepted.
LEMMA AcceptingKeeps ==
  ASSUME ServerInv, AcceptConnections
  PROVE  ServerInv'
<1> DEFINE head(t) == IF wire[t] = <<>> THEN "nothing" ELSE Head(wire[t])
           completed == {i \in DOMAIN backlog : head(backlog[i]) = "upgrade"}
<1>1. PICK at \in SetToSeqs(completed) :
        inbound' = inbound \o [i \in DOMAIN at |-> Event("connected", backlog[at[i]])]
  BY DEF AcceptConnections
<1>2. /\ clients' = [t \in Tokens |->
            IF t \notin ToSet(backlog) THEN clients[t]
            ELSE CASE head(t) = "upgrade" -> "connected"
                   [] head(t) = "nothing" -> "handshaking"
                   [] OTHER -> "none"]
      /\ wire' = [t \in Tokens |->
            IF t \in ToSet(backlog) /\ wire[t] # <<>> THEN Tail(wire[t]) ELSE wire[t]]
      /\ backlog' = <<>>
      /\ UNCHANGED <<peer, known>>
  BY DEF AcceptConnections
<1>3. ServerTyped /\ EarlyUntold /\ (\A t \in Tokens : Told(t))
  BY DEF ServerInv
<1>4. /\ DOMAIN backlog = 1..Len(backlog) /\ Len(backlog) \in Nat
      /\ \A i \in DOMAIN backlog : backlog[i] \in Tokens /\ Waits(backlog[i])
  BY <1>3, LenProperties DEF ServerTyped, Waits, ToSet
<1>5. IsFiniteSet(completed)
  <2>1. IsFiniteSet(DOMAIN backlog)
    BY <1>4, FS_Interval
  <2> QED
    BY <2>1, FS_Subset
<1>6. /\ DOMAIN at = 1..Len(at) /\ Len(at) \in Nat
      /\ \A i \in DOMAIN at : at[i] \in completed
      /\ \A i, j \in DOMAIN at : at[i] = at[j] => i = j
      /\ \A x \in completed : \E p \in DOMAIN at : at[p] = x
  BY <1>5, OrderOfSet
<1> DEFINE news == [i \in DOMAIN at |-> Event("connected", backlog[at[i]])]
<1>7. /\ news \in Seq(Events) /\ DOMAIN news = DOMAIN at
      /\ \A i \in DOMAIN at : news[i] = Event("connected", backlog[at[i]])
                            /\ news[i].from = backlog[at[i]]
                            /\ backlog[at[i]] \in Tokens
                            /\ Waits(backlog[at[i]])
                            /\ head(backlog[at[i]]) = "upgrade"
  <2>1. \A i \in DOMAIN at : /\ backlog[at[i]] \in Tokens
                            /\ Waits(backlog[at[i]])
                            /\ head(backlog[at[i]]) = "upgrade"
    BY <1>4, <1>6
  <2>2. \A i \in DOMAIN at : Event("connected", backlog[at[i]]) \in Events
    BY <2>1, EventType DEF Kinds
  <2>3. news \in [1..Len(at) -> Events]
    BY <1>6, <2>2
  <2>4. news \in Seq(Events)
    BY <1>6, <2>3, SeqDef
  <2> HIDE DEF head
  <2> QED
    BY <2>1, <2>4, EventType DEF Kinds
<1>8. inbound' = inbound \o news /\ inbound \in Seq(Events)
  BY <1>1, <1>3 DEF ServerTyped
<1> HIDE DEF news
<1>9. ASSUME NEW t \in Tokens, Waits(t), head(t) = "upgrade"
      PROVE  \E p \in DOMAIN news : Only(news, p, Event("connected", t))
  <2>1. PICK b \in DOMAIN backlog : backlog[b] = t
    BY <1>9 DEF Waits, ToSet
  <2>2. b \in completed
    BY <1>9, <2>1
  <2> HIDE DEF head, completed
  <2>3. PICK p \in DOMAIN at : at[p] = b
    BY <1>6, <2>2
  <2>4. ASSUME NEW i \in DOMAIN news, news[i].from = t
        PROVE  i = p
    <3>1. at[i] \in DOMAIN backlog /\ backlog[at[i]] = backlog[b]
      BY <1>6, <1>7, <2>1, <2>4 DEF completed
    <3>2. at[i] = b
      BY <1>3, <3>1 DEF EarlyUntold
    <3> QED
      BY <1>6, <1>7, <2>3, <3>2
  <2> QED
    BY <1>7, <2>1, <2>3, <2>4, EventType DEF Only, Kinds
<1>10. ASSUME NEW t \in Tokens, ~(Waits(t) /\ head(t) = "upgrade")
       PROVE  Silent(news, t)
  <2> HIDE DEF head, completed
  <2> QED
    BY <1>7, <1>10 DEF Silent
<1>11. ServerTyped'
  <2>1. clients' \in [Tokens -> {"none", "handshaking", "connected"}]
    BY <1>2, <1>3 DEF ServerTyped
  <2>2. wire' \in [Tokens -> Seq(Frames)]
    <3>1. \A t \in Tokens : wire[t] \in Seq(Frames)
      BY <1>3 DEF ServerTyped
    <3>2. \A t \in Tokens : wire[t] # <<>> => Tail(wire[t]) \in Seq(Frames)
      BY <3>1, HeadTailProperties
    <3> QED
      BY <1>2, <3>1, <3>2
  <2>3. inbound' \in Seq(Events)
    BY <1>7, <1>8, ConcatProperties
  <2> QED
    BY <1>2, <1>3, <2>1, <2>2, <2>3, EmptySeq DEF ServerTyped
<1>12. \A t \in Tokens :
         /\ ~Waits(t) => clients'[t] = clients[t]
         /\ Waits(t) /\ head(t) = "upgrade" => clients'[t] = "connected"
         /\ Waits(t) /\ head(t) # "upgrade" => clients'[t] \in {"handshaking", "none"}
  <2> TAKE t \in Tokens
  <2>1. clients'[t] =
          IF t \notin ToSet(backlog) THEN clients[t]
          ELSE CASE head(t) = "upgrade" -> "connected"
                 [] head(t) = "nothing" -> "handshaking"
                 [] OTHER -> "none"
    BY <1>2, Zenon
  <2> HIDE DEF head
  <2>2. CASE ~Waits(t)
    BY <2>1, <2>2 DEF Waits
  <2>3. CASE Waits(t) /\ head(t) = "upgrade"
    BY <2>1, <2>3 DEF Waits
  <2>4. CASE Waits(t) /\ head(t) # "upgrade" /\ head(t) = "nothing"
    BY <2>1, <2>4 DEF Waits
  <2>5. CASE Waits(t) /\ head(t) # "upgrade" /\ head(t) # "nothing"
    BY <2>1, <2>5 DEF Waits
  <2> QED
    BY <2>2, <2>3, <2>4, <2>5
<1> HIDE DEF head
<1>13. EarlyUntold'
  <2>1. \A t \in Tokens : ~Waits(t)'
    BY <1>2 DEF Waits, ToSet
  <2>2. ASSUME NEW t \in Tokens, peer[t] = "idle" \/ clients'[t] = "handshaking"
        PROVE  /\ known[t] = "fresh" /\ Silent(inbound', t)
               /\ peer[t] = "idle" => clients'[t] = "none"
    <3>1. ~(Waits(t) /\ head(t) = "upgrade")
      BY <1>3, <1>12, <2>2 DEF EarlyUntold
    <3>2. peer[t] = "idle" \/ Waits(t) \/ clients[t] = "handshaking"
      BY <1>12, <2>2
    <3>3. known[t] = "fresh" /\ Silent(inbound, t)
      BY <1>3, <3>2 DEF EarlyUntold
    <3>4. Silent(inbound', t)
      BY <1>7, <1>8, <1>10, <3>1, <3>3, SilentConcat
    <3>5. peer[t] = "idle" => clients'[t] = "none"
      BY <1>3, <1>12 DEF EarlyUntold
    <3> QED
      BY <3>3, <3>4, <3>5
  <2> QED
    BY <1>2, <2>1, <2>2 DEF EarlyUntold
<1>14. ASSUME NEW t \in Tokens
       PROVE  Told(t)'
  <2>1. CASE Waits(t) /\ head(t) = "upgrade"
    <3>1. clients'[t] = "connected"
      BY <1>12, <2>1
    <3>2. known[t] = "fresh" /\ Silent(inbound, t)
      BY <1>3, <2>1 DEF EarlyUntold
    <3>3. PICK p \in DOMAIN news : Only(news, p, Event("connected", t))
      BY <1>9, <2>1
    <3>4. InOrder("fresh", inbound', t) /\ OpensAtLast("fresh", inbound', t)
      BY <1>7, <1>8, <3>2, <3>3, SessionAnnounced
    <3> QED
      BY <1>2, <3>1, <3>2, <3>4 DEF Told
  <2>2. CASE ~(Waits(t) /\ head(t) = "upgrade")
    <3>1. clients'[t] = "connected" <=> clients[t] = "connected"
      BY <1>3, <1>12, <2>2 DEF EarlyUntold
    <3>2. /\ InOrder(known[t], inbound', t)
          /\ OpensAtLast(known[t], inbound', t) <=> OpensAtLast(known[t], inbound, t)
      BY <1>3, <1>7, <1>8, <1>10, <2>2, OthersTold DEF Told
    <3> QED
      BY <1>2, <1>3, <3>1, <3>2 DEF Told
  <2> QED
    BY <2>1, <2>2
<1> QED
  BY <1>11, <1>13, <1>14 DEF ServerInv
\* Clients that cannot be written to are dropped, and reported in any order.
LEMMA DeliveringKeeps ==
  ASSUME ServerInv, DeliverOne
  PROVE  ServerInv'
<1> DEFINE dest == {t \in Tokens : clients[t] = "connected" /\ Head(outbound) \in {t, Everyone}}
<1>1. PICK failing \in SUBSET dest : \E order \in SetToSeqs(failing) :
        /\ clients' = Drops(failing)
        /\ inbound' = inbound \o [i \in DOMAIN order |-> Event("disconnected", order[i])]
  BY DEF DeliverOne
<1>2. PICK order \in SetToSeqs(failing) :
        /\ clients' = Drops(failing)
        /\ inbound' = inbound \o [i \in DOMAIN order |-> Event("disconnected", order[i])]
  BY <1>1
<1>3. UNCHANGED <<peer, wire, backlog, known>>
  BY DEF DeliverOne, peerVars
<1>4. ServerTyped /\ EarlyUntold /\ (\A t \in Tokens : Told(t))
  BY DEF ServerInv
<1>5. failing \subseteq Tokens /\ (\A t \in failing : clients[t] = "connected")
  OBVIOUS
<1> HIDE DEF dest
<1>6. IsFiniteSet(failing)
  BY <1>5, ServerAssumption, FS_Subset
<1>7. /\ DOMAIN order = 1..Len(order) /\ Len(order) \in Nat
      /\ \A i \in DOMAIN order : order[i] \in failing
      /\ \A i, j \in DOMAIN order : order[i] = order[j] => i = j
      /\ \A x \in failing : \E p \in DOMAIN order : order[p] = x
  BY <1>6, OrderOfSet
<1> DEFINE news == [i \in DOMAIN order |-> Event("disconnected", order[i])]
<1>8. /\ news \in Seq(Events) /\ DOMAIN news = DOMAIN order
      /\ \A i \in DOMAIN order : news[i] = Event("disconnected", order[i])
                               /\ news[i].from = order[i]
  <2>1. \A i \in DOMAIN order : Event("disconnected", order[i]) \in Events
    BY <1>5, <1>7, EventType DEF Kinds
  <2>2. news \in [1..Len(order) -> Events]
    BY <1>7, <2>1
  <2>3. news \in Seq(Events)
    BY <1>7, <2>2, SeqDef
  <2> QED
    BY <1>5, <1>7, <2>3, EventType DEF Kinds
<1>9. inbound' = inbound \o news /\ inbound \in Seq(Events)
  BY <1>2, <1>4 DEF ServerTyped
<1> HIDE DEF news
<1>10. ASSUME NEW t \in failing
       PROVE  \E p \in DOMAIN news : Only(news, p, Event("disconnected", t))
  <2>1. PICK p \in DOMAIN order : order[p] = t
    BY <1>7
  <2> QED
    BY <1>5, <1>7, <1>8, <2>1, EventType DEF Only, Kinds
<1>11. ASSUME NEW t \in Tokens \ failing
       PROVE  Silent(news, t)
  BY <1>7, <1>8 DEF Silent
<1>12. /\ clients' \in [Tokens -> {"none", "handshaking", "connected"}]
       /\ \A t \in Tokens : clients'[t] = IF t \in failing THEN "none" ELSE clients[t]
  BY <1>2, <1>4 DEF Drops, ServerTyped
<1>13. ServerTyped'
  <2>1. inbound' \in Seq(Events)
    BY <1>8, <1>9, ConcatProperties
  <2> QED
    BY <1>3, <1>4, <1>12, <2>1 DEF ServerTyped
<1>14. EarlyUntold'
  <2>1. ASSUME NEW t \in Tokens, Silent(inbound, t), t \notin failing
        PROVE  Silent(inbound', t)
    BY <1>8, <1>9, <1>11, <2>1, SilentConcat
  <2>2. \A t \in failing : peer[t] # "idle" /\ ~Waits(t)
    BY <1>4, <1>5 DEF EarlyUntold
  <2> QED
    BY <1>3, <1>4, <1>12, <2>1, <2>2 DEF EarlyUntold, Waits
<1>15. ASSUME NEW t \in Tokens
       PROVE  Told(t)'
  <2>1. CASE t \in failing
    <3>1. PICK p \in DOMAIN news : Only(news, p, Event("disconnected", t))
      BY <1>10, <2>1
    <3>2. known[t] # "illegal" /\ InOrder(known[t], inbound, t) /\ OpensAtLast(known[t], inbound, t)
      BY <1>4, <1>5, <2>1 DEF Told
    <3>3. InOrder(known[t], inbound', t) /\ ~OpensAtLast(known[t], inbound', t)
      BY <1>8, <1>9, <3>1, <3>2, EndTold
    <3> QED
      BY <1>3, <1>12, <2>1, <3>2, <3>3 DEF Told
  <2>2. CASE t \notin failing
    <3>1. known[t] # "illegal" /\ InOrder(known[t], inbound, t)
      BY <1>4 DEF Told
    <3>2. /\ InOrder(known[t], inbound', t)
          /\ OpensAtLast(known[t], inbound', t) <=> OpensAtLast(known[t], inbound, t)
      BY <1>8, <1>9, <1>11, <2>2, <3>1, OthersTold
    <3> QED
      BY <1>3, <1>4, <1>12, <2>2, <3>1, <3>2 DEF Told
  <2> QED
    BY <2>1, <2>2
<1> QED
  BY <1>13, <1>14, <1>15 DEF ServerInv

----------------------------------------------------------------------------
(* The core.                                                               *)

LEMMA CoreKeeps ==
  ASSUME ServerInv, CoreHandles
  PROVE  ServerInv'
<1> DEFINE s == Head(inbound).from
           kind == Head(inbound).kind
<1>1. /\ inbound # <<>>
      /\ known' = [known EXCEPT ![s] = After(known[s], kind)]
      /\ inbound' = Tail(inbound)
      /\ UNCHANGED <<peer, wire, backlog, clients>>
  BY DEF CoreHandles, Send, peerVars, loopVars
<1>2. ServerTyped /\ EarlyUntold /\ (\A t \in Tokens : Told(t)) /\ inbound \in Seq(Events)
  BY DEF ServerInv, ServerTyped
<1>3. /\ Head(inbound) \in Events /\ Tail(inbound) \in Seq(Events)
      /\ Head(inbound) = inbound[1] /\ 1 \in DOMAIN inbound
      /\ Len(Tail(inbound)) = Len(inbound) - 1 /\ Len(inbound) \in Nat
      /\ DOMAIN Tail(inbound) = 1..Len(Tail(inbound)) /\ DOMAIN inbound = 1..Len(inbound)
      /\ \A i \in 1..Len(Tail(inbound)) : Tail(inbound)[i] = inbound[i + 1]
  BY <1>1, <1>2, EmptySeq, LenProperties, HeadTailProperties
<1>4. s \in Tokens /\ ~Silent(inbound, s)
  BY <1>3 DEF Events, Silent
<1>5. \A t \in Tokens : Silent(inbound, t) => Silent(Tail(inbound), t)
  <2> SUFFICES ASSUME NEW t \in Tokens, Silent(inbound, t),
                      NEW i \in DOMAIN Tail(inbound)
               PROVE  Tail(inbound)[i].from # t
    BY DEF Silent
  <2>1. i + 1 \in DOMAIN inbound /\ Tail(inbound)[i] = inbound[i + 1]
    BY <1>3
  <2> QED
    BY <2>1 DEF Silent
<1> DEFINE before == known[s]
           after == After(before, kind)
<1>6. /\ after \in Sessions /\ after # "illegal"
      /\ InOrder(after, Tail(inbound), s)
      /\ OpensAtLast(after, Tail(inbound), s) <=> OpensAtLast(before, inbound, s)
  <2>1. before \in Sessions /\ before # "illegal" /\ InOrder(before, inbound, s)
    BY <1>2, <1>4 DEF ServerTyped, Told
  <2>2. after = After(before, Head(inbound).kind)
    OBVIOUS
  <2> HIDE DEF before, after
  <2> QED
    BY <1>1, <1>2, <1>4, <2>1, <2>2, NextTold
<1>7. /\ known' \in [Tokens -> Sessions]
      /\ \A t \in Tokens : known'[t] = IF t = s THEN after ELSE known[t]
  BY <1>1, <1>2, <1>6 DEF ServerTyped
<1>8. ServerTyped'
  BY <1>1, <1>2, <1>3, <1>7 DEF ServerTyped
<1>9. EarlyUntold'
  <2>1. \A t \in Tokens : known[t] = "fresh" /\ Silent(inbound, t) =>
          known'[t] = "fresh" /\ Silent(inbound', t)
    BY <1>1, <1>4, <1>5, <1>7
  <2> QED
    BY <1>1, <1>2, <2>1 DEF EarlyUntold, Waits
<1>10. ASSUME NEW t \in Tokens
       PROVE  Told(t)'
  <2>1. CASE t = s
    <3>1. InOrder(after, inbound', t) /\ known'[t] = after
      BY <1>1, <1>6, <1>7, <2>1
    <3>2. OpensAtLast(after, inbound', t) <=> OpensAtLast(before, inbound, t)
      BY <1>1, <1>6, <2>1
    <3>3. clients[t] = "connected" <=> OpensAtLast(before, inbound, t)
      BY <1>2, <2>1 DEF Told
    <3> HIDE DEF after, before
    <3> QED
      BY <1>1, <1>6, <3>1, <3>2, <3>3 DEF Told
  <2>2. CASE t # s
    <3>1. known[t] # "illegal" /\ InOrder(known[t], inbound, t)
      BY <1>2 DEF Told
    <3>2. /\ InOrder(known[t], Tail(inbound), t)
          /\ OpensAtLast(known[t], Tail(inbound), t) <=> OpensAtLast(known[t], inbound, t)
      BY <1>1, <1>2, <2>2, <3>1, NextOfOther
    <3> QED
      BY <1>1, <1>2, <1>7, <2>2, <3>1, <3>2 DEF Told
  <2> QED
    BY <2>1, <2>2
<1> QED
  BY <1>8, <1>9, <1>10 DEF ServerInv

----------------------------------------------------------------------------
(* The theorem.                                                            *)

LEMMA ServerInvStep ==
  ASSUME ServerInv, [Next]_vars
  PROVE  ServerInv'
<1>1. CASE StartDraining \/ StopDraining
  BY <1>1, UnseenKeeps DEF StartDraining, StopDraining, peerVars
<1>2. CASE Wake \/ Broadcast
  BY <1>2, UnseenKeeps DEF Wake, Broadcast, Send, peerVars, loopVars
<1>3. CASE UNCHANGED vars
  BY <1>3, UnseenKeeps DEF vars, peerVars, loopVars
<1> QED
  BY <1>1, <1>2, <1>3, AcceptingKeeps, HandlingKeeps, DeliveringKeeps, CoreKeeps, PeersKeep
     DEF Next, ServerStep

\* The core is told of every session once, before its messages, and of its end
\* once, after them, in agreement with the map of clients, for any number of
\* connections, whichever of reading and writing notices an end first and in
\* whichever order the map gives those that are lost together
\* (websocket.rs:107-111, 172-175, 211-216, 253-264).
THEOREM SessionsInOrder == Spec => []SessionProtocol
<1>1. Init => ServerInv
  BY InitTold
<1>2. ServerInv /\ [Next]_vars => ServerInv'
  BY ServerInvStep
<1>3. ServerInv => SessionProtocol
  BY ToldIsProtocol DEF ServerInv
<1> QED
  BY <1>1, <1>2, <1>3, PTL DEF Spec
=============================================================================
