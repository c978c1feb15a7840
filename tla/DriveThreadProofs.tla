------------------------- MODULE DriveThreadProofs -------------------------
(***************************************************************************)
(* Theorems about two parts of the drive thread, for all values of their   *)
(* constants.                                                              *)
(*                                                                         *)
(* The arithmetic: what clamp_deceleration guarantees, for all positions,  *)
(* velocities, decelerations, margins and limits. It tells the drive to    *)
(* brake hard enough to stop in the room it grants, or at the greatest     *)
(* deceleration that the drive's protocol can express, and it never lowers *)
(* what the command asks for, as long as the drive is not beyond the       *)
(* margin; beyond it the hard stop is within the limits it is configured   *)
(* with, which the command may exceed.                                     *)
(*                                                                         *)
(* The exchange: the drive thread never computes from answers that are     *)
(* older than the number of answers that came too late, for any number of  *)
(* losses and of late answers and however long the thread runs. And the    *)
(* two sides understand each other: for every list of parts, a reader that *)
(* knows which of them a datagram has finds what was put into each.        *)
(***************************************************************************)
EXTENDS MotionMath, UdpExchange, SequenceTheorems, WellFoundedInduction, TLAPS

----------------------------------------------------------------------------
(* The arithmetic of braking.                                              *)

LEMMA QuotientBounds ==
  ASSUME NEW x \in Nat, NEW y \in Nat \ {0}
  PROVE  /\ x \div y \in Nat
         /\ y * (x \div y) <= x
         /\ x < y * (x \div y) + y
  OBVIOUS

LEMMA LeastDecelerationStops ==
  ASSUME NEW v \in Int, NEW room \in Nat \ {0}
  PROVE  /\ LeastDeceleration(v, room) \in Nat
         /\ v * v <= 2 * LeastDeceleration(v, room) * room
  <1> DEFINE y == 2 * room
             x == v * v + y - 1
  <1>1. y \in Nat \ {0} /\ v * v \in Nat
    OBVIOUS
  <1>2. x \in Nat
    BY <1>1
  <1> HIDE DEF x
  <1>3. x \div y \in Nat /\ x < y * (x \div y) + y
    BY <1>1, <1>2, QuotientBounds
  <1> QED
    BY <1>1, <1>3 DEF LeastDeceleration, x

\* The deceleration of a hard stop is within its limits, wherever the drive is.
LEMMA HardDecelerationBounds ==
  ASSUME NEW excess \in Nat
  PROVE  HardDeceleration(excess) \in HardDecelerationMin..HardDecelerationMax
  <1> DEFINE t == AtMost((excess * 1000) \div AtLeast(OvershootMargin, 1), 1000)
             range == HardDecelerationMax - HardDecelerationMin
             part == (range * t) \div 1000
  <1>1. range \in Nat /\ HardDecelerationMin \in Nat /\ HardDecelerationMax \in Nat
    BY MathAssumption
  <1>2. AtLeast(OvershootMargin, 1) \in Nat \ {0}
    BY MathAssumption DEF AtLeast
  <1>3. (excess * 1000) \div AtLeast(OvershootMargin, 1) \in Nat
    <2> DEFINE n == excess * 1000
               m == AtLeast(OvershootMargin, 1)
    <2>1. n \in Nat
      OBVIOUS
    <2> HIDE DEF n, m
    <2> QED BY <2>1, <1>2, QuotientBounds DEF m
  <1>4. t \in 0..1000
    BY <1>3 DEF AtMost
  <1> HIDE DEF t, range
  <1>5. range * t \in Nat /\ range * t <= range * 1000
    BY <1>1, <1>4
  <1>6. part \in Nat /\ part <= range
    <2> DEFINE n == range * t
    <2>1. n \in Nat /\ n <= range * 1000
      BY <1>5
    <2> HIDE DEF n
    <2> QED BY <2>1, <1>1 DEF n
  <1>7. HardDeceleration(excess) = HardDecelerationMin + part
    BY DEF HardDeceleration, t, range
  <1> HIDE DEF part
  <1> QED
    BY <1>1, <1>6, <1>7 DEF range

\* What the clamp guarantees, for every state of the drive and every target: a
\* drive that is not beyond the margin is told to brake at least as hard as was
\* requested, exactly as hard if that suffices, and hard enough to stop within the
\* room there is unless the result saturates; a drive beyond the margin is told to
\* brake within the limits of the hard stop.
THEOREM ClampIsSufficient ==
  ASSUME NEW p \in Int, NEW v \in Int, NEW target \in Int,
         NEW requested \in 0..Saturated, NEW direction \in Int
  PROVE
    LET displacement == target - p
        past == PastTarget(displacement, v, direction)
        room == StoppingBudget(displacement, v, requested, past)
        clamped == ClampDeceleration(p, v, target, requested, direction)
    IN IF past /\ Abs(displacement) >= OvershootMargin
       THEN clamped \in HardDecelerationMin..HardDecelerationMax
       ELSE /\ clamped \in requested..Saturated
            /\ v # 0 /\ room # 0 =>
                 /\ StopsWithin(clamped, v, room) \/ clamped = Saturated
                 /\ StopsWithin(requested, v, room) => clamped = requested
  <1> DEFINE displacement == target - p
             past == PastTarget(displacement, v, direction)
             excess == Abs(displacement) - OvershootMargin
             room == StoppingBudget(displacement, v, requested, past)
             clamped == ClampDeceleration(p, v, target, requested, direction)
             least == LeastDeceleration(v, room)
  <1>a. /\ OvershootMargin \in Nat /\ Saturated \in Nat
        /\ HardDecelerationMin \in Nat /\ HardDecelerationMax \in Nat
        /\ HardDecelerationMax <= Saturated
    BY MathAssumption
  <1>b. displacement \in Int /\ Abs(displacement) \in Nat
    BY DEF Abs
  <1>c. past \in BOOLEAN
    BY DEF PastTarget
  <1>d. clamped = IF past /\ excess >= 0
                  THEN AtMost(HardDeceleration(excess), Saturated)
                  ELSE IF v = 0 \/ room = 0 \/ StopsWithin(requested, v, room)
                  THEN requested
                  ELSE AtMost(least, Saturated)
    BY DEF ClampDeceleration
  <1>e. StoppingBudget(displacement, v, requested, past) =
          IF past THEN OvershootMargin - Abs(displacement)
          ELSE IF StopsWithin(requested, v, Abs(displacement) + OvershootMargin)
               THEN Abs(displacement) + OvershootMargin
               ELSE Abs(displacement)
    BY DEF StoppingBudget
  <1>f. excess = Abs(displacement) - OvershootMargin
    OBVIOUS
  <1> HIDE DEF displacement, past, excess, clamped
  <1>1. CASE past /\ Abs(displacement) >= OvershootMargin
    <2>1. excess \in Nat
      BY <1>1, <1>a, <1>b, <1>f
    <2>2. HardDeceleration(excess) \in HardDecelerationMin..HardDecelerationMax
      BY <2>1, HardDecelerationBounds
    <2>3. clamped = HardDeceleration(excess)
      BY <1>1, <1>a, <1>d, <2>1, <2>2 DEF AtMost
    <2> QED
      BY <1>1, <2>2, <2>3 DEF displacement, past, clamped
  <1>2. CASE ~(past /\ Abs(displacement) >= OvershootMargin)
    <2>1. ~(past /\ excess >= 0)
      BY <1>2, <1>a, <1>b, <1>f
    <2>2. room \in Nat
      BY <1>2, <1>a, <1>b, <1>c, <1>e
    <2> HIDE DEF room
    <2>3. CASE v = 0 \/ room = 0 \/ StopsWithin(requested, v, room)
      <3>1. clamped = requested
        BY <1>d, <2>1, <2>3
      <3> QED
        BY <1>2, <2>3, <3>1, <1>a DEF displacement, past, clamped, room
    <2>4. CASE ~(v = 0 \/ room = 0 \/ StopsWithin(requested, v, room))
      <3>1. room \in Nat \ {0} /\ v # 0
        BY <2>2, <2>4
      <3>2. least \in Nat /\ v * v <= 2 * least * room
        BY <3>1, LeastDecelerationStops
      <3> HIDE DEF least
      <3>3. least > 0
        <4>1. v * v > 0
          BY <3>1
        <4> QED BY <4>1, <3>1, <3>2
      <3>4. StopsWithin(least, v, room)
        BY <3>2, <3>3 DEF StopsWithin
      <3>5. requested < least
        <4> SUFFICES ASSUME least <= requested PROVE FALSE
          BY <3>2
        <4>1. requested > 0
          BY <3>2, <3>3
        <4>2. least * room <= requested * room
          BY <3>1, <3>2
        <4>3. v * v <= 2 * requested * room
          BY <3>1, <3>2, <4>2
        <4> QED BY <2>4, <4>1, <4>3 DEF StopsWithin
      <3>6. clamped = AtMost(least, Saturated)
        BY <1>d, <2>1, <2>4
      <3>7. clamped \in requested..Saturated /\ (clamped = least \/ clamped = Saturated)
        BY <3>2, <3>5, <3>6, <1>a DEF AtMost
      <3> QED
        BY <1>2, <2>4, <3>4, <3>7 DEF displacement, past, clamped, room
    <2> QED
      BY <2>3, <2>4
  <1> QED
    BY <1>1, <1>2

----------------------------------------------------------------------------
(* The exchange with the drive.                                            *)

Commands == {None} \cup [kind : Wishes, count : 0..15]
Requests == [flags : Int, command : Commands, all : BOOLEAN]
Words == {StateWord(2, 0)} \cup {EnabledWord(n, TRUE) : n \in 0..15}
Datagrams(contents) == [content : contents, age : Int]

Typed ==
  /\ wish \in Wishes
  /\ link \in {"down", "probing", "idle", "waiting"}
  /\ flags \in {0, 1}
  /\ command \in Commands
  /\ drive \in [on : BOOLEAN, command : Commands]
  /\ toDrive \in Seq(Datagrams(Requests))
  /\ toController \in Seq(Datagrams(Words \cup {NoValue}))
  /\ socket \in Seq(Datagrams(Words \cup {NoValue}))
  /\ link = "down" => socket = <<>>
  /\ lates \in Nat

----------------------------------------------------------------------------
(* Words and counts.                                                       *)

LEMMA KnownWord ==
  ASSUME NEW word \in Words
  PROVE  /\ word \in Int /\ word # NoValue
         /\ \/ State(word) = [name |-> "ReadyToSwitchOn"]
            \/ /\ State(word).name = "OperationEnabled"
               /\ State(word).count \in 0..15
<1>1. CASE word = StateWord(2, 0)
  <2>1. word = 512
    BY <1>1 DEF StateWord
  <2>2. word \div 256 = 2
    BY <2>1
  <2> QED
    BY <2>1, <2>2 DEF State, NoValue
<1>2. CASE \E n \in 0..15 : word = EnabledWord(n, TRUE)
  <2>1. PICK n \in 0..15 : word = 2176 + n
    BY <1>2 DEF EnabledWord, StateWord
  <2>2. word \div 256 = 8 /\ word % 256 = 128 + n
    BY <2>1
  <2>3. (128 + n) % 16 \in 0..15
    OBVIOUS
  <2> QED
    BY <2>1, <2>2, <2>3 DEF State, NoValue
<1> QED
  BY <1>1, <1>2 DEF Words

LEMMA CountIsSmall ==
  ASSUME NEW n \in 0..15
  PROVE  NextCount(n) \in 0..15
BY DEF NextCount

LEMMA DriveAnswers ==
  ASSUME NEW d \in [on : BOOLEAN, command : Commands]
  PROVE  StateOf(d) \in Words
<1>1. d.command.count \in 0..15
  BY DEF Commands, None
<1> QED
  BY <1>1 DEF StateOf, Words

----------------------------------------------------------------------------
(* Sequences of datagrams.                                                 *)

LEMMA AgedTyped ==
  ASSUME NEW C, NEW s \in Seq(Datagrams(C))
  PROVE  /\ Aged(s) \in Seq(Datagrams(C))
         /\ DOMAIN Aged(s) = DOMAIN s
         /\ \A i \in DOMAIN s : Aged(s)[i].age = s[i].age + 1
<1> DEFINE Older(d) == [d EXCEPT !.age = @ + 1]
<1>1. /\ Len(s) \in Nat /\ DOMAIN s = 1..Len(s)
      /\ \A i \in 1..Len(s) : s[i] \in Datagrams(C)
  BY LenProperties, ElementOfSeq
<1>2. \A d \in Datagrams(C) : Older(d) \in Datagrams(C) /\ Older(d).age = d.age + 1
  BY DEF Datagrams
<1>3. Aged(s) = [i \in 1..Len(s) |-> Older(s[i])]
  BY <1>1 DEF Aged
<1> HIDE DEF Older
<1>4. Aged(s) \in [1..Len(s) -> Datagrams(C)]
  BY <1>1, <1>2, <1>3
<1>5. Aged(s) \in Seq(Datagrams(C))
  BY <1>1, <1>4, SeqDef
<1> QED
  BY <1>1, <1>2, <1>3, <1>5

LEMMA ComputeTyped ==
  ASSUME Typed, NEW word \in Words \cup {NoValue}, Compute(word)
  PROVE  flags' \in {0, 1} /\ command' \in Commands
<1>1. CASE word = NoValue
  BY <1>1 DEF Compute, Typed
<1>2. CASE word # NoValue
  <2>1. word \in Words
    BY <1>2
  <2>2. State(word).name = "OperationEnabled" => NextCount(State(word).count) \in 0..15
    BY <2>1, KnownWord, CountIsSmall
  <2>3. wish \in Wishes /\ flags \in {0, 1} /\ command \in Commands
    BY DEF Typed
  <2> QED
    BY <1>2, <2>2, <2>3 DEF Compute, Commands
<1> QED
  BY <1>1, <1>2

LEMMA TypedInit == Init => Typed
BY DEF Init, Typed, Wishes, Commands

LEMMA SendTyped ==
  ASSUME Typed, NEW request \in Requests,
         NEW received \in Seq(Datagrams(Words \cup {NoValue})), Send(request, received)
  PROVE  /\ toDrive' \in Seq(Datagrams(Requests))
         /\ toController' \in Seq(Datagrams(Words \cup {NoValue}))
         /\ socket' \in Seq(Datagrams(Words \cup {NoValue}))
<1>1. Aged(toDrive) \in Seq(Datagrams(Requests))
  BY AgedTyped DEF Typed
<1>2. Datagram(request, 0) \in Datagrams(Requests)
  BY DEF Datagram, Datagrams
<1> QED
  BY <1>1, <1>2, AgedTyped, AppendProperties DEF Send, Typed

LEMMA TypedStep == Typed /\ [Next]_vars => Typed'
<1> SUFFICES ASSUME Typed, [Next]_vars
             PROVE  Typed'
  OBVIOUS
<1> DEFINE W == Words \cup {NoValue}
<1>1. CASE Connect
  <2>1. Check \in Requests
    BY DEF Check, Requests, Commands, NoValue
  <2>2. <<>> \in Seq(Datagrams(W))
    OBVIOUS
  <2> QED
    BY <1>1, <2>1, <2>2, SendTyped DEF Connect, Typed, Commands, faults
<1>2. CASE SendRequest
  <2>1. [flags |-> flags, command |-> command, all |-> TRUE] \in Requests
    BY DEF Requests, Typed
  <2>2. socket \in Seq(Datagrams(W))
    BY DEF Typed
  <2> QED
    BY <1>2, <2>1, <2>2, SendTyped DEF SendRequest, Typed, Commands, faults
<1>3. CASE Receive
  <2>1. Head(socket) \in Datagrams(W) /\ Tail(socket) \in Seq(Datagrams(W))
    BY <1>3, HeadTailProperties DEF Receive, Typed
  <2>2. flags' \in {0, 1} /\ command' \in Commands
    <3>1. Head(socket).content \in W
      BY <2>1 DEF Datagrams
    <3> QED
      BY <1>3, <3>1, ComputeTyped DEF Receive, Typed
  <2> QED
    BY <1>3, <2>1, <2>2 DEF Receive, Typed, faults
<1>4. CASE AnswerIsLost \/ AnswerIsLate
  BY <1>4 DEF AnswerIsLost, AnswerIsLate, Disconnect, Typed, faults, netVars
<1>5. CASE Change
  BY <1>5 DEF Change, Typed, faults, netVars
<1>6. CASE Answer
  <2>1. /\ Head(toDrive) \in Datagrams(Requests)
        /\ Tail(toDrive) \in Seq(Datagrams(Requests))
    BY <1>6, HeadTailProperties DEF Answer, Typed
  <2>2. Head(toDrive).content \in Requests /\ Head(toDrive).age \in Int
    BY <2>1 DEF Datagrams
  <2>3. drive' \in [on : BOOLEAN, command : Commands]
    BY <1>6, <2>2 DEF Answer, Taken, Requests, Typed
  <2>4. toController' \in Seq(Datagrams(W))
    BY <1>6, <2>2, <2>3, DriveAnswers, AppendProperties
       DEF Answer, Datagram, Datagrams, Typed
  <2> QED
    BY <1>6, <2>1, <2>3, <2>4 DEF Answer, Typed, threadVars, faults
<1>7. CASE Arrive
  <2>1. /\ Head(toController) \in Datagrams(W)
        /\ Tail(toController) \in Seq(Datagrams(W))
    BY <1>7, HeadTailProperties DEF Arrive, Typed
  <2> QED
    BY <1>7, <2>1, AppendProperties DEF Arrive, Typed, threadVars, faults
<1>8. CASE Lose
  <2>1. /\ toDrive # <<>> => Tail(toDrive) \in Seq(Datagrams(Requests))
        /\ toController # <<>> => Tail(toController) \in Seq(Datagrams(W))
    BY HeadTailProperties DEF Typed
  <2> QED
    BY <1>8, <2>1 DEF Lose, Typed, threadVars
<1>9. CASE UNCHANGED vars
  BY <1>9 DEF vars, threadVars, netVars, faults, Typed
<1> QED
  BY <1>1, <1>2, <1>3, <1>4, <1>5, <1>6, <1>7, <1>8, <1>9 DEF Next

\* Control flags, counts and states are those the two sides know, and no answer is
\* left over when a socket is closed (drive.rs, compute_next_request; mci.rs,
\* State::from).
THEOREM ExchangeTyping == Spec => []TypeOK
<1>1. Typed => TypeOK
  <2> SUFFICES ASSUME Typed
               PROVE  TypeOK
    OBVIOUS
  <2>1. {command, drive.command} \subseteq {None} \cup [kind : Wishes, count : 0..15]
    BY DEF Typed, Commands
  <2>2. ASSUME NEW i \in DOMAIN socket, socket[i].content # NoValue
        PROVE  State(socket[i].content).name # "Other"
    <3>1. socket[i] \in Datagrams(Words \cup {NoValue})
      BY <2>2, ElementOfSeq, LenProperties DEF Typed
    <3>2. socket[i].content \in Words
      BY <2>2, <3>1 DEF Datagrams
    <3> QED
      BY <3>2, KnownWord
  <2> QED
    BY <2>1, <2>2 DEF TypeOK, Typed
<1> QED
  BY <1>1, TypedInit, TypedStep, PTL DEF Spec

----------------------------------------------------------------------------
(* The age of answers.                                                     *)

Decreasing(s) == \A i, j \in DOMAIN s : i < j => s[i].age > s[j].age
Above(s, t) == \A i \in DOMAIN s, j \in DOMAIN t : s[i].age > t[j].age
NoOlder(s, bound) == \A i \in DOMAIN s : s[i].age <= bound

\* Requests are sent and answered one after the other, so what is under way and
\* what waits is of different ages, the oldest first; a thread that does not wait
\* for an answer has been through one request less since.
AgeInv ==
  /\ Decreasing(socket) /\ Decreasing(toController) /\ Decreasing(toDrive)
  /\ Above(socket, toController) /\ Above(socket, toDrive)
  /\ Above(toController, toDrive)
  /\ LET bound == IF link \in {"idle", "down"} THEN lates - 1 ELSE lates
     IN NoOlder(socket, bound) /\ NoOlder(toController, bound) /\ NoOlder(toDrive, bound)
  /\ \A i \in DOMAIN toDrive : toDrive[i].age >= 0
  /\ \A i \in DOMAIN toController : toController[i].age >= 0
  /\ \A i \in DOMAIN socket : socket[i].age >= 0

LEMMA Elements ==
  ASSUME NEW C, NEW s \in Seq(Datagrams(C))
  PROVE  /\ Len(s) \in Nat /\ DOMAIN s = 1..Len(s)
         /\ \A i \in DOMAIN s : s[i].age \in Int
<1>1. \A i \in 1..Len(s) : s[i] \in Datagrams(C)
  BY ElementOfSeq
<1> QED
  BY <1>1, LenProperties DEF Datagrams

\* What is left is younger than what was taken.
LEMMA TakeOldest ==
  ASSUME NEW C, NEW s \in Seq(Datagrams(C)), s # <<>>, Decreasing(s)
  PROVE  /\ Decreasing(Tail(s))
         /\ Head(s) = s[1] /\ 1 \in DOMAIN s
         /\ \A j \in DOMAIN Tail(s) : j + 1 \in DOMAIN s /\ Tail(s)[j] = s[j + 1]
         /\ \A j \in DOMAIN Tail(s) : s[1].age > Tail(s)[j].age
<1>1. Tail(s) \in Seq(Datagrams(C)) /\ Len(Tail(s)) = Len(s) - 1
  BY HeadTailProperties
<1>2. \A j \in 1..Len(Tail(s)) : Tail(s)[j] = s[j + 1]
  BY HeadTailProperties
<1>3. /\ Len(s) \in Nat /\ DOMAIN s = 1..Len(s) /\ Len(s) # 0
      /\ DOMAIN Tail(s) = 1..Len(Tail(s))
  BY <1>1, Elements, EmptySeq
<1>4. Head(s) = s[1]
  OBVIOUS
<1> QED
  BY <1>1, <1>2, <1>3, <1>4 DEF Decreasing

LEMMA AddYoungest ==
  ASSUME NEW C, NEW s \in Seq(Datagrams(C)), NEW d \in Datagrams(C), Decreasing(s),
         \A i \in DOMAIN s : s[i].age > d.age
  PROVE  /\ Decreasing(Append(s, d))
         /\ \A j \in DOMAIN Append(s, d) :
              Append(s, d)[j] = d \/ (j \in DOMAIN s /\ Append(s, d)[j] = s[j])
<1>1. /\ Append(s, d) \in Seq(Datagrams(C)) /\ Len(Append(s, d)) = Len(s) + 1
      /\ \A i \in 1..Len(s) : Append(s, d)[i] = s[i]
      /\ Append(s, d)[Len(s) + 1] = d
  BY AppendProperties
<1>2. /\ Len(s) \in Nat /\ DOMAIN s = 1..Len(s)
      /\ DOMAIN Append(s, d) = 1..(Len(s) + 1)
  BY <1>1, Elements
<1>3. \A j \in 1..(Len(s) + 1) : j \in 1..Len(s) \/ j = Len(s) + 1
  BY <1>2
<1> QED
  BY <1>1, <1>2, <1>3 DEF Decreasing

\* All three sequences with the type they have in common.
LEMMA Ordered ==
  ASSUME Typed
  PROVE  /\ \A i \in DOMAIN socket : socket[i].age \in Int
         /\ \A i \in DOMAIN toController : toController[i].age \in Int
         /\ \A i \in DOMAIN toDrive : toDrive[i].age \in Int
         /\ lates \in Nat
BY Elements DEF Typed

LEMMA SendKeepsAges ==
  ASSUME Typed, AgeInv, NEW request \in Requests, NEW received, Send(request, received),
         received \in {socket, <<>>}, link \in {"idle", "down"},
         link' \notin {"idle", "down"}, lates' = lates
  PROVE  AgeInv'
<1> DEFINE W == Words \cup {NoValue}
<1>1. /\ \A i \in DOMAIN socket : socket[i].age \in Int
      /\ \A i \in DOMAIN toController : toController[i].age \in Int
      /\ \A i \in DOMAIN toDrive : toDrive[i].age \in Int
      /\ lates \in Nat
  BY Ordered
<1>2. received \in Seq(Datagrams(W))
  BY EmptySeq DEF Typed
<1>3. /\ DOMAIN received \subseteq DOMAIN socket
      /\ \A i \in DOMAIN received : received[i] = socket[i]
  OBVIOUS
<1>4. /\ DOMAIN socket' = DOMAIN received
      /\ \A i \in DOMAIN socket' : socket'[i].age = socket[i].age + 1
  BY <1>2, <1>3, AgedTyped DEF Send
<1>5. /\ DOMAIN toController' = DOMAIN toController
      /\ \A i \in DOMAIN toController' : toController'[i].age = toController[i].age + 1
  BY AgedTyped DEF Send, Typed
<1> DEFINE d == Datagram(request, 0)
<1>6. /\ Aged(toDrive) \in Seq(Datagrams(Requests))
      /\ DOMAIN Aged(toDrive) = DOMAIN toDrive
      /\ \A i \in DOMAIN toDrive : Aged(toDrive)[i].age = toDrive[i].age + 1
  BY AgedTyped DEF Typed
<1>7. d \in Datagrams(Requests) /\ d.age = 0
  BY DEF Datagram, Datagrams
<1> HIDE DEF d
<1>8. Decreasing(Aged(toDrive)) /\ \A i \in DOMAIN Aged(toDrive) : Aged(toDrive)[i].age > d.age
  BY <1>1, <1>6, <1>7 DEF AgeInv, Decreasing
<1>9. /\ Decreasing(toDrive')
      /\ \A j \in DOMAIN toDrive' :
           \/ toDrive'[j].age = 0
           \/ j \in DOMAIN toDrive /\ toDrive'[j].age = toDrive[j].age + 1
  BY <1>6, <1>7, <1>8, AddYoungest DEF Send, d
<1>10. Decreasing(socket') /\ Decreasing(toController') /\ Above(socket', toController')
  <2>1. Decreasing(socket')
    BY <1>1, <1>3, <1>4 DEF AgeInv, Decreasing
  <2>2. Decreasing(toController')
    BY <1>1, <1>5 DEF AgeInv, Decreasing
  <2>3. Above(socket', toController')
    BY <1>1, <1>3, <1>4, <1>5 DEF AgeInv, Above
  <2> QED
    BY <2>1, <2>2, <2>3
<1>11. Above(socket', toDrive') /\ Above(toController', toDrive')
  <2>1. Above(socket, toDrive) /\ Above(toController, toDrive)
    BY DEF AgeInv
  <2>2. /\ \A i \in DOMAIN socket : socket[i].age >= 0
        /\ \A i \in DOMAIN toController : toController[i].age >= 0
    BY DEF AgeInv
  <2>3. Above(socket', toDrive')
    <3> SUFFICES ASSUME NEW i \in DOMAIN socket', NEW j \in DOMAIN toDrive'
                 PROVE  socket'[i].age > toDrive'[j].age
      BY DEF Above
    <3>1. i \in DOMAIN socket /\ socket'[i].age = socket[i].age + 1
      BY <1>3, <1>4
    <3>2. CASE toDrive'[j].age = 0
      BY <1>1, <2>2, <3>1, <3>2
    <3>3. CASE j \in DOMAIN toDrive /\ toDrive'[j].age = toDrive[j].age + 1
      <4>1. socket[i].age > toDrive[j].age
        BY <2>1, <3>1, <3>3 DEF Above
      <4> QED
        BY <1>1, <3>1, <3>3, <4>1
    <3> QED
      BY <1>9, <3>2, <3>3
  <2>4. Above(toController', toDrive')
    <3> SUFFICES ASSUME NEW i \in DOMAIN toController', NEW j \in DOMAIN toDrive'
                 PROVE  toController'[i].age > toDrive'[j].age
      BY DEF Above
    <3>1. i \in DOMAIN toController /\ toController'[i].age = toController[i].age + 1
      BY <1>5
    <3>2. CASE toDrive'[j].age = 0
      BY <1>1, <2>2, <3>1, <3>2
    <3>3. CASE j \in DOMAIN toDrive /\ toDrive'[j].age = toDrive[j].age + 1
      <4>1. toController[i].age > toDrive[j].age
        BY <2>1, <3>1, <3>3 DEF Above
      <4> QED
        BY <1>1, <3>1, <3>3, <4>1
    <3> QED
      BY <1>9, <3>2, <3>3
  <2> QED
    BY <2>3, <2>4
<1>12. NoOlder(socket', lates) /\ NoOlder(toController', lates) /\ NoOlder(toDrive', lates)
  <2>1. NoOlder(socket', lates)
    BY <1>1, <1>3, <1>4 DEF AgeInv, NoOlder
  <2>2. NoOlder(toController', lates)
    BY <1>1, <1>5 DEF AgeInv, NoOlder
  <2>3. NoOlder(toDrive', lates)
    BY <1>1, <1>9 DEF AgeInv, NoOlder
  <2> QED
    BY <2>1, <2>2, <2>3
<1>13. /\ \A i \in DOMAIN toDrive' : toDrive'[i].age >= 0
       /\ \A i \in DOMAIN toController' : toController'[i].age >= 0
       /\ \A i \in DOMAIN socket' : socket'[i].age >= 0
  BY <1>1, <1>3, <1>4, <1>5, <1>9 DEF AgeInv
<1> QED
  BY <1>9, <1>10, <1>11, <1>12, <1>13 DEF AgeInv

\* The rest of the requests and answers, wherever they are, are as they were.
LEMMA AgesInit == Init => AgeInv
BY DEF Init, AgeInv, Decreasing, Above, NoOlder

LEMMA AgesStep == Typed /\ AgeInv /\ [Next]_vars => AgeInv'
<1> SUFFICES ASSUME Typed, AgeInv, [Next]_vars
             PROVE  AgeInv'
  OBVIOUS
<1> DEFINE W == Words \cup {NoValue}
<1>0. /\ \A i \in DOMAIN socket : socket[i].age \in Int
      /\ \A i \in DOMAIN toController : toController[i].age \in Int
      /\ \A i \in DOMAIN toDrive : toDrive[i].age \in Int
      /\ lates \in Nat
  BY Ordered
<1>1. CASE Connect
  <2>1. Check \in Requests
    BY DEF Check, Requests, Commands, NoValue
  <2> QED
    BY <1>1, <2>1, SendKeepsAges DEF Connect, faults
<1>2. CASE SendRequest
  <2>1. [flags |-> flags, command |-> command, all |-> TRUE] \in Requests
    BY DEF Requests, Typed
  <2> QED
    BY <1>2, <2>1, SendKeepsAges DEF SendRequest, faults
<1>3. CASE Receive
  <2>1. /\ link \in {"probing", "waiting"} /\ link' = "idle"
        /\ socket # <<>> /\ socket' = Tail(socket)
        /\ UNCHANGED <<toDrive, toController, lates>>
    BY <1>3 DEF Receive, faults
  <2>2. /\ Decreasing(Tail(socket))
        /\ 1 \in DOMAIN socket
        /\ \A j \in DOMAIN Tail(socket) : j + 1 \in DOMAIN socket /\ Tail(socket)[j] = socket[j + 1]
        /\ \A j \in DOMAIN Tail(socket) : socket[1].age > Tail(socket)[j].age
    BY <2>1, TakeOldest DEF Typed, AgeInv
  <2>3. socket[1].age <= lates
    BY <2>1, <2>2 DEF AgeInv, NoOlder
  <2>4. /\ NoOlder(socket', lates - 1) /\ NoOlder(toController, lates - 1)
        /\ NoOlder(toDrive, lates - 1)
    BY <1>0, <2>1, <2>2, <2>3 DEF AgeInv, NoOlder, Above
  <2>5. Above(socket', toController) /\ Above(socket', toDrive)
    BY <2>1, <2>2 DEF AgeInv, Above
  <2>6. \A i \in DOMAIN socket' : socket'[i].age >= 0
    BY <2>1, <2>2 DEF AgeInv
  <2> QED
    BY <2>1, <2>2, <2>4, <2>5, <2>6 DEF AgeInv, Decreasing, Above, NoOlder
<1>4. CASE AnswerIsLost
  <2>1. UNCHANGED <<socket, toDrive, toController, lates>>
    BY <1>4 DEF AnswerIsLost, Disconnect, netVars, faults
  <2>2. socket = <<>> /\ toDrive = <<>> /\ toController = <<>>
    BY <1>4 DEF AnswerIsLost, Disconnect
  <2> QED
    BY <2>1, <2>2 DEF AgeInv, Decreasing, Above, NoOlder
<1>5. CASE AnswerIsLate
  <2>1. /\ UNCHANGED <<socket, toDrive, toController>>
        /\ lates' = lates + 1
        /\ link \notin {"idle", "down"} /\ link' = "down"
    BY <1>5 DEF AnswerIsLate, Disconnect, netVars
  <2> QED
    BY <1>0, <2>1 DEF AgeInv, Decreasing, Above, NoOlder
<1>6. CASE Change
  BY <1>6 DEF Change, AgeInv, netVars, faults, Decreasing, Above, NoOlder
<1>7. CASE Answer
  <2>1. /\ toDrive # <<>> /\ toDrive' = Tail(toDrive)
        /\ UNCHANGED <<link, socket, lates>>
    BY <1>7 DEF Answer, threadVars, faults
  <2>2. PICK w \in W : toController' = Append(toController, Datagram(w, Head(toDrive).age))
    <3>1. drive' \in [on : BOOLEAN, command : Commands]
      BY TypedStep DEF Typed
    <3> QED
      BY <1>7, <3>1, DriveAnswers DEF Answer
  <2> DEFINE d == Datagram(w, Head(toDrive).age)
  <2>3. /\ Decreasing(Tail(toDrive))
        /\ Head(toDrive) = toDrive[1] /\ 1 \in DOMAIN toDrive
        /\ \A j \in DOMAIN Tail(toDrive) : j + 1 \in DOMAIN toDrive /\ Tail(toDrive)[j] = toDrive[j + 1]
        /\ \A j \in DOMAIN Tail(toDrive) : toDrive[1].age > Tail(toDrive)[j].age
    BY <2>1, TakeOldest DEF Typed, AgeInv
  <2>4. d \in Datagrams(W) /\ d.age = toDrive[1].age
    BY <1>0, <2>3 DEF Datagram, Datagrams
  <2> HIDE DEF d
  <2>5. /\ toController \in Seq(Datagrams(W)) /\ Decreasing(toController)
        /\ \A i \in DOMAIN toController : toController[i].age > d.age
    BY <2>3, <2>4 DEF Typed, AgeInv, Above
  <2>6. toController' = Append(toController, d)
    BY <2>2 DEF d
  <2>7. /\ Decreasing(toController')
        /\ \A j \in DOMAIN toController' :
             toController'[j] = d \/ (j \in DOMAIN toController /\ toController'[j] = toController[j])
    BY <2>4, <2>5, <2>6, AddYoungest
  <2>8. /\ Above(socket, toController') /\ Above(socket, toDrive')
        /\ Above(toController', toDrive')
    BY <2>1, <2>3, <2>4, <2>7 DEF AgeInv, Above
  <2>9. \A bound : NoOlder(toController, bound) /\ NoOlder(toDrive, bound)
                     => NoOlder(toController', bound) /\ NoOlder(toDrive', bound)
    BY <2>1, <2>3, <2>4, <2>7 DEF NoOlder
  <2>10. /\ \A i \in DOMAIN toDrive' : toDrive'[i].age >= 0
         /\ \A i \in DOMAIN toController' : toController'[i].age >= 0
    BY <2>1, <2>3, <2>4, <2>7 DEF AgeInv
  <2> QED
    BY <2>1, <2>3, <2>7, <2>8, <2>9, <2>10 DEF AgeInv, Decreasing, NoOlder
<1>8. CASE Arrive
  <2>1. /\ toController # <<>> /\ toController' = Tail(toController)
        /\ UNCHANGED <<link, toDrive, lates>>
        /\ socket' \in {socket, Append(socket, Head(toController))}
    BY <1>8 DEF Arrive, threadVars, faults
  <2> DEFINE d == Head(toController)
  <2>2. /\ Decreasing(Tail(toController))
        /\ d = toController[1] /\ 1 \in DOMAIN toController
        /\ \A j \in DOMAIN Tail(toController) :
             j + 1 \in DOMAIN toController /\ Tail(toController)[j] = toController[j + 1]
        /\ \A j \in DOMAIN Tail(toController) : toController[1].age > Tail(toController)[j].age
    BY <2>1, TakeOldest DEF Typed, AgeInv
  <2>3. d \in Datagrams(W)
    BY <2>1, HeadTailProperties DEF Typed
  <2> HIDE DEF d
  <2>4. /\ socket \in Seq(Datagrams(W)) /\ Decreasing(socket)
        /\ \A i \in DOMAIN socket : socket[i].age > d.age
    BY <2>2 DEF Typed, AgeInv, Above
  <2>5. /\ Decreasing(socket')
        /\ \A j \in DOMAIN socket' :
             socket'[j] = d \/ (j \in DOMAIN socket /\ socket'[j] = socket[j])
    <3>1. CASE socket' = socket
      BY <2>4, <3>1 DEF Decreasing
    <3>2. CASE socket' = Append(socket, d)
      BY <2>3, <2>4, <3>2, AddYoungest
    <3> QED
      BY <2>1, <3>1, <3>2 DEF d
  <2>6. /\ Above(socket', toController') /\ Above(socket', toDrive)
        /\ Above(toController', toDrive)
    BY <2>1, <2>2, <2>5 DEF AgeInv, Above
  <2>7. \A bound : NoOlder(toController, bound) /\ NoOlder(socket, bound)
                     => NoOlder(toController', bound) /\ NoOlder(socket', bound)
    BY <2>1, <2>2, <2>5 DEF NoOlder
  <2>8. /\ \A i \in DOMAIN socket' : socket'[i].age >= 0
        /\ \A i \in DOMAIN toController' : toController'[i].age >= 0
    BY <2>1, <2>2, <2>5 DEF AgeInv
  <2> QED
    BY <2>1, <2>2, <2>5, <2>6, <2>7, <2>8 DEF AgeInv, Decreasing, NoOlder, Above
<1>9. CASE Lose
  <2>1. UNCHANGED <<link, socket, lates>>
    BY <1>9 DEF Lose, threadVars
  <2>2. CASE toDrive # <<>> /\ toDrive' = Tail(toDrive) /\ UNCHANGED toController
    <3>1. /\ Decreasing(Tail(toDrive))
          /\ \A j \in DOMAIN Tail(toDrive) : j + 1 \in DOMAIN toDrive /\ Tail(toDrive)[j] = toDrive[j + 1]
      BY <2>2, TakeOldest DEF Typed, AgeInv
    <3> QED
      BY <2>1, <2>2, <3>1 DEF AgeInv, Decreasing, Above, NoOlder
  <2>3. CASE toController # <<>> /\ toController' = Tail(toController) /\ UNCHANGED toDrive
    <3>1. /\ Decreasing(Tail(toController))
          /\ \A j \in DOMAIN Tail(toController) :
               j + 1 \in DOMAIN toController /\ Tail(toController)[j] = toController[j + 1]
      BY <2>3, TakeOldest DEF Typed, AgeInv
    <3> QED
      BY <2>1, <2>3, <3>1 DEF AgeInv, Decreasing, Above, NoOlder
  <2> QED
    BY <1>9, <2>2, <2>3 DEF Lose
<1>10. CASE UNCHANGED vars
  BY <1>10 DEF vars, threadVars, netVars, faults, AgeInv, Decreasing, Above, NoOlder
<1> QED
  BY <1>1, <1>2, <1>3, <1>4, <1>5, <1>6, <1>7, <1>8, <1>9, <1>10 DEF Next

\* Whatever is lost or late, and however often, the thread computes from the answer
\* to one of its last requests: each answer that came too late accounts for one
\* request at most (drive.rs, Connection::new, send_request).
THEOREM BoundedLag == Spec => LagIsBounded
<1>1. Typed /\ AgeInv /\ [Next]_vars
        => [link = "waiting" /\ Receive => Head(socket).age <= lates]_vars
  <2> SUFFICES ASSUME Typed, AgeInv, link = "waiting", Receive
               PROVE  Head(socket).age <= lates
    OBVIOUS
  <2>1. Head(socket) = socket[1] /\ 1 \in DOMAIN socket
    BY TakeOldest DEF Receive, Typed, AgeInv
  <2> QED
    BY <2>1 DEF AgeInv, NoOlder
<1> QED
  BY <1>1, TypedInit, TypedStep, AgesInit, AgesStep, PTL DEF Spec, LagIsBounded

----------------------------------------------------------------------------
(* What is put on the wire is found there.                                 *)

\* What holds at 0 and goes on to the next number holds up to the last one.
LEMMA UpTo ==
  ASSUME NEW N \in Nat, NEW R, 0 \in R,
         \A n \in 1..N : n - 1 \in R => n \in R
  PROVE  0..N \subseteq R
<1> DEFINE Bad == {n \in 0..N : n \notin R}
<1>1. SUFFICES ASSUME Bad # {} PROVE FALSE
  OBVIOUS
<1>2. Bad \subseteq Nat
  OBVIOUS
<1> HIDE DEF Bad
<1>3. PICK n \in Bad : \A k \in Bad : <<k, n>> \notin OpToRel(<, Nat)
  BY <1>1, <1>2, NatLessThanWellFounded, WFMin
<1>4. \A k, l \in Nat : k < l => <<k, l>> \in OpToRel(<, Nat)
  BY DEF OpToRel
<1>5. n \in Nat /\ \A k \in Bad : ~(k < n)
  BY <1>2, <1>3, <1>4
<1>6. n \in 1..N /\ n \notin R
  BY <1>5 DEF Bad
<1>7. n - 1 \in Bad
  BY <1>6 DEF Bad
<1> QED
  BY <1>5, <1>6, <1>7

Wire == Seq(Int)

\* The order has these parts first, and then parts that the datagram does not have.
Leading(order, values, m) ==
  /\ Len(order) \in Nat
  /\ m \in 0..Len(order)
  /\ \A n \in 1..Len(order) : order[n] \in DOMAIN values <=> n <= m
  /\ \A n \in 1..m : /\ Width(order[n]) \in Nat
                     /\ Encoded(order[n], values[order[n]]) \in Wire
                     /\ Len(Encoded(order[n], values[order[n]])) = Width(order[n])

\* What the parts up to each one of them are as words.
Courses(order, values, m) ==
  {f \in [0..m -> Wire] :
     /\ f[0] = <<>>
     /\ \A n \in 1..m : f[n] = f[n - 1] \o Encoded(order[n], values[order[n]])}

LEMMA PutParts ==
  ASSUME NEW order, NEW values, NEW m, Leading(order, values, m)
  PROVE  \E f \in Courses(order, values, m) : Put(order, values) = f[m]
<1> DEFINE N == Len(order)
           Code(n) == Encoded(order[n], values[order[n]])
           Reach == {n \in 0..m : Courses(order, values, n) # {}}
           Step(f) == [n \in 0..N |-> IF n = 0 THEN <<>>
                                      ELSE IF order[n] \in DOMAIN values
                                           THEN f[n - 1] \o Code(n) ELSE f[n - 1]]
<1>1. /\ N \in Nat /\ m \in 0..N /\ m \in Nat
      /\ \A n \in 1..N : order[n] \in DOMAIN values <=> n <= m
      /\ \A n \in 1..m : Code(n) \in Wire
  BY DEF Leading
<1>2. Put(order, values) = (CHOOSE f : f = Step(f))[N]
  BY DEF Put
<1> HIDE DEF N, Code
<1>3. 0 \in Reach
  <2>1. [i \in 0..0 |-> <<>>] \in Courses(order, values, 0)
    BY DEF Courses, Wire
  <2> QED
    BY <1>1, <2>1
<1>4. ASSUME NEW n \in 1..m, n - 1 \in Reach
      PROVE  n \in Reach
  <2>1. PICK g : g \in Courses(order, values, n - 1)
    BY <1>4
  <2>2. /\ g \in [0..(n - 1) -> Wire] /\ g[0] = <<>>
        /\ \A i \in 1..(n - 1) : g[i] = g[i - 1] \o Code(i)
    BY <2>1 DEF Courses, Code
  <2> DEFINE h == [i \in 0..n |-> IF i = n THEN g[n - 1] \o Code(n) ELSE g[i]]
  <2>3. g[n - 1] \in Wire /\ Code(n) \in Wire
    BY <1>1, <2>2
  <2>4. g[n - 1] \o Code(n) \in Wire
    BY <2>3, ConcatProperties DEF Wire
  <2>5. h \in [0..n -> Wire]
    BY <1>1, <2>2, <2>4
  <2>6. h[0] = <<>>
    BY <1>1, <2>2
  <2>7. ASSUME NEW i \in 1..n
        PROVE  h[i] = h[i - 1] \o Code(i)
    <3>1. i \in 0..n /\ i - 1 \in 0..n /\ i - 1 # n
      BY <1>1
    <3>2. h[i - 1] = g[i - 1]
      BY <3>1
    <3>3. CASE i = n
      BY <3>1, <3>2, <3>3
    <3>4. CASE i # n
      <4>1. i \in 1..(n - 1)
        BY <1>1, <3>4
      <4> QED
        BY <2>2, <3>1, <3>2, <3>4, <4>1
    <3> QED
      BY <3>3, <3>4
  <2>8. h \in Courses(order, values, n)
    BY <2>5, <2>6, <2>7 DEF Courses, Code
  <2> HIDE DEF h
  <2> QED
    BY <1>1, <2>8
<1>5. PICK f : f \in Courses(order, values, m)
  <2> HIDE DEF Reach
  <2>1. 0..m \subseteq Reach
    BY <1>1, <1>3, <1>4, UpTo
  <2> QED
    BY <1>1, <2>1 DEF Reach
<1>6. /\ f \in [0..m -> Wire] /\ f[0] = <<>>
      /\ \A n \in 1..m : f[n] = f[n - 1] \o Code(n)
  BY <1>5 DEF Courses, Code
<1> DEFINE all == [n \in 0..N |-> IF n <= m THEN f[n] ELSE f[m]]
<1>7. all = Step(all)
  <2>1. ASSUME NEW n \in 0..N
        PROVE  all[n] = Step(all)[n]
    <3>1. CASE n = 0
      BY <1>1, <1>6, <3>1
    <3>2. CASE n \in 1..m
      <4>1. order[n] \in DOMAIN values /\ n - 1 \in 0..N /\ n - 1 <= m /\ n <= m /\ n # 0
        BY <1>1, <3>2
      <4> QED
        BY <1>6, <3>2, <4>1
    <3>3. CASE n > m
      <4>1. order[n] \notin DOMAIN values /\ n - 1 \in 0..N /\ ~(n <= m) /\ n # 0
        BY <1>1, <3>3
      <4>2. all[n - 1] = f[m]
        BY <1>1, <3>3, <4>1
      <4> QED
        BY <4>1, <4>2
    <3> QED
      BY <1>1, <3>1, <3>2, <3>3
  <2> QED
    BY <2>1
<1> HIDE DEF all
<1> DEFINE put == CHOOSE g : g = Step(g)
<1>8. put = Step(put)
  <2> HIDE DEF Step
  <2> QED
    BY <1>7
<1> HIDE DEF put
<1> DEFINE Same == {n \in 0..N : put[n] = all[n]}
<1>9. 0 \in Same
  BY <1>1, <1>7, <1>8
<1>10. ASSUME NEW n \in 1..N, n - 1 \in Same
       PROVE  n \in Same
  <2>1. n \in 0..N /\ n # 0 /\ n - 1 \in 0..N
    BY <1>1
  <2>2. put[n] = IF order[n] \in DOMAIN values THEN put[n - 1] \o Code(n) ELSE put[n - 1]
    BY <1>8, <2>1
  <2>3. all[n] = IF order[n] \in DOMAIN values THEN all[n - 1] \o Code(n) ELSE all[n - 1]
    BY <1>7, <2>1
  <2> QED
    BY <1>10, <2>1, <2>2, <2>3
<1>11. N \in Same
  <2> HIDE DEF Same
  <2>1. 0..N \subseteq Same
    BY <1>1, <1>9, <1>10, UpTo
  <2> QED
    BY <1>1, <2>1
<1>12. all[N] = f[m]
  BY <1>1 DEF all
<1> QED
  BY <1>2, <1>5, <1>11, <1>12 DEF put

\* The parts follow one another.
LEMMA PartsFollow ==
  ASSUME NEW order, NEW values, NEW m, Leading(order, values, m),
         NEW f \in Courses(order, values, m)
  PROVE  /\ \A n \in 0..m : f[n] \in Wire /\ Len(f[n]) \in Nat
         /\ Len(f[0]) = 0
         /\ \A n \in 1..m : Len(f[n]) = Len(f[n - 1]) + Width(order[n])
         /\ \A n \in 1..m : \A i \in 1..Len(f[n]) :
              f[n][i] = IF i <= Len(f[n - 1]) THEN f[n - 1][i]
                        ELSE Encoded(order[n], values[order[n]])[i - Len(f[n - 1])]
<1>1. /\ f \in [0..m -> Wire] /\ f[0] = <<>>
      /\ \A n \in 1..m : f[n] = f[n - 1] \o Encoded(order[n], values[order[n]])
  BY DEF Courses
<1>2. \A n \in 0..m : f[n] \in Wire /\ Len(f[n]) \in Nat
  BY <1>1, LenProperties DEF Wire
<1>3. Len(f[0]) = 0
  BY <1>1
<1>4. ASSUME NEW n \in 1..m
      PROVE  /\ Len(f[n]) = Len(f[n - 1]) + Width(order[n])
             /\ \A i \in 1..Len(f[n]) :
                  f[n][i] = IF i <= Len(f[n - 1]) THEN f[n - 1][i]
                            ELSE Encoded(order[n], values[order[n]])[i - Len(f[n - 1])]
  <2> DEFINE before == f[n - 1]
             code == Encoded(order[n], values[order[n]])
  <2>1. n - 1 \in 0..m /\ m \in Int
    BY DEF Leading
  <2>2. before \in Wire /\ code \in Wire /\ Len(code) = Width(order[n])
    BY <1>2, <2>1 DEF Leading
  <2>3. f[n] = before \o code
    BY <1>1
  <2> HIDE DEF before, code
  <2>4. /\ Len(before \o code) = Len(before) + Len(code)
        /\ \A i \in 1..(Len(before) + Len(code)) :
             (before \o code)[i] = IF i <= Len(before) THEN before[i]
                                   ELSE code[i - Len(before)]
    BY <2>2, ConcatProperties DEF Wire
  <2> QED
    BY <2>2, <2>3, <2>4 DEF before, code
<1> QED
  BY <1>2, <1>3, <1>4

\* What is put first is not changed by what follows.
LEMMA PartsRemain ==
  ASSUME NEW order, NEW values, NEW m, Leading(order, values, m),
         NEW f \in Courses(order, values, m), NEW n \in 0..m
  PROVE  /\ Len(f[n]) <= Len(f[m])
         /\ \A i \in 1..Len(f[n]) : f[m][i] = f[n][i]
<1> DEFINE Kept(k) == /\ Len(f[n]) <= Len(f[k])
                      /\ \A i \in 1..Len(f[n]) : f[k][i] = f[n][i]
           Reach == {k \in 0..m : n <= k => Kept(k)}
<1>1. /\ m \in Nat
      /\ \A k \in 0..m : Len(f[k]) \in Nat
      /\ \A k \in 1..m : /\ Len(f[k]) = Len(f[k - 1]) + Width(order[k])
                         /\ Width(order[k]) \in Nat
                         /\ \A i \in 1..Len(f[k]) :
                              i <= Len(f[k - 1]) => f[k][i] = f[k - 1][i]
  <2>1. m \in Nat /\ \A k \in 1..m : Width(order[k]) \in Nat
    BY DEF Leading
  <2>2. /\ \A k \in 0..m : Len(f[k]) \in Nat
        /\ \A k \in 1..m : Len(f[k]) = Len(f[k - 1]) + Width(order[k])
    BY PartsFollow
  <2>3. \A k \in 1..m : \A i \in 1..Len(f[k]) :
          i <= Len(f[k - 1]) => f[k][i] = f[k - 1][i]
    BY PartsFollow
  <2> QED
    BY <2>1, <2>2, <2>3
<1>2. 0 \in Reach
  BY <1>1
<1>3. ASSUME NEW k \in 1..m, k - 1 \in Reach
      PROVE  k \in Reach
  <2>1. CASE n <= k - 1
    <3>1. Kept(k - 1) /\ k - 1 \in 0..m /\ k \in 0..m
      BY <1>1, <1>3, <2>1
    <3>2. Len(f[k - 1]) <= Len(f[k]) /\ Len(f[k - 1]) \in Nat /\ Len(f[k]) \in Nat
          /\ Len(f[n]) \in Nat
      BY <1>1, <3>1
    <3>3. \A i \in 1..Len(f[n]) : i \in 1..Len(f[k]) /\ i <= Len(f[k - 1])
      BY <3>1, <3>2
    <3>4. Kept(k)
      BY <1>1, <3>1, <3>2, <3>3
    <3> QED
      BY <3>1, <3>4
  <2>2. CASE ~(n <= k - 1)
    BY <1>1, <2>2
  <2> QED
    BY <2>1, <2>2
<1>4. m \in Reach
  <2> HIDE DEF Reach
  <2>1. 0..m \subseteq Reach
    BY <1>1, <1>2, <1>3, UpTo
  <2> QED
    BY <1>1, <2>1
<1> QED
  BY <1>1, <1>4

\* A reader that knows which parts there are finds all of them and nothing else.
LEMMA GetParts ==
  ASSUME NEW order, NEW values, NEW m, Leading(order, values, m),
         NEW f \in Courses(order, values, m)
  PROVE  Get(order, DOMAIN values, f[m]) =
           [at |-> Len(f[m]),
            found |-> [i \in 1..m |-> <<order[i],
                                       Decoded(order[i], Encoded(order[i], values[order[i]]))>>],
            underflow |-> FALSE]
<1> DEFINE N == Len(order)
           words == f[m]
           Code(n) == Encoded(order[n], values[order[n]])
           Entry(n) == <<order[n], Decoded(order[n], Code(n))>>
           PartsRead(n) == IF n <= m THEN n ELSE m
           SoFar(n) == [at |-> Len(f[PartsRead(n)]), found |-> [i \in 1..PartsRead(n) |-> Entry(i)],
                         underflow |-> FALSE]
           First == [at |-> 0, found |-> <<>>, underflow |-> FALSE]
           Reads(r, n) == ReadOpt(r, order[n], DOMAIN values, words)
           Step(g) == [n \in 0..N |-> IF n = 0 THEN First ELSE Reads(g[n - 1], n)]
           all == [n \in 0..N |-> SoFar(n)]
<1>1. /\ N \in Nat /\ m \in 0..N /\ m \in Nat
      /\ \A n \in 1..N : order[n] \in DOMAIN values <=> n <= m
      /\ \A n \in 1..m : Code(n) \in Wire /\ Len(Code(n)) = Width(order[n])
                         /\ Width(order[n]) \in Nat
  BY DEF Leading
<1>2. /\ \A n \in 0..m : f[n] \in Wire /\ Len(f[n]) \in Nat /\ Len(f[n]) <= Len(words)
      /\ Len(f[0]) = 0
      /\ \A n \in 1..m : Len(f[n]) = Len(f[n - 1]) + Width(order[n])
  BY PartsFollow, PartsRemain
<1>3. ASSUME NEW n \in 1..m
      PROVE  SubSeq(words, Len(f[n - 1]) + 1, Len(f[n])) = Code(n)
  <2> DEFINE low == Len(f[n - 1])
             cut == SubSeq(words, low + 1, Len(f[n]))
  <2>1. /\ n \in 0..m /\ n - 1 \in 0..m /\ m \in 0..m
        /\ low \in Nat /\ Len(f[n]) \in Nat /\ Width(order[n]) \in Nat
        /\ Len(f[n]) = low + Width(order[n])
        /\ words \in Wire /\ Len(words) \in Nat /\ Len(f[n]) <= Len(words)
    BY <1>1, <1>2
  <2>2. \A i \in 1..Len(f[n]) : words[i] = f[n][i]
    BY <2>1, PartsRemain
  <2>3. \A i \in 1..Len(f[n]) : ~(i <= low) => f[n][i] = Code(n)[i - low]
    BY PartsFollow
  <2> HIDE DEF low, words, Code
  <2>4. /\ cut = [i \in 1..Width(order[n]) |-> words[i + low]]
    BY <2>1 DEF Wire
  <2>5. \A i \in 1..Width(order[n]) : words[i + low] = Code(n)[i]
    <3> SUFFICES ASSUME NEW i \in 1..Width(order[n])
                 PROVE  words[i + low] = Code(n)[i]
      OBVIOUS
    <3>1. i + low \in 1..Len(f[n]) /\ ~(i + low <= low) /\ (i + low) - low = i
      BY <2>1
    <3> QED
      BY <2>2, <2>3, <3>1
  <2>6. Code(n) = [i \in 1..Width(order[n]) |-> Code(n)[i]]
    BY <1>1, LenProperties DEF Wire
  <2>7. cut = Code(n)
    BY <2>4, <2>5, <2>6
  <2> QED
    BY <2>7 DEF low
<1>4. ASSUME NEW n \in 1..N
      PROVE  SoFar(n) = Reads(SoFar(n - 1), n)
  <2>1. CASE n <= m
    <3>1. n \in 1..m /\ PartsRead(n) = n /\ PartsRead(n - 1) = n - 1 /\ n - 1 \in 0..m /\ n \in 0..m
      BY <1>1, <2>1
    <3> DEFINE low == Len(f[n - 1])
               old == [i \in 1..(n - 1) |-> Entry(i)]
               new == [i \in 1..n |-> Entry(i)]
    <3>2. SoFar(n - 1) = [at |-> low, found |-> old, underflow |-> FALSE]
      BY <3>1
    <3>3. SoFar(n) = [at |-> Len(f[n]), found |-> new, underflow |-> FALSE]
      BY <3>1
    <3>4. /\ order[n] \in DOMAIN values
          /\ Len(f[n]) = low + Width(order[n]) /\ ~(low + Width(order[n]) > Len(words))
          /\ SubSeq(words, low + 1, low + Width(order[n])) = Code(n)
      <4>1. order[n] \in DOMAIN values
        BY <1>1, <2>1
      <4>2. /\ Len(f[n]) = low + Width(order[n]) /\ Len(f[n]) <= Len(words)
            /\ Len(f[n]) \in Nat /\ Len(words) \in Nat
        BY <1>1, <1>2, <3>1
      <4>3. SubSeq(words, low + 1, Len(f[n])) = Code(n)
        BY <1>3, <3>1
      <4> HIDE DEF low, words, Code
      <4> QED
        BY <4>1, <4>2, <4>3
    <3>5. Append(old, Entry(n)) = new
      <4> DEFINE Entries == {Entry(i) : i \in 1..n}
      <4>1. n \in Nat \ {0} /\ \A i \in 1..n : Entry(i) \in Entries
        BY <3>1
      <4> HIDE DEF Entry, Entries
      <4>2. old \in [1..(n - 1) -> Entries] /\ n - 1 \in Nat /\ Entry(n) \in Entries
        BY <4>1
      <4>3. old \in Seq(Entries)
        BY <4>2, SeqDef
      <4>4. Len(old) = n - 1
        BY <4>2, <4>3, LenProperties
      <4>5. /\ Append(old, Entry(n)) \in Seq(Entries)
            /\ Len(Append(old, Entry(n))) = n
            /\ \A i \in 1..(n - 1) : Append(old, Entry(n))[i] = old[i]
            /\ Append(old, Entry(n))[n] = Entry(n)
        BY <4>1, <4>2, <4>3, <4>4, AppendProperties
      <4>6. Append(old, Entry(n)) = [i \in 1..n |-> Append(old, Entry(n))[i]]
        BY <4>5, LenProperties
      <4>7. \A i \in 1..n : Append(old, Entry(n))[i] = Entry(i)
        BY <4>1, <4>5
      <4> QED
        BY <4>6, <4>7
    <3> HIDE DEF old, new, low, words, Code
    <3>6. Reads([at |-> low, found |-> old, underflow |-> FALSE], n)
            = [at |-> Len(f[n]), found |-> new, underflow |-> FALSE]
      BY <3>4, <3>5 DEF ReadOpt
    <3> QED
      BY <3>2, <3>3, <3>6
  <2>2. CASE ~(n <= m)
    <3>1. PartsRead(n) = m /\ PartsRead(n - 1) = m /\ order[n] \notin DOMAIN values
      BY <1>1, <2>2
    <3>2. SoFar(n) = SoFar(n - 1)
      BY <3>1
    <3> QED
      BY <3>1, <3>2 DEF ReadOpt
  <2> QED
    BY <2>1, <2>2
<1>5. SoFar(0) = First
  <2>1. PartsRead(0) = 0
    BY <1>1
  <2>2. [i \in 1..PartsRead(0) |-> Entry(i)] = <<>>
    BY <2>1
  <2> QED
    BY <1>2, <2>1, <2>2
<1>6. Get(order, DOMAIN values, words) = (CHOOSE g : g = Step(g))[N]
  BY DEF Get
<1>7. SoFar(m) = [at |-> Len(words), found |-> [i \in 1..m |-> Entry(i)],
                   underflow |-> FALSE] /\ SoFar(N) = SoFar(m)
  <2>1. PartsRead(m) = m /\ PartsRead(N) = m
    BY <1>1
  <2> QED
    BY <2>1
<1> HIDE DEF SoFar, First, Reads, words, N
<1>8. all = Step(all)
  <2>1. ASSUME NEW n \in 0..N
        PROVE  all[n] = Step(all)[n]
    <3>1. CASE n = 0
      BY <1>1, <1>5, <3>1
    <3>2. CASE n # 0
      <4>1. n \in 1..N /\ n - 1 \in 0..N
        BY <1>1, <3>2
      <4> QED
        BY <1>4, <3>2, <4>1
    <3> QED
      BY <3>1, <3>2
  <2> QED
    BY <2>1
<1> DEFINE read == CHOOSE g : g = Step(g)
<1>9. read = Step(read)
  <2> HIDE DEF Step
  <2> QED
    BY <1>8
<1> HIDE DEF read
<1> DEFINE Same == {n \in 0..N : read[n] = SoFar(n)}
<1>10. 0 \in Same
  BY <1>1, <1>5, <1>9
<1>11. ASSUME NEW n \in 1..N, n - 1 \in Same
       PROVE  n \in Same
  <2>1. read[n] = Reads(read[n - 1], n)
    BY <1>1, <1>9
  <2> QED
    BY <1>1, <1>4, <1>11, <2>1
<1>12. N \in Same
  <2> HIDE DEF Same
  <2>1. 0..N \subseteq Same
    BY <1>1, <1>10, <1>11, UpTo
  <2> QED
    BY <1>1, <2>1
<1> QED
  BY <1>6, <1>7, <1>12 DEF read, words

----------------------------------------------------------------------------
(* Parts, and what they hold.                                              *)

LEMMA RequestOrder ==
  /\ Len(RequestParts) = 3
  /\ RequestParts[1] = "control_flags" /\ RequestParts[2] = "motion_command"
  /\ RequestParts[3] = "realtime_configuration"
BY DEF RequestParts

LEMMA ResponseOrder ==
  /\ Len(ResponseParts) = 9
  /\ ResponseParts[1] = "status_flags" /\ ResponseParts[2] = "state"
  /\ ResponseParts[3] = "actual_position" /\ ResponseParts[4] = "demand_position"
  /\ ResponseParts[5] = "current" /\ ResponseParts[6] = "warning_flags"
  /\ ResponseParts[7] = "error_code" /\ ResponseParts[8] = "monitoring_channel"
  /\ ResponseParts[9] = "realtime_configuration"
BY DEF ResponseParts

LEMMA ResponseWidths ==
  /\ Width(ResponseParts[1]) = 1 /\ Width(ResponseParts[2]) = 1
  /\ Width(ResponseParts[3]) = 2 /\ Width(ResponseParts[4]) = 2
  /\ Width(ResponseParts[5]) = 1 /\ Width(ResponseParts[6]) = 1
  /\ Width(ResponseParts[7]) = 1 /\ Width(ResponseParts[8]) = 8
BY ResponseOrder DEF Width

\* A value fills the words of its part.
LEMMA EncodedValue ==
  ASSUME NEW part, part # "motion_command", Width(part) \in Nat \ {0}, NEW value \in Int
  PROVE  /\ Encoded(part, value) \in Wire
         /\ Len(Encoded(part, value)) = Width(part)
         /\ Decoded(part, Encoded(part, value)) = value
<1> DEFINE code == [i \in 1..Width(part) |-> value]
<1>1. Encoded(part, value) = code
  BY DEF Encoded
<1>2. code \in [1..Width(part) -> Int]
  OBVIOUS
<1>3. code \in Wire /\ Len(code) = Width(part) /\ DOMAIN code = 1..Width(part)
  BY <1>2, SeqDef, LenProperties DEF Wire
<1>4. code[1] = value /\ \A i \in DOMAIN code : code[i] = code[1]
  OBVIOUS
<1> HIDE DEF code
<1> QED
  BY <1>1, <1>3, <1>4 DEF Decoded

\* A motion command of any kind fills its block, and its header comes first.
LEMMA EncodedCommand ==
  ASSUME NEW c, c.kind \in Kinds, c.count \in Int
  PROVE  /\ Encoded("motion_command", c) \in Wire
         /\ Len(Encoded("motion_command", c)) = 16
         /\ Decoded("motion_command", Encoded("motion_command", c))
              = Header(c.kind, c.count)
<1> DEFINE P == Parameters(c.kind)
           head == <<Header(c.kind, c.count)>>
           middle == [i \in 1..2 * P |-> 1]
           rest == [i \in 1..Padding(c.kind) |-> 0]
<1>1. P \in 0..5
  BY DEF Parameters, Kinds, CommandId
<1>2. Padding(c.kind) = 15 - 2 * P /\ Padding(c.kind) \in Nat /\ 2 * P \in Nat
  BY <1>1 DEF Padding, Width
<1>3. Header(c.kind, c.count) \in Int
  <2>1. CommandId[c.kind] \in Int
    BY DEF Kinds, CommandId
  <2> QED
    BY <2>1 DEF Header
<1>4. Encoded("motion_command", c) = (head \o middle) \o rest
  BY DEF Encoded, Block
<1> HIDE DEF P
<1>5. head \in Wire /\ Len(head) = 1 /\ head[1] = Header(c.kind, c.count)
  BY <1>3 DEF Wire
<1>6. middle \in Wire /\ Len(middle) = 2 * P
  <2>1. middle \in [1..2 * P -> Int]
    BY <1>2
  <2> QED
    BY <1>2, <2>1, SeqDef, LenProperties DEF Wire
<1>7. rest \in Wire /\ Len(rest) = 15 - 2 * P
  <2>1. rest \in [1..Padding(c.kind) -> Int]
    BY <1>2
  <2> QED
    BY <1>2, <2>1, SeqDef, LenProperties DEF Wire
<1> HIDE DEF head, middle, rest
<1>8. /\ head \o middle \in Wire /\ Len(head \o middle) = 1 + 2 * P
      /\ (head \o middle)[1] = head[1]
  <2>1. /\ head \o middle \in Wire /\ Len(head \o middle) = Len(head) + Len(middle)
        /\ \A i \in 1..(Len(head) + Len(middle)) :
             (head \o middle)[i] = IF i <= Len(head) THEN head[i] ELSE middle[i - Len(head)]
    BY <1>5, <1>6, ConcatProperties DEF Wire
  <2>2. 1 \in 1..(Len(head) + Len(middle)) /\ 1 <= Len(head)
    BY <1>2, <1>5, <1>6
  <2> QED
    BY <1>5, <1>6, <2>1, <2>2
<1>9. /\ (head \o middle) \o rest \in Wire /\ Len((head \o middle) \o rest) = 16
      /\ ((head \o middle) \o rest)[1] = head[1]
  BY <1>2, <1>7, <1>8, ConcatProperties DEF Wire
<1> QED
  BY <1>4, <1>5, <1>9 DEF Decoded

LEMMA WishesAreKinds == Wishes \subseteq Kinds
BY DEF Wishes, Kinds, CommandId

\* What a datagram with these parts is, and what is found in it.
LEMMA PartsUnderstood ==
  ASSUME NEW order, NEW values, NEW m, Leading(order, values, m)
  PROVE  /\ Get(order, DOMAIN values, Put(order, values)) =
              [at |-> Len(Put(order, values)),
               found |-> [i \in 1..m |->
                            <<order[i],
                              Decoded(order[i], Encoded(order[i], values[order[i]]))>>],
               underflow |-> FALSE]
         /\ \E l \in [0..m -> Nat] : /\ l[0] = 0 /\ l[m] = Len(Put(order, values))
                                     /\ \A n \in 1..m : l[n] = l[n - 1] + Width(order[n])
<1>1. PICK f \in Courses(order, values, m) : Put(order, values) = f[m]
  BY PutParts
<1>2. /\ \A n \in 0..m : Len(f[n]) \in Nat
      /\ Len(f[0]) = 0
      /\ \A n \in 1..m : Len(f[n]) = Len(f[n - 1]) + Width(order[n])
  BY PartsFollow
<1>3. m \in Nat
  BY DEF Leading
<1> DEFINE l == [n \in 0..m |-> Len(f[n])]
<1>4. /\ l \in [0..m -> Nat] /\ l[0] = 0 /\ l[m] = Len(f[m])
      /\ \A n \in 1..m : l[n] = l[n - 1] + Width(order[n])
  BY <1>2, <1>3
<1>5. Get(order, DOMAIN values, f[m]) =
        [at |-> Len(f[m]),
         found |-> [i \in 1..m |-> <<order[i],
                                    Decoded(order[i], Encoded(order[i], values[order[i]]))>>],
         underflow |-> FALSE]
  BY GetParts
<1> HIDE DEF l
<1> QED
  BY <1>1, <1>4, <1>5

----------------------------------------------------------------------------
(* Requests and responses.                                                 *)

LEMMA RequestUnderstood ==
  ASSUME NEW request \in Requests
  PROVE  LET datagram == ToWire(Parts(request), Asks(request))
             read == DriveReads(datagram)
         IN /\ Fits(datagram)
            /\ read.found = Found(request) /\ read.at = Len(datagram.words)
<1> DEFINE parts == Parts(request)
           m == IF request.flags = NoValue THEN 0 ELSE IF request.command = None THEN 1 ELSE 2
           words == Put(RequestParts, parts)
           Value(i) == <<RequestParts[i], Decoded(RequestParts[i],
                                            Encoded(RequestParts[i], parts[RequestParts[i]]))>>
           datagram == ToWire(parts, Asks(request))
<1>1. request.flags \in Int /\ request.command \in Commands
  BY DEF Requests
<1>2. /\ m \in {0, 1, 2}
      /\ m = 0 => parts = <<>> /\ Found(request) = <<>>
      /\ m = 1 => /\ parts = [control_flags |-> request.flags]
                  /\ Found(request) = <<<<"control_flags", request.flags>>>>
      /\ m = 2 =>
           /\ parts = [control_flags |-> request.flags, motion_command |-> request.command]
           /\ Found(request) =
                <<<<"control_flags", request.flags>>,
                  <<"motion_command", Header(request.command.kind, request.command.count)>>>>
           /\ request.command.kind \in Kinds /\ request.command.count \in Int
  BY <1>1, WishesAreKinds DEF Parts, Found, Commands
<1>3. datagram.flags = DOMAIN parts /\ datagram.words = words
  BY DEF ToWire
<1> HIDE DEF parts, m, datagram
<1>4. m >= 1 => parts["control_flags"] = request.flags
  BY <1>2
<1>5. m = 2 => parts["motion_command"] = request.command
  BY <1>2
<1> DEFINE Suits(i) == /\ Width(RequestParts[i]) \in Nat
                       /\ Encoded(RequestParts[i], parts[RequestParts[i]]) \in Wire
                       /\ Len(Encoded(RequestParts[i], parts[RequestParts[i]]))
                            = Width(RequestParts[i])
<1>6. m >= 1 => /\ Width(RequestParts[1]) = 1 /\ Suits(1)
                /\ Value(1) = <<"control_flags", request.flags>>
  <2>1. Width("control_flags") \in Nat \ {0} /\ Width("control_flags") = 1
    BY DEF Width
  <2>2. /\ Encoded("control_flags", request.flags) \in Wire
        /\ Len(Encoded("control_flags", request.flags)) = Width("control_flags")
        /\ Decoded("control_flags", Encoded("control_flags", request.flags)) = request.flags
    BY <1>1, <2>1, EncodedValue
  <2> QED
    BY <1>4, <2>1, <2>2, RequestOrder
<1>7. m = 2 => /\ Width(RequestParts[2]) = 16 /\ Suits(2)
               /\ Value(2) = <<"motion_command",
                               Header(request.command.kind, request.command.count)>>
  <2>1. Width("motion_command") = 16
    BY DEF Width
  <2>2. m = 2 =>
          /\ Encoded("motion_command", request.command) \in Wire
          /\ Len(Encoded("motion_command", request.command)) = 16
          /\ Decoded("motion_command", Encoded("motion_command", request.command))
               = Header(request.command.kind, request.command.count)
    BY <1>2, EncodedCommand
  <2>3. Width("motion_command") \in Nat
    BY <2>1
  <2> QED
    BY <1>5, <2>1, <2>2, <2>3, RequestOrder
<1>8. Leading(RequestParts, parts, m)
  <2>1. m \in 0..Len(RequestParts)
    BY <1>2, RequestOrder
  <2>2. ASSUME NEW n \in 1..Len(RequestParts)
        PROVE  RequestParts[n] \in DOMAIN parts <=> n <= m
    <3>1. n \in {1, 2, 3}
      BY RequestOrder
    <3>2. DOMAIN parts = IF m = 0 THEN {} ELSE IF m = 1 THEN {"control_flags"}
                         ELSE {"control_flags", "motion_command"}
      BY <1>2
    <3> QED
      BY <1>2, <3>1, <3>2, RequestOrder
  <2>3. ASSUME NEW n \in 1..m
        PROVE  /\ Width(RequestParts[n]) \in Nat
               /\ Encoded(RequestParts[n], parts[RequestParts[n]]) \in Wire
               /\ Len(Encoded(RequestParts[n], parts[RequestParts[n]]))
                    = Width(RequestParts[n])
    <3>1. (n = 1 /\ m >= 1) \/ (n = 2 /\ m = 2)
      BY <1>2
    <3> HIDE DEF Suits
    <3>2. Suits(n)
      BY <1>6, <1>7, <3>1
    <3> QED
      BY <3>2 DEF Suits
  <2> QED
    BY <2>1, <2>2, <2>3, RequestOrder DEF Leading
<1>9. /\ Get(RequestParts, DOMAIN parts, words) =
           [at |-> Len(words), found |-> [i \in 1..m |-> Value(i)], underflow |-> FALSE]
      /\ \E l \in [0..m -> Nat] :
           /\ l[0] = 0 /\ l[m] = Len(words)
           /\ \A n \in 1..m : l[n] = l[n - 1] + Width(RequestParts[n])
  BY <1>8, PartsUnderstood
<1>10. Len(words) \in {0, 1, 17}
  <2> HIDE DEF Suits, words, Value
  <2>1. PICK l \in [0..m -> Nat] :
          /\ l[0] = 0 /\ l[m] = Len(words)
          /\ \A n \in 1..m : l[n] = l[n - 1] + Width(RequestParts[n])
    BY <1>9
  <2>2. CASE m = 0
    BY <2>1, <2>2
  <2>3. CASE m = 1
    BY <1>6, <2>1, <2>3
  <2>4. CASE m = 2
    <3>1. l[1] = 1
      BY <1>6, <2>1, <2>4
    <3> QED
      BY <1>7, <2>1, <2>4, <3>1
  <2> QED
    BY <1>2, <2>2, <2>3, <2>4
<1>11. Fits(datagram)
  <2> HIDE DEF words
  <2>1. \A x \in {0, 1, 17} : 4 + x <= 32
    OBVIOUS
  <2>2. 4 + Len(words) <= 32
    BY <1>10, <2>1
  <2>3. 4 + Len(datagram.words) <= 32
    BY <1>3, <2>2
  <2> QED
    BY <2>3 DEF Fits, BufferWords
<1>12. [i \in 1..m |-> Value(i)] = Found(request)
  <2> HIDE DEF Value
  <2>1. CASE m = 0
    BY <1>2, <2>1
  <2>2. CASE m = 1
    <3>1. [i \in 1..1 |-> Value(i)] = <<Value(1)>>
      OBVIOUS
    <3> QED
      BY <1>2, <1>6, <2>2, <3>1
  <2>3. CASE m = 2
    <3>1. [i \in 1..2 |-> Value(i)] = <<Value(1), Value(2)>>
      OBVIOUS
    <3> QED
      BY <1>2, <1>6, <1>7, <2>3, <3>1
  <2> QED
    BY <1>2, <2>1, <2>2, <2>3
<1>13. DriveReads(datagram)
         = [at |-> Len(words), found |-> Found(request), underflow |-> FALSE]
  <2>1. DriveReads(datagram) = Get(RequestParts, DOMAIN parts, words)
    BY <1>3 DEF DriveReads
  <2> HIDE DEF words, Value
  <2> QED
    BY <1>9, <1>12, <2>1
<1> HIDE DEF words
<1>14. /\ DriveReads(datagram).found = Found(request)
       /\ DriveReads(datagram).at = Len(datagram.words)
  BY <1>3, <1>13
<1> QED
  BY <1>11, <1>14 DEF datagram, parts

LEMMA ResponseUnderstood ==
  ASSUME NEW request \in Requests, NEW word \in Int
  PROVE  LET values == [p \in ToSet(ResponseParts) |-> IF p = "state" THEN word ELSE Width(p)]
             response == Respond(ToWire(Parts(request), Asks(request)), values)
             read == FromWire(response)
             sent == IF request.all THEN Front(ResponseParts) ELSE <<>>
         IN /\ Fits(response) /\ ~read.underflow
            /\ read.found = [i \in DOMAIN sent |-> <<sent[i], values[sent[i]]>>]
<1> DEFINE R == ResponseParts
           All == ToSet(R)
           values == [p \in All |-> IF p = "state" THEN word ELSE Width(p)]
           asked == ToWire(Parts(request), Asks(request))
           response == Respond(asked, values)
           sent == IF request.all THEN Front(R) ELSE <<>>
           m == IF request.all THEN 8 ELSE 0
           given == [part \in {p \in asked.asks :
                                 p = "realtime_configuration" => p \in asked.flags}
                       |-> values[part]]
           words == Put(R, given)
<1>1. All = {R[n] : n \in 1..9}
  <2>1. DOMAIN R = 1..9
    BY ResponseOrder DEF ResponseParts
  <2> QED
    BY <2>1 DEF ToSet
<1>2. /\ asked.asks = IF request.all THEN All ELSE {}
      /\ "realtime_configuration" \notin asked.flags
  BY DEF ToWire, Asks, Parts
<1>3. /\ response.flags = asked.flags /\ response.asks = asked.asks
      /\ response.words = words
  BY DEF Respond
<1>4. \A n \in 1..9 : R[n] = "realtime_configuration" <=> n = 9
  BY ResponseOrder
<1>5. /\ DOMAIN given = {p \in asked.asks : p # "realtime_configuration"}
      /\ \A p \in DOMAIN given : given[p] = values[p]
  BY <1>2
<1>6. Announced(response) = DOMAIN given
  BY <1>2, <1>3, <1>5 DEF Announced
<1>7. request.all \in BOOLEAN /\ m \in {0, 8} /\ (request.all <=> m = 8)
  BY DEF Requests
<1> HIDE DEF R, All, asked, response, given, m
<1>8. \A n \in 1..9 : R[n] \in DOMAIN given <=> n <= m
  <2>1. CASE request.all
    BY <1>1, <1>2, <1>4, <1>5, <1>7, <2>1
  <2>2. CASE ~request.all
    BY <1>2, <1>5, <1>7, <2>2
  <2> QED
    BY <1>7, <2>1, <2>2
<1>9. ASSUME NEW n \in 1..8
      PROVE  /\ Width(R[n]) \in Nat \ {0} /\ R[n] # "motion_command"
             /\ values[R[n]] \in Int
  <2>1. n \in {1, 2, 3, 4, 5, 6, 7, 8}
    OBVIOUS
  <2>2. Width(R[n]) \in {1, 2, 8} /\ R[n] # "motion_command"
    BY <2>1, ResponseOrder, ResponseWidths DEF R
  <2>3. R[n] \in All
    BY <1>1
  <2> QED
    BY <2>2, <2>3
<1>10. ASSUME NEW n \in 1..m
       PROVE  /\ Width(R[n]) \in Nat
              /\ Encoded(R[n], given[R[n]]) \in Wire
              /\ Len(Encoded(R[n], given[R[n]])) = Width(R[n])
              /\ Decoded(R[n], Encoded(R[n], given[R[n]])) = values[R[n]]
  <2>1. n \in 1..8 /\ n \in 1..9 /\ n <= m
    BY <1>7
  <2>2. given[R[n]] = values[R[n]]
    BY <1>5, <1>8, <2>1
  <2>3. Width(R[n]) \in Nat \ {0} /\ R[n] # "motion_command" /\ values[R[n]] \in Int
    BY <1>9, <2>1
  <2> HIDE DEF values
  <2>4. /\ Encoded(R[n], values[R[n]]) \in Wire
        /\ Len(Encoded(R[n], values[R[n]])) = Width(R[n])
        /\ Decoded(R[n], Encoded(R[n], values[R[n]])) = values[R[n]]
    BY <2>3, EncodedValue
  <2> QED
    BY <2>2, <2>3, <2>4
<1>11. Leading(R, given, m)
  <2>1. Len(R) = 9
    BY ResponseOrder DEF R
  <2>2. m \in 0..9
    BY <1>7
  <2>3. \A n \in 1..Len(R) : R[n] \in DOMAIN given <=> n <= m
    BY <1>8, <2>1
  <2>4. \A n \in 1..m : /\ Width(R[n]) \in Nat
                         /\ Encoded(R[n], given[R[n]]) \in Wire
                         /\ Len(Encoded(R[n], given[R[n]])) = Width(R[n])
    BY <1>10
  <2>5. Len(R) \in Nat /\ m \in 0..Len(R)
    BY <2>1, <2>2
  <2> QED
    BY <2>3, <2>4, <2>5 DEF Leading
<1>12. /\ Get(R, DOMAIN given, words) =
            [at |-> Len(words),
             found |-> [i \in 1..m |-> <<R[i], Decoded(R[i], Encoded(R[i], given[R[i]]))>>],
             underflow |-> FALSE]
       /\ \E l \in [0..m -> Nat] :
            /\ l[0] = 0 /\ l[m] = Len(words)
            /\ \A n \in 1..m : l[n] = l[n - 1] + Width(R[n])
  BY <1>11, PartsUnderstood
<1>13. Len(words) \in {0, 17}
  <2>1. PICK l \in [0..m -> Nat] :
          /\ l[0] = 0 /\ l[m] = Len(words)
          /\ \A n \in 1..m : l[n] = l[n - 1] + Width(R[n])
    BY <1>12
  <2> HIDE DEF words
  <2>2. CASE m = 0
    BY <2>1, <2>2
  <2>3. CASE m = 8
    <3>1. \A n \in 1..8 : l[n] = l[n - 1] + Width(R[n])
      BY <2>1, <2>3
    <3>2. /\ Width(R[1]) = 1 /\ Width(R[2]) = 1 /\ Width(R[3]) = 2 /\ Width(R[4]) = 2
          /\ Width(R[5]) = 1 /\ Width(R[6]) = 1 /\ Width(R[7]) = 1 /\ Width(R[8]) = 8
      BY ResponseWidths DEF R
    <3>3. l[1] = 1 /\ l[2] = l[1] + 1 /\ l[3] = l[2] + 2 /\ l[4] = l[3] + 2
      BY <2>1, <3>1, <3>2
    <3>4. l[5] = l[4] + 1 /\ l[6] = l[5] + 1 /\ l[7] = l[6] + 1 /\ l[8] = l[7] + 8
      BY <3>1, <3>2
    <3>5. l[4] = 6 /\ l[8] = 17
      BY <3>3, <3>4
    <3> QED
      BY <2>1, <2>3, <3>5
  <2> QED
    BY <1>7, <2>2, <2>3
<1>14. Fits(response)
  <2> HIDE DEF words
  <2>1. \A x \in {0, 17} : 4 + x <= 32
    OBVIOUS
  <2>2. 4 + Len(words) <= 32
    BY <1>13, <2>1
  <2>3. 4 + Len(response.words) <= 32
    BY <1>3, <2>2
  <2> QED
    BY <2>3 DEF Fits, BufferWords
<1>15. FromWire(response) = Get(R, DOMAIN given, words)
  BY <1>3, <1>6 DEF FromWire, R
<1>16. DOMAIN sent = 1..m /\ \A i \in 1..m : sent[i] = R[i]
  <2>1. CASE request.all
    <3>1. Front(R) = [i \in 1..8 |-> R[i]]
      BY ResponseOrder DEF Front, R
    <3> QED
      BY <1>7, <2>1, <3>1
  <2>2. CASE ~request.all
    BY <1>7, <2>2
  <2> QED
    BY <2>1, <2>2
<1>17. [i \in 1..m |-> <<R[i], Decoded(R[i], Encoded(R[i], given[R[i]]))>>]
         = [i \in DOMAIN sent |-> <<sent[i], values[sent[i]]>>]
  <2> HIDE DEF values, sent
  <2> QED
    BY <1>10, <1>16
<1> HIDE DEF words, values, sent
<1>18. FromWire(response)
         = [at |-> Len(words),
            found |-> [i \in DOMAIN sent |-> <<sent[i], values[sent[i]]>>],
            underflow |-> FALSE]
  BY <1>12, <1>15, <1>17
<1>19. /\ ~FromWire(response).underflow
       /\ FromWire(response).found = [i \in DOMAIN sent |-> <<sent[i], values[sent[i]]>>]
  BY <1>18
<1> QED
  BY <1>14, <1>19 DEF response, asked, values, sent, R, All

LEMMA LastRequest ==
  ASSUME Typed, toDrive # <<>>
  PROVE  Last(toDrive).content \in Requests
<1>1. toDrive \in Seq(Datagrams(Requests)) /\ Len(toDrive) \in Nat \ {0}
  BY EmptySeq, LenProperties DEF Typed
<1>2. toDrive[Len(toDrive)] \in Datagrams(Requests)
  BY <1>1, ElementOfSeq
<1> QED
  BY <1>2 DEF Last, Datagrams

\* Whatever the thread computes, the drive finds it in the request and nothing else,
\* and the request fits the buffer: motion commands of every kind fill their block,
\* and a part that is absent leaves no gap (udp.rs, to_wire; mci.rs,
\* MotionCommand::write_to).
THEOREM RequestsUnderstood == Spec => []RequestIsUnderstood
<1>1. Typed => RequestIsUnderstood
  <2>1. ASSUME Typed, toDrive # <<>>
        PROVE  RequestIsUnderstood
    BY <2>1, LastRequest, RequestUnderstood DEF RequestIsUnderstood
  <2> QED
    BY <2>1 DEF RequestIsUnderstood
<1> QED
  BY <1>1, TypedInit, TypedStep, PTL DEF Spec

\* In a response from_wire finds each value that the drive put there and nothing
\* else, whether parts were asked for or not, although it has one part less than was
\* asked for (udp.rs, from_wire, read_opt).
THEOREM ResponsesUnderstood == Spec => []ResponseIsUnderstood
<1>1. Typed => ResponseIsUnderstood
  <2>1. ASSUME Typed, toDrive # <<>>
        PROVE  ResponseIsUnderstood
    <3>1. StateOf(drive) \in Int
      BY <2>1, DriveAnswers, KnownWord DEF Typed
    <3> QED
      BY <2>1, <3>1, LastRequest, ResponseUnderstood DEF ResponseIsUnderstood
  <2> QED
    BY <2>1 DEF ResponseIsUnderstood
<1> QED
  BY <1>1, TypedInit, TypedStep, PTL DEF Spec
=============================================================================
