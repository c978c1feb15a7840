---------------------------- MODULE HidUiProofs ----------------------------
(***************************************************************************)
(* Theorems about the handheld's UI manager together with the core, for    *)
(* any input reports, any rivals and any limits: the stroke stays ordered, *)
(* the copy of the UI manager is the active set whenever the handheld      *)
(* holds write access, the handheld is never refused, and its display      *)
(* misses nothing.                                                         *)
(***************************************************************************)
EXTENDS HidDisplay, WriteAccessProofs, WellFoundedInduction

----------------------------------------------------------------------------
(* Reports are folds over their encoders and events.                       *)

\* What holds at 0 and goes on to the next number holds up to the last one.
LEMMA UpTo ==
  ASSUME NEW N \in Nat, NEW R, 0 \in R,
         \A n \in 1..N : n - 1 \in R => n \in R
  PROVE  0..N \subseteq R
<1> DEFINE Bad == {n \in 0..N : n \notin R}
<1>1. SUFFICES ASSUME Bad # {} PROVE FALSE
  OBVIOUS
<1>2. Bad \subseteq Nat
  OBVIOUS
<1> HIDE DEF Bad
<1>3. PICK n \in Bad : \A k \in Bad : <<k, n>> \notin OpToRel(<, Nat)
  BY <1>1, <1>2, NatLessThanWellFounded, WFMin
<1>4. \A k, l \in Nat : k < l => <<k, l>> \in OpToRel(<, Nat)
  BY DEF OpToRel
<1>5. n \in Nat /\ \A k \in Bad : ~(k < n)
  BY <1>2, <1>3, <1>4
<1>6. n \in 1..N /\ n \notin R
  BY <1>5 DEF Bad
<1>7. n - 1 \in Bad
  BY <1>6 DEF Bad
<1> QED
  BY <1>5, <1>6, <1>7

\* What the UI manager is in while it goes through a report.
UiState ==
  [commands : [1..2 -> Command], holding : BOOLEAN, drive : DriveStates,
   messages : Seq(ClientMessage), reset : BOOLEAN]

UiEvents == [type : {"click", "hold_start", "hold_end"}, encoder : Encoders]

\* Pressing the buttons one after the other keeps what each one keeps.
LEMMA PressAllKeeps ==
  ASSUME NEW U, NEW u \in U, NEW events \in Seq(UiEvents),
         \A w \in U : \A e \in UiEvents : Press(w, e) \in U
  PROVE  PressAll(u, events) \in U
<1> DEFINE N == Len(events)
           Step(f) == [n \in 0..N |-> IF n = 0 THEN u ELSE Press(f[n - 1], events[n])]
           Upto(n) == {g \in [0..n -> U] :
                         /\ g[0] = u
                         /\ \A i \in 1..n : g[i] = Press(g[i - 1], events[i])}
           Reach == {n \in 0..N : Upto(n) # {}}
<1>1. N \in Nat /\ \A i \in 1..N : events[i] \in UiEvents
  BY LenProperties, ElementOfSeq
<1> HIDE DEF N
<1>2. 0 \in Reach
  <2>1. [i \in 0..0 |-> u] \in Upto(0)
    OBVIOUS
  <2> QED
    BY <1>1, <2>1
<1>3. ASSUME NEW n \in 1..N, n - 1 \in Reach
      PROVE  n \in Reach
  <2>1. PICK g : g \in Upto(n - 1)
    BY <1>3
  <2> DEFINE h == [i \in 0..n |-> IF i = n THEN Press(g[n - 1], events[n]) ELSE g[i]]
  <2>2. g[n - 1] \in U /\ n - 1 \in 0..(n - 1)
    BY <1>1, <2>1
  <2>3. Press(g[n - 1], events[n]) \in U
    BY <1>1, <2>2
  <2>4. h \in [0..n -> U]
    BY <1>1, <2>1, <2>3
  <2>5. h[0] = u
    BY <1>1, <2>1
  <2>6. \A i \in 1..n : h[i] = Press(h[i - 1], events[i])
    BY <1>1, <2>1
  <2>7. h \in Upto(n)
    BY <2>4, <2>5, <2>6
  <2> HIDE DEF h, Upto
  <2> QED
    BY <1>1, <2>7
<1>4. PICK g : g \in Upto(N)
  <2> HIDE DEF Reach
  <2>1. 0..N \subseteq Reach
    BY <1>1, <1>2, <1>3, UpTo
  <2>2. N \in 0..N
    BY <1>1
  <2> QED
    BY <2>1, <2>2 DEF Reach
<1>5. g = Step(g)
  BY <1>1, <1>4
<1> DEFINE pressed == CHOOSE f : f = Step(f)
<1>6. pressed = Step(pressed)
  <2> HIDE DEF Step
  <2> QED
    BY <1>5
<1>7. PressAll(u, events) = pressed[N]
  BY DEF PressAll, N
<1> HIDE DEF pressed
<1> DEFINE Kept == {n \in 0..N : pressed[n] \in U}
<1>8. 0 \in Kept
  BY <1>1, <1>6
<1>9. ASSUME NEW n \in 1..N, n - 1 \in Kept
      PROVE  n \in Kept
  BY <1>1, <1>6, <1>9
<1>10. 0..N \subseteq Kept
  <2> HIDE DEF Kept
  <2> QED
    BY <1>1, <1>8, <1>9, UpTo
<1>11. N \in 0..N
  BY <1>1
<1> QED
  BY <1>7, <1>10, <1>11

\* Turning the encoders one after the other keeps what each one keeps.
LEMMA TurnAllKeeps ==
  ASSUME NEW U, NEW u \in U, NEW deltas \in [Encoders -> Int],
         \A w \in U : \A e \in Encoders : \A d \in Int : TurnEncoder(w, e, d) \in U
  PROVE  TurnAll(u, deltas) \in U
<1>1. \A e \in Encoders : deltas[e] \in Int
  OBVIOUS
<1>2. {0, 1, 2, 3} \subseteq Encoders
  BY DEF Encoders
<1> QED
  BY <1>1, <1>2 DEF TurnAll

----------------------------------------------------------------------------
(* Messages that lead from the core's commands to the UI manager's.        *)

Pair == [1..2 -> Command]

\* What the messages of the UI manager may be, and when they are not refused.
Suits(m, state) ==
  /\ m.type \in {"request_write_access", "upsert_command_set", "update_command",
                 "set_drive_power", "set_motion_state", "acknowledge_error"}
  /\ m.type = "upsert_command_set" => m.set = Active /\ m.base_version = AnyVersion
  /\ m.type = "set_motion_state" => MotionActionValid(m.action, state)
  /\ m.type = "acknowledge_error" => state = "Errored"

\* What the holder of write access makes of the active commands with a message.
Makes(m, old, new) ==
  /\ m.type = "upsert_command_set" => new = m.commands
  /\ m.type = "update_command" =>
       /\ m.index + 1 \in DOMAIN old
       /\ new = [old EXCEPT ![m.index + 1] = ApplyFields(@, m.fields)]
  /\ m.type \notin {"upsert_command_set", "update_command"} => new = old

\* Handled one after the other, the messages turn one list into the other.
Leads(from, messages, to) ==
  \E h \in [0..Len(messages) -> Seq(Command)] :
    /\ h[0] = from
    /\ h[Len(messages)] = to
    /\ \A i \in 1..Len(messages) : Makes(messages[i], h[i - 1], h[i])

\* Where the UI manager may be in a report that it began with these commands, in
\* this state of the drive.
Faithful(from, state) ==
  {u \in UiState : /\ u.drive = state
                   /\ Leads(from, u.messages, u.commands)
                   /\ \A i \in DOMAIN u.messages : Suits(u.messages[i], state)}

LEMMA PairIsList == Pair \subseteq Seq(Command) /\ \A cs \in Pair : Len(cs) = 2
<1>1. [1..2 -> Command] \subseteq Seq(Command)
  BY SeqDef
<1>2. ASSUME NEW cs \in Pair PROVE Len(cs) = 2
  BY <1>1, <1>2, LenProperties DEF Pair
<1> QED
  BY <1>1, <1>2 DEF Pair

LEMMA NothingLeads ==
  ASSUME NEW cs \in Seq(Command), NEW new, Leads(cs, <<>>, new)
  PROVE  new = cs
BY EmptySeq DEF Leads

LEMMA LeadsNowhere ==
  ASSUME NEW cs \in Seq(Command)
  PROVE  Leads(cs, <<>>, cs)
<1> DEFINE h == [i \in 0..0 |-> cs]
<1>1. h \in [0..0 -> Seq(Command)] /\ h[0] = cs
  OBVIOUS
<1>2. Len(<<>>) = 0
  BY EmptySeq
<1> HIDE DEF h
<1> QED
  BY <1>1, <1>2 DEF Leads

\* One more message leads one step further.
LEMMA LeadsOn ==
  ASSUME NEW from, NEW messages \in Seq(ClientMessage), NEW cs,
         Leads(from, messages, cs),
         NEW m \in ClientMessage, NEW new \in Seq(Command), Makes(m, cs, new)
  PROVE  Leads(from, Append(messages, m), new)
<1>1. PICK h \in [0..Len(messages) -> Seq(Command)] :
        /\ h[0] = from
        /\ h[Len(messages)] = cs
        /\ \A i \in 1..Len(messages) : Makes(messages[i], h[i - 1], h[i])
  BY DEF Leads
<1> DEFINE N == Len(messages)
           longer == Append(messages, m)
           g == [i \in 0..(N + 1) |-> IF i = N + 1 THEN new ELSE h[i]]
<1>2. /\ N \in Nat
      /\ Len(longer) = N + 1
      /\ \A i \in 1..N : longer[i] = messages[i]
      /\ longer[N + 1] = m
  BY AppendProperties, LenProperties
<1> HIDE DEF N, longer
<1>3. \A i \in 0..N : h[i] \in Seq(Command)
  BY <1>1 DEF N
<1>4. /\ g \in [0..(N + 1) -> Seq(Command)]
      /\ g[N + 1] = new
      /\ \A i \in 0..N : g[i] = h[i]
  BY <1>2, <1>3
<1> HIDE DEF g
<1>5. g[0] = from
  BY <1>1, <1>2, <1>4
<1>6. ASSUME NEW i \in 1..(N + 1)
      PROVE  Makes(longer[i], g[i - 1], g[i])
  <2>1. CASE i = N + 1
    <3>1. g[i - 1] = cs
      BY <1>1, <1>2, <1>4, <2>1 DEF N
    <3> QED
      BY <1>2, <1>4, <2>1, <3>1
  <2>2. CASE i # N + 1
    <3>1. i \in 1..N /\ i - 1 \in 0..N /\ i \in 0..N
      BY <1>2, <2>2
    <3>2. longer[i] = messages[i] /\ g[i - 1] = h[i - 1] /\ g[i] = h[i]
      BY <1>2, <1>4, <3>1
    <3> QED
      BY <1>1, <3>1, <3>2 DEF N
  <2> QED
    BY <2>1, <2>2
<1>7. Leads(from, longer, new)
  BY <1>2, <1>4, <1>5, <1>6 DEF Leads
<1> QED
  BY <1>7 DEF longer

\* What is left after the first message leads the rest of the way.
LEMMA LeadsFromHead ==
  ASSUME NEW from, NEW messages \in Seq(ClientMessage), messages # <<>>, NEW to,
         Leads(from, messages, to)
  PROVE  \E new \in Seq(Command) :
           Makes(Head(messages), from, new) /\ Leads(new, Tail(messages), to)
<1>1. PICK h \in [0..Len(messages) -> Seq(Command)] :
        /\ h[0] = from
        /\ h[Len(messages)] = to
        /\ \A i \in 1..Len(messages) : Makes(messages[i], h[i - 1], h[i])
  BY DEF Leads
<1> DEFINE N == Len(messages)
           rest == Tail(messages)
           g == [i \in 0..(N - 1) |-> h[i + 1]]
<1>2. /\ N \in Nat \ {0}
      /\ Len(rest) = N - 1
      /\ \A i \in 1..(N - 1) : rest[i] = messages[i + 1]
      /\ Head(messages) = messages[1]
  BY HeadTailProperties, LenProperties, EmptySeq
<1> HIDE DEF N, rest
<1>3. \A i \in 0..(N - 1) : i + 1 \in 0..N /\ h[i + 1] \in Seq(Command)
  BY <1>1, <1>2 DEF N
<1>4. /\ g \in [0..(N - 1) -> Seq(Command)]
      /\ \A i \in 0..(N - 1) : g[i] = h[i + 1]
  BY <1>2, <1>3
<1> HIDE DEF g
<1>5. /\ g[0] = h[1]
      /\ g[N - 1] = to
      /\ h[1] \in Seq(Command)
  BY <1>1, <1>2, <1>3, <1>4 DEF N
<1>6. ASSUME NEW i \in 1..(N - 1)
      PROVE  Makes(rest[i], g[i - 1], g[i])
  <2>1. /\ i + 1 \in 1..N
        /\ i - 1 \in 0..(N - 1)
        /\ i \in 0..(N - 1)
        /\ (i - 1) + 1 = i
        /\ (i + 1) - 1 = i
    BY <1>2
  <2>2. Makes(messages[i + 1], h[i], h[i + 1])
    BY <1>1, <2>1 DEF N
  <2> QED
    BY <1>2, <1>4, <2>1, <2>2
<1>7. Leads(h[1], rest, to)
  BY <1>2, <1>4, <1>5, <1>6 DEF Leads
<1>8. Makes(Head(messages), from, h[1])
  <2>1. 1 \in 1..N /\ 1 - 1 = 0
    BY <1>2
  <2> QED
    BY <1>1, <1>2, <2>1 DEF N
<1> QED
  BY <1>5, <1>7, <1>8 DEF rest

\* The UI manager changes its commands and asks the core for the same.
Asks(u, m, cs) == [u EXCEPT !.commands = cs, !.messages = Append(@, m)]

LEMMA AsksKeeps ==
  ASSUME NEW from, NEW state, NEW u \in Faithful(from, state),
         NEW m \in ClientMessage, Suits(m, state),
         NEW cs \in Pair, Makes(m, u.commands, cs)
  PROVE  Asks(u, m, cs) \in Faithful(from, state)
<1> DEFINE v == Asks(u, m, cs)
<1>1. u \in UiState /\ u.messages \in Seq(ClientMessage)
  BY DEF Faithful, UiState
<1>2. /\ v.commands = cs
      /\ v.messages = Append(u.messages, m)
      /\ v.drive = u.drive
      /\ Append(u.messages, m) \in Seq(ClientMessage)
  BY <1>1, AppendProperties DEF Asks, UiState
<1>3. v \in UiState
  BY <1>1, <1>2 DEF Asks, UiState, Pair
<1>4. Leads(from, v.messages, v.commands)
  BY <1>1, <1>2, LeadsOn, PairIsList DEF Faithful
<1>5. ASSUME NEW i \in DOMAIN v.messages
      PROVE  Suits(v.messages[i], state)
  <2>1. /\ Len(u.messages) \in Nat
        /\ DOMAIN u.messages = 1..Len(u.messages)
        /\ i \in 1..(Len(u.messages) + 1)
        /\ \A j \in 1..Len(u.messages) : v.messages[j] = u.messages[j]
        /\ v.messages[Len(u.messages) + 1] = m
    BY <1>1, <1>2, AppendProperties, LenProperties
  <2>2. \A j \in DOMAIN u.messages : Suits(u.messages[j], state)
    BY DEF Faithful
  <2> QED
    BY <2>1, <2>2
<1> HIDE DEF v
<1>6. v \in Faithful(from, state)
  BY <1>2, <1>3, <1>4, <1>5 DEF Faithful
<1> QED
  BY <1>6 DEF v

----------------------------------------------------------------------------
(* The encoders.                                                           *)

Ordered(commands) == commands[1].position <= commands[2].position

InOrder(from, state) == {u \in Faithful(from, state) : Ordered(u.commands)}

Sets(command, values) ==
  [f \in Fields |-> IF f \in DOMAIN values THEN values[f] ELSE command[f]]

LEMMA TurnedTyped ==
  ASSUME NEW v \in Int, NEW n \in Int, NEW field \in Fields
  PROVE  /\ Turned(v, n, field) \in Int
         /\ \A x \in Int : v <= x => Turned(v, n, field) <= Turned(x, n, field)
<1>1. Limit[field] \in Nat
  BY LimitAssumption
<1> QED
  BY <1>1 DEF Turned, Clamp

LEMMA NotchesTyped ==
  ASSUME NEW delta \in Int
  PROVE  /\ delta * Abs(delta) \in Int
         /\ delta * Abs(delta) * Abs(delta) \in Int
<1>1. Abs(delta) \in Int
  BY DEF Abs
<1>2. \A x, y \in Int : x * y \in Int
  OBVIOUS
<1>3. delta * Abs(delta) \in Int
  BY <1>1, <1>2, Zenon
<1> QED
  BY <1>1, <1>2, <1>3, Zenon

\* An update of one command is the core's way to set the same values.
LEMMA UpdateSets ==
  ASSUME NEW c \in Command, NEW i \in 1..2, NEW values,
         DOMAIN values \subseteq Fields, \A f \in DOMAIN values : values[f] \in Int
  PROVE  /\ UpdateOf(i, values) \in ClientMessage
         /\ UpdateOf(i, values).type = "update_command"
         /\ UpdateOf(i, values).index + 1 = i
         /\ ApplyFields(c, UpdateOf(i, values).fields) = Sets(c, values)
         /\ Sets(c, values) \in Command
<1> DEFINE fields == [f \in Fields |-> IF f \in DOMAIN values THEN values[f] ELSE Keep]
<1>1. fields \in FieldUpdate
  BY DEF FieldUpdate
<1>2. ApplyFields(c, fields) = Sets(c, values)
  BY LimitAssumption DEF ApplyFields, Sets
<1>3. Sets(c, values) \in Command
  BY DEF Sets, Command
<1> HIDE DEF fields
<1>4. UpdateOf(i, values) = [type |-> "update_command", index |-> i - 1, fields |-> fields]
  BY DEF UpdateOf, fields
<1>5. i - 1 \in Nat /\ (i - 1) + 1 = i
  OBVIOUS
<1>6. [type |-> "update_command", index |-> i - 1, fields |-> fields] \in ClientMessage
  BY <1>1, <1>5 DEF ClientMessage
<1> QED
  BY <1>2, <1>3, <1>4, <1>5, <1>6

\* One command takes some values, and the core is asked for the same.
Updates(u, i, values) ==
  Asks(u, UpdateOf(i, values), [u.commands EXCEPT ![i] = Sets(@, values)])

LEMMA UpdateKeeps ==
  ASSUME NEW from, NEW state, NEW u \in Faithful(from, state), NEW i \in 1..2,
         NEW values, DOMAIN values \subseteq Fields,
         \A f \in DOMAIN values : values[f] \in Int
  PROVE  Updates(u, i, values) \in Faithful(from, state)
<1> DEFINE m == UpdateOf(i, values)
           cs == [u.commands EXCEPT ![i] = Sets(@, values)]
<1>1. u.commands \in Pair
  BY DEF Faithful, UiState, Pair
<1>2. u.commands[i] \in Command
  BY <1>1 DEF Pair
<1>3. /\ m \in ClientMessage
      /\ m.type = "update_command"
      /\ m.index + 1 = i
      /\ ApplyFields(u.commands[i], m.fields) = Sets(u.commands[i], values)
      /\ Sets(u.commands[i], values) \in Command
  BY <1>2, UpdateSets
<1>4. cs \in Pair
  BY <1>1, <1>3 DEF Pair
<1>5. DOMAIN u.commands = 1..2
  BY <1>1 DEF Pair
<1> HIDE DEF m
<1>6. Makes(m, u.commands, cs)
  BY <1>3, <1>5 DEF Makes
<1>7. Suits(m, state)
  BY <1>3 DEF Suits
<1> HIDE DEF cs
<1>8. Asks(u, m, cs) \in Faithful(from, state)
  BY <1>3, <1>4, <1>6, <1>7, AsksKeeps
<1> QED
  BY <1>8 DEF Updates, m, cs

\* A new position of one end.
Moves(u, i, x) ==
  [u EXCEPT !.commands[i].position = x,
            !.messages = Append(@, UpdateOf(i, [position |-> x]))]

LEMMA MovesLeaves ==
  ASSUME NEW u \in UiState, NEW i \in 1..2, NEW x \in Int
  PROVE  /\ Moves(u, i, x).commands[i].position = x
         /\ \A j \in 1..2 : j # i => Moves(u, i, x).commands[j] = u.commands[j]
<1>1. u.commands \in [1..2 -> Command] /\ u.commands[i] \in Command
  BY DEF UiState
<1>2. [u.commands[i] EXCEPT !.position = x].position = x
  BY <1>1, HidAssumption DEF Command
<1>3. /\ Moves(u, i, x).commands[i] = [u.commands[i] EXCEPT !.position = x]
      /\ \A j \in 1..2 : j # i => Moves(u, i, x).commands[j] = u.commands[j]
  BY <1>1 DEF UiState, Moves
<1> QED
  BY <1>2, <1>3

LEMMA MovesKeeps ==
  ASSUME NEW from, NEW state, NEW u \in Faithful(from, state), NEW i \in 1..2,
         NEW x \in Int
  PROVE  Moves(u, i, x) \in Faithful(from, state)
<1>1. u \in UiState /\ u.commands[i] \in Command
  BY DEF Faithful, UiState
<1> DEFINE values == [position |-> x]
<1>2. /\ DOMAIN values = {"position"}
      /\ values["position"] = x
      /\ "position" \in Fields
  BY HidAssumption
<1>3. Sets(u.commands[i], values) = [u.commands[i] EXCEPT !.position = x]
  BY <1>1, <1>2 DEF Sets, Command
<1> HIDE DEF values
<1>4. Updates(u, i, values) \in Faithful(from, state)
  BY <1>2, UpdateKeeps
<1>5. Moves(u, i, x) = Updates(u, i, values)
  BY <1>3 DEF Moves, Updates, Asks, values
<1> QED
  BY <1>4, <1>5

\* An end of the stroke that is turned never passes the other one.
LEMMA MoveEndKeeps ==
  ASSUME NEW from, NEW state, NEW u \in InOrder(from, state),
         NEW own \in 1..2, NEW delta \in Int
  PROVE  MoveEnd(u, own, delta) \in InOrder(from, state)
<1> DEFINE other == 3 - own
           notches == delta * Abs(delta)
           moved == Turned(u.commands[own].position, notches, "position")
           rest == u.commands[other].position
           inTheWay == IF own = 1 THEN moved > rest ELSE moved < rest
           pushed == IF u.holding THEN Turned(rest, notches, "position") ELSE moved
           alone == Moves(u, own, moved)
           pair == Moves(alone, other, pushed)
<1>1. /\ u \in Faithful(from, state)
      /\ u \in UiState
      /\ u.commands \in [1..2 -> Command]
      /\ u.commands[1].position <= u.commands[2].position
  BY DEF InOrder, Ordered, Faithful, UiState
<1>2. \A j \in 1..2 : u.commands[j].position \in Int
  BY <1>1, HidAssumption DEF Command
<1>3. other \in 1..2 /\ other # own /\ "position" \in Fields
  BY HidAssumption
<1>4. notches \in Int
  BY NotchesTyped
<1> HIDE DEF other, notches
<1>5. /\ moved \in Int
      /\ rest \in Int
      /\ Turned(rest, notches, "position") \in Int
      /\ u.commands[own].position <= rest => moved <= Turned(rest, notches, "position")
      /\ rest <= u.commands[own].position => Turned(rest, notches, "position") <= moved
  BY <1>2, <1>3, <1>4, TurnedTyped
<1>6. pushed \in Int
  BY <1>5
<1>7. MoveEnd(u, own, delta) = IF u.holding \/ inTheWay THEN pair ELSE alone
  BY DEF MoveEnd, Moves, other, notches
<1> HIDE DEF moved, rest, inTheWay, pushed
<1>8. /\ alone \in Faithful(from, state)
      /\ alone \in UiState
      /\ alone.commands[own].position = moved
      /\ alone.commands[other] = u.commands[other]
  <2>1. moved \in Int
    BY <1>5
  <2>2. alone \in Faithful(from, state)
    BY <1>1, <2>1, MovesKeeps
  <2>3. /\ alone.commands[own].position = moved
        /\ \A j \in 1..2 : j # own => alone.commands[j] = u.commands[j]
    BY <1>1, <2>1, MovesLeaves, Zenon
  <2> QED
    BY <1>3, <2>2, <2>3 DEF Faithful
<1> HIDE DEF alone
<1>9. /\ pair \in Faithful(from, state)
      /\ pair.commands[other].position = pushed
      /\ pair.commands[own] = alone.commands[own]
  <2>1. pair \in Faithful(from, state)
    BY <1>3, <1>6, <1>8, MovesKeeps
  <2> QED
    BY <1>3, <1>6, <1>8, <2>1, MovesLeaves, Zenon
<1> HIDE DEF pair
<1>10. \/ own = 1 /\ other = 2
       \/ own = 2 /\ other = 1
  BY DEF other
<1>11. ASSUME ~u.holding, ~inTheWay
       PROVE  Ordered(alone.commands)
  <2>1. alone.commands[other].position = rest
    BY <1>8 DEF rest
  <2>2. IF own = 1 THEN moved <= rest ELSE rest <= moved
    BY <1>5, <1>11 DEF inTheWay
  <2> QED
    BY <1>5, <1>8, <1>10, <2>1, <2>2 DEF Ordered
<1>12. ASSUME u.holding \/ inTheWay
       PROVE  Ordered(pair.commands)
  <2>1. pair.commands[own].position = moved
    BY <1>8, <1>9
  <2>2. IF own = 1 THEN moved <= pushed ELSE pushed <= moved
    <3>1. CASE u.holding
      BY <1>1, <1>5, <1>10, <3>1 DEF pushed, rest
    <3>2. CASE ~u.holding
      BY <1>5, <3>2 DEF pushed
    <3> QED
      BY <3>1, <3>2
  <2> QED
    BY <1>5, <1>6, <1>9, <1>10, <2>1, <2>2 DEF Ordered
<1> QED
  BY <1>7, <1>8, <1>9, <1>11, <1>12, Zenon DEF InOrder

\* Values for both commands, other than their positions.
LEMMA SetBothKeeps ==
  ASSUME NEW from, NEW state, NEW u \in InOrder(from, state), NEW values,
         DOMAIN values \subseteq Fields \ {"position"},
         \A f \in DOMAIN values : values[f] \in Int
  PROVE  SetBoth(u, values) \in InOrder(from, state)
<1> DEFINE one == Updates(u, 1, values)
           both == Updates(one, 2, values)
           a == UpdateOf(1, values)
           b == UpdateOf(2, values)
<1>1. /\ u \in Faithful(from, state)
      /\ u \in UiState
      /\ u.commands \in [1..2 -> Command]
      /\ u.messages \in Seq(ClientMessage)
      /\ u.commands[1].position <= u.commands[2].position
      /\ u.commands[1] \in Command
  BY DEF InOrder, Ordered, Faithful, UiState
<1>2. one \in Faithful(from, state)
  BY <1>1, UpdateKeeps
<1>3. both \in Faithful(from, state)
  <2> HIDE DEF one
  <2> QED
    BY <1>2, UpdateKeeps
<1>4. a \in ClientMessage /\ b \in ClientMessage
  BY <1>1, UpdateSets
<1> HIDE DEF a, b
<1> DEFINE sets == [i \in 1..2 |-> Sets(u.commands[i], values)]
<1>5. both = [u EXCEPT !.commands = sets, !.messages = Append(Append(@, a), b)]
  <2> DEFINE first == [u.commands EXCEPT ![1] = Sets(@, values)]
  <2>1. one = [u EXCEPT !.commands = first, !.messages = Append(@, a)]
    BY DEF Updates, Asks, a
  <2>2. one.commands = first /\ one.messages = Append(u.messages, a)
    BY <1>1, <2>1 DEF UiState
  <2>3. [first EXCEPT ![2] = Sets(@, values)] = sets
    BY <1>1
  <2> HIDE DEF one, first, sets
  <2>4. both = [one EXCEPT !.commands = sets, !.messages = Append(Append(u.messages, a), b)]
    BY <2>2, <2>3 DEF Updates, Asks, b
  <2> QED
    BY <1>1, <2>1, <2>4 DEF UiState
<1>6. Append(Append(u.messages, a), b) = u.messages \o <<a, b>>
  BY <1>1, <1>4
<1>7. SetBoth(u, values) = [u EXCEPT !.commands = sets, !.messages = @ \o <<a, b>>]
  BY DEF SetBoth, Sets, a, b
<1>8. SetBoth(u, values) = both
  BY <1>1, <1>5, <1>6, <1>7 DEF UiState
<1>9. \A i \in 1..2 : sets[i].position = u.commands[i].position
  BY HidAssumption DEF Sets
<1>10. both.commands = sets
  <2> HIDE DEF both, sets
  <2> QED
    BY <1>1, <1>5 DEF UiState
<1> HIDE DEF both, sets
<1> QED
  BY <1>1, <1>3, <1>8, <1>9, <1>10 DEF InOrder, Ordered

LEMMA TurnEncoderKeeps ==
  ASSUME NEW from, NEW state, NEW u \in InOrder(from, state),
         NEW e \in Encoders, NEW d \in Int
  PROVE  TurnEncoder(u, e, d) \in InOrder(from, state)
<1> DEFINE speed == Turned(u.commands[1].velocity, d * Abs(d), "velocity")
           accel == Turned(u.commands[1].acceleration, d * Abs(d) * Abs(d), "acceleration")
           decel == Clamp(accel, Limit["deceleration"])
<1>1. u.commands[1] \in [Fields -> Int]
  BY DEF InOrder, Faithful, UiState, Command
<1>2. speed \in Int /\ accel \in Int
  BY <1>1, HidAssumption, NotchesTyped, TurnedTyped
<1> HIDE DEF speed, accel
<1>3. decel \in Int
  BY <1>2, HidAssumption, LimitAssumption DEF Clamp
<1> HIDE DEF decel
<1>4. CASE d = 0
  BY <1>4 DEF TurnEncoder
<1>5. CASE d # 0 /\ e = 0
  BY <1>5, MoveEndKeeps DEF TurnEncoder
<1>6. CASE d # 0 /\ e = 1
  BY <1>6, MoveEndKeeps DEF TurnEncoder
<1>7. CASE d # 0 /\ e = 2
  <2> DEFINE values == [velocity |-> speed]
  <2>1. /\ DOMAIN values \subseteq Fields \ {"position"}
        /\ \A f \in DOMAIN values : values[f] \in Int
    BY <1>2, HidAssumption
  <2>2. TurnEncoder(u, e, d) = SetBoth(u, values)
    BY <1>7 DEF TurnEncoder, speed
  <2> HIDE DEF values
  <2> QED
    BY <2>1, <2>2, SetBothKeeps
<1>8. CASE d # 0 /\ e = 3
  <2> DEFINE values == [acceleration |-> accel, deceleration |-> decel]
  <2>1. /\ DOMAIN values \subseteq Fields \ {"position"}
        /\ \A f \in DOMAIN values : values[f] \in Int
    BY <1>2, <1>3, HidAssumption
  <2>2. TurnEncoder(u, e, d) = SetBoth(u, values)
    BY <1>8 DEF TurnEncoder, accel, decel
  <2> HIDE DEF values
  <2> QED
    BY <2>1, <2>2, SetBothKeeps
<1> QED
  BY <1>4, <1>5, <1>6, <1>7, <1>8 DEF Encoders

----------------------------------------------------------------------------
(* The buttons.                                                            *)

\* A request that leaves the commands alone.
Harmless(m, state) ==
  /\ m \in ClientMessage
  /\ Suits(m, state)
  /\ m.type \notin {"upsert_command_set", "update_command"}

\* A click asks for nothing, or for one thing that the drive's state allows.
LEMMA ClicksSuit ==
  ASSUME NEW state \in DriveStates, NEW said \in {PowerClick(state), MotionClick(state)}
  PROVE  said = <<>> \/ \E m : Harmless(m, state) /\ said = <<m>>
<1>1. ASSUME NEW enabled \in BOOLEAN
      PROVE  Harmless([type |-> "set_drive_power", enabled |-> enabled], state)
  BY DEF Harmless, ClientMessage, Suits
<1>2. ASSUME state = "Errored"
      PROVE  Harmless([type |-> "acknowledge_error"], state)
  BY <1>2 DEF Harmless, ClientMessage, Suits
<1>3. ASSUME NEW action \in MotionActions, MotionActionValid(action, state)
      PROVE  Harmless([type |-> "set_motion_state", action |-> action], state)
  BY <1>3 DEF Harmless, ClientMessage, Suits
<1>4. /\ state = "Paused" => MotionActionValid("Resume", state)
      /\ state = "Moving" => MotionActionValid("Pause", state)
      /\ {"Resume", "Pause"} \subseteq MotionActions
  BY DEF MotionActionValid, MotionActions
<1>5. CASE said = PowerClick(state)
  BY <1>1, <1>2, <1>5 DEF PowerClick, DriveStates
<1>6. CASE said = MotionClick(state)
  BY <1>3, <1>4, <1>6 DEF MotionClick, DriveStates
<1> QED
  BY <1>5, <1>6

LEMMA SayingKeeps ==
  ASSUME NEW from, NEW state, NEW u \in InOrder(from, state), NEW said,
         said = <<>> \/ \E m : Harmless(m, state) /\ said = <<m>>
  PROVE  [u EXCEPT !.messages = @ \o said] \in InOrder(from, state)
<1>1. /\ u \in Faithful(from, state)
      /\ u \in UiState
      /\ u.commands \in Pair
      /\ u.messages \in Seq(ClientMessage)
  BY DEF InOrder, Faithful, UiState, Pair
<1>2. CASE said = <<>>
  <2>1. u.messages \o said = u.messages
    BY <1>1, <1>2, ConcatEmptySeq
  <2>2. [u EXCEPT !.messages = @ \o said] = u
    BY <1>1, <2>1 DEF UiState
  <2> QED
    BY <2>2
<1>3. ASSUME NEW m, Harmless(m, state), said = <<m>>
      PROVE  [u EXCEPT !.messages = @ \o said] \in InOrder(from, state)
  <2>1. m \in ClientMessage /\ Suits(m, state) /\ Makes(m, u.commands, u.commands)
    BY <1>3 DEF Harmless, Makes
  <2>2. Asks(u, m, u.commands) \in Faithful(from, state)
    BY <1>1, <2>1, AsksKeeps
  <2>3. Append(u.messages, m) = u.messages \o said
    BY <1>1, <1>3, <2>1
  <2>4. Asks(u, m, u.commands) = [u EXCEPT !.messages = @ \o said]
    BY <1>1, <2>3 DEF Asks, UiState
  <2>5. Asks(u, m, u.commands).commands = u.commands
    BY <1>1 DEF Asks, UiState
  <2> QED
    BY <2>2, <2>4, <2>5 DEF InOrder
<1> QED
  BY <1>2, <1>3

LEMMA DefaultsTyped ==
  DefaultCommands \in Pair /\ Ordered(DefaultCommands)
<1>1. DefaultCommand \in Command /\ DefaultCommand["position"] \in Int
  BY HidAssumption DEF Command
<1>2. DefaultCommands \in [1..2 -> Command]
  BY <1>1 DEF DefaultCommands
<1>3. DefaultCommands[1] = DefaultCommand /\ DefaultCommands[2] = DefaultCommand
  BY DEF DefaultCommands
<1> QED
  BY <1>1, <1>2, <1>3 DEF Pair, Ordered

LEMMA PressKeeps ==
  ASSUME NEW from, NEW state, NEW u \in InOrder(from, state), NEW e \in UiEvents
  PROVE  Press(u, e) \in InOrder(from, state)
<1>1. /\ u \in Faithful(from, state)
      /\ u \in UiState
      /\ u.drive = state
      /\ state \in DriveStates
  BY DEF InOrder, Faithful, UiState
<1>2. CASE e.type = "click" /\ e.encoder = 0
  <2>1. [u EXCEPT !.messages = @ \o PowerClick(state)] \in InOrder(from, state)
    BY <1>1, ClicksSuit, SayingKeeps
  <2> QED
    BY <1>1, <1>2, <2>1 DEF Press
<1>3. CASE e.type = "click" /\ e.encoder = 1
  <2>1. [u EXCEPT !.messages = @ \o MotionClick(state)] \in InOrder(from, state)
    BY <1>1, ClicksSuit, SayingKeeps
  <2> QED
    BY <1>1, <1>3, <2>1 DEF Press
<1>4. CASE e.type = "click" /\ e.encoder = 3
  <2> DEFINE m == [type |-> "upsert_command_set", set |-> Active,
                   base_version |-> AnyVersion, commands |-> DefaultCommands]
  <2>1. m \in ClientMessage
    BY DefaultsTyped, PairIsList DEF ClientMessage
  <2>2. Suits(m, state) /\ Makes(m, u.commands, DefaultCommands)
    BY DEF Suits, Makes
  <2>3. Press(u, e) = Asks(u, m, DefaultCommands)
    BY <1>4 DEF Press, Asks
  <2> HIDE DEF m
  <2>4. Asks(u, m, DefaultCommands) \in Faithful(from, state)
    BY <1>1, <2>1, <2>2, DefaultsTyped, AsksKeeps
  <2>5. Asks(u, m, DefaultCommands).commands = DefaultCommands
    BY <1>1 DEF Asks, UiState
  <2> QED
    BY <2>3, <2>4, <2>5, DefaultsTyped DEF InOrder
<1>5. ASSUME NEW b \in BOOLEAN
      PROVE  /\ [u EXCEPT !.holding = b] \in InOrder(from, state)
             /\ [u EXCEPT !.reset = b] \in InOrder(from, state)
  BY <1>1 DEF InOrder, Faithful, UiState
<1>6. CASE ~(e.type = "click" /\ e.encoder \in {0, 1, 3})
  BY <1>5, <1>6 DEF Press
<1> QED
  BY <1>2, <1>3, <1>4, <1>6

\* A report that begins with commands in order ends with commands in order, and
\* with messages that lead from the one to the other.
LEMMA ProcessKeeps ==
  ASSUME NEW commands \in Pair, Ordered(commands), NEW holding \in BOOLEAN,
         NEW state \in DriveStates, NEW report \in InputReport
  PROVE  Process([commands |-> commands, holding |-> holding, drive |-> state], report)
           \in InOrder(commands, state)
<1> DEFINE start == [commands |-> commands, holding |-> holding, drive |-> state,
                     messages |-> <<>>, reset |-> FALSE]
           U == InOrder(commands, state)
<1>1. /\ report.deltas \in [Encoders -> Int]
      /\ report.events \in Seq(UiEvents)
  BY DEF InputReport, UiEvents
<1>2. start \in U
  <2>1. <<>> \in Seq(ClientMessage) /\ Len(<<>>) = 0 /\ DOMAIN <<>> = {}
    BY EmptySeq
  <2>2. start \in UiState
    BY <2>1 DEF UiState, Pair
  <2>3. Leads(commands, start.messages, start.commands)
    BY LeadsNowhere, PairIsList
  <2> QED
    BY <2>1, <2>2, <2>3 DEF InOrder, Faithful
<1> HIDE DEF start
<1>3. TurnAll(start, report.deltas) \in U
  <2>1. \A w \in U : \A e \in Encoders : \A d \in Int : TurnEncoder(w, e, d) \in U
    BY TurnEncoderKeeps
  <2> HIDE DEF U
  <2> QED
    BY <1>1, <1>2, <2>1, TurnAllKeeps
<1>4. PressAll(TurnAll(start, report.deltas), report.events) \in U
  <2>1. \A w \in U : \A e \in UiEvents : Press(w, e) \in U
    BY PressKeeps
  <2> HIDE DEF U
  <2> QED
    BY <1>1, <1>3, <2>1, PressAllKeeps
<1> QED
  BY <1>4 DEF Process, start

----------------------------------------------------------------------------
(* The core and the UI manager.                                            *)

UiTyped == ui \in [commands : Pair, holding : BOOLEAN]

\* While the handheld holds write access, or is about to, what is left of its
\* report leads from the active set to the commands of the UI manager; nothing in
\* it will be refused; and if write access is still to be claimed, that comes
\* first.
Follows ==
  /\ work # <<>> \/ holder = Hid => Leads(active.commands, work, ui.commands)
  /\ \A i \in DOMAIN work : Suits(work[i], driveState)
  /\ work # <<>> /\ holder # Hid => Head(work).type = "request_write_access"

HandInv == TypeOK /\ UiTyped /\ StrokeIsOrdered /\ Follows

\* The last message sent is an answer that refuses nothing.
Granted ==
  \E body : ~IsFailure(body) /\ (Reply(body) \/ \E b : Announce(b, body))

LEMMA GrantedIsLast ==
  ASSUME Granted
  PROVE  ~IsFailure(Last(sent').body)
<1>1. PICK body : ~IsFailure(body) /\ (Reply(body) \/ \E b : Announce(b, body))
  BY DEF Granted
<1>2. CASE Reply(body)
  <2>1. sent' = <<To(Sender, body)>>
    BY <1>2 DEF Reply
  <2>2. Last(sent') = To(Sender, body)
    BY <2>1 DEF Last
  <2> QED
    BY <1>1, <2>2 DEF To
<1>3. ASSUME NEW b, Announce(b, body)
      PROVE  Last(sent') = To(Sender, body)
  <2>1. sent' = <<To(Everyone, b), To(Sender, body)>>
    BY <1>3 DEF Announce
  <2> QED
    BY <2>1 DEF Last
<1> QED
  BY <1>1, <1>2, <1>3 DEF To

\* The parts of the report in progress.
LEMMA FirstOfWork ==
  ASSUME HandInv, work # <<>>
  PROVE  /\ Head(work) \in ClientMessage
         /\ Tail(work) \in Seq(ClientMessage)
         /\ Suits(Head(work), driveState)
         /\ \A i \in DOMAIN Tail(work) : Suits(Tail(work)[i], driveState)
         /\ \E new \in Seq(Command) :
              /\ Makes(Head(work), active.commands, new)
              /\ Leads(new, Tail(work), ui.commands)
<1>1. work \in Seq(ClientMessage)
  BY DEF HandInv, TypeOK
<1>2. /\ Len(work) \in Nat \ {0}
      /\ DOMAIN work = 1..Len(work)
      /\ Head(work) = work[1]
      /\ Head(work) \in ClientMessage
      /\ Tail(work) \in Seq(ClientMessage)
      /\ DOMAIN Tail(work) = 1..(Len(work) - 1)
      /\ \A i \in 1..(Len(work) - 1) : Tail(work)[i] = work[i + 1]
  BY <1>1, HeadTailProperties, LenProperties, EmptySeq
<1>3. \A i \in DOMAIN work : Suits(work[i], driveState)
  BY DEF HandInv, Follows
<1>4. 1 \in DOMAIN work /\ \A i \in DOMAIN Tail(work) : i + 1 \in DOMAIN work
  BY <1>2
<1>5. Leads(active.commands, work, ui.commands)
  BY DEF HandInv, Follows
<1> QED
  BY <1>1, <1>2, <1>3, <1>4, <1>5, LeadsFromHead

\* A message of the handheld is granted and makes of the active set what the UI
\* manager made of its copy.
LEMMA MessageGranted ==
  ASSUME HandInv, work # <<>>, HandleMessage
  PROVE  /\ Granted
         /\ holder' = Hid
         /\ driveState' = driveState
         /\ work' = Tail(work)
         /\ Makes(Head(work), active.commands, active'.commands)
<1> DEFINE m == Head(work)
<1>1. /\ m \in ClientMessage
      /\ Suits(m, driveState)
      /\ \E new \in Seq(Command) : Makes(m, active.commands, new)
  BY FirstOfWork
<1>2. Sender = Hid /\ Request = m
  BY DEF Sender, Request
<1>3. m.type # "request_write_access" => holder = Hid
  BY DEF HandInv, Follows
<1> HIDE DEF m
<1>4. active.commands \in Seq(Command)
  BY DEF HandInv, TypeOK, CommandSet
<1>5. PICK type : Handles(type)
  BY DEF HandleMessage, RequestWriteAccess, ReleaseWriteAccess, GetState,
         GetCommandSet, ListSavedSets, UpsertActive, UpsertSaved, UpdateCommand,
         DeleteActive, DeleteSaved, SetDrivePower, SetMotionState, AcknowledgeError
<1>6. work' = Tail(work)
  BY <1>5 DEF Handles
<1> DEFINE Goal == /\ Granted
                   /\ holder' = Hid
                   /\ driveState' = driveState
                   /\ Makes(m, active.commands, active'.commands)
<1>7. ASSUME RequestWriteAccess
      PROVE  Goal
  <2>1. m.type = "request_write_access"
    BY <1>2, <1>7 DEF RequestWriteAccess, Handles
  <2>2. CanTakeWriteAccess
    BY <1>2 DEF CanTakeWriteAccess
  <2>3. /\ holder' = Hid
        /\ driveState' = driveState
        /\ active' = active
        /\ \/ Announce(WriteAccessChanged(Sender, holder), WriteAccessResult(TRUE, Sender))
           \/ Reply(WriteAccessResult(TRUE, Sender))
    BY <1>2, <1>7, <2>2 DEF RequestWriteAccess
  <2>4. Granted
    BY <2>3, Bodies, Zenon DEF Granted
  <2> QED
    BY <2>1, <2>3, <2>4 DEF Makes
<1>8. ASSUME UpsertActive
      PROVE  Goal
  <2>1. m.type = "upsert_command_set" /\ m.base_version = AnyVersion
    BY <1>1, <1>2, <1>8 DEF UpsertActive, Handles, Suits
  <2>2. IsWriter /\ BaseVersionMatches(active.version)
    BY <1>2, <1>3, <2>1 DEF IsWriter, BaseVersionMatches
  <2>3. /\ SetActiveCommands(m.commands)
        /\ Announce(CommandSetChanged(active.version + 1, "all"),
                    CommandResult(TRUE, active.version + 1))
        /\ UNCHANGED <<holder, driveState>>
    BY <1>2, <1>8, <2>2 DEF UpsertActive, ReplaceActive, Refuse
  <2>4. Granted
    BY <2>3, Bodies, Zenon DEF Granted
  <2>5. active'.commands = m.commands
    BY <2>3 DEF SetActiveCommands
  <2>6. holder = Hid
    BY <1>3, <2>1
  <2> QED
    BY <2>1, <2>3, <2>4, <2>5, <2>6 DEF Makes
<1>9. ASSUME UpdateCommand
      PROVE  Goal
  <2> DEFINE i == m.index + 1
             new == ApplyFields(active.commands[i], m.fields)
  <2>1. m.type = "update_command" /\ i \in DOMAIN active.commands
    BY <1>1, <1>2, <1>9 DEF UpdateCommand, Handles, Makes
  <2>2. IsWriter /\ holder = Hid
    BY <1>2, <1>3, <2>1 DEF IsWriter
  <2>3. \/ /\ new # active.commands[i]
           /\ SetActiveCommands([active.commands EXCEPT ![i] = new])
           /\ Announce(CommandSetChanged(active.version + 1, "one"),
                       CommandResult(TRUE, active.version + 1))
           /\ UNCHANGED <<holder, driveState>>
        \/ /\ new = active.commands[i]
           /\ Decline(CommandResult(TRUE, active.version))
    BY <1>2, <1>9, <2>1, <2>2 DEF UpdateCommand, Refuse
  <2>4. Granted
    BY <2>3, Bodies, Zenon DEF Granted, Decline
  <2>5. UNCHANGED <<holder, driveState>>
    BY <2>3 DEF Decline, coreVars
  <2>6. active'.commands = [active.commands EXCEPT ![i] = new]
    <3>1. CASE SetActiveCommands([active.commands EXCEPT ![i] = new])
      BY <3>1 DEF SetActiveCommands
    <3>2. CASE new = active.commands[i] /\ active' = active
      <4>1. active.commands \in [1..Len(active.commands) -> Command]
        BY <1>4, LenProperties
      <4> HIDE DEF new, i
      <4> QED
        BY <3>2, <4>1
    <3> QED
      BY <2>3, <3>1, <3>2 DEF Decline, coreVars
  <2>7. active'.commands = [active.commands EXCEPT ![i] = ApplyFields(@, m.fields)]
    BY <2>6
  <2> QED
    BY <2>1, <2>2, <2>4, <2>5, <2>7 DEF Makes
<1>10. ASSUME SetDrivePower
      PROVE  Goal
  <2>1. m.type = "set_drive_power"
    BY <1>2, <1>10 DEF SetDrivePower, Handles
  <2>2. IsWriter /\ holder = Hid
    BY <1>2, <1>3, <2>1 DEF IsWriter
  <2>3. Reply(Ack(TRUE, "")) /\ UNCHANGED <<holder, driveState, active>>
    BY <1>10, <2>2 DEF SetDrivePower, Refuse
  <2> QED
    BY <2>1, <2>2, <2>3, Bodies DEF Granted, Makes
<1>11. ASSUME SetMotionState
      PROVE  Goal
  <2>1. m.type = "set_motion_state" /\ MotionActionValid(m.action, driveState)
    BY <1>1, <1>2, <1>11 DEF SetMotionState, Handles, Suits
  <2>2. IsWriter /\ holder = Hid
    BY <1>2, <1>3, <2>1 DEF IsWriter
  <2>3. Reply(Ack(TRUE, "")) /\ UNCHANGED <<holder, driveState, active>>
    BY <1>2, <1>11, <2>1, <2>2 DEF SetMotionState, Refuse
  <2> QED
    BY <2>1, <2>2, <2>3, Bodies DEF Granted, Makes
<1>12. ASSUME AcknowledgeError
      PROVE  Goal
  <2>1. m.type = "acknowledge_error" /\ driveState = "Errored"
    BY <1>1, <1>2, <1>12 DEF AcknowledgeError, Handles, Suits
  <2>2. IsWriter /\ holder = Hid
    BY <1>2, <1>3, <2>1 DEF IsWriter
  <2>3. Reply(Ack(TRUE, "")) /\ UNCHANGED <<holder, driveState, active>>
    BY <1>12, <2>1, <2>2 DEF AcknowledgeError, Refuse
  <2> QED
    BY <2>1, <2>2, <2>3, Bodies DEF Granted, Makes
<1>13. ASSUME \/ ReleaseWriteAccess \/ GetState \/ GetCommandSet \/ ListSavedSets
              \/ UpsertSaved \/ DeleteActive \/ DeleteSaved
       PROVE  FALSE
  <2>1. ASSUME UpsertSaved PROVE FALSE
    BY <1>1, <1>2, <2>1 DEF UpsertSaved, Handles, Suits
  <2>2. ASSUME \/ ReleaseWriteAccess \/ GetState \/ GetCommandSet \/ ListSavedSets
               \/ DeleteActive \/ DeleteSaved
        PROVE  FALSE
    <3>1. Request.type \in {"release_write_access", "get_state", "get_command_set",
                            "list_saved_sets", "delete_command_set"}
      BY <2>2 DEF ReleaseWriteAccess, GetState, GetCommandSet, ListSavedSets,
                  DeleteActive, DeleteSaved, Handles
    <3> QED
      BY <1>1, <1>2, <3>1 DEF Suits
  <2> QED
    BY <1>13, <2>1, <2>2
<1>14. Goal
  BY <1>7, <1>8, <1>9, <1>10, <1>11, <1>12, <1>13 DEF HandleMessage
<1> QED
  BY <1>6, <1>14 DEF m

----------------------------------------------------------------------------
(* The steps.                                                              *)

\* A report of a handheld without write access: the messages that claim it lead
\* to the commands of the UI manager from anywhere.
LEMMA ClaimKeeps ==
  ASSUME HandInv, Claim
  PROVE  HandInv'
<1> DEFINE claim == [type |-> "request_write_access"]
           install == [type |-> "upsert_command_set", set |-> Active,
                       base_version |-> AnyVersion, commands |-> ui.commands]
<1>1. /\ TypeOK
      /\ ui.commands \in Pair
      /\ active.commands \in Seq(Command)
      /\ ui' = ui
  BY DEF HandInv, TypeOK, CommandSet, UiTyped, Claim
<1>2. claim \in ClientMessage /\ install \in ClientMessage
  BY <1>1, PairIsList DEF ClientMessage
<1>3. work' = <<claim, install>>
  BY DEF Claim, Claims, ClaimAndInstall
<1>4. /\ claim.type = "request_write_access"
      /\ Suits(claim, driveState)
      /\ Suits(install, driveState)
      /\ \A cs : Makes(claim, cs, cs) /\ Makes(install, cs, ui.commands)
  BY DEF Suits, Makes
<1> HIDE DEF claim, install
<1>5. /\ work' \in Seq(ClientMessage)
      /\ Head(work') = claim
      /\ work' = Append(Append(<<>>, claim), install)
      /\ \A i \in DOMAIN work' : work'[i] \in {claim, install}
  BY <1>2, <1>3
<1>6. Receives("hid_report") /\ UNCHANGED coreVars /\ sent' = <<>>
  BY DEF Claim
<1>7. TypeOK'
  <2>1. queue' \in Seq(Event) /\ session' \in [Controllers -> {"fresh", "open", "closed"}]
    BY <1>1, <1>6, ReceivesTyped
  <2>2. sent' \in Seq([to : Controllers \cup {Everyone}, body : CoreMessage])
    BY <1>6, EmptySeq
  <2> QED
    BY <1>1, <1>5, <1>6, <2>1, <2>2 DEF TypeOK, coreVars, CommandSet
<1>8. Leads(active.commands, work', ui.commands)
  <2>1. <<>> \in Seq(ClientMessage) /\ Append(<<>>, claim) \in Seq(ClientMessage)
    BY <1>2, EmptySeq, AppendProperties
  <2>2. Leads(active.commands, <<>>, active.commands)
    BY <1>1, LeadsNowhere
  <2>3. Leads(active.commands, Append(<<>>, claim), active.commands)
    BY <1>1, <1>2, <1>4, <2>1, <2>2, LeadsOn
  <2>4. ui.commands \in Seq(Command)
    BY <1>1, PairIsList
  <2>5. Leads(active.commands, Append(Append(<<>>, claim), install), ui.commands)
    BY <1>2, <1>4, <2>1, <2>3, <2>4, LeadsOn
  <2> QED
    BY <1>5, <2>5
<1>9. UNCHANGED <<driveState, active, holder>>
  BY <1>6 DEF coreVars
<1>10. Follows'
  <2>1. Leads(active.commands, work, ui.commands)'
    BY <1>1, <1>8, <1>9
  <2> QED
    BY <1>4, <1>5, <1>9, <2>1 DEF Follows
<1>11. UiTyped' /\ StrokeIsOrdered'
  BY <1>1 DEF HandInv, UiTyped, StrokeIsOrdered
<1> QED
  BY <1>7, <1>10, <1>11 DEF HandInv

\* A report of a handheld with write access begins with the active set.
LEMMA ReportKeeps ==
  ASSUME HandInv, ProcessReport
  PROVE  HandInv'
<1> DEFINE u == Processed
<1>1. /\ TypeOK
      /\ ui.commands \in Pair
      /\ ui.holding \in BOOLEAN
      /\ Ordered(ui.commands)
      /\ driveState \in DriveStates
  BY DEF HandInv, TypeOK, UiTyped, StrokeIsOrdered, Ordered
<1>2. /\ Receives("hid_report")
      /\ UNCHANGED coreVars
      /\ sent' = <<>>
      /\ holder = Hid
      /\ work = <<>>
      /\ work' = u.messages
      /\ ui' = [commands |-> u.commands, holding |-> u.holding]
  BY DEF ProcessReport, Receives
<1>3. active.commands \in Seq(Command) /\ active.commands = ui.commands
  <2>1. active.commands \in Seq(Command)
    BY <1>1 DEF TypeOK, CommandSet
  <2>2. Leads(active.commands, <<>>, ui.commands)
    BY <1>2 DEF HandInv, Follows
  <2> QED
    BY <2>1, <2>2, NothingLeads
<1>4. u \in InOrder(ui.commands, driveState)
  <2>1. Head(queue) \in Event /\ Head(queue).kind = "hid_report"
    BY <1>1, <1>2, ReceivesTyped
  <2>2. Head(queue).report \in InputReport
    BY <2>1, HidAssumption DEF Event
  <2> QED
    BY <1>1, <2>2, ProcessKeeps DEF Processed
<1> HIDE DEF u
<1>5. /\ u \in UiState
      /\ u.commands \in Pair
      /\ u.holding \in BOOLEAN
      /\ u.messages \in Seq(ClientMessage)
      /\ Ordered(u.commands)
      /\ Leads(ui.commands, u.messages, u.commands)
      /\ \A i \in DOMAIN u.messages : Suits(u.messages[i], driveState)
  BY <1>4 DEF InOrder, Faithful, UiState, Pair
<1>6. TypeOK'
  <2>1. queue' \in Seq(Event) /\ session' \in [Controllers -> {"fresh", "open", "closed"}]
    BY <1>1, <1>2, ReceivesTyped
  <2>2. sent' \in Seq([to : Controllers \cup {Everyone}, body : CoreMessage])
    BY <1>2, EmptySeq
  <2> QED
    BY <1>1, <1>2, <1>5, <2>1, <2>2 DEF TypeOK, coreVars, CommandSet
<1>7. ui'.commands = u.commands /\ ui'.holding = u.holding
  BY <1>2
<1>8. UiTyped' /\ StrokeIsOrdered'
  BY <1>2, <1>5, <1>7 DEF UiTyped, StrokeIsOrdered, Ordered
<1>9. UNCHANGED <<driveState, active, holder>>
  BY <1>2 DEF coreVars
<1>10. Follows'
  <2>1. Leads(active'.commands, work', ui'.commands)
    BY <1>2, <1>3, <1>5, <1>7, <1>9
  <2> QED
    BY <1>2, <1>5, <1>9, <2>1 DEF Follows
<1> QED
  BY <1>6, <1>8, <1>10 DEF HandInv

\* A message of the handheld takes the active set one step further.
LEMMA OwnMessageKeeps ==
  ASSUME HandInv, work # <<>>, HandleMessage
  PROVE  (ui' = ui) => Follows'
<1> SUFFICES ASSUME ui' = ui PROVE Follows'
  OBVIOUS
<1>1. /\ holder' = Hid
      /\ driveState' = driveState
      /\ work' = Tail(work)
      /\ Makes(Head(work), active.commands, active'.commands)
  BY MessageGranted
<1>2. PICK new \in Seq(Command) :
        /\ Makes(Head(work), active.commands, new)
        /\ Leads(new, Tail(work), ui.commands)
  BY FirstOfWork
<1>3. active'.commands = new
  BY <1>1, <1>2 DEF Makes
<1>4. \A i \in DOMAIN Tail(work) : Suits(Tail(work)[i], driveState)
  BY FirstOfWork
<1>5. Leads(active'.commands, work', ui'.commands)
  BY <1>1, <1>2, <1>3
<1> QED
  BY <1>1, <1>4, <1>5 DEF Follows

\* Nobody else takes write access for the handheld, or changes the active set
\* while the handheld holds it.
LEMMA RivalLeaves ==
  ASSUME TypeOK, work = <<>>, HandleMessage
  PROVE  /\ work' = <<>>
         /\ holder' = Hid => holder = Hid /\ active' = active
<1>1. PICK type : Handles(type)
  BY DEF HandleMessage, RequestWriteAccess, ReleaseWriteAccess, GetState,
         GetCommandSet, ListSavedSets, UpsertActive, UpsertSaved, UpdateCommand,
         DeleteActive, DeleteSaved, SetDrivePower, SetMotionState, AcknowledgeError
<1>2. work' = <<>>
  BY <1>1 DEF Handles
<1>3. Sender # Hid
  <2>1. queue # <<>> /\ Head(queue).kind = "message"
    BY <1>1 DEF Handles, MessageReady
  <2>2. Head(queue) \in Event
    BY <2>1, HeadTailProperties DEF TypeOK
  <2>3. Head(queue).from \in WebSockets
    BY <2>1, <2>2 DEF Event
  <2> QED
    BY <2>3, ControllerAssumption DEF Sender
<1>4. ASSUME holder' = Hid
      PROVE  holder = Hid
  <2>1. \/ holder' = holder \/ holder' = Nobody \/ holder' = Sender
    BY HolderMoves DEF Next, CoreStep
  <2>2. Hid # Nobody
    BY ControllerAssumption DEF Controllers
  <2> QED
    BY <1>3, <1>4, <2>1, <2>2
<1>5. ASSUME holder = Hid
      PROVE  active' = active
  <2>1. ~IsWriter
    BY <1>3, <1>5 DEF IsWriter
  <2> QED
    BY <2>1 DEF HandleMessage, RequestWriteAccess, ReleaseWriteAccess, GetState,
       GetCommandSet, ListSavedSets, UpsertActive, UpsertSaved, UpdateCommand,
       DeleteActive, DeleteSaved, SetDrivePower, SetMotionState, AcknowledgeError,
       ReplaceActive, Refuse, Decline, coreVars
<1> QED
  BY <1>2, <1>4, <1>5

\* Between reports nothing is left to lead anywhere.
LEMMA IdleFollows ==
  ASSUME HandInv, work = <<>>, work' = <<>>, ui' = ui,
         holder' = Hid => holder = Hid /\ active' = active
  PROVE  Follows'
<1>1. DOMAIN <<>> = {}
  OBVIOUS
<1>2. ASSUME holder' = Hid
      PROVE  Leads(active'.commands, work', ui'.commands)
  BY <1>2 DEF HandInv, Follows
<1> QED
  BY <1>1, <1>2 DEF Follows

\* Steps in which the UI manager has no part.
LEMMA OtherKeeps ==
  ASSUME HandInv, [OtherStep \/ HandheldStep]_uiVars
  PROVE  HandInv'
<1>1. ui' = ui
  BY DEF OtherStep, HandheldStep, uiVars
<1>2. UiTyped' /\ StrokeIsOrdered'
  BY <1>1 DEF HandInv, UiTyped, StrokeIsOrdered
<1>3. TypeOK'
  <2>1. [Next]_vars
    BY DEF OtherStep, HandheldStep, uiVars, Next, CoreStep, HandleEvent, Environment
  <2> QED
    BY <2>1, StepTyped DEF HandInv
<1>4. CASE HandleMessage
  <2>1. ASSUME work # <<>> PROVE Follows'
    BY <1>1, <1>4, <2>1, OwnMessageKeeps
  <2>2. ASSUME work = <<>> PROVE Follows'
    BY <1>1, <1>4, <2>2, RivalLeaves, IdleFollows DEF HandInv
  <2> QED
    BY <2>1, <2>2, <1>2, <1>3 DEF HandInv
<1>5. CASE HandleConnected \/ HandleDisconnected \/ HandleDriveState
  <2>1. work = <<>> /\ work' = <<>> /\ active' = active
    BY <1>5 DEF HandleConnected, HandleDisconnected, HandleDriveState, Receives, coreVars
  <2>2. holder' = holder \/ holder' = Nobody
    BY <1>5 DEF HandleConnected, HandleDisconnected, HandleDriveState, coreVars
  <2>3. Hid # Nobody
    BY ControllerAssumption DEF Controllers
  <2>4. Follows'
    BY <1>1, <2>1, <2>2, <2>3, IdleFollows
  <2> QED
    BY <1>2, <1>3, <2>4 DEF HandInv
<1>6. ASSUME \/ Environment
             \/ UNCHANGED uiVars
      PROVE  HandInv'
  <2>1. UNCHANGED <<work, holder, active, driveState>>
    BY <1>6 DEF Environment, OpenSession, CloseSession, SendMessage, HidConnects,
                HidDisconnects, HidReport, DriveReports, DriveTakesActions, Enqueue,
                uiVars, vars, coreVars
  <2>2. Follows'
    BY <1>1, <2>1 DEF HandInv, Follows
  <2> QED
    BY <1>2, <1>3, <2>2 DEF HandInv
<1> QED
  BY <1>4, <1>5, <1>6 DEF OtherStep, HandheldStep, Environment

LEMMA HandInit ==
  ASSUME UiInit
  PROVE  HandInv
<1>1. TypeOK
  BY InitTyped DEF UiInit
<1>2. UiTyped /\ StrokeIsOrdered
  BY DefaultsTyped DEF UiInit, UiTyped, StrokeIsOrdered, Ordered
<1>3. work = <<>> /\ holder = Nobody /\ DOMAIN <<>> = {} /\ Hid # Nobody
  BY ControllerAssumption DEF UiInit, Init, Controllers
<1>4. Follows
  BY <1>3 DEF Follows
<1> QED
  BY <1>1, <1>2, <1>4 DEF HandInv

LEMMA HandStep ==
  ASSUME HandInv, [UiNext]_uiVars
  PROVE  HandInv'
BY ClaimKeeps, ReportKeeps, OtherKeeps DEF UiNext

\* The start of the stroke never comes after its end, for any reports and limits:
\* clamping keeps the order of two positions that move together, and an end that
\* moves alone pushes the other one (ui_manager.rs:137-222).
THEOREM StrokeInOrder == UiSpec => []StrokeIsOrdered
<1>1. HandInv => StrokeIsOrdered
  BY DEF HandInv
<1>2. HandInv /\ [UiNext]_uiVars => HandInv'
  BY HandStep
<1> QED
  BY <1>1, <1>2, HandInit, PTL DEF UiSpec

\* While the handheld holds write access and has been heard out, the active set is
\* what its UI manager keeps, for any reports, any rivals and any order of events
\* (ui_manager.rs:113-124, 137-300, 324-335).
THEOREM MirrorsActiveSet == UiSpec => []HandheldMirrorsActiveSet
<1>1. ASSUME HandInv PROVE HandheldMirrorsActiveSet
  <2>1. SUFFICES ASSUME holder = Hid, work = <<>> PROVE active.commands = ui.commands
    BY DEF HandheldMirrorsActiveSet
  <2>2. Leads(active.commands, <<>>, ui.commands)
    BY <1>1, <2>1 DEF HandInv, Follows
  <2>3. active.commands \in Seq(Command)
    BY <1>1 DEF HandInv, TypeOK, CommandSet
  <2> QED
    BY <2>2, <2>3, NothingLeads
<1>2. HandInv => HandheldMirrorsActiveSet
  BY <1>1
<1>3. HandInv /\ [UiNext]_uiVars => HandInv'
  BY HandStep
<1> QED
  BY <1>2, <1>3, HandInit, PTL DEF UiSpec

\* The handheld is never refused anything (ui_manager.rs:113-124, 302-335;
\* main.rs:258-261).
THEOREM NeverRefused == UiSpec => HandheldIsNeverRefused
<1>1. ASSUME HandInv, [UiNext]_uiVars, work # <<>>, CoreActs
      PROVE  ~IsFailure(Last(sent').body)
  <2>1. TypeOK
    BY <1>1 DEF HandInv
  <2>2. CASE HandleMessage
    BY <1>1, <2>2, MessageGranted, GrantedIsLast
  <2>3. ASSUME Environment PROVE FALSE
    BY <1>1, <2>1, <2>3, EnvironmentDoesNotAct
  <2>4. ASSUME UNCHANGED uiVars PROVE FALSE
    BY <1>1, <2>1, <2>4, IdleDoesNotAct DEF uiVars
  <2>5. ~(Claim \/ ProcessReport \/ HandleConnected \/ HandleDisconnected
            \/ HandleDriveState)
    BY <1>1 DEF Claim, ProcessReport, HandleConnected, HandleDisconnected,
                HandleDriveState, Receives
  <2> QED
    BY <1>1, <2>2, <2>3, <2>4, <2>5 DEF UiNext, OtherStep, HandheldStep, Environment
<1>2. HandInv /\ [UiNext]_uiVars =>
        [work # <<>> /\ CoreActs => ~IsFailure(Last(sent').body)]_uiVars
  BY <1>1
<1>3. HandInv /\ [UiNext]_uiVars => HandInv'
  BY HandStep
<1> QED
  BY <1>2, <1>3, HandInit, PTL DEF UiSpec, HandheldIsNeverRefused

----------------------------------------------------------------------------
(* What the handheld shows after a number of reports.                      *)

\* Where a step from each number to the next one leads.
Courses(U, N, first, step) ==
  {f \in [0..N -> U] : f[0] = first /\ \A n \in 1..N : f[n] = step[n][f[n - 1]]}

LEMMA Recursion ==
  ASSUME NEW U, NEW N \in Nat, NEW first \in U, NEW step \in [1..N -> [U -> U]]
  PROVE  Courses(U, N, first, step) # {}
<1> DEFINE Upto(n) == Courses(U, n, first, step)
           Reach == {n \in 0..N : Upto(n) # {}}
<1>1. 0 \in Reach
  <2>1. [i \in 0..0 |-> first] \in Upto(0)
    BY DEF Courses
  <2> QED
    BY <2>1
<1>2. ASSUME NEW n \in 1..N, n - 1 \in Reach
      PROVE  n \in Reach
  <2>1. PICK g : g \in Upto(n - 1)
    BY <1>2
  <2>2. /\ g \in [0..(n - 1) -> U] /\ g[0] = first
        /\ \A i \in 1..(n - 1) : g[i] = step[i][g[i - 1]]
    BY <2>1 DEF Courses
  <2> DEFINE h == [i \in 0..n |-> IF i = n THEN step[n][g[n - 1]] ELSE g[i]]
  <2>3. g[n - 1] \in U
    BY <2>2
  <2>4. step[n][g[n - 1]] \in U
    BY <2>3
  <2>5. h \in [0..n -> U]
    BY <2>4, <2>2
  <2>6. h[0] = first
    BY <2>2
  <2>7. \A i \in 1..n : h[i] = step[i][h[i - 1]]
    BY <2>2
  <2>8. h \in Upto(n)
    BY <2>5, <2>6, <2>7 DEF Courses
  <2> HIDE DEF h, Upto
  <2> QED
    BY <2>8
<1> HIDE DEF Reach
<1>3. N \in Reach
  <2>1. 0..N \subseteq Reach
    BY <1>1, <1>2, UpTo
  <2> QED
    BY <2>1
<1> QED
  BY <1>3 DEF Reach

\* What a display variable may be, and what a report may say of them.
Shown == Int \cup BOOLEAN \cup DriveStates \cup {Unknown}
Screenful == [Variables -> Shown]
DisplayReport == UNION {[V -> Shown] : V \in SUBSET Variables}

LEMMA UpdateTyped ==
  ASSUME NEW known \in Screenful, NEW report \in DisplayReport
  PROVE  Update(known, report) \in Screenful
BY DEF Screenful, DisplayReport, Update

LEMMA UpdatesExist ==
  ASSUME NEW known \in Screenful, NEW reports \in Seq(DisplayReport)
  PROVE  \E f \in [0..Len(reports) -> Screenful] :
           /\ f[0] = known
           /\ \A n \in 1..Len(reports) : f[n] = Update(f[n - 1], reports[n])
           /\ AllUpdates(known, reports) = f[Len(reports)]
<1> DEFINE N == Len(reports)
           step == [n \in 1..N |-> [before \in Screenful |-> Update(before, reports[n])]]
           Step(f) == [n \in 0..N |-> IF n = 0 THEN known ELSE Update(f[n - 1], reports[n])]
<1>1. N \in Nat /\ \A n \in 1..N : reports[n] \in DisplayReport
  BY LenProperties, ElementOfSeq
<1> HIDE DEF N
<1>2. step \in [1..N -> [Screenful -> Screenful]]
  BY <1>1, UpdateTyped
<1>3. PICK f \in [0..N -> Screenful] :
        f[0] = known /\ \A n \in 1..N : f[n] = step[n][f[n - 1]]
  <2> HIDE DEF step
  <2>1. N \in Nat
    BY <1>1
  <2>2. Courses(Screenful, N, known, step) # {}
    BY <1>2, <2>1, Recursion
  <2> QED
    BY <2>2 DEF Courses
<1>4. ASSUME NEW n \in 1..N
      PROVE  f[n] = Update(f[n - 1], reports[n])
  <2>1. f[n] = step[n][f[n - 1]] /\ f[n - 1] \in Screenful
    BY <1>1, <1>3
  <2> QED
    BY <2>1
<1>5. f = Step(f)
  BY <1>1, <1>3, <1>4
<1> DEFINE updated == CHOOSE g : g = Step(g)
<1>6. updated = Step(updated)
  <2> HIDE DEF Step
  <2> QED
    BY <1>5
<1>7. AllUpdates(known, reports) = updated[N]
  BY DEF AllUpdates, N
<1> HIDE DEF updated
<1> DEFINE Same == {n \in 0..N : updated[n] = f[n]}
<1>8. 0 \in Same
  BY <1>1, <1>3, <1>6
<1>9. ASSUME NEW n \in 1..N, n - 1 \in Same
      PROVE  n \in Same
  <2>1. updated[n] = Update(updated[n - 1], reports[n])
    BY <1>1, <1>6
  <2> QED
    BY <1>1, <1>4, <1>9, <2>1
<1>10. N \in Same
  <2> HIDE DEF Same
  <2>1. 0..N \subseteq Same
    BY <1>1, <1>8, <1>9, UpTo
  <2> QED
    BY <1>1, <2>1
<1> QED
  BY <1>3, <1>4, <1>7, <1>10 DEF N

\* A report that is sent comes after all that wait.
LEMMA UpdatesLast ==
  ASSUME NEW known \in Screenful, NEW reports \in Seq(DisplayReport),
         NEW report \in DisplayReport
  PROVE  AllUpdates(known, Append(reports, report))
           = Update(AllUpdates(known, reports), report)
<1> DEFINE N == Len(reports)
           more == Append(reports, report)
<1>1. /\ N \in Nat /\ more \in Seq(DisplayReport) /\ Len(more) = N + 1
      /\ \A n \in 1..N : more[n] = reports[n]
      /\ more[N + 1] = report
  BY AppendProperties, LenProperties
<1> HIDE DEF N, more
<1>2. PICK f \in [0..N -> Screenful] :
        /\ f[0] = known
        /\ \A n \in 1..N : f[n] = Update(f[n - 1], reports[n])
        /\ AllUpdates(known, reports) = f[N]
  BY UpdatesExist DEF N
<1>3. PICK g \in [0..(N + 1) -> Screenful] :
        /\ g[0] = known
        /\ \A n \in 1..(N + 1) : g[n] = Update(g[n - 1], more[n])
        /\ AllUpdates(known, more) = g[N + 1]
  <2>1. \E g \in [0..Len(more) -> Screenful] :
           /\ g[0] = known
           /\ \A n \in 1..Len(more) : g[n] = Update(g[n - 1], more[n])
           /\ AllUpdates(known, more) = g[Len(more)]
    BY <1>1, UpdatesExist
  <2> QED
    BY <1>1, <2>1
<1> DEFINE Same == {n \in 0..N : g[n] = f[n]}
<1>4. 0 \in Same
  BY <1>1, <1>2, <1>3
<1>5. ASSUME NEW n \in 1..N, n - 1 \in Same
      PROVE  n \in Same
  <2>1. g[n] = Update(g[n - 1], reports[n])
    BY <1>1, <1>3
  <2> QED
    BY <1>1, <1>2, <1>5, <2>1
<1>6. N \in Same
  <2> HIDE DEF Same
  <2>1. 0..N \subseteq Same
    BY <1>1, <1>4, <1>5, UpTo
  <2> QED
    BY <1>1, <2>1
<1>7. g[N + 1] = Update(g[N], report)
  BY <1>1, <1>3
<1> QED
  BY <1>2, <1>3, <1>6, <1>7 DEF more

\* A report that is written comes before all that still wait.
LEMMA UpdatesFirst ==
  ASSUME NEW known \in Screenful, NEW reports \in Seq(DisplayReport), reports # <<>>
  PROVE  AllUpdates(known, reports)
           = AllUpdates(Update(known, Head(reports)), Tail(reports))
<1> DEFINE N == Len(reports)
           rest == Tail(reports)
           next == Update(known, Head(reports))
<1>1. /\ N \in Nat \ {0} /\ rest \in Seq(DisplayReport) /\ Len(rest) = N - 1
      /\ \A n \in 1..(N - 1) : rest[n] = reports[n + 1]
      /\ Head(reports) = reports[1] /\ reports[1] \in DisplayReport
  BY HeadTailProperties, LenProperties, EmptySeq, ElementOfSeq
<1>2. next \in Screenful
  BY <1>1, UpdateTyped
<1>3. next = Update(known, reports[1])
  BY <1>1
<1> HIDE DEF N, rest, next
<1>4. PICK f \in [0..N -> Screenful] :
        /\ f[0] = known
        /\ \A n \in 1..N : f[n] = Update(f[n - 1], reports[n])
        /\ AllUpdates(known, reports) = f[N]
  BY UpdatesExist DEF N
<1>5. PICK g \in [0..(N - 1) -> Screenful] :
        /\ g[0] = next
        /\ \A n \in 1..(N - 1) : g[n] = Update(g[n - 1], rest[n])
        /\ AllUpdates(next, rest) = g[N - 1]
  <2>1. \E g \in [0..Len(rest) -> Screenful] :
           /\ g[0] = next
           /\ \A n \in 1..Len(rest) : g[n] = Update(g[n - 1], rest[n])
           /\ AllUpdates(next, rest) = g[Len(rest)]
    BY <1>1, <1>2, UpdatesExist
  <2> QED
    BY <1>1, <2>1
<1> DEFINE Same == {n \in 0..(N - 1) : g[n] = f[n + 1]}
<1>6. 0 \in Same
  <2>1. f[1] = Update(f[0], reports[1])
    BY <1>1, <1>4
  <2> QED
    BY <1>1, <1>3, <1>4, <1>5, <2>1
<1>7. ASSUME NEW n \in 1..(N - 1), n - 1 \in Same
      PROVE  n \in Same
  <2>1. g[n] = Update(g[n - 1], reports[n + 1])
    BY <1>1, <1>5
  <2>2. f[n + 1] = Update(f[n], reports[n + 1])
    BY <1>1, <1>4
  <2>3. g[n - 1] = f[n]
    BY <1>1, <1>7
  <2> QED
    BY <1>1, <2>1, <2>2, <2>3
<1>8. N - 1 \in Same
  <2> HIDE DEF Same
  <2>1. N - 1 \in Nat
    BY <1>1
  <2>2. 0..(N - 1) \subseteq Same
    BY <1>6, <1>7, <2>1, UpTo
  <2> QED
    BY <2>1, <2>2
<1> QED
  BY <1>1, <1>4, <1>5, <1>8 DEF rest, next

----------------------------------------------------------------------------
(* An update is written in parts.                                          *)

Packing(D) == [reports : Seq(SUBSET D), filling : SUBSET D, used : Int]

\* Whether a variable has been packed.
Holds(packed, v) ==
  v \in packed.filling \/ \E i \in 1..Len(packed.reports) : v \in packed.reports[i]

LEMMA AddEntryHolds ==
  ASSUME NEW D \in SUBSET Variables, NEW packed \in Packing(D), NEW v \in D
  PROVE  /\ AddEntry(packed, v) \in Packing(D)
         /\ Holds(AddEntry(packed, v), v)
         /\ \A w : Holds(packed, w) => Holds(AddEntry(packed, v), w)
<1>1. /\ packed.reports \in Seq(SUBSET D) /\ packed.filling \in SUBSET D
      /\ packed.used \in Int
      /\ packed = [reports |-> packed.reports, filling |-> packed.filling,
                   used |-> packed.used]
  BY DEF Packing
<1>2. Size(v) \in Int
  BY DEF Size, Variables
<1>3. CASE packed.used + Size(v) > MaxPayload /\ packed.filling # {}
  <2> DEFINE more == Append(packed.reports, packed.filling)
  <2>1. AddEntry(packed, v) = [reports |-> more, filling |-> {v}, used |-> Size(v)]
    BY <1>3 DEF AddEntry
  <2>2. /\ Len(packed.reports) \in Nat
        /\ more \in Seq(SUBSET D) /\ Len(more) = Len(packed.reports) + 1
        /\ \A i \in 1..Len(packed.reports) : more[i] = packed.reports[i]
        /\ more[Len(packed.reports) + 1] = packed.filling
    BY <1>1, AppendProperties, LenProperties
  <2> HIDE DEF more
  <2>3. AddEntry(packed, v) \in Packing(D)
    BY <1>2, <2>1, <2>2 DEF Packing
  <2>4. /\ AddEntry(packed, v).reports = more
        /\ AddEntry(packed, v).filling = {v}
    BY <2>1
  <2>5. ASSUME NEW w, Holds(packed, w) PROVE Holds(AddEntry(packed, v), w)
    <3>1. CASE w \in packed.filling
      BY <2>2, <2>4, <3>1 DEF Holds
    <3>2. CASE \E i \in 1..Len(packed.reports) : w \in packed.reports[i]
      BY <2>2, <2>4, <3>2 DEF Holds
    <3> QED
      BY <2>5, <3>1, <3>2 DEF Holds
  <2> QED
    BY <2>3, <2>4, <2>5 DEF Holds
<1>4. CASE ~(packed.used + Size(v) > MaxPayload /\ packed.filling # {})
  <2>1. AddEntry(packed, v)
          = [reports |-> packed.reports, filling |-> packed.filling \cup {v},
             used |-> packed.used + Size(v)]
    BY <1>1, <1>4 DEF AddEntry, Packing
  <2>2. AddEntry(packed, v) \in Packing(D)
    BY <1>1, <1>2, <2>1 DEF Packing
  <2>3. /\ AddEntry(packed, v).reports = packed.reports
        /\ AddEntry(packed, v).filling = packed.filling \cup {v}
    BY <2>1
  <2> QED
    BY <2>2, <2>3 DEF Holds
<1> QED
  BY <1>3, <1>4

LEMMA OrderOfAll ==
  /\ Len(Order) = 7 /\ Order \in Seq(Variables)
  /\ \A v \in Variables : \E n \in 1..Len(Order) : v = Order[n]
<1>1. Len(Order) = 7 /\ Order \in Seq(Variables)
  BY DEF Order, Variables
<1>2. /\ Order[1] = "start" /\ Order[2] = "end" /\ Order[3] = "speed"
      /\ Order[4] = "accel" /\ Order[5] = "state" /\ Order[6] = "holding"
      /\ Order[7] = "reset"
  BY DEF Order
<1>3. \A n \in {1, 2, 3, 4, 5, 6, 7} : n \in 1..Len(Order)
  BY <1>1
<1> QED
  BY <1>1, <1>2, <1>3 DEF Variables

LEMMA PackedHolds ==
  ASSUME NEW report, DOMAIN report \subseteq Variables
  PROVE  /\ Packed(report) \in Packing(DOMAIN report)
         /\ \A v \in DOMAIN report : Holds(Packed(report), v)
<1> DEFINE D == DOMAIN report
           N == Len(Order)
           U == Packing(D)
           first == [reports |-> <<>>, filling |-> {}, used |-> 0]
           Pack(p, n) == IF Order[n] \in D THEN AddEntry(p, Order[n]) ELSE p
           step == [n \in 1..N |-> [p \in U |-> Pack(p, n)]]
           Step(f) == [n \in 0..N |-> IF n = 0 THEN first ELSE Pack(f[n - 1], n)]
<1>1. /\ N \in Nat /\ D \in SUBSET Variables
      /\ \A v \in D : \E n \in 1..N : v = Order[n]
  BY OrderOfAll
<1>2. first \in U
  BY DEF Packing
<1>3. \A n \in 1..N : \A p \in U :
        /\ Pack(p, n) \in U
        /\ Order[n] \in D => Holds(Pack(p, n), Order[n])
        /\ \A w : Holds(p, w) => Holds(Pack(p, n), w)
  <2> HIDE DEF U, N
  <2> SUFFICES ASSUME NEW n \in 1..N, NEW p \in U
               PROVE  /\ Pack(p, n) \in U
                      /\ Order[n] \in D => Holds(Pack(p, n), Order[n])
                      /\ \A w : Holds(p, w) => Holds(Pack(p, n), w)
    OBVIOUS
  <2>1. CASE Order[n] \in D
    BY <1>1, <2>1, AddEntryHolds DEF U
  <2>2. CASE Order[n] \notin D
    BY <2>2
  <2> QED
    BY <2>1, <2>2
<1>4. Packed(report) = (CHOOSE f : f = Step(f))[N]
  BY DEF Packed
<1> HIDE DEF D, N, U, first, Pack
<1>5. step \in [1..N -> [U -> U]]
  BY <1>3
<1>6. PICK f \in [0..N -> U] :
        f[0] = first /\ \A n \in 1..N : f[n] = step[n][f[n - 1]]
  <2> HIDE DEF step
  <2>1. Courses(U, N, first, step) # {}
    BY <1>1, <1>2, <1>5, Recursion
  <2> QED
    BY <2>1 DEF Courses
<1>7. ASSUME NEW n \in 1..N
      PROVE  f[n] = Pack(f[n - 1], n) /\ f[n - 1] \in U
  <2>1. f[n] = step[n][f[n - 1]] /\ f[n - 1] \in U
    BY <1>1, <1>6
  <2> QED
    BY <2>1
<1>8. f = Step(f)
  BY <1>1, <1>6, <1>7
<1> DEFINE packed == CHOOSE g : g = Step(g)
<1>9. packed = Step(packed)
  <2> HIDE DEF Step
  <2> QED
    BY <1>8
<1> HIDE DEF packed
<1> DEFINE Held(n) == \A k \in 1..n : Order[k] \in D => Holds(f[n], Order[k])
           Same == {n \in 0..N : packed[n] = f[n] /\ Held(n)}
<1>10. 0 \in Same
  BY <1>1, <1>6, <1>9
<1>11. ASSUME NEW n \in 1..N, n - 1 \in Same
       PROVE  n \in Same
  <2>1. packed[n] = Pack(packed[n - 1], n)
    BY <1>1, <1>9
  <2>2. packed[n] = f[n]
    BY <1>7, <1>11, <2>1
  <2>3. ASSUME NEW k \in 1..n, Order[k] \in D
        PROVE  Holds(f[n], Order[k])
    <3>1. CASE k = n
      BY <1>3, <1>7, <2>3, <3>1
    <3>2. CASE k # n
      <4>1. k \in 1..(n - 1)
        BY <1>1, <3>2
      <4>2. Holds(f[n - 1], Order[k])
        BY <1>11, <2>3, <4>1
      <4> QED
        BY <1>3, <1>7, <4>2
    <3> QED
      BY <3>1, <3>2
  <2> QED
    BY <1>1, <2>2, <2>3
<1>12. N \in Same
  <2> HIDE DEF Same
  <2>1. 0..N \subseteq Same
    BY <1>1, <1>10, <1>11, UpTo
  <2> QED
    BY <1>1, <2>1
<1>13. Packed(report) = f[N] /\ f[N] \in U
  BY <1>1, <1>4, <1>6, <1>12 DEF packed
<1>14. \A v \in D : Holds(f[N], v)
  BY <1>1, <1>12
<1> QED
  BY <1>13, <1>14 DEF D, U

\* The parts have all variables of the update, and no others.
LEMMA PacketsHold ==
  ASSUME NEW report, DOMAIN report \subseteq Variables
  PROVE  /\ Packets(report) \in Seq(SUBSET DOMAIN report)
         /\ \A v \in DOMAIN report :
              \E i \in 1..Len(Packets(report)) : v \in Packets(report)[i]
<1> DEFINE D == DOMAIN report
           packed == Packed(report)
           more == Append(packed.reports, packed.filling)
<1>1. /\ packed.reports \in Seq(SUBSET D) /\ packed.filling \in SUBSET D
      /\ \A v \in D : Holds(packed, v)
  BY PackedHolds DEF Packing
<1>2. Packets(report) = IF packed.filling = {} THEN packed.reports ELSE more
  BY DEF Packets
<1>3. /\ Len(packed.reports) \in Nat
      /\ more \in Seq(SUBSET D) /\ Len(more) = Len(packed.reports) + 1
      /\ \A i \in 1..Len(packed.reports) : more[i] = packed.reports[i]
      /\ more[Len(packed.reports) + 1] = packed.filling
  BY <1>1, AppendProperties, LenProperties
<1> HIDE DEF packed, more
<1>4. CASE packed.filling = {}
  BY <1>1, <1>2, <1>4 DEF Holds
<1>5. CASE packed.filling # {}
  <2>1. Packets(report) = more
    BY <1>2, <1>5
  <2>2. ASSUME NEW v \in D PROVE \E i \in 1..Len(more) : v \in more[i]
    <3>1. CASE v \in packed.filling
      BY <1>3, <3>1
    <3>2. CASE \E i \in 1..Len(packed.reports) : v \in packed.reports[i]
      BY <1>3, <3>2
    <3> QED
      BY <1>1, <3>1, <3>2 DEF Holds
  <2> QED
    BY <1>3, <2>1, <2>2
<1> QED
  BY <1>4, <1>5

\* Written in parts, an update does what it would do at once.
LEMMA SplitUpdates ==
  ASSUME NEW known \in Screenful, NEW report \in DisplayReport
  PROVE  AllUpdates(known, Split(report)) = Update(known, report)
<1> DEFINE packets == Packets(report)
           parts == Split(report)
           N == Len(packets)
<1>1. DOMAIN report \subseteq Variables /\ \A v \in DOMAIN report : report[v] \in Shown
  BY DEF DisplayReport
<1>2. /\ packets \in Seq(SUBSET DOMAIN report)
      /\ \A v \in DOMAIN report : \E i \in 1..N : v \in packets[i]
  BY <1>1, PacketsHold
<1>3. /\ N \in Nat /\ DOMAIN packets = 1..N
      /\ \A i \in 1..N : packets[i] \subseteq DOMAIN report
  BY <1>2, LenProperties, ElementOfSeq
<1>4. parts = [n \in 1..N |-> [v \in packets[n] |-> report[v]]]
  BY <1>3 DEF Split
<1> HIDE DEF packets, parts, N
<1>5. \A n \in 1..N : [v \in packets[n] |-> report[v]] \in DisplayReport
  <2> SUFFICES ASSUME NEW n \in 1..N
               PROVE  [v \in packets[n] |-> report[v]] \in DisplayReport
    OBVIOUS
  <2>1. packets[n] \in SUBSET Variables
    BY <1>1, <1>3
  <2>2. [v \in packets[n] |-> report[v]] \in [packets[n] -> Shown]
    BY <1>1, <1>3
  <2> QED
    BY <2>1, <2>2 DEF DisplayReport
<1>6. parts \in [1..N -> DisplayReport]
  BY <1>4, <1>5
<1>7. parts \in Seq(DisplayReport) /\ Len(parts) = N
  BY <1>3, <1>6, SeqDef, LenProperties
<1>8. PICK f \in [0..N -> Screenful] :
        /\ f[0] = known
        /\ \A n \in 1..N : f[n] = Update(f[n - 1], parts[n])
        /\ AllUpdates(known, parts) = f[N]
  <2>1. \E f \in [0..Len(parts) -> Screenful] :
           /\ f[0] = known
           /\ \A n \in 1..Len(parts) : f[n] = Update(f[n - 1], parts[n])
           /\ AllUpdates(known, parts) = f[Len(parts)]
    BY <1>7, UpdatesExist
  <2> QED
    BY <1>7, <2>1
<1> DEFINE Told(n) == [v \in Variables |->
                         IF \E i \in 1..n : v \in packets[i] THEN report[v] ELSE known[v]]
           Same == {n \in 0..N : f[n] = Told(n)}
<1>9. 0 \in Same
  BY <1>3, <1>8 DEF Screenful
<1>10. ASSUME NEW n \in 1..N, n - 1 \in Same
       PROVE  n \in Same
  <2>1. f[n] = Update(Told(n - 1), [v \in packets[n] |-> report[v]])
    BY <1>3, <1>4, <1>8, <1>10
  <2>2. ASSUME NEW v \in Variables
        PROVE  (\E i \in 1..n : v \in packets[i])
                 <=> (v \in packets[n] \/ \E i \in 1..(n - 1) : v \in packets[i])
    BY <1>3
  <2>3. Update(Told(n - 1), [v \in packets[n] |-> report[v]]) = Told(n)
    BY <2>2 DEF Update
  <2> QED
    BY <1>3, <2>1, <2>3
<1>11. N \in Same
  <2> HIDE DEF Same
  <2>1. 0..N \subseteq Same
    BY <1>3, <1>9, <1>10, UpTo
  <2> QED
    BY <1>3, <2>1
<1>12. Told(N) = Update(known, report)
  <2>1. ASSUME NEW v \in Variables
        PROVE  (\E i \in 1..N : v \in packets[i]) <=> v \in DOMAIN report
    BY <1>2, <1>3 DEF N, packets
  <2> QED
    BY <2>1 DEF Update
<1> QED
  BY <1>8, <1>11, <1>12 DEF parts

----------------------------------------------------------------------------
(* What the handheld will show.                                            *)

\* What was sent is what will be shown, as long as the handheld stays.
DisplayInv ==
  /\ HandInv
  /\ lastSent \in Screenful
  /\ shown \in Screenful
  /\ outbound \in Seq(DisplayReport)
  /\ DisplayIsCurrent

\* The core has not heard of the last device yet.
Unheard == Connected(Hid) \in ToSet(queue)

LEMMA UnheardUntilGreeted ==
  ASSUME TypeOK, queue' = Tail(queue), session' = session, queue # <<>>,
         Head(queue) # Connected(Hid), Unheard
  PROVE  Unheard'
<1>1. PICK i \in DOMAIN queue : queue[i] = Connected(Hid)
  BY DEF Unheard, ToSet
<1>2. /\ queue \in Seq(Event) /\ Len(queue) \in Nat /\ DOMAIN queue = 1..Len(queue)
      /\ Head(queue) = queue[1]
      /\ DOMAIN Tail(queue) = 1..(Len(queue) - 1)
      /\ \A j \in 1..(Len(queue) - 1) : Tail(queue)[j] = queue[j + 1]
  BY LenProperties, HeadTailProperties DEF TypeOK
<1>3. i # 1
  BY <1>1, <1>2
<1>4. i - 1 \in DOMAIN Tail(queue) /\ Tail(queue)[i - 1] = Connected(Hid)
  BY <1>1, <1>2, <1>3
<1> QED
  BY <1>4 DEF Unheard, ToSet, Connected

LEMMA UnheardWithMore ==
  ASSUME TypeOK, NEW e, queue' = Append(queue, e)
  PROVE  /\ Unheard => Unheard'
         /\ e = Connected(Hid) => Unheard'
<1>1. /\ Len(queue) \in Nat /\ DOMAIN queue = 1..Len(queue)
      /\ DOMAIN queue' = 1..(Len(queue) + 1)
      /\ \A i \in 1..Len(queue) : queue'[i] = queue[i]
      /\ queue'[Len(queue) + 1] = e
  <2>1. queue \in Seq(Event \cup {e})
    BY ElementOfSeq, LenProperties, SeqDef DEF TypeOK
  <2> QED
    BY <2>1, AppendProperties, LenProperties
<1>2. ASSUME Unheard PROVE Unheard'
  <2>1. PICK i \in DOMAIN queue : queue[i] = Connected(Hid)
    BY <1>2 DEF Unheard, ToSet
  <2>2. i \in DOMAIN queue' /\ queue'[i] = Connected(Hid)
    BY <1>1, <2>1
  <2> QED
    BY <2>2 DEF Unheard, ToSet, Connected
<1>3. ASSUME e = Connected(Hid) PROVE Unheard'
  <2>1. Len(queue) + 1 \in DOMAIN queue' /\ queue'[Len(queue) + 1] = Connected(Hid)
    BY <1>1, <1>3
  <2> QED
    BY <2>1 DEF Unheard, ToSet, Connected
<1> QED
  BY <1>2, <1>3

\* The event that announces the handheld is handled by greeting it, and whether the
\* handheld is connected is its own matter.
LEMMA OthersLeaveHandheld ==
  ASSUME TypeOK, Claim \/ ProcessReport \/ OtherStep
  PROVE  session'[Hid] = session[Hid] /\ (Unheard => Unheard')
<1>1. CASE Claim \/ ProcessReport \/ HandleDisconnected \/ HandleDriveState
  <2>1. /\ queue # <<>> /\ queue' = Tail(queue) /\ session' = session
        /\ Head(queue).kind # "connected"
    BY <1>1 DEF Claim, ProcessReport, HandleDisconnected, HandleDriveState, Receives
  <2>2. Head(queue) # Connected(Hid)
    BY <2>1 DEF Connected
  <2> QED
    BY <2>1, <2>2, UnheardUntilGreeted
<1>2. CASE HandleMessage
  <2>1. PICK type : Handles(type)
    BY <1>2 DEF HandleMessage, RequestWriteAccess, ReleaseWriteAccess, GetState,
         GetCommandSet, ListSavedSets, UpsertActive, UpsertSaved, UpdateCommand,
         DeleteActive, DeleteSaved, SetDrivePower, SetMotionState, AcknowledgeError
  <2>2. CASE work # <<>>
    BY <2>1, <2>2 DEF Handles, Unheard, Connected, ToSet
  <2>3. CASE work = <<>>
    <3>1. /\ queue # <<>> /\ queue' = Tail(queue) /\ session' = session
          /\ Head(queue).kind # "connected"
      BY <2>1, <2>3 DEF Handles, MessageReady
    <3>2. Head(queue) # Connected(Hid)
      BY <3>1 DEF Connected
    <3> QED
      BY <3>1, <3>2, UnheardUntilGreeted
  <2> QED
    BY <2>2, <2>3
<1>3. CASE \E c \in WebSockets :
             OpenSession(c) \/ CloseSession(c) \/ \E m \in Requests : SendMessage(c, m)
  <2>1. PICK c \in WebSockets :
          OpenSession(c) \/ CloseSession(c) \/ \E m \in Requests : SendMessage(c, m)
    BY <1>3
  <2>2. \E e : queue' = Append(queue, e)
    BY <2>1 DEF OpenSession, CloseSession, SendMessage, Enqueue
  <2>3. c # Hid
    BY ControllerAssumption
  <2>4. Hid \in DOMAIN session
    BY DEF TypeOK, Controllers
  <2>5. session' = session \/ \E x : session' = [session EXCEPT ![c] = x]
    BY <2>1 DEF OpenSession, CloseSession, SendMessage
  <2>6. session'[Hid] = session[Hid]
    BY <2>3, <2>4, <2>5
  <2> QED
    BY <2>2, <2>6, UnheardWithMore
<1>4. CASE \E s \in ReportedStates : DriveReports(s)
  <2>1. \E e : queue' = Append(queue, e) /\ session' = session
    BY <1>4 DEF DriveReports, Enqueue
  <2> QED
    BY <2>1, UnheardWithMore
<1>5. CASE DriveTakesActions
  BY <1>5 DEF DriveTakesActions, Unheard, Connected, ToSet
<1> QED
  BY <1>1, <1>2, <1>3, <1>4, <1>5 DEF OtherStep

LEMMA DisplayedTyped ==
  ASSUME DisplayInv
  PROVE  Displayed \in Screenful
<1>1. PICK f \in [0..Len(outbound) -> Screenful] :
        AllUpdates(shown, outbound) = f[Len(outbound)]
  BY UpdatesExist DEF DisplayInv
<1>2. Len(outbound) \in 0..Len(outbound)
  BY LenProperties DEF DisplayInv
<1> QED
  BY <1>1, <1>2 DEF Displayed

\* Nothing is current that was not, as long as the handheld is the same.
LEMMA CurrentAsBefore ==
  ASSUME DisplayIsCurrent, UNCHANGED displayVars,
         session'[Hid] = "open" => session[Hid] = "open", Unheard => Unheard'
  PROVE  DisplayIsCurrent'
<1>1. Displayed' = Displayed /\ lastSent' = lastSent
  BY DEF Displayed, AllUpdates, Update, displayVars
<1> QED
  BY <1>1 DEF DisplayIsCurrent, Unheard

\* What has changed is sent, and the rest was sent before.
LEMMA VariablesSent ==
  ASSUME DisplayInv, NEW values \in Screenful, SendVariables(values), shown' = shown
  PROVE  /\ outbound' \in Seq(DisplayReport)
         /\ lastSent' = values
         /\ session[Hid] = "open" /\ ~Unheard
              => \A v \in Variables : values[v] \in {Unknown, Displayed'[v]}
<1> DEFINE changes == Changed(values)
           report == [v \in changes |-> values[v]]
<1>1. /\ changes \in SUBSET Variables
      /\ \A v \in Variables : v \notin changes => values[v] = lastSent[v]
  BY DEF Changed
<1>2. lastSent' = values /\ outbound' = IF changes = {} THEN outbound
                                         ELSE Append(outbound, report)
  BY DEF SendVariables
<1>3. session[Hid] = "open" /\ ~Unheard
        => \A v \in Variables : lastSent[v] \in {Unknown, Displayed[v]}
  BY DEF DisplayInv, DisplayIsCurrent, Unheard
<1>4. report \in DisplayReport
  <2>1. report \in [changes -> Shown]
    BY <1>1 DEF Screenful
  <2> QED
    BY <1>1, <2>1 DEF DisplayReport
<1>5. Displayed' = AllUpdates(shown, outbound')
  BY DEF Displayed, AllUpdates, Update
<1>6. CASE changes = {}
  <2>1. Displayed' = Displayed
    BY <1>2, <1>5, <1>6 DEF Displayed
  <2> QED
    BY <1>1, <1>2, <1>3, <1>6, <2>1 DEF DisplayInv
<1>7. CASE changes # {}
  <2>1. outbound' = Append(outbound, report)
    BY <1>2, <1>7
  <2>2. Displayed' = Update(Displayed, report)
    BY <1>4, <1>5, <2>1, UpdatesLast DEF DisplayInv, Displayed
  <2>3. outbound' \in Seq(DisplayReport)
    BY <1>4, <2>1, AppendProperties DEF DisplayInv
  <2>4. ASSUME session[Hid] = "open" /\ ~Unheard, NEW v \in Variables
        PROVE  values[v] \in {Unknown, Displayed'[v]}
    <3>1. CASE v \in changes
      BY <2>2, <3>1 DEF Update
    <3>2. CASE v \notin changes
      BY <1>1, <1>3, <2>2, <2>4, <3>2 DEF Update
    <3> QED
      BY <3>1, <3>2
  <2> QED
    BY <1>2, <2>3, <2>4
<1> QED
  BY <1>6, <1>7

\* The variables of a report are those of the commands and the drive state.
LEMMA ValuesTyped ==
  ASSUME DisplayInv, ReportAndDisplay
  PROVE  Values(Processed) \in Screenful
<1> DEFINE u == Processed
<1>1. HandInv'
  BY ReportKeeps DEF DisplayInv, ReportAndDisplay
<1>2. u.commands \in Pair /\ u.holding \in BOOLEAN
  BY <1>1 DEF HandInv, UiTyped, ReportAndDisplay, ProcessReport
<1>3. u.commands[1] \in Command /\ u.commands[2] \in Command
  BY <1>2 DEF Pair
<1>4. /\ u.commands[1].position \in Int /\ u.commands[2].position \in Int
      /\ u.commands[1].velocity \in Int /\ u.commands[1].acceleration \in Int
  BY <1>3, HidAssumption DEF Command
<1>5. driveState \in DriveStates /\ lastSent.reset \in Shown
  BY DEF DisplayInv, HandInv, TypeOK, Screenful, Variables
<1> HIDE DEF u
<1>6. ASSUME NEW r \in Shown
      PROVE  [start |-> u.commands[1].position, end |-> u.commands[2].position,
              speed |-> u.commands[1].velocity, accel |-> u.commands[1].acceleration,
              state |-> driveState, holding |-> u.holding, reset |-> r] \in Screenful
  BY <1>2, <1>4, <1>5 DEF Screenful, Variables, Shown
<1>7. (IF u.reset THEN TRUE ELSE lastSent.reset) \in Shown
  BY <1>5 DEF Shown
<1> QED
  BY <1>6, <1>7 DEF Values, u

LEMMA DisplayInit ==
  ASSUME HidInit
  PROVE  DisplayInv
<1>1. HandInv
  BY HandInit DEF HidInit
<1>2. NothingSent \in Screenful
  BY DEF NothingSent, Screenful, Shown
<1>3. \A v \in Variables : lastSent[v] = Unknown
  BY DEF HidInit, NothingSent
<1> QED
  BY <1>1, <1>2, <1>3 DEF DisplayInv, HidInit, DisplayIsCurrent

LEMMA DisplayStep ==
  ASSUME DisplayInv, [HidNext]_hidVars
  PROVE  DisplayInv'
<1>1. TypeOK /\ HandInv'
  <2>1. [UiNext]_uiVars
    BY DEF HidNext, ReportAndDisplay, Greet, GreetOther, Plug, FailToOpen, Unplug, Read,
           ReadOther, WriteReport, WriteFails, Flushed, UiNext, HandheldStep, hidVars,
           uiVars
  <2> QED
    BY <2>1, HandStep DEF DisplayInv, HandInv
<1>2. /\ lastSent \in Screenful /\ shown \in Screenful /\ outbound \in Seq(DisplayReport)
      /\ DisplayIsCurrent
  BY DEF DisplayInv
<1>3. NothingSent \in Screenful /\ \A v \in Variables : NothingSent[v] = Unknown
  BY DEF NothingSent, Screenful, Shown
<1>4. Hid \in Controllers
  BY DEF Controllers
<1>5. CASE (Claim \/ OtherStep) /\ UNCHANGED displayVars
  <2>1. DisplayIsCurrent'
    BY <1>1, <1>2, <1>5, OthersLeaveHandheld, CurrentAsBefore
  <2> QED
    BY <1>1, <1>2, <1>5, <2>1 DEF DisplayInv, displayVars
<1>6. CASE ReportAndDisplay
  <2> DEFINE values == Values(Processed)
  <2>1. /\ values \in Screenful /\ SendVariables(values) /\ shown' = shown
    BY <1>6, ValuesTyped DEF ReportAndDisplay
  <2> HIDE DEF values
  <2>2. /\ outbound' \in Seq(DisplayReport) /\ lastSent' = values
        /\ session[Hid] = "open" /\ ~Unheard
             => \A v \in Variables : values[v] \in {Unknown, Displayed'[v]}
    BY <2>1, VariablesSent
  <2>3. session'[Hid] = session[Hid] /\ (Unheard => Unheard')
    BY <1>1, <1>6, OthersLeaveHandheld DEF ReportAndDisplay
  <2>4. DisplayIsCurrent'
    BY <2>2, <2>3 DEF DisplayIsCurrent, Unheard
  <2> QED
    BY <1>1, <1>2, <2>1, <2>2, <2>4 DEF DisplayInv
<1>7. CASE Greet
  <2>1. Screen \in DisplayReport
    <3>1. Screen \in [{} -> Shown]
      BY DEF Screen
    <3> QED
      BY <3>1 DEF DisplayReport
  <2>2. lastSent' = NothingSent /\ shown' = shown /\ outbound' \in Seq(DisplayReport)
    BY <1>2, <1>7, <2>1, AppendProperties DEF Greet
  <2>3. DisplayIsCurrent'
    BY <1>3, <2>2 DEF DisplayIsCurrent
  <2> QED
    BY <1>1, <1>2, <1>3, <2>2, <2>3 DEF DisplayInv
<1>8. CASE GreetOther
  <2>1. /\ queue # <<>> /\ queue' = Tail(queue) /\ session' = session
        /\ Head(queue).from # Hid /\ UNCHANGED displayVars
    BY <1>8 DEF GreetOther, HandleConnected, Receives
  <2>2. Head(queue) # Connected(Hid)
    BY <2>1 DEF Connected
  <2>3. DisplayIsCurrent'
    BY <1>1, <1>2, <2>1, <2>2, UnheardUntilGreeted, CurrentAsBefore
  <2> QED
    BY <1>1, <1>2, <2>1, <2>3 DEF DisplayInv, displayVars
<1>9. CASE Plug
  <2>1. queue' = Append(queue, Connected(Hid))
    BY <1>9 DEF Plug, HidConnects, Enqueue
  <2>2. DisplayIsCurrent'
    BY <1>1, <2>1, UnheardWithMore DEF DisplayIsCurrent, Unheard
  <2> QED
    BY <1>1, <1>2, <1>3, <1>9, <2>2 DEF DisplayInv, Plug
<1>10. CASE FailToOpen \/ Unplug \/ WriteFails
  <2>1. session'[Hid] = "closed"
    BY <1>1, <1>4, <1>10 DEF FailToOpen, Unplug, WriteFails, HidDisconnects, TypeOK
  <2>2. DisplayIsCurrent'
    BY <2>1 DEF DisplayIsCurrent
  <2>3. /\ lastSent' = lastSent /\ shown' = shown
        /\ outbound' = outbound \/ (outbound # <<>> /\ outbound' = Tail(outbound))
    BY <1>10 DEF FailToOpen, Unplug, WriteFails, displayVars
  <2>4. outbound' \in Seq(DisplayReport)
    BY <1>2, <2>3, HeadTailProperties
  <2> QED
    BY <1>1, <1>2, <2>2, <2>3, <2>4 DEF DisplayInv
<1>11. CASE (\E r \in HidReports : Read(r)) \/ ReadOther \/ Flushed
  <2>1. /\ UNCHANGED <<lastSent, outbound, shown>> /\ session' = session
        /\ queue' = queue \/ \E e : queue' = Append(queue, e)
    BY <1>11 DEF Read, ReadOther, Flushed, HidReport, Enqueue, uiVars, vars
  <2>2. Unheard => Unheard'
    BY <1>1, <2>1, UnheardWithMore DEF Unheard, Connected, ToSet
  <2>3. Displayed' = Displayed
    BY <2>1 DEF Displayed, AllUpdates, Update
  <2>4. DisplayIsCurrent'
    BY <1>2, <2>1, <2>2, <2>3 DEF DisplayIsCurrent, Unheard
  <2> QED
    BY <1>1, <1>2, <2>1, <2>4 DEF DisplayInv
<1>12. CASE WriteReport
  <2>1. /\ outbound # <<>> /\ outbound' = Tail(outbound)
        /\ shown' = AllUpdates(shown, Split(Head(outbound)))
        /\ lastSent' = lastSent /\ session' = session /\ queue' = queue
    BY <1>12 DEF WriteReport, uiVars, vars
  <2>2. Head(outbound) \in DisplayReport /\ Tail(outbound) \in Seq(DisplayReport)
    BY <1>2, <2>1, HeadTailProperties
  <2>3. shown' = Update(shown, Head(outbound)) /\ shown' \in Screenful
    BY <1>2, <2>1, <2>2, SplitUpdates, UpdateTyped
  <2>4. Displayed' = AllUpdates(shown', outbound')
    BY DEF Displayed, AllUpdates, Update
  <2>5. Displayed' = Displayed
    BY <1>2, <2>1, <2>3, <2>4, UpdatesFirst DEF Displayed
  <2>6. Unheard' = Unheard
    BY <2>1 DEF Unheard, Connected, ToSet
  <2>7. DisplayIsCurrent'
    BY <1>2, <2>1, <2>5, <2>6 DEF DisplayIsCurrent, Unheard
  <2> QED
    BY <1>1, <1>2, <2>1, <2>2, <2>3, <2>7 DEF DisplayInv
<1>13. CASE UNCHANGED hidVars
  <2>1. session' = session /\ queue' = queue /\ UNCHANGED displayVars
    BY <1>13 DEF hidVars, uiVars, vars
  <2>2. Unheard' = Unheard
    BY <2>1 DEF Unheard, Connected, ToSet
  <2>3. DisplayIsCurrent'
    BY <1>2, <2>1, <2>2, CurrentAsBefore
  <2> QED
    BY <1>1, <1>2, <2>1, <2>3 DEF DisplayInv, displayVars
<1> QED
  BY <1>5, <1>6, <1>7, <1>8, <1>9, <1>10, <1>11, <1>12, <1>13 DEF HidNext

\* The UI manager leaves out as already sent only what the handheld shows or will
\* show, for any length of reports, whatever is lost and however often the handheld
\* is replaced: parts of an update and updates that wait take effect one after the
\* other as the whole would, and a new handheld is told everything
\* (ui_manager.rs:92-96, 476-485; hid.rs:111-122, 247-289).
THEOREM DisplayStaysCurrent == HidSpec => []DisplayIsCurrent
<1>1. DisplayInv => DisplayIsCurrent
  BY DEF DisplayInv
<1>2. DisplayInv /\ [HidNext]_hidVars => DisplayInv'
  BY DisplayStep
<1> QED
  BY <1>1, <1>2, DisplayInit, PTL DEF HidSpec
=============================================================================
