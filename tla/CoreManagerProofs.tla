-------------------------- MODULE CoreManagerProofs --------------------------
(***************************************************************************)
(* Theorems about the core, for any number of controllers, any set names,  *)
(* any requests and any bounds.                                            *)
(***************************************************************************)
EXTENDS CoreManager, SequenceTheorems, TLAPS

Sent == [to : Controllers \cup {Everyone}, body : CoreMessage]

----------------------------------------------------------------------------
(* Lemmas about the operators.                                             *)

\* Whatever commands a client sent, what sync_commands_to_drive hands to the
\* drive thread is within the limits.
LEMMA ClampIsSafe ==
  ASSUME NEW cs \in Seq(Command)
  PROVE  ClampCommands(cs) \in Seq(SafeCommand)
<1> DEFINE safe(i) == [f \in Fields |-> Clamp(cs[i][f], Limit[f])]
<1>1. /\ Len(cs) \in Nat
      /\ DOMAIN cs = 1..Len(cs)
  BY LenProperties
<1>2. ASSUME NEW i \in 1..Len(cs)
      PROVE  safe(i) \in SafeCommand
  <2>1. cs[i] \in Command
    BY ElementOfSeq
  <2>2. \A f \in Fields : Clamp(cs[i][f], Limit[f]) \in 0..Limit[f]
    BY <2>1, LimitAssumption DEF Command, Clamp
  <2>3. \A f \in Fields : Limit[f] \in Nat
    BY LimitAssumption
  <2>4. safe(i) \in Command
    BY <2>2, <2>3 DEF Command
  <2> QED
    BY <2>2, <2>4 DEF SafeCommand
<1>3. ClampCommands(cs) \in [1..Len(cs) -> SafeCommand]
  BY <1>1, <1>2 DEF ClampCommands
<1> HIDE DEF safe
<1> QED
  BY <1>1, <1>3, SeqDef

\* A command stays a command when some of its fields are overwritten.
LEMMA ApplyFieldsTyped ==
  ASSUME NEW c \in Command, NEW u \in FieldUpdate
  PROVE  ApplyFields(c, u) \in Command
BY DEF Command, FieldUpdate, ApplyFields

\* Events by kind.
LEMMA EventTyped ==
  ASSUME NEW e \in Event
  PROVE  /\ e.kind \in {"connected", "disconnected"} => e.from \in Controllers
         /\ e.kind = "message" =>
              e.from \in Controllers /\ e.msg \in ClientMessage
         /\ e.kind = "drive_state" => e.state \in DriveStates
BY DEF Event, Controllers

\* Requests by type.
LEMMA RequestTyped ==
  ASSUME NEW m \in ClientMessage
  PROVE  /\ m.type = "upsert_command_set" =>
              /\ m.set \in SetNames \cup {Active}
              /\ m.commands \in Seq(Command)
         /\ m.type = "update_command" =>
              m.index \in Nat /\ m.fields \in FieldUpdate
         /\ m.type \in {"get_command_set", "delete_command_set"} =>
              m.set \in SetNames \cup {Active}
         /\ m.type = "set_drive_power" => m.enabled \in BOOLEAN
         /\ m.type = "set_motion_state" => m.action \in MotionActions
BY DEF ClientMessage

----------------------------------------------------------------------------
(* Type correctness.                                                       *)

CoreTyped ==
  /\ holder \in Controllers \cup {Nobody}
  /\ driveState \in DriveStates
  /\ setVersion \in Nat
  /\ active \in CommandSet
  /\ saved \in [SetNames -> CommandSet]
  /\ shared \in [power : BOOLEAN, motion : BOOLEAN, commands : Seq(SafeCommand)]
  /\ pending \subseteq Actions

\* The state that the handling of a message starts from.
LEMMA HandlesTyped ==
  ASSUME TypeOK, NEW type, Handles(type)
  PROVE  /\ Request \in ClientMessage
         /\ Request.type = type
         /\ Sender \in Controllers
         /\ queue' \in Seq(Event)
         /\ work' \in Seq(ClientMessage)
         /\ session' \in [Controllers -> {"fresh", "open", "closed"}]
<1>1. CASE work # <<>>
  <2>1. Head(work) \in ClientMessage /\ Tail(work) \in Seq(ClientMessage)
    BY <1>1, HeadTailProperties DEF TypeOK
  <2> QED
    BY <1>1, <2>1 DEF Handles, Request, Sender, TypeOK, Controllers
<1>2. CASE work = <<>>
  <2>1. queue # <<>> /\ Head(queue).kind = "message"
    BY <1>2 DEF Handles, MessageReady
  <2>2. Head(queue) \in Event /\ Tail(queue) \in Seq(Event)
    BY <2>1, HeadTailProperties DEF TypeOK
  <2> QED
    BY <1>2, <2>1, <2>2, EventTyped DEF Handles, Request, Sender, TypeOK
<1> QED
  BY <1>1, <1>2

LEMMA ReplyTyped ==
  ASSUME Sender \in Controllers, NEW body \in CoreMessage, Reply(body)
  PROVE  sent' \in Seq(Sent)
BY DEF Reply, To, Sent

LEMMA AnnounceTyped ==
  ASSUME Sender \in Controllers, NEW b \in CoreMessage, NEW r \in CoreMessage,
         Announce(b, r)
  PROVE  sent' \in Seq(Sent)
BY DEF Announce, To, Sent

\* The messages the core sends, from a typed state.
LEMMA AckTyped ==
  ASSUME NEW s \in BOOLEAN,
         NEW r \in {"", "NotWriter", "NotFound", "OutOfRange", "InvalidState"}
  PROVE  Ack(s, r) \in CoreMessage
BY DEF Ack, CoreMessage

LEMMA AccessTyped ==
  ASSUME NEW h \in Controllers \cup {Nobody}, NEW k \in Controllers \cup {Nobody},
         NEW g \in BOOLEAN
  PROVE  /\ WriteAccessChanged(h, k) \in CoreMessage
         /\ WriteAccessResult(g, h) \in CoreMessage
BY DEF WriteAccessChanged, WriteAccessResult, CoreMessage

LEMMA VersionTyped ==
  ASSUME NEW v \in Nat, NEW s \in BOOLEAN, NEW u \in {"all", "one"}
  PROVE  /\ CommandResult(s, v) \in CoreMessage
         /\ CommandSetChanged(v, u) \in CoreMessage
BY DEF CommandResult, CommandSetChanged, CoreMessage

LEMMA StateTyped ==
  ASSUME TypeOK, NEW t \in {"connected", "state"}
  PROVE  [type |-> t, state |-> CoreState] \in CoreMessage
BY DEF TypeOK, CoreState, CoreMessage

LEMMA SetTyped ==
  ASSUME NEW v \in Nat, NEW cs \in Seq(Command)
  PROVE  [type |-> "command_set", version |-> v, commands |-> cs] \in CoreMessage
BY DEF CoreMessage

\* Refusals and other answers leave the core as it is.
LEMMA DeclineTyped ==
  ASSUME TypeOK, Sender \in Controllers, NEW body \in CoreMessage, Decline(body)
  PROVE  CoreTyped' /\ sent' \in Seq(Sent)
<1>1. sent' \in Seq(Sent)
  BY ReplyTyped DEF Decline
<1> QED
  BY <1>1 DEF TypeOK, CoreTyped, Decline, coreVars, CommandSet

LEMMA RefuseTyped ==
  ASSUME TypeOK, Sender \in Controllers, Refuse
  PROVE  CoreTyped' /\ sent' \in Seq(Sent)
<1>1. Ack(FALSE, "NotWriter") \in CoreMessage
  BY AckTyped
<1>2. Decline(Ack(FALSE, "NotWriter"))
  BY DEF Refuse, Decline
<1> QED
  BY <1>1, <1>2, DeclineTyped

LEMMA SetActiveTyped ==
  ASSUME TypeOK, NEW cs \in Seq(Command), SetActiveCommands(cs)
  PROVE  /\ active' \in CommandSet
         /\ setVersion' \in Nat
         /\ shared' \in [power : BOOLEAN, motion : BOOLEAN, commands : Seq(SafeCommand)]
<1>1. ClampCommands(cs) \in Seq(SafeCommand)
  BY ClampIsSafe
<1>2. shared' = [shared EXCEPT !.commands = ClampCommands(cs)]
  BY DEF SetActiveCommands
<1>3. ASSUME NEW safe \in Seq(SafeCommand),
             shared' = [shared EXCEPT !.commands = safe]
      PROVE  shared' \in [power : BOOLEAN, motion : BOOLEAN, commands : Seq(SafeCommand)]
  BY <1>3 DEF TypeOK
<1>4. shared' \in [power : BOOLEAN, motion : BOOLEAN, commands : Seq(SafeCommand)]
  BY <1>1, <1>2, <1>3
<1>5. active' \in CommandSet /\ setVersion' \in Nat
  BY DEF TypeOK, SetActiveCommands, CommandSet
<1> QED
  BY <1>4, <1>5

LEMMA ReplaceActiveTyped ==
  ASSUME TypeOK, Sender \in Controllers, NEW cs \in Seq(Command), ReplaceActive(cs)
  PROVE  CoreTyped' /\ sent' \in Seq(Sent)
<1>1. CASE /\ SetActiveCommands(cs)
           /\ pending' = pending \cup {"RESET_INDEX"}
           /\ Announce(CommandSetChanged(active.version + 1, "all"),
                       CommandResult(TRUE, active.version + 1))
           /\ UNCHANGED <<holder, driveState, saved>>
  <2>1. active.version + 1 \in Nat
    BY DEF TypeOK, CommandSet
  <2>2. /\ CommandSetChanged(active.version + 1, "all") \in CoreMessage
        /\ CommandResult(TRUE, active.version + 1) \in CoreMessage
    BY <2>1, VersionTyped
  <2>3. sent' \in Seq(Sent)
    BY <1>1, <2>2, AnnounceTyped
  <2>4. pending' \subseteq Actions
    BY <1>1 DEF TypeOK, Actions
  <2> QED
    BY <1>1, <2>3, <2>4, SetActiveTyped DEF TypeOK, CoreTyped
<1>2. CASE Decline(CommandResult(FALSE, active.version))
  <2>1. CommandResult(FALSE, active.version) \in CoreMessage
    BY VersionTyped DEF TypeOK, CommandSet
  <2> QED
    BY <1>2, <2>1, DeclineTyped
<1>3. CASE Refuse
  BY <1>3, RefuseTyped
<1> QED
  BY <1>1, <1>2, <1>3 DEF ReplaceActive

\* Every handler of a client message leaves a typed core and typed messages.
LEMMA MessageTyped ==
  ASSUME TypeOK, HandleMessage
  PROVE  TypeOK'
<1> SUFFICES /\ CoreTyped'
             /\ sent' \in Seq(Sent)
             /\ queue' \in Seq(Event)
             /\ work' \in Seq(ClientMessage)
             /\ session' \in [Controllers -> {"fresh", "open", "closed"}]
  BY DEF TypeOK, CoreTyped, Sent
<1>0. /\ holder \in Controllers \cup {Nobody}
      /\ active.version \in Nat
      /\ active.commands \in Seq(Command)
      /\ \A n \in SetNames : /\ saved[n].version \in Nat
                             /\ saved[n].commands \in Seq(Command)
  BY DEF TypeOK, CommandSet
<1>1. CASE RequestWriteAccess
  <2>1. Handles("request_write_access")
    BY <1>1 DEF RequestWriteAccess
  <2>2. /\ WriteAccessChanged(Sender, holder) \in CoreMessage
        /\ WriteAccessResult(TRUE, Sender) \in CoreMessage
        /\ WriteAccessResult(FALSE, holder) \in CoreMessage
    BY <1>0, <2>1, HandlesTyped, AccessTyped
  <2>3. sent' \in Seq(Sent)
    BY <1>1, <2>1, <2>2, HandlesTyped, ReplyTyped, AnnounceTyped DEF RequestWriteAccess
  <2>4. holder' \in Controllers \cup {Nobody}
    BY <1>0, <1>1, <2>1, HandlesTyped DEF RequestWriteAccess
  <2> QED
    BY <1>1, <2>1, <2>3, <2>4, HandlesTyped DEF RequestWriteAccess, TypeOK, CoreTyped
<1>2. CASE ReleaseWriteAccess
  <2>1. Handles("release_write_access")
    BY <1>2 DEF ReleaseWriteAccess
  <2>2. CASE Refuse
    BY <2>1, <2>2, HandlesTyped, RefuseTyped
  <2>3. CASE /\ holder' = Nobody
             /\ Announce(WriteAccessChanged(Nobody, holder), Ack(TRUE, ""))
             /\ UNCHANGED <<driveState, setVersion, active, saved, shared, pending>>
    <3>1. sent' \in Seq(Sent)
      BY <1>0, <2>1, <2>3, HandlesTyped, AnnounceTyped, AccessTyped, AckTyped
    <3> QED
      BY <2>1, <2>3, <3>1, HandlesTyped DEF TypeOK, CoreTyped
  <2> QED
    BY <1>2, <2>2, <2>3 DEF ReleaseWriteAccess
<1>3. CASE GetState
  BY <1>3, HandlesTyped, StateTyped, DeclineTyped DEF GetState
<1>4. CASE GetCommandSet
  <2>1. Handles("get_command_set")
    BY <1>4 DEF GetCommandSet
  <2>2. Request.set \in SetNames \cup {Active}
    BY <2>1, HandlesTyped, RequestTyped
  <2> DEFINE set == IF Request.set = Active THEN active ELSE saved[Request.set]
  <2>3. [type |-> "command_set", version |-> set.version,
         commands |-> set.commands] \in CoreMessage
    BY <1>0, <2>2, SetTyped
  <2>4. Ack(FALSE, "NotFound") \in CoreMessage
    BY AckTyped
  <2> QED
    BY <1>4, <2>1, <2>3, <2>4, HandlesTyped, DeclineTyped DEF GetCommandSet
<1>5. CASE ListSavedSets
  <2>1. [type |-> "saved_set_list", sets |-> {n \in SetNames : saved[n] # Absent}]
          \in CoreMessage
    BY DEF CoreMessage
  <2> QED
    BY <1>5, <2>1, HandlesTyped, DeclineTyped DEF ListSavedSets
<1>6. CASE UpsertActive
  <2>1. Handles("upsert_command_set")
    BY <1>6 DEF UpsertActive
  <2>2. Request.commands \in Seq(Command)
    BY <2>1, HandlesTyped, RequestTyped
  <2> QED
    BY <1>6, <2>1, <2>2, HandlesTyped, ReplaceActiveTyped DEF UpsertActive
<1>7. CASE UpsertSaved
  <2>1. Handles("upsert_command_set") /\ Request.set # Active
    BY <1>7 DEF UpsertSaved
  <2>2. Request.set \in SetNames /\ Request.commands \in Seq(Command)
    BY <2>1, HandlesTyped, RequestTyped
  <2> DEFINE old == saved[Request.set]
  <2>3. old.version \in Nat /\ old.version + 1 \in Nat
    BY <1>0, <2>2
  <2>4. CASE /\ saved' = [saved EXCEPT ![Request.set] =
                            [version |-> old.version + 1,
                             commands |-> Request.commands]]
             /\ Reply(CommandResult(TRUE, old.version + 1))
             /\ UNCHANGED <<holder, driveState, setVersion, active, shared, pending>>
    <3>1. saved' \in [SetNames -> CommandSet]
      BY <2>2, <2>3, <2>4 DEF TypeOK, CommandSet
    <3>2. sent' \in Seq(Sent)
      BY <2>1, <2>3, <2>4, HandlesTyped, VersionTyped, ReplyTyped
    <3> QED
      BY <2>1, <2>4, <3>1, <3>2, HandlesTyped DEF TypeOK, CoreTyped
  <2>5. CASE Decline(CommandResult(FALSE, old.version))
    BY <2>1, <2>3, <2>5, HandlesTyped, VersionTyped, DeclineTyped
  <2> QED
    BY <1>7, <2>4, <2>5 DEF UpsertSaved
<1>8. CASE UpdateCommand
  <2>1. Handles("update_command")
    BY <1>8 DEF UpdateCommand
  <2>2. Request.index \in Nat /\ Request.fields \in FieldUpdate
    BY <2>1, HandlesTyped, RequestTyped
  <2> DEFINE i == Request.index + 1
             new == ApplyFields(active.commands[i], Request.fields)
             list == [active.commands EXCEPT ![i] = new]
  <2>3. CASE /\ i \in DOMAIN active.commands
             /\ SetActiveCommands(list)
             /\ Announce(CommandSetChanged(active.version + 1, "one"),
                         CommandResult(TRUE, active.version + 1))
             /\ UNCHANGED <<holder, driveState, saved, pending>>
    <3>1. i \in 1..Len(active.commands) /\ active.commands[i] \in Command
      BY <1>0, <2>3, LenProperties, ElementOfSeq
    <3>2. new \in Command
      BY <2>2, <3>1, ApplyFieldsTyped
    <3>3. list \in Seq(Command)
      BY <1>0, <3>1, <3>2, ExceptSeq
    <3>4. /\ CommandSetChanged(active.version + 1, "one") \in CoreMessage
          /\ CommandResult(TRUE, active.version + 1) \in CoreMessage
      <4>1. active.version + 1 \in Nat
        BY <1>0
      <4> QED
        BY <4>1, VersionTyped
    <3>5. sent' \in Seq(Sent)
      BY <2>1, <2>3, <3>4, HandlesTyped, AnnounceTyped
    <3> QED
      BY <2>1, <2>3, <3>3, <3>5, HandlesTyped, SetActiveTyped DEF TypeOK, CoreTyped
  <2>4. CASE Decline(CommandResult(TRUE, active.version))
    BY <1>0, <2>1, <2>4, HandlesTyped, VersionTyped, DeclineTyped
  <2>5. CASE Decline(Ack(FALSE, "OutOfRange"))
    BY <2>1, <2>5, HandlesTyped, AckTyped, DeclineTyped
  <2>6. CASE Refuse
    BY <2>1, <2>6, HandlesTyped, RefuseTyped
  <2> QED
    BY <1>8, <2>3, <2>4, <2>5, <2>6 DEF UpdateCommand
<1>9. CASE DeleteActive
  <2>1. Handles("delete_command_set")
    BY <1>9 DEF DeleteActive
  <2>2. <<>> \in Seq(Command)
    BY EmptySeq
  <2> QED
    BY <1>9, <2>1, <2>2, HandlesTyped, ReplaceActiveTyped DEF DeleteActive
<1>10. CASE DeleteSaved
  <2>1. Handles("delete_command_set") /\ Request.set # Active
    BY <1>10 DEF DeleteSaved
  <2>2. Request.set \in SetNames
    BY <2>1, HandlesTyped, RequestTyped
  <2> DEFINE old == saved[Request.set]
  <2>3. CASE Decline(Ack(FALSE, "NotFound"))
    BY <2>1, <2>3, HandlesTyped, AckTyped, DeclineTyped
  <2>4. CASE /\ saved' = [saved EXCEPT ![Request.set] = Absent]
             /\ Reply(Ack(TRUE, ""))
             /\ UNCHANGED <<holder, driveState, setVersion, active, shared, pending>>
    <3>1. Absent \in CommandSet
      BY EmptySeq DEF Absent, CommandSet
    <3>2. saved' \in [SetNames -> CommandSet]
      BY <2>4, <3>1 DEF TypeOK
    <3>3. sent' \in Seq(Sent)
      BY <2>1, <2>4, HandlesTyped, AckTyped, ReplyTyped
    <3> QED
      BY <2>1, <2>4, <3>2, <3>3, HandlesTyped DEF TypeOK, CoreTyped
  <2>5. CASE Decline(CommandResult(FALSE, old.version))
    BY <1>0, <2>1, <2>2, <2>5, HandlesTyped, VersionTyped, DeclineTyped
  <2> QED
    BY <1>10, <2>3, <2>4, <2>5 DEF DeleteSaved
<1>11. CASE SetDrivePower
  <2>1. Handles("set_drive_power")
    BY <1>11 DEF SetDrivePower
  <2>2. CASE /\ shared' = [shared EXCEPT !.power = Request.enabled,
                                         !.motion = Request.enabled /\ @]
             /\ Reply(Ack(TRUE, ""))
             /\ UNCHANGED <<holder, driveState, setVersion, active, saved, pending>>
    <3>1. Request.enabled \in BOOLEAN
      BY <2>1, HandlesTyped, RequestTyped
    <3>2. sent' \in Seq(Sent)
      BY <2>1, <2>2, HandlesTyped, AckTyped, ReplyTyped
    <3>3. shared' \in [power : BOOLEAN, motion : BOOLEAN, commands : Seq(SafeCommand)]
      BY <2>2, <3>1 DEF TypeOK
    <3> QED
      BY <2>1, <2>2, <3>2, <3>3, HandlesTyped DEF TypeOK, CoreTyped
  <2>3. CASE Refuse
    BY <2>1, <2>3, HandlesTyped, RefuseTyped
  <2> QED
    BY <1>11, <2>2, <2>3 DEF SetDrivePower
<1>12. CASE SetMotionState
  <2>1. Handles("set_motion_state")
    BY <1>12 DEF SetMotionState
  <2>2. CASE /\ shared' = [shared EXCEPT !.motion = Enables(Request.action)]
             /\ pending' = IF Resets(Request.action)
                             THEN pending \cup {"RESET_INDEX"} ELSE pending
             /\ Reply(Ack(TRUE, ""))
             /\ UNCHANGED <<holder, driveState, setVersion, active, saved>>
    <3>1. sent' \in Seq(Sent)
      BY <2>1, <2>2, HandlesTyped, AckTyped, ReplyTyped
    <3>2. shared' \in [power : BOOLEAN, motion : BOOLEAN, commands : Seq(SafeCommand)]
      <4>1. ASSUME NEW b \in BOOLEAN, shared' = [shared EXCEPT !.motion = b]
            PROVE  shared' \in [power : BOOLEAN, motion : BOOLEAN, commands : Seq(SafeCommand)]
        BY <4>1 DEF TypeOK
      <4>2. Enables(Request.action) \in BOOLEAN
        BY DEF Enables
      <4> QED
        BY <2>2, <4>1, <4>2
    <3>3. pending' \subseteq Actions
      BY <2>2 DEF TypeOK, Actions
    <3> QED
      BY <2>1, <2>2, <3>1, <3>2, <3>3, HandlesTyped DEF TypeOK, CoreTyped
  <2>3. CASE Decline(Ack(FALSE, "InvalidState"))
    BY <2>1, <2>3, HandlesTyped, AckTyped, DeclineTyped
  <2>4. CASE Refuse
    BY <2>1, <2>4, HandlesTyped, RefuseTyped
  <2> QED
    BY <1>12, <2>2, <2>3, <2>4 DEF SetMotionState
<1>13. CASE AcknowledgeError
  <2>1. Handles("acknowledge_error")
    BY <1>13 DEF AcknowledgeError
  <2>2. CASE /\ pending' = pending \cup {"ACK_ERROR"}
             /\ Reply(Ack(TRUE, ""))
             /\ UNCHANGED <<holder, driveState, setVersion, active, saved, shared>>
    <3>1. sent' \in Seq(Sent)
      BY <2>1, <2>2, HandlesTyped, AckTyped, ReplyTyped
    <3>2. pending' \subseteq Actions
      BY <2>2 DEF TypeOK, Actions
    <3> QED
      BY <2>1, <2>2, <3>1, <3>2, HandlesTyped DEF TypeOK, CoreTyped
  <2>3. CASE Decline(Ack(FALSE, "InvalidState"))
    BY <2>1, <2>3, HandlesTyped, AckTyped, DeclineTyped
  <2>4. CASE Refuse
    BY <2>1, <2>4, HandlesTyped, RefuseTyped
  <2> QED
    BY <1>13, <2>2, <2>3, <2>4 DEF AcknowledgeError
<1> QED
  BY <1>1, <1>2, <1>3, <1>4, <1>5, <1>6, <1>7, <1>8, <1>9, <1>10, <1>11, <1>12,
     <1>13 DEF HandleMessage

\* Taking an event off the channel.
LEMMA ReceivesTyped ==
  ASSUME TypeOK, NEW kind, Receives(kind)
  PROVE  /\ queue # <<>>
         /\ Head(queue) \in Event
         /\ Head(queue).kind = kind
         /\ queue' \in Seq(Event)
         /\ session' \in [Controllers -> {"fresh", "open", "closed"}]
BY HeadTailProperties DEF TypeOK, Receives

\* What a report of the handheld is turned into is a sequence of requests.
LEMMA UiMessagesTyped ==
  ASSUME NEW w \in UiMessages
  PROVE  w \in Seq(ClientMessage)
<1>1. CASE holder = Hid
  BY <1>1, RequestAssumption DEF UiMessages
<1>2. CASE holder # Hid
  <2> DEFINE claim == [type |-> "request_write_access"]
             install(cs) == [type |-> "upsert_command_set", set |-> Active,
                             base_version |-> AnyVersion, commands |-> cs]
  <2>1. PICK cs \in UiCommands : w = <<claim, install(cs)>>
    BY <1>2 DEF UiMessages
  <2>2. claim \in ClientMessage
    BY DEF ClientMessage
  <2>3. install(cs) \in ClientMessage
    BY RequestAssumption DEF ClientMessage
  <2> HIDE DEF claim, install
  <2> QED
    BY <2>1, <2>2, <2>3
<1> QED
  BY <1>1, <1>2

LEMMA EventHandlerTyped ==
  ASSUME TypeOK, HandleEvent
  PROVE  TypeOK'
<1> SUFFICES /\ CoreTyped'
             /\ sent' \in Seq(Sent)
             /\ queue' \in Seq(Event)
             /\ work' \in Seq(ClientMessage)
             /\ session' \in [Controllers -> {"fresh", "open", "closed"}]
  BY DEF TypeOK, CoreTyped, Sent
<1>1. CASE HandleConnected
  <2>1. Receives("connected")
    BY <1>1 DEF HandleConnected
  <2>2. Head(queue).from \in Controllers
    BY <2>1, ReceivesTyped, EventTyped
  <2>3. [type |-> "connected", state |-> CoreState] \in CoreMessage
    BY StateTyped
  <2>4. sent' \in Seq(Sent)
    BY <1>1, <2>2, <2>3 DEF HandleConnected, To, Sent
  <2> QED
    BY <1>1, <2>1, <2>4, ReceivesTyped DEF HandleConnected, TypeOK, CoreTyped, coreVars
<1>2. CASE HandleDisconnected
  <2>1. Receives("disconnected")
    BY <1>2 DEF HandleDisconnected
  <2>2. WriteAccessChanged(Nobody, holder) \in CoreMessage
    BY AccessTyped DEF TypeOK
  <2>3. sent' \in Seq(Sent)
    <3>1. CASE sent' = <<>>
      BY <3>1, EmptySeq
    <3>2. CASE sent' = <<To(Everyone, WriteAccessChanged(Nobody, holder))>>
      BY <2>2, <3>2 DEF To, Sent
    <3> QED
      BY <1>2, <3>1, <3>2 DEF HandleDisconnected
  <2>4. holder' \in Controllers \cup {Nobody}
    BY <1>2 DEF HandleDisconnected, TypeOK
  <2>5. shared' \in [power : BOOLEAN, motion : BOOLEAN, commands : Seq(SafeCommand)]
    BY <1>2 DEF HandleDisconnected, TypeOK
  <2> QED
    BY <1>2, <2>1, <2>3, <2>4, <2>5, ReceivesTyped
    DEF HandleDisconnected, TypeOK, CoreTyped
<1>3. CASE HandleDriveState
  <2>1. Receives("drive_state")
    BY <1>3 DEF HandleDriveState
  <2>2. driveState' \in DriveStates
    BY <1>3, <2>1, ReceivesTyped, EventTyped DEF HandleDriveState
  <2>3. [type |-> "state", state |-> CoreState'] \in CoreMessage
    BY <1>3, <2>2 DEF HandleDriveState, TypeOK, CoreState, CoreMessage
  <2>4. sent' \in Seq(Sent)
    BY <1>3, <2>3 DEF HandleDriveState, To, Sent
  <2> QED
    BY <1>3, <2>1, <2>2, <2>4, ReceivesTyped DEF HandleDriveState, TypeOK, CoreTyped
<1>4. CASE HandleHidReport
  <2>1. Receives("hid_report")
    BY <1>4 DEF HandleHidReport
  <2>2. work' \in Seq(ClientMessage)
    BY <1>4, UiMessagesTyped DEF HandleHidReport
  <2>3. sent' \in Seq(Sent)
    BY <1>4, EmptySeq DEF HandleHidReport
  <2> QED
    BY <1>4, <2>1, <2>2, <2>3, ReceivesTyped
    DEF HandleHidReport, TypeOK, CoreTyped, coreVars
<1> QED
  BY <1>1, <1>2, <1>3, <1>4 DEF HandleEvent

LEMMA EnqueueTyped ==
  ASSUME TypeOK, NEW e \in Event, Enqueue(e),
         session' \in [Controllers -> {"fresh", "open", "closed"}]
  PROVE  TypeOK'
<1>1. queue' \in Seq(Event)
  BY AppendProperties DEF Enqueue, TypeOK
<1> QED
  BY <1>1 DEF Enqueue, TypeOK, coreVars

LEMMA EnvironmentTyped ==
  ASSUME TypeOK, Environment
  PROVE  TypeOK'
<1> DEFINE Sessions == [Controllers -> {"fresh", "open", "closed"}]
<1>0. /\ WebSockets \subseteq Controllers
      /\ Hid \in Controllers
      /\ session \in Sessions
  BY DEF Controllers, TypeOK
<1>1. ASSUME NEW c \in WebSockets, OpenSession(c)
      PROVE  TypeOK'
  <2>1. Connected(c) \in Event /\ session' \in Sessions
    BY <1>0, <1>1 DEF OpenSession, Connected, Event
  <2> QED
    BY <1>1, <2>1, EnqueueTyped DEF OpenSession
<1>2. ASSUME NEW c \in WebSockets, CloseSession(c)
      PROVE  TypeOK'
  <2>1. Disconnected(c) \in Event /\ session' \in Sessions
    BY <1>0, <1>2 DEF CloseSession, Disconnected, Event
  <2> QED
    BY <1>2, <2>1, EnqueueTyped DEF CloseSession
<1>3. ASSUME NEW c \in WebSockets, NEW m \in Requests, SendMessage(c, m)
      PROVE  TypeOK'
  <2>1. [kind |-> "message", from |-> c, msg |-> m] \in Event
    BY RequestAssumption DEF Event
  <2>2. session' \in Sessions
    BY <1>0, <1>3 DEF SendMessage
  <2> QED
    BY <1>3, <2>1, <2>2, EnqueueTyped DEF SendMessage
<1>4. CASE HidConnects
  <2>1. Connected(Hid) \in Event /\ session' \in Sessions
    BY <1>0, <1>4 DEF HidConnects, Connected, Event
  <2> QED
    BY <1>4, <2>1, EnqueueTyped DEF HidConnects
<1>5. CASE HidDisconnects
  <2>1. Disconnected(Hid) \in Event /\ session' \in Sessions
    BY <1>0, <1>5 DEF HidDisconnects, Disconnected, Event
  <2> QED
    BY <1>5, <2>1, EnqueueTyped DEF HidDisconnects
<1>6. ASSUME NEW r \in HidReports, HidReport(r)
      PROVE  TypeOK'
  <2>1. [kind |-> "hid_report", from |-> Hid, report |-> r] \in Event
    BY DEF Event
  <2>2. session' \in Sessions
    BY <1>0, <1>6 DEF HidReport
  <2> QED
    BY <1>6, <2>1, <2>2, EnqueueTyped DEF HidReport
<1>7. ASSUME NEW d \in ReportedStates, DriveReports(d)
      PROVE  TypeOK'
  <2>1. [kind |-> "drive_state", state |-> d] \in Event
    BY RequestAssumption DEF Event
  <2>2. session' \in Sessions
    BY <1>0, <1>7 DEF DriveReports
  <2> QED
    BY <1>7, <2>1, <2>2, EnqueueTyped DEF DriveReports
<1>8. CASE DriveTakesActions
  BY <1>8 DEF DriveTakesActions, TypeOK
<1> QED
  BY <1>1, <1>2, <1>3, <1>4, <1>5, <1>6, <1>7, <1>8 DEF Environment

LEMMA InitTyped ==
  ASSUME Init
  PROVE  TypeOK
<1>1. /\ \A S : <<>> \in Seq(S)
      /\ Absent \in CommandSet
  BY EmptySeq DEF Absent, CommandSet
<1> QED
  BY <1>1 DEF Init, TypeOK, CommandSet, DriveStates, Actions

LEMMA StepTyped ==
  ASSUME TypeOK, [Next]_vars
  PROVE  TypeOK'
<1>1. CASE CoreStep
  BY <1>1, MessageTyped, EventHandlerTyped DEF CoreStep
<1>2. CASE Environment
  BY <1>2, EnvironmentTyped
<1>3. CASE UNCHANGED vars
  BY <1>3 DEF vars, coreVars, TypeOK
<1> QED
  BY <1>1, <1>2, <1>3 DEF Next

\* The core is well formed in every reachable state, whatever clients send; in
\* particular the drive thread never reads a command outside the system limits
\* (main.rs:557-568).
THEOREM Typing == Spec => []TypeOK
BY InitTyped, StepTyped, PTL DEF Spec

----------------------------------------------------------------------------
(* What the drive thread reads follows the active set.                     *)

Untouched ==
  /\ active' = active
  /\ setVersion' = setVersion
  /\ shared'.commands = shared.commands

\* Every step either leaves the active set, its broadcast version and the drive
\* thread's list alone, or changes all three together.
LEMMA SetOrUntouched ==
  ASSUME TypeOK, [Next]_vars
  PROVE  Untouched \/ \E cs \in Seq(Command) : SetActiveCommands(cs)
<1> DEFINE Goal == Untouched \/ \E cs \in Seq(Command) : SetActiveCommands(cs)
<1> USE DEF Untouched
<1>1. CASE HandleEvent
  <2>1. shared' = shared \/ shared' = [shared EXCEPT !.power = FALSE, !.motion = FALSE]
    BY <1>1 DEF HandleEvent, HandleConnected, HandleDisconnected, HandleDriveState,
                HandleHidReport, coreVars
  <2>2. shared'.commands = shared.commands
    BY <2>1 DEF TypeOK
  <2> QED
    BY <1>1, <2>2 DEF HandleEvent, HandleConnected, HandleDisconnected,
                      HandleDriveState, HandleHidReport, coreVars
<1>2. CASE Environment
  BY <1>2 DEF Environment, OpenSession, CloseSession, SendMessage, HidConnects,
              HidDisconnects, HidReport, DriveReports, DriveTakesActions, Enqueue,
              coreVars
<1>3. ASSUME NEW cs \in Seq(Command), ReplaceActive(cs)
      PROVE  Goal
  BY <1>3 DEF ReplaceActive, Decline, Refuse, coreVars
<1>4. CASE UpsertActive
  BY <1>3, <1>4, HandlesTyped, RequestTyped DEF UpsertActive
<1>5. CASE DeleteActive
  BY <1>3, <1>5, EmptySeq DEF DeleteActive
<1>6. CASE UpdateCommand
  <2>1. Request.index \in Nat /\ Request.fields \in FieldUpdate
    BY <1>6, HandlesTyped, RequestTyped DEF UpdateCommand
  <2> DEFINE i == Request.index + 1
             new == ApplyFields(active.commands[i], Request.fields)
             list == [active.commands EXCEPT ![i] = new]
  <2>2. ASSUME i \in DOMAIN active.commands, SetActiveCommands(list)
        PROVE  Goal
    <3>1. active.commands \in Seq(Command)
      BY DEF TypeOK, CommandSet
    <3>2. i \in 1..Len(active.commands) /\ active.commands[i] \in Command
      BY <2>2, <3>1, LenProperties, ElementOfSeq
    <3>3. list \in Seq(Command)
      BY <2>1, <3>1, <3>2, ApplyFieldsTyped, ExceptSeq
    <3> QED
      BY <2>2, <3>3
  <2> QED
    BY <1>6, <2>2 DEF UpdateCommand, Decline, Refuse, coreVars
<1>7. CASE SetDrivePower
  <2>1. \/ shared' = [shared EXCEPT !.power = Request.enabled,
                                     !.motion = Request.enabled /\ @]
        \/ shared' = shared
    BY <1>7 DEF SetDrivePower, Refuse, coreVars
  <2>2. shared'.commands = shared.commands
    BY <2>1 DEF TypeOK
  <2> QED
    BY <1>7, <2>2 DEF SetDrivePower, Refuse, coreVars
<1>8. CASE SetMotionState
  <2>1. \/ shared' = [shared EXCEPT !.motion = Enables(Request.action)]
        \/ shared' = shared
    BY <1>8 DEF SetMotionState, Decline, Refuse, coreVars
  <2>2. shared'.commands = shared.commands
    BY <2>1 DEF TypeOK
  <2> QED
    BY <1>8, <2>2 DEF SetMotionState, Decline, Refuse, coreVars
<1>9. CASE RequestWriteAccess \/ ReleaseWriteAccess \/ AcknowledgeError
  BY <1>9 DEF RequestWriteAccess, ReleaseWriteAccess, AcknowledgeError, Decline,
              Refuse, coreVars
<1>10. CASE GetState \/ GetCommandSet \/ ListSavedSets \/ UpsertSaved \/ DeleteSaved
  BY <1>10 DEF GetState, GetCommandSet, ListSavedSets, UpsertSaved, DeleteSaved,
               Decline, coreVars
<1>11. CASE UNCHANGED vars
  BY <1>11 DEF vars, coreVars
<1> QED
  BY <1>1, <1>2, <1>4, <1>5, <1>6, <1>7, <1>8, <1>9, <1>10, <1>11
  DEF Next, CoreStep, HandleMessage

\* The drive thread always reads the active set, clamped, and the version in the
\* telemetry is the version of that set, for any number of clients editing it
\* (main.rs:353-355, 385-388, 437-439, 557-568).
THEOREM Mirroring == Spec => []DriveMirrorsActiveSet
<1>1. Init => DriveMirrorsActiveSet
  <2> SUFFICES ASSUME Init PROVE ClampCommands(<<>>) = <<>>
    BY DEF Init, DriveMirrorsActiveSet
  <2>1. <<>> \in Seq(Command) /\ Len(<<>>) = 0
    BY EmptySeq
  <2>2. ClampCommands(<<>>) \in Seq(SafeCommand)
    BY <2>1, ClampIsSafe
  <2>3. DOMAIN ClampCommands(<<>>) = {}
    BY <2>1, LenProperties DEF ClampCommands
  <2> QED
    BY <2>2, <2>3, EmptySeq, LenProperties
<1>2. TypeOK /\ DriveMirrorsActiveSet /\ [Next]_vars => DriveMirrorsActiveSet'
  <2> SUFFICES ASSUME TypeOK, DriveMirrorsActiveSet, [Next]_vars
               PROVE  DriveMirrorsActiveSet'
    OBVIOUS
  <2>1. CASE Untouched
    BY <2>1 DEF Untouched, DriveMirrorsActiveSet
  <2>2. ASSUME NEW cs \in Seq(Command), SetActiveCommands(cs)
        PROVE  DriveMirrorsActiveSet'
    <3>1. shared'.commands = ClampCommands(cs)
      <4>1. ASSUME NEW list, shared' = [shared EXCEPT !.commands = list]
            PROVE  shared'.commands = list
        BY <4>1 DEF TypeOK
      <4> QED
        BY <2>2, <4>1 DEF SetActiveCommands
    <3> QED
      BY <2>2, <3>1 DEF SetActiveCommands, DriveMirrorsActiveSet
  <2> QED
    BY <2>1, <2>2, SetOrUntouched
<1> QED
  BY <1>1, <1>2, Typing, PTL DEF Spec

----------------------------------------------------------------------------
(* Versions.                                                               *)

\* Only two handlers touch the saved sets.
LEMMA SavedGrows ==
  ASSUME TypeOK, [Next]_vars, NEW n \in SetNames
  PROVE  saved'[n] \in {saved[n], Absent} \/ saved'[n].version > saved[n].version
<1>1. CASE UpsertSaved
  <2>1. ASSUME NEW cs,
               saved' = [saved EXCEPT ![Request.set] =
                           [version |-> saved[Request.set].version + 1, commands |-> cs]]
        PROVE  saved'[n] = saved[n] \/ saved'[n].version > saved[n].version
    BY <2>1 DEF TypeOK, CommandSet
  <2> QED
    BY <1>1, <2>1 DEF UpsertSaved, Decline, coreVars
<1>2. CASE DeleteSaved
  BY <1>2 DEF DeleteSaved, Decline, coreVars, TypeOK
<1>3. CASE HandleEvent
  BY <1>3 DEF HandleEvent, HandleConnected, HandleDisconnected, HandleDriveState,
              HandleHidReport, coreVars
<1>4. CASE Environment
  BY <1>4 DEF Environment, OpenSession, CloseSession, SendMessage, HidConnects,
              HidDisconnects, HidReport, DriveReports, DriveTakesActions, Enqueue,
              coreVars
<1>5. CASE UpsertActive \/ DeleteActive \/ UpdateCommand
  BY <1>5 DEF UpsertActive, DeleteActive, UpdateCommand, ReplaceActive, Decline,
              Refuse, coreVars
<1>6. CASE RequestWriteAccess \/ ReleaseWriteAccess \/ AcknowledgeError
           \/ GetState \/ GetCommandSet \/ ListSavedSets
  BY <1>6 DEF RequestWriteAccess, ReleaseWriteAccess, AcknowledgeError, GetState,
              GetCommandSet, ListSavedSets, Decline, Refuse, coreVars
<1>7. CASE SetDrivePower \/ SetMotionState
  BY <1>7 DEF SetDrivePower, SetMotionState, Decline, Refuse, coreVars
<1>8. CASE UNCHANGED vars
  BY <1>8 DEF vars, coreVars
<1> QED
  BY <1>1, <1>2, <1>3, <1>4, <1>5, <1>6, <1>7, <1>8 DEF Next, CoreStep, HandleMessage

LEMMA ActiveGrows ==
  ASSUME TypeOK, [Next]_vars
  PROVE  active' = active \/ active'.version > active.version
<1>1. ASSUME NEW cs \in Seq(Command), SetActiveCommands(cs)
      PROVE  active'.version > active.version
  BY <1>1 DEF SetActiveCommands, TypeOK, CommandSet
<1> QED
  BY <1>1, SetOrUntouched DEF Untouched

\* No version of a set is used for two lists while the set exists, so that a
\* matching base_version means an unchanged set, for any clients
\* (main.rs:335-357, 383-388, 416-439).
THEOREM GrowingVersions == Spec => VersionsGrow
<1>1. ASSUME TypeOK, [Next]_vars
      PROVE  /\ active' # active => active'.version > active.version
             /\ \A n \in SetNames : saved'[n] \in {saved[n], Absent}
                                     \/ saved'[n].version > saved[n].version
  BY <1>1, ActiveGrows, SavedGrows
<1> QED
  BY <1>1, Typing, PTL DEF Spec, VersionsGrow
=============================================================================
