---------------------------- MODULE CommandLine ----------------------------
(***************************************************************************)
(* The core together with the command line client                          *)
(* (src/src/bin/puddle-cli.rs): a user interface that keeps the first two  *)
(* commands of the active set as its inputs, edits them while it holds     *)
(* write access, and follows the core through its broadcasts. A thread of  *)
(* its own carries messages between the user interface and the WebSocket.  *)
(*                                                                         *)
(* The core's part of every step is a step of CoreManager. The cursor is   *)
(* not kept: a key that acts on the selected input acts on any input. The  *)
(* text typed into the dialog is the number it stands for.                 *)
(***************************************************************************)
EXTENDS CoreManager, SequencesExt

CONSTANTS
  Cli,          \* the client's controller id
  FieldOrder,   \* the fields of a command in the order of the inputs
  Initial,      \* INITIAL_INPUTS
  Steps,        \* what one press of left or right changes an input by
  Entries,      \* the numbers entered into the dialog
  NoView,       \* the client has not been greeted
  NoDialog,     \* no dialog is open
  MaxUnderWay   \* bound: no key is pressed and nobody else acts while so many
                \* messages are under way

Width == Len(FieldOrder)

\* The inputs: all fields of the first command, then all of the second.
Slots == 0..(2 * Width - 1)

FieldOf(slot) == FieldOrder[(slot % Width) + 1]

ASSUME CliAssumption ==
  /\ Cli \in WebSockets
  /\ FieldOrder \in Seq(Fields)
  /\ {FieldOrder[i] : i \in DOMAIN FieldOrder} = Fields
  /\ Width > 0
  /\ FieldOrder[1] = "position"
  /\ Initial \in [Slots -> Int]
  /\ Steps \subseteq Int
  /\ Entries \subseteq Int
  /\ NoView \notin [drive : DriveStates, holder : Controllers \cup {Nobody}]

VARIABLES
  inputs,    \* self.inputs
  view,      \* self.state: what the client was told of the drive and the holder
  dialog,    \* self.dialog: the selected input and the checked ones
  running,   \* the user interface has not been left
  outbox,    \* from the user interface to the client's WebSocket thread
  inbox      \* from the core's socket to the user interface

uiVars == <<inputs, view, dialog, running>>
cliVars == <<vars, uiVars, outbox, inbox>>

Hangup == [type |-> "close"]

CliInit ==
  /\ Init
  /\ inputs = Initial
  /\ view = NoView
  /\ dialog = NoDialog
  /\ running = TRUE
  /\ outbox = <<>>
  /\ inbox = <<>>

----------------------------------------------------------------------------
(* The messages of the client.                                             *)

CommandAt(values, i) ==
  [f \in Fields |->
     values[CHOOSE s \in Slots : s \div Width = i /\ FieldOf(s) = f]]

Install(values) ==
  [type |-> "upsert_command_set", set |-> Active, base_version |-> AnyVersion,
   commands |-> <<CommandAt(values, 0), CommandAt(values, 1)>>]

Change(values, slot) ==
  [type |-> "update_command", index |-> slot \div Width,
   fields |-> [f \in Fields |-> IF f = FieldOf(slot) THEN values[slot] ELSE Keep]]

Fetch == [type |-> "get_command_set", set |-> Active]

\* A session that has ended takes nothing any more.
Send(messages) ==
  outbox' = IF session[Cli] = "closed" THEN outbox ELSE outbox \o messages

Asks(message) == Send(<<message>>)

----------------------------------------------------------------------------
(* What the core sends, as far as handle_core_message looks at it.         *)

Heeded == {"connected", "state", "write_access_changed", "write_access_result",
           "command_set_changed", "command_set"}

\* The broadcast of a partial update carries the request's own update.
Contents(body) ==
  CASE body.type \in {"connected", "state"} ->
         [type |-> body.type, drive |-> body.state.drive_state, holder |-> body.state.holder]
    [] body.type = "write_access_changed" -> [type |-> body.type, holder |-> body.holder]
    [] body.type = "command_set_changed" /\ body.update = "all" -> [type |-> "replaced"]
    [] body.type = "command_set_changed" /\ body.update = "one" ->
         [type |-> "updated", index |-> Request.index, fields |-> Request.fields]
    [] body.type = "command_set" -> [type |-> body.type, commands |-> body.commands]
    [] OTHER -> body

ForCli(m) == m.to \in {Everyone, Cli} /\ m.body.type \in Heeded

Places(messages) == {i \in DOMAIN messages : ForCli(messages[i])}

\* What is for the client, in the order it was sent.
Delivers(messages) ==
  \E at \in SetToSeqs(Places(messages)) :
    /\ \A i, j \in DOMAIN at : i < j => at[i] < at[j]
    /\ inbox' = inbox \o [i \in DOMAIN at |-> Contents(messages[at[i]].body)]

\* The core handles an event. Messages for a session that is closed are dropped,
\* and nobody looks at what comes after the user interface was left.
CoreAdvances ==
  /\ CoreStep
  /\ IF running /\ session[Cli] = "open" THEN Delivers(sent') ELSE UNCHANGED inbox
  /\ UNCHANGED <<uiVars, outbox>>

UnderWay == Len(outbox) + Len(queue) + Len(work) + Len(inbox)

\* The drive thread's reports, the handheld and the other clients. The actions that
\* the drive thread takes are of no concern to the client.
OthersAct ==
  /\ UnderWay < MaxUnderWay
  /\ \/ \E c \in WebSockets \ {Cli} :
          \/ OpenSession(c) \/ CloseSession(c)
          \/ \E m \in Requests : SendMessage(c, m)
     \/ HidConnects \/ HidDisconnects
     \/ \E r \in HidReports : HidReport(r)
     \/ \E s \in ReportedStates : DriveReports(s)
  /\ UNCHANGED <<uiVars, outbox, inbox>>

----------------------------------------------------------------------------
(* The client's WebSocket thread.                                          *)

Connect ==
  /\ OpenSession(Cli)
  /\ UNCHANGED <<uiVars, outbox, inbox>>

Forward ==
  /\ session[Cli] = "open"
  /\ outbox # <<>>
  /\ Head(outbox) # Hangup
  /\ Enqueue([kind |-> "message", from |-> Cli, msg |-> Head(outbox)])
  /\ outbox' = Tail(outbox)
  /\ UNCHANGED <<session, uiVars, inbox>>

Close ==
  /\ outbox # <<>>
  /\ Head(outbox) = Hangup
  /\ CloseSession(Cli)
  /\ outbox' = <<>>
  /\ UNCHANGED <<uiVars, inbox>>

\* The connection fails: the thread ends, and with it goes what it has not sent
\* and what it has not read. The user interface is not told.
Cut ==
  /\ CloseSession(Cli)
  /\ outbox' = <<>>
  /\ \E n \in 0..Len(inbox) : inbox' = SubSeq(inbox, 1, n)
  /\ UNCHANGED uiVars

----------------------------------------------------------------------------
(* handle_core_message.                                                    *)

Takes(type) ==
  /\ running
  /\ inbox # <<>>
  /\ Head(inbox).type = type
  /\ inbox' = Tail(inbox)
  /\ UNCHANGED <<vars, dialog, running>>

TakeGreeting ==
  /\ Takes("connected")
  /\ view' = [drive |-> Head(inbox).drive, holder |-> Head(inbox).holder]
  /\ Asks(Fetch)
  /\ UNCHANGED inputs

TakeState ==
  /\ Takes("state")
  /\ view' = [drive |-> Head(inbox).drive, holder |-> Head(inbox).holder]
  /\ UNCHANGED <<inputs, outbox>>

Learns(holds) == view' = IF view = NoView THEN view ELSE [view EXCEPT !.holder = holds]

\* Mutant: only the client's own requests tell it who holds access.
IgnoreHolder ==
  /\ Takes("write_access_changed")
  /\ UNCHANGED <<inputs, view, outbox>>

TakeHolder ==
  /\ Takes("write_access_changed")
  /\ Learns(Head(inbox).holder)
  /\ UNCHANGED <<inputs, outbox>>

\* Mutant: the client takes the active set as it finds it.
TakeResultOnly ==
  /\ Takes("write_access_result")
  /\ Learns(Head(inbox).holder)
  /\ UNCHANGED <<inputs, outbox>>

\* A client that is granted access installs its own inputs.
TakeResult ==
  /\ Takes("write_access_result")
  /\ Learns(Head(inbox).holder)
  /\ IF Head(inbox).granted THEN Asks(Install(inputs)) ELSE UNCHANGED outbox
  /\ UNCHANGED inputs

TakeReplacement ==
  /\ Takes("replaced")
  /\ Asks(Fetch)
  /\ UNCHANGED <<inputs, view>>

Overwritten(i, values) ==
  [s \in Slots |-> IF s \div Width # i \/ values[FieldOf(s)] = Keep
                     THEN inputs[s] ELSE values[FieldOf(s)]]

TakeUpdate ==
  /\ Takes("updated")
  /\ inputs' = Overwritten(Head(inbox).index, Head(inbox).fields)
  /\ UNCHANGED <<view, outbox>>

TakeSet ==
  /\ Takes("command_set")
  /\ LET commands == Head(inbox).commands
     IN inputs' = [s \in Slots |->
                     IF (s \div Width) + 1 \in DOMAIN commands
                       THEN commands[(s \div Width) + 1][FieldOf(s)] ELSE inputs[s]]
  /\ UNCHANGED <<view, outbox>>

HandleCoreMessage ==
  \/ TakeGreeting \/ TakeState \/ TakeHolder \/ TakeResult
  \/ TakeReplacement \/ TakeUpdate \/ TakeSet

----------------------------------------------------------------------------
(* handle_key_event. A key may be pressed before all messages have come.   *)

Key ==
  /\ running
  /\ UnderWay < MaxUnderWay
  /\ VersionsBelow(MaxVersion)
  /\ UNCHANGED <<vars, view>>

HasWriteAccess == view # NoView /\ view.holder = Cli

WriterKey == Key /\ dialog = NoDialog /\ HasWriteAccess

Between(x, low, high) == IF x < low THEN low ELSE IF x > high THEN high ELSE x

\* update_input: one end of the stroke pushes the other along. Both are sent.
Nudge(slot, delta) ==
  LET moved == Between(inputs[slot] + delta, 0, Limit[FieldOf(slot)])
      pushed == CASE slot = 0 /\ moved > inputs[Width] -> {Width}
                  [] slot = Width /\ moved < inputs[0] -> {0}
                  [] OTHER -> {}
      new == [s \in Slots |-> IF s \in {slot} \cup pushed THEN moved ELSE inputs[s]]
  IN /\ WriterKey
     /\ inputs' = new
     /\ Send(<<Change(new, slot)>> \o [i \in 1..Cardinality(pushed) |->
                                         Change(new, Width - slot)])
     /\ UNCHANGED <<dialog, running, inbox>>

PressClaim ==
  /\ Key
  /\ dialog = NoDialog
  /\ Asks([type |-> "request_write_access"])
  /\ UNCHANGED <<inputs, dialog, running, inbox>>

MotionKey ==
  CASE view.drive = "Moving" -> "Pause"
    [] view.drive = "Paused" -> "Resume"
    [] OTHER -> "Start"

\* Power, motion and acknowledgement are judged by the last state the client saw.
PressSwitch ==
  /\ WriterKey
  /\ \E request \in {[type |-> "set_drive_power", enabled |-> view.drive = "Off"],
                     [type |-> "set_motion_state", action |-> MotionKey],
                     [type |-> "acknowledge_error"]} : Asks(request)
  /\ UNCHANGED <<inputs, dialog, running, inbox>>

PressReset ==
  /\ WriterKey
  /\ inputs' = Initial
  /\ Asks(Install(Initial))
  /\ UNCHANGED <<dialog, running, inbox>>

SameUnit(f, g) == f = g \/ {f, g} = {"acceleration", "deceleration"}

OpenDialog(slot) ==
  /\ WriterKey
  /\ dialog' = [field |-> FieldOf(slot), checked |-> {slot}]
  /\ UNCHANGED <<inputs, running, outbox, inbox>>

DialogKey == Key /\ dialog # NoDialog

Toggle(slot) ==
  /\ DialogKey
  /\ SameUnit(FieldOf(slot), dialog.field)
  /\ dialog' = [dialog EXCEPT !.checked =
                  IF slot \in @ THEN @ \ {slot} ELSE @ \cup {slot}]
  /\ UNCHANGED <<inputs, running, outbox, inbox>>

Cancel ==
  /\ DialogKey
  /\ dialog' = NoDialog
  /\ UNCHANGED <<inputs, running, outbox, inbox>>

Lowest(field) == IF field = "position" THEN -Limit[field] ELSE 0

\* The dialog was opened by the holder of write access. By now anybody may hold
\* it, and the inputs are sent as long as somebody does.
Apply(entry) ==
  LET field == dialog.field
      value == Between(entry, Lowest(field), Limit[field])
      new == [s \in Slots |-> IF s \in dialog.checked THEN value ELSE inputs[s]]
  IN /\ DialogKey
     /\ inputs' = new
     /\ IF view.holder # Nobody THEN Asks(Install(new)) ELSE UNCHANGED outbox
     /\ dialog' = NoDialog
     /\ UNCHANGED <<running, inbox>>

\* Mutant: the thread is left to itself.
LeaveSilently ==
  /\ Key
  /\ running' = FALSE
  /\ inbox' = <<>>
  /\ UNCHANGED <<inputs, dialog, outbox>>

\* q in the main view, or a signal at any time.
Leave ==
  /\ Key
  /\ running' = FALSE
  /\ inbox' = <<>>
  /\ Asks(Hangup)
  /\ UNCHANGED <<inputs, dialog>>

PressKey ==
  \/ \E s \in Slots : OpenDialog(s) \/ Toggle(s) \/ \E d \in Steps : Nudge(s, d)
  \/ PressClaim \/ PressSwitch \/ PressReset
  \/ Cancel \/ \E v \in Entries : Apply(v)
  \/ Leave

CliNext ==
  \/ CoreAdvances \/ OthersAct
  \/ Connect \/ Forward \/ Close \/ Cut
  \/ TakeGreeting \/ TakeState \/ TakeHolder \/ TakeResult
  \/ TakeReplacement \/ TakeUpdate \/ TakeSet
  \/ PressKey

CliSpec == CliInit /\ [][CliNext]_cliVars
----------------------------------------------------------------------------
(* Properties.                                                             *)

Online == running /\ session[Cli] = "open" /\ view # NoView /\ inbox = <<>>

\* A client that has handled all it was sent knows the drive state and the holder
\* of write access, although it is sent broadcasts before its greeting and keeps
\* no version of what it is told (puddle-cli.rs:211-231; websocket.rs:109-111).
KnowsTheCore ==
  Online => view = [drive |-> driveState, holder |-> holder]

\* Something the client asked for, or its end, has not reached the core.
Unheard ==
  \/ outbox # <<>>
  \/ \E i \in DOMAIN queue : queue[i].kind # "drive_state" /\ queue[i].from = Cli

\* When nothing is under way, the inputs of the client that holds write access
\* are the active set, although it is shown its own edits before they are made,
\* hears of them again, reads the set anew whenever it is replaced, and may have
\* been refused edits before (puddle-cli.rs:232-281, 328-356, 522-625).
WriterShowsActiveSet ==
  Online /\ ~Unheard /\ holder = Cli =>
    /\ Len(active.commands) = 2
    /\ \A s \in Slots : inputs[s] = active.commands[(s \div Width) + 1][FieldOf(s)]

\* A client that is left gives up write access with its last message, whatever it
\* asked for before: no claim of it is heard after its end, and its end is heard
\* (puddle-cli.rs:137-141, 200-205; main.rs:219-237).
LeavingReleases == ~running /\ ~Unheard => holder # Cli
=============================================================================
