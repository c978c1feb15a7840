------------------------------- MODULE HidUi -------------------------------
(***************************************************************************)
(* The core together with the UI manager of the handheld controller        *)
(* (src/src/hid/ui_manager.rs), which the core runs on its own thread. The *)
(* UI manager keeps the two commands of a stroke and turns the encoder     *)
(* movements and clicks of an input report into client messages.           *)
(*                                                                         *)
(* Every step is a step of CoreManager, whose UiMessages leave open what   *)
(* the UI manager answers. Positions, velocities and accelerations are     *)
(* counted in what one notch of an encoder changes.                        *)
(***************************************************************************)
EXTENDS CoreManager, SequencesExt

CONSTANT DefaultCommand  \* the command that DEFAULT_COMMANDS repeats

Encoders == 0..3

\* A report of the handheld: what each encoder was turned by, and the buttons.
InputReport ==
  [deltas : [Encoders -> Int],
   events : Seq([type : {"click", "hold_start", "hold_end"}, encoder : Encoders])]

ASSUME HidAssumption ==
  /\ Fields = {"position", "velocity", "acceleration", "deceleration"}
  /\ HidReports \subseteq InputReport
  /\ DefaultCommand \in Command

VARIABLE ui    \* the two commands and holding_start

uiVars == <<vars, ui>>

DefaultCommands == <<DefaultCommand, DefaultCommand>>

UiInit ==
  /\ Init
  /\ ui = [commands |-> DefaultCommands, holding |-> FALSE]

----------------------------------------------------------------------------
(* The messages of the UI manager.                                         *)

UpdateOf(index, values) ==
  [type |-> "update_command", index |-> index - 1,
   fields |-> [f \in Fields |-> IF f \in DOMAIN values THEN values[f] ELSE Keep]]

ClaimAndInstall(commands) ==
  <<[type |-> "request_write_access"],
    [type |-> "upsert_command_set", set |-> Active, base_version |-> AnyVersion,
     commands |-> commands]>>

Abs(n) == IF n < 0 THEN -n ELSE n

\* A fast turn counts more than a slow one. The result is clamped before it can
\* leave the range of the type.
Turned(value, notches, field) == Clamp(value + notches, Limit[field])

\* Mutant: the other end is left where it is.
MoveOneEnd(u, own, delta) ==
  LET moved == Turned(u.commands[own].position, delta * Abs(delta), "position")
  IN [u EXCEPT !.commands[own].position = moved,
               !.messages = Append(@, UpdateOf(own, [position |-> moved]))]

\* One end of the stroke moves. The other is pushed along if it is in the way,
\* and moves as well while the start button is held.
MoveEnd(u, own, delta) ==
  LET other == 3 - own
      notches == delta * Abs(delta)
      moved == Turned(u.commands[own].position, notches, "position")
      rest == u.commands[other].position
      inTheWay == IF own = 1 THEN moved > rest ELSE moved < rest
      pushed == IF u.holding THEN Turned(rest, notches, "position") ELSE moved
      alone == [u EXCEPT !.commands[own].position = moved,
                         !.messages = Append(@, UpdateOf(own, [position |-> moved]))]
  IN IF u.holding \/ inTheWay
       THEN [alone EXCEPT !.commands[other].position = pushed,
                          !.messages = Append(@, UpdateOf(other, [position |-> pushed]))]
       ELSE alone

\* Both commands take the same values.
SetBoth(u, values) ==
  [u EXCEPT !.commands = [i \in 1..2 |-> [f \in Fields |->
                            IF f \in DOMAIN values THEN values[f] ELSE @[i][f]]],
            !.messages = @ \o <<UpdateOf(1, values), UpdateOf(2, values)>>]

TurnEncoder(u, encoder, delta) ==
  LET first == u.commands[1]
      speed == Turned(first.velocity, delta * Abs(delta), "velocity")
      accel == Turned(first.acceleration, delta * Abs(delta) * Abs(delta), "acceleration")
  IN CASE delta = 0 -> u
       [] encoder = 0 /\ delta # 0 -> MoveEnd(u, 1, delta)
       [] encoder = 1 /\ delta # 0 -> MoveEnd(u, 2, delta)
       [] encoder = 2 /\ delta # 0 -> SetBoth(u, [velocity |-> speed])
       [] encoder = 3 /\ delta # 0 ->
            SetBoth(u, [acceleration |-> accel,
                        deceleration |-> Clamp(accel, Limit["deceleration"])])

\* What a click on the power button and on the motion button asks for in each
\* drive state.
PowerClick(state) ==
  CASE state = "Off" -> <<[type |-> "set_drive_power", enabled |-> TRUE]>>
    [] state \in {"Preparing", "Paused", "Moving"} ->
         <<[type |-> "set_drive_power", enabled |-> FALSE]>>
    [] state = "Errored" -> <<[type |-> "acknowledge_error"]>>
    [] OTHER -> <<>>

MotionClick(state) ==
  CASE state = "Paused" -> <<[type |-> "set_motion_state", action |-> "Resume"]>>
    [] state = "Moving" -> <<[type |-> "set_motion_state", action |-> "Pause"]>>
    [] OTHER -> <<>>

Press(u, event) ==
  CASE event.type = "click" /\ event.encoder = 0 ->
         [u EXCEPT !.messages = @ \o PowerClick(u.drive)]
    [] event.type = "click" /\ event.encoder = 1 ->
         [u EXCEPT !.messages = @ \o MotionClick(u.drive)]
    [] event.type = "click" /\ event.encoder = 2 -> [u EXCEPT !.reset = TRUE]
    [] event.type = "click" /\ event.encoder = 3 ->
         [u EXCEPT !.commands = DefaultCommands,
                   !.messages = Append(@, [type |-> "upsert_command_set", set |-> Active,
                                           base_version |-> AnyVersion,
                                           commands |-> DefaultCommands])]
    [] event.type = "hold_start" /\ event.encoder = 0 -> [u EXCEPT !.holding = TRUE]
    [] event.type = "hold_end" /\ event.encoder = 0 -> [u EXCEPT !.holding = FALSE]
    [] OTHER -> u

\* The encoders in their order, then the buttons in the order of the report.
TurnAll(u, deltas) ==
  LET left == TurnEncoder(u, 0, deltas[0])
      both == TurnEncoder(left, 1, deltas[1])
      fast == TurnEncoder(both, 2, deltas[2])
  IN TurnEncoder(fast, 3, deltas[3])

PressAll(u, events) ==
  LET pressed[n \in 0..Len(events)] ==
        IF n = 0 THEN u ELSE Press(pressed[n - 1], events[n])
  IN pressed[Len(events)]

\* Everything is decided from the drive state at this moment, before any of the
\* messages is handled.
Process(state, report) ==
  LET start == [commands |-> state.commands, holding |-> state.holding,
                drive |-> state.drive, messages |-> <<>>, reset |-> FALSE]
  IN PressAll(TurnAll(start, report.deltas), report.events)

----------------------------------------------------------------------------
(* The core's thread.                                                      *)

\* Mutant: write access is claimed without installing the commands.
OnlyClaim(commands) == <<[type |-> "request_write_access"]>>

\* A report of a handheld without write access claims it and is forgotten,
\* whatever it says.
Claims(commands) == ClaimAndInstall(commands)

Processed ==
  Process([commands |-> ui.commands, holding |-> ui.holding, drive |-> driveState],
          Head(queue).report)

Claim ==
  /\ Receives("hid_report")
  /\ holder # Hid
  /\ work' = Claims(ui.commands)
  /\ sent' = <<>>
  /\ UNCHANGED <<coreVars, ui>>

ProcessReport ==
  /\ Receives("hid_report")
  /\ holder = Hid
  /\ work' = Processed.messages
  /\ ui' = [commands |-> Processed.commands, holding |-> Processed.holding]
  /\ sent' = <<>>
  /\ UNCHANGED coreVars

\* The sessions other than the handheld's, the drive thread, and the core's
\* handlers that the UI manager has no part in.
OtherStep ==
  /\ \/ HandleDisconnected
     \/ HandleDriveState
     \/ HandleMessage
     \/ \E c \in WebSockets :
          OpenSession(c) \/ CloseSession(c) \/ \E m \in Requests : SendMessage(c, m)
     \/ \E s \in ReportedStates : DriveReports(s)
     \/ DriveTakesActions
  /\ UNCHANGED ui

\* The handheld comes, reports and goes at any time.
HandheldStep ==
  /\ \/ HandleConnected
     \/ HidConnects \/ HidDisconnects
     \/ \E r \in HidReports : HidReport(r)
  /\ UNCHANGED ui

UiNext == Claim \/ ProcessReport \/ OtherStep \/ HandheldStep

UiSpec == UiInit /\ [][UiNext]_uiVars
----------------------------------------------------------------------------
(* Properties.                                                             *)

\* The core and the UI manager each keep the commands. While the handheld holds
\* write access the two agree, although the UI manager never reads the active
\* set, and other controllers may have replaced it in between
\* (ui_manager.rs:113-124, 137-300, 324-335).
HandheldMirrorsActiveSet ==
  holder = Hid /\ work = <<>> => active.commands = ui.commands

\* The handheld is never refused anything: it asks only for what the drive state
\* allows and what the active set has, in the order in which it asks for it, and
\* it asks as the holder of write access (ui_manager.rs:113-124, 302-335;
\* main.rs:258-261).
HandheldIsNeverRefused ==
  [][ work # <<>> /\ CoreActs => ~IsFailure(Last(sent').body) ]_uiVars

\* The start of the stroke never comes after its end, whichever encoders are
\* turned in one report and whether or not the start button is held
\* (ui_manager.rs:157-166, 202-211).
StrokeIsOrdered == ui.commands[1].position <= ui.commands[2].position
=============================================================================
