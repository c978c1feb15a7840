---------------------------- MODULE MotionTypes ----------------------------
(***************************************************************************)
(* The vocabulary shared by the core and the drive thread: drive states,   *)
(* motion actions, motion commands and the operations on them              *)
(* (src/src/messages.rs, src/src/lib.rs, src/src/drive.rs).                *)
(***************************************************************************)
EXTENDS Integers, Sequences

CONSTANTS
  Fields,   \* the fields of a motion command: position, velocity, ...
  Limit,    \* SystemLimits: the upper bound of every field
  Keep      \* a field that an update leaves alone

ASSUME LimitAssumption ==
  /\ Limit \in [Fields -> Nat]
  /\ Keep \notin Int

\* DriveState, as the core reports it to its controllers.
DriveStates ==
  {"Disconnected", "Off", "Preparing", "Paused", "Moving", "Errored"}

MotionActions == {"Start", "Pause", "Resume", "Stop"}

\* The bits of DriveActions.
Actions == {"RESET_INDEX", "ACK_ERROR"}

\* A motion command holds whatever a client sent: nothing bounds its fields.
Command == [Fields -> Int]

\* MotionCommandFields: the fields to overwrite.
FieldUpdate == [Fields -> Int \cup {Keep}]

ApplyFields(command, update) ==
  [f \in Fields |-> IF update[f] = Keep THEN command[f] ELSE update[f]]

Clamp(x, limit) == IF x < 0 THEN 0 ELSE IF x > limit THEN limit ELSE x

\* What the drive thread may be given: every field between zero and its limit.
SafeCommand == {c \in Command : \A f \in Fields : c[f] \in 0..Limit[f]}

\* Mutant: the list is handed on as it came.
UnclampedCommands(commands) == commands

ClampCommands(commands) ==
  [i \in DOMAIN commands |-> [f \in Fields |-> Clamp(commands[i][f], Limit[f])]]

\* The drive states from which each motion action is accepted.
MotionActionValid(action, driveState) ==
  \/ action \in {"Start", "Resume"} /\ driveState = "Paused"
  \/ action = "Pause" /\ driveState = "Moving"
  \/ action = "Stop" /\ driveState \in {"Moving", "Paused"}

Enables(action) == action \in {"Start", "Resume"}

Resets(action) == action \in {"Start", "Stop"}
=============================================================================
