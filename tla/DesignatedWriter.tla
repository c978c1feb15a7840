-------------------------- MODULE DesignatedWriter --------------------------
(***************************************************************************)
(* What the core promises about write access, without its channel, its     *)
(* messages or its command sets: one designated writer at a time, who alone *)
(* commands the machine; a claim that succeeds only where the rules of     *)
(* section 4 of src/docs/design.md allow it; and a machine switched off    *)
(* when its writer is lost.                                                *)
(***************************************************************************)
CONSTANTS
  Controllers,
  Priority,      \* the controller whose claims always succeed
  Nobody,
  DriveStates

VARIABLES
  writer,        \* the designated writer, or Nobody
  connected,     \* the controllers connected at the moment
  drive,         \* the drive state the rules are applied to
  power, motion  \* what the drive is told to do

vars == <<writer, connected, drive, power, motion>>

Init ==
  /\ writer = Nobody
  /\ connected = {}
  /\ drive = "Disconnected"
  /\ power = FALSE
  /\ motion = FALSE

Join(c) ==
  /\ connected' = connected \cup {c}
  /\ UNCHANGED <<writer, drive, power, motion>>

Leave(c) ==
  /\ connected' = connected \ {c}
  /\ UNCHANGED <<writer, drive, power, motion>>

Report ==
  /\ drive' \in DriveStates
  /\ UNCHANGED <<writer, connected, power, motion>>

\* Claiming commands nothing: a claim never starts or stops the machine.
Claim(c) ==
  /\ writer = Nobody \/ drive = "Off" \/ c = Priority
  /\ writer' = c
  /\ UNCHANGED <<connected, drive, power, motion>>

Release ==
  /\ writer # Nobody
  /\ writer' = Nobody
  /\ UNCHANGED <<connected, drive, power, motion>>

\* The writer commands the machine. Switching the power off also ends motion.
Command ==
  /\ writer # Nobody
  /\ \/ power' = TRUE /\ motion' = motion
     \/ power' = FALSE /\ motion' = FALSE
     \/ motion' \in BOOLEAN /\ power' = power
  /\ UNCHANGED <<writer, connected, drive>>

\* The writer is lost. Only the priority controller may have come back by the
\* time that its loss is noticed: other controllers never return.
Revoke ==
  /\ writer # Nobody
  /\ writer \notin connected \/ writer = Priority
  /\ writer' = Nobody
  /\ power' = FALSE
  /\ motion' = FALSE
  /\ UNCHANGED <<connected, drive>>

Next ==
  \/ \E c \in Controllers : Join(c) \/ Leave(c) \/ Claim(c)
  \/ Report \/ Release \/ Command \/ Revoke

LosesWriter == writer \notin connected /\ Revoke

\* A writer that is gone, and stays gone, is eventually revoked.
Spec == Init /\ [][Next]_vars /\ WF_vars(LosesWriter)
=============================================================================
