----------------------------- MODULE DriveLink -----------------------------
(***************************************************************************)
(* The core and the drive thread at the grain at which they can interleave *)
(* (src/src/main.rs, src/src/drive.rs). The core writes DriveCommands      *)
(* under a mutex and sends one-off actions only after it has released it;  *)
(* the drive thread exchanges a datagram with the drive, reports its state,*)
(* takes the actions, copies the commands if it can get the mutex, and     *)
(* computes the next request. A failed exchange abandons the connection    *)
(* with everything the thread knows; what the core wrote stays.            *)
(*                                                                         *)
(* The drive itself is external: it is modelled from what the thread       *)
(* expects of its states and of the control flags. A command is reduced to *)
(* its target position; predictions of the motion are a free choice where  *)
(* the code's could go either way.                                         *)
(***************************************************************************)
EXTENDS MotionTypes, FiniteSets, SequencesExt

CONSTANTS
  MaxPosition,   \* positions are 0..MaxPosition
  CommandLists,  \* the lists of targets the core may install
  Operations,    \* the core operations considered
  Faults,        \* what may go wrong between the thread and the drive
  MaxFeedback    \* bound: reports the core has not yet taken off its channel

Positions == 0..MaxPosition
Directions == {-1, 0, 1}

\* Operations of the core on the drive interface. "lost" is the disconnection
\* of the writer.
AllOperations ==
  MotionActions \cup {"power_on", "power_off", "upsert", "ack", "lost"}

\* A datagram that is lost, an answer without the drive's status, an error of
\* the drive.
AllFaults == {"silence", "no_status", "error"}

ASSUME DriveAssumption ==
  /\ MaxPosition \in Nat
  /\ CommandLists \subseteq Seq(Positions)
  /\ Operations \subseteq AllOperations
  /\ Faults \subseteq AllFaults
  /\ MaxFeedback \in Nat \ {0}

NoCommand == [kind |-> "none"]
Stop == [kind |-> "stop"]
Go(target) == [kind |-> "go", target |-> target]

MotionRequests == {NoCommand, Stop} \cup [kind : {"go"}, target : Positions]

\* States of the drive, named as in linmot's State; Unhomed and Operational are
\* OperationEnabled without and with the homed bit.
HwStates ==
  {"NotReadyToSwitchOn", "ReadyToSwitchOn", "Unhomed", "Homing", "HomingFinished",
   "Operational", "Error"}

Powered == {"Unhomed", "Homing", "HomingFinished", "Operational"}

ControlFlags == {"SWITCH_ON", "HOME", "ERROR_ACKNOWLEDGE"}

NoStatus == [state |-> "none"]

VARIABLES
  \* between the threads
  shared,      \* DriveCommands
  mutex,       \* who holds the mutex of shared
  pending,     \* DriveActions.pending
  feedback,    \* the drive states reported and not yet handled by the core
  \* the core
  known,       \* core_state.drive_state
  owed,        \* the actions the operation in progress has still to send
  \* the drive thread
  phase,       \* the next step of the thread
  flags,       \* control_flags
  next,        \* next_motion_command
  power, motion, input,             \* the copy of shared
  index, approached, direction,     \* progress through input; 0 is no direction
  response,    \* last_response, until the tick is over
  \* the drive
  hw           \* its state, position, velocity and current command

coreVars == <<known, owed>>
threadVars == <<flags, next, power, motion, input, index, approached, direction>>
vars == <<shared, mutex, pending, feedback, coreVars, phase, threadVars,
          response, hw>>

ThreadStart ==
  /\ flags = {}
  /\ next = NoCommand
  /\ power = FALSE
  /\ motion = FALSE
  /\ input = <<>>
  /\ index = 0
  /\ approached = FALSE
  /\ direction = 0

Init ==
  /\ shared = [power |-> FALSE, motion |-> FALSE, commands |-> <<>>]
  /\ mutex = "free"
  /\ pending = {}
  /\ feedback = <<>>
  /\ known = "Disconnected"
  /\ owed = {}
  /\ phase = "connect"
  /\ ThreadStart
  /\ response = NoStatus
  /\ hw \in [state : {"NotReadyToSwitchOn", "ReadyToSwitchOn"}, pos : Positions,
             vel : {0}, command : {Stop}]

----------------------------------------------------------------------------
(* The core.                                                               *)

CoreIdle == mutex = "free" /\ owed = {}

\* Take the mutex and write; the actions follow once it is released.
Write(commands, actions) ==
  /\ CoreIdle
  /\ mutex' = "core"
  /\ shared' = commands
  /\ owed' = actions
  /\ UNCHANGED <<pending, feedback, known, phase, threadVars, response, hw>>

SetDrivePower(enabled) ==
  Write([shared EXCEPT !.power = enabled, !.motion = enabled /\ @], {})

SetMotionState(action) ==
  /\ MotionActionValid(action, known)
  /\ Write([shared EXCEPT !.motion = Enables(action)],
           IF Resets(action) THEN {"RESET_INDEX"} ELSE {})

UpsertCommandSet(commands) ==
  Write([shared EXCEPT !.commands = commands], {"RESET_INDEX"})

WriterLost ==
  Write([shared EXCEPT !.power = FALSE, !.motion = FALSE], {})

AcknowledgeError ==
  /\ CoreIdle
  /\ known = "Errored"
  /\ pending' = pending \cup {"ACK_ERROR"}
  /\ UNCHANGED <<shared, mutex, feedback, coreVars, phase, threadVars, response, hw>>

Perform(op) ==
  \/ op = "power_on" /\ SetDrivePower(TRUE)
  \/ op = "power_off" /\ SetDrivePower(FALSE)
  \/ op \in MotionActions /\ SetMotionState(op)
  \/ op = "upsert" /\ \E cs \in CommandLists : UpsertCommandSet(cs)
  \/ op = "lost" /\ WriterLost
  \/ op = "ack" /\ AcknowledgeError

Unlock ==
  /\ mutex = "core"
  /\ mutex' = "free"
  /\ UNCHANGED <<shared, pending, feedback, coreVars, phase, threadVars, response, hw>>

SendActions ==
  /\ mutex = "free"
  /\ owed # {}
  /\ pending' = pending \cup owed
  /\ owed' = {}
  /\ UNCHANGED <<shared, mutex, feedback, known, phase, threadVars, response, hw>>

HandleFeedback ==
  /\ CoreIdle
  /\ feedback # <<>>
  /\ known' = Head(feedback)
  /\ feedback' = Tail(feedback)
  /\ UNCHANGED <<shared, mutex, pending, owed, phase, threadVars, response, hw>>

----------------------------------------------------------------------------
(* The drive.                                                              *)

\* Mutant: a direction that is not normalised.
Difference(x) == x

Sign(x) == IF x > 0 THEN 1 ELSE IF x < 0 THEN -1 ELSE 0

At(state) == [hw EXCEPT !.state = state, !.vel = 0, !.command = Stop]

\* One step towards the target, or at most one more step before it stands.
Travel(command) ==
  LET towards == IF command.kind = "go" THEN Sign(command.target - hw.pos) ELSE 0
      coasting == {hw.pos, hw.pos + hw.vel} \cap Positions
  IN {[state |-> "Operational", command |-> command, vel |-> towards, pos |-> p] :
        p \in IF command.kind = "go" THEN {hw.pos + towards} ELSE coasting}

\* The reactions of the drive to a request.
Reactions(fl, command) ==
  (IF "error" \in Faults THEN {At("Error")} ELSE {}) \cup
  CASE hw.state = "NotReadyToSwitchOn" ->
         {hw} \cup (IF fl = {} THEN {At("ReadyToSwitchOn")} ELSE {})
    [] hw.state = "ReadyToSwitchOn" ->
         IF "SWITCH_ON" \in fl THEN {At("Unhomed"), At("Operational")} ELSE {hw}
    [] hw.state = "Error" ->
         IF "ERROR_ACKNOWLEDGE" \in fl THEN {At("NotReadyToSwitchOn")} ELSE {hw}
    [] hw.state \in Powered /\ "SWITCH_ON" \notin fl -> {At("ReadyToSwitchOn")}
    [] hw.state = "Unhomed" /\ "SWITCH_ON" \in fl ->
         IF "HOME" \in fl THEN {At("Homing")} ELSE {hw}
    [] hw.state = "Homing" /\ "SWITCH_ON" \in fl -> {hw, [At("HomingFinished") EXCEPT !.pos = 0]}
    [] hw.state = "HomingFinished" /\ "SWITCH_ON" \in fl ->
         IF "HOME" \in fl THEN {hw} ELSE {At("Operational")}
    [] hw.state = "Operational" /\ "SWITCH_ON" \in fl ->
         Travel(IF command = NoCommand THEN hw.command ELSE command)

----------------------------------------------------------------------------
(* The drive thread.                                                       *)

DriveState(state) ==
  CASE state = "ReadyToSwitchOn" -> "Off"
    [] state = "Operational" -> IF motion THEN "Moving" ELSE "Paused"
    [] state = "Error" -> "Errored"
    [] OTHER -> "Preparing"

Report(s) ==
  /\ Len(feedback) < MaxFeedback
  /\ feedback' = Append(feedback, s)

\* A connection attempt: the core hears of it first; then a probe without
\* control flags is answered, or not.
Connect ==
  /\ phase = "connect"
  /\ Report("Disconnected")
  /\ phase' \in IF "silence" \in Faults THEN {"connect", "exchange"} ELSE {"exchange"}
  /\ IF phase' = "exchange"
       THEN /\ flags' = {} /\ next' = NoCommand
            /\ power' = FALSE /\ motion' = FALSE /\ input' = <<>>
            /\ index' = 0 /\ approached' = FALSE /\ direction' = 0
       ELSE UNCHANGED threadVars
  /\ UNCHANGED <<shared, mutex, pending, coreVars, response, hw>>

\* What the drive answers: its status before the request takes effect. It moves
\* if its demanded velocity or acceleration is not zero.
Status ==
  [state |-> hw.state, pos |-> hw.pos, vel |-> hw.vel,
   moves |-> hw.vel # 0 \/ hw.command.kind = "go"]

\* Request and response.
Exchange ==
  /\ phase = "exchange"
  /\ phase' = "take"
  /\ hw' \in Reactions(flags, next)
  /\ next' = NoCommand
  /\ \/ response' = Status /\ Report(DriveState(hw.state))
     \/ "no_status" \in Faults /\ response' = NoStatus /\ UNCHANGED feedback
  /\ UNCHANGED <<shared, mutex, pending, coreVars, flags, power, motion, input,
                 index, approached, direction>>

\* No answer in time. The request may or may not have reached the drive.
ExchangeFails ==
  /\ "silence" \in Faults
  /\ phase = "exchange"
  /\ phase' = "connect"
  /\ hw' \in Reactions(flags, next) \cup {hw}
  /\ next' = NoCommand
  /\ UNCHANGED <<shared, mutex, pending, feedback, coreVars, flags, power, motion,
                 input, index, approached, direction, response>>

\* Mutant: an error is acknowledged only while the drive is powered.
TakesActionsIfPowered ==
  /\ phase = "take"
  /\ phase' = "compute"
  /\ pending' = {}
  /\ IF "RESET_INDEX" \in pending
       THEN index' = 0 /\ approached' = FALSE /\ direction' = 0
       ELSE UNCHANGED <<index, approached, direction>>
  /\ flags' = flags \cup
       (IF "ACK_ERROR" \in pending /\ power THEN {"ERROR_ACKNOWLEDGE"} ELSE {})
  /\ UNCHANGED <<shared, mutex, feedback, coreVars, next, power, motion, input,
                 response, hw>>

TakeActions ==
  /\ phase = "take"
  /\ phase' = "compute"
  /\ pending' = {}
  /\ IF "RESET_INDEX" \in pending
       THEN index' = 0 /\ approached' = FALSE /\ direction' = 0
       ELSE UNCHANGED <<index, approached, direction>>
  /\ flags' = flags \cup
       (IF "ACK_ERROR" \in pending THEN {"ERROR_ACKNOWLEDGE"} ELSE {})
  /\ UNCHANGED <<shared, mutex, feedback, coreVars, next, power, motion, input,
                 response, hw>>

\* Mutant: the homing request stays up when homing is finished.
FlagsKeepHome(pw) ==
  CASE response.state \in {"none", "NotReadyToSwitchOn"} -> {}
    [] response.state = "ReadyToSwitchOn" /\ pw -> {"SWITCH_ON"}
    [] response.state = "Unhomed" -> flags \cup {"HOME"}
    [] OTHER -> flags

FlagsByState(pw) ==
  CASE response.state \in {"none", "NotReadyToSwitchOn"} -> {}
    [] response.state = "ReadyToSwitchOn" /\ pw -> {"SWITCH_ON"}
    [] response.state = "Unhomed" -> flags \cup {"HOME"}
    [] response.state = "HomingFinished" -> flags \ {"HOME"}
    [] OTHER -> flags

\* Mutant: the flag that keeps the drive switched on is not withdrawn.
FlagsStayOn(pw) == FlagsByState(pw)

NextFlags(pw) == IF pw THEN FlagsByState(pw) ELSE FlagsByState(pw) \ {"SWITCH_ON"}

MovingToward(displacement) ==
  /\ response.vel # 0
  /\ response.vel = IF direction # 0 THEN direction ELSE Sign(displacement)

\* Arrival at the active target. Whether the motion is predicted to cross it, or
\* to stop short of it, within the horizon is free, but a drive at rest is
\* predicted to stay where it is.
Arrives(displacement, near, predicted) ==
  \/ displacement = 0
  \/ near /\ (response.vel = 0 \/ ~MovingToward(displacement))
  \/ predicted

\* Mutant: the drive is sent on although motion is disabled.
RequestAnyway(mo, target) == Go(target)

\* Travel to the target, or come to a stop while motion is disabled.
MotionRequest(mo, target) == IF mo THEN Go(target) ELSE Stop

\* Progress through the commands, and the request that follows from it. All of
\* it also happens while motion is disabled.
Advance(commands, mo) ==
  LET i == index % Len(commands)
      target == commands[i + 1]
      j == (i + 1) % Len(commands)
      displacement == target - response.pos
      near == approached \/ MovingToward(displacement)
  IN \E predicted \in {FALSE, response.moves} :
       IF Arrives(displacement, near, predicted)
         THEN /\ index' = j
              /\ approached' = FALSE
              /\ direction' = Sign(commands[j + 1] - target)
              /\ next' = MotionRequest(mo, commands[j + 1])
         ELSE /\ index' = i
              /\ approached' = near
              /\ next' = MotionRequest(mo, target)
              /\ UNCHANGED direction

\* Mutant: the request is computed before the copy is refreshed.
ComputeThenCopy ==
  /\ phase = "compute"
  /\ phase' = "exchange"
  /\ IF mutex = "free"
       THEN power' = shared.power /\ motion' = shared.motion /\ input' = shared.commands
       ELSE UNCHANGED <<power, motion, input>>
  /\ flags' = NextFlags(power)
  /\ IF power /\ response.state = "Operational"
       THEN IF input = <<>>
              THEN next' = Stop /\ UNCHANGED <<index, approached, direction>>
              ELSE Advance(input, motion)
       ELSE UNCHANGED <<next, index, approached, direction>>
  /\ response' = NoStatus
  /\ UNCHANGED <<shared, mutex, pending, feedback, coreVars, hw>>

\* Copy the commands unless the core is writing them, and compute the next
\* request from the response and the copy.
Compute ==
  /\ phase = "compute"
  /\ phase' = "exchange"
  /\ IF mutex = "free"
       THEN power' = shared.power /\ motion' = shared.motion /\ input' = shared.commands
       ELSE UNCHANGED <<power, motion, input>>
  /\ flags' = NextFlags(power')
  /\ IF power' /\ response.state = "Operational"
       THEN IF input' = <<>>
              THEN next' = Stop /\ UNCHANGED <<index, approached, direction>>
              ELSE Advance(input', motion')
       ELSE UNCHANGED <<next, index, approached, direction>>
  /\ response' = NoStatus
  /\ UNCHANGED <<shared, mutex, pending, feedback, coreVars, hw>>

----------------------------------------------------------------------------
CoreStep ==
  \/ \E op \in Operations : Perform(op)
  \/ Unlock
  \/ SendActions
  \/ HandleFeedback

ThreadStep == Connect \/ Exchange \/ ExchangeFails \/ TakeActions \/ Compute

Next == CoreStep \/ ThreadStep

\* The core finishes what it began and reads its channel; the thread runs at
\* real-time priority and never waits for the core.
Scheduling ==
  /\ WF_vars(Unlock)
  /\ WF_vars(SendActions)
  /\ WF_vars(HandleFeedback)
  /\ WF_vars(ThreadStep)

Spec == Init /\ [][Next]_vars /\ Scheduling

\* A drive that can get on with switching on, homing or recovering does so,
\* unless it faults.
HwProgress ==
  SF_vars(Exchange /\ hw'.state \notin {hw.state, "Error"})

LiveSpec == Spec /\ HwProgress

----------------------------------------------------------------------------
(* Properties.                                                             *)

TypeOK ==
  /\ shared \in [power : BOOLEAN, motion : BOOLEAN, commands : Seq(Positions)]
  /\ mutex \in {"free", "core"}
  /\ pending \subseteq Actions
  /\ feedback \in Seq(DriveStates)
  /\ known \in DriveStates
  /\ owed \subseteq Actions
  /\ phase \in {"connect", "exchange", "take", "compute"}
  /\ flags \subseteq ControlFlags
  /\ next \in MotionRequests
  /\ power \in BOOLEAN /\ motion \in BOOLEAN
  /\ input \in Seq(Positions)
  /\ index \in Nat
  /\ approached \in BOOLEAN
  /\ direction \in Directions
  /\ response \in {NoStatus} \cup [state : HwStates, pos : Positions, vel : Directions,
                               moves : BOOLEAN]
  /\ hw \in [state : HwStates, pos : Positions, vel : Directions,
             command : MotionRequests]

\* The thread asks the drive to travel only to the target of the active command
\* of the list it holds, with power and motion enabled in its own copy, although
\* the list may have been replaced by a shorter one, and the index reset, at any
\* moment since the last tick (drive.rs:334-349, 402-412, 516-536, 553, 582).
GoesToActiveCommand ==
  next.kind = "go" =>
    /\ phase = "exchange"
    /\ power /\ motion
    /\ index < Len(input)
    /\ next.target = input[index + 1]

Computes == phase = "compute" /\ phase' = "exchange"

\* Once the core has released the mutex after switching motion or power off, no
\* request computed from then on makes the drive travel, and none keeps it
\* switched on: the thread never computes from an older copy unless the core is
\* writing at that very moment (drive.rs:344-349, 382-385, 553).
ObeysAtNextTick ==
  [][ Computes /\ mutex = "free" =>
        /\ next'.kind = "go" => shared.motion /\ shared.power
        /\ "SWITCH_ON" \in flags' => shared.power ]_vars

LastReported == IF feedback # <<>> THEN Last(feedback) ELSE known

\* The drive is reported as moving only after it was reported as paused: from
\* an error it goes back through off, and motion takes a start.
MovesOnlyFromPaused ==
  [][ LastReported' = "Moving" /\ LastReported # "Moving"
        => LastReported = "Paused" ]_vars

Undisturbed == mutex = "free" /\ phase # "connect"

\* When motion stays disabled and the link stays up, the drive comes to a
\* standstill and remains there (drive.rs:382-385, 402-408, 553-569).
StopIsObeyed ==
  <>[](Undisturbed /\ ~shared.motion) => <>[](hw.vel = 0)

\* When power stays disabled and the link stays up, the drive ends up switched
\* off, from homing and from motion alike (drive.rs:364-385).
PowerOffIsObeyed ==
  <>[](Undisturbed /\ ~shared.power) => <>[](hw.state \notin Powered)

\* When power stays enabled, the link stays up and the drive answers with its
\* status and does not fault, it is switched on, homed and made operational, and
\* remains so (drive.rs:364-380).
PowerOnCompletes ==
  <>[](/\ Undisturbed /\ shared.power /\ hw.state # "Error"
       /\ phase = "compute" => response # NoStatus)
    => <>[](hw.state = "Operational")

\* An acknowledgement accepted by the core is put on the wire, unless the link is
\* lost or the drive no longer answers that it is in error (drive.rs:334-342,
\* 359-370).
AcknowledgementIsSent ==
  "ACK_ERROR" \in pending
    ~> \/ phase = "exchange" /\ "ERROR_ACKNOWLEDGE" \in flags
       \/ phase = "compute" /\ response.state # "Error"
       \/ phase = "connect"
=============================================================================
