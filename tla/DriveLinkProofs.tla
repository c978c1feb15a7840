-------------------------- MODULE DriveLinkProofs --------------------------
(***************************************************************************)
(* Proofs about the core and the drive thread (DriveLink), for any command *)
(* lists, any set of core operations and of faults and any bound on the    *)
(* channel: what the thread asks of the drive.                             *)
(*                                                                         *)
(* The type invariant and GoesToActiveCommand are inductive together: that *)
(* a request to travel exists only between its computation and the next    *)
(* exchange is what makes the steps of the core, which may replace the     *)
(* list or withdraw motion at any moment, harmless to it.                  *)
(***************************************************************************)
EXTENDS DriveLink, SequenceTheorems, TLAPS

----------------------------------------------------------------------------
(* Operators.                                                              *)

LEMMA ModInRange ==
  ASSUME NEW a \in Nat, NEW n \in Nat \ {0}
  PROVE  a % n \in 0..(n - 1)
OBVIOUS

LEMMA SignType ==
  ASSUME NEW x \in Int
  PROVE  Sign(x) \in Directions
BY DEF Sign, Directions

LEMMA RequestTypes ==
  /\ NoCommand \in MotionRequests /\ NoCommand.kind # "go"
  /\ Stop \in MotionRequests /\ Stop.kind # "go"
  /\ \A p \in Positions : Go(p) \in MotionRequests /\ Go(p).target = p
  /\ \A r \in MotionRequests : r.kind = "go" => r.target \in Positions
BY DEF NoCommand, Stop, Go, MotionRequests

\* The states of the drive and the answers that carry its status.
Hardware ==
  [state : HwStates, pos : Positions, vel : Directions, command : MotionRequests]

Answers ==
  {NoStatus} \cup [state : HwStates, pos : Positions, vel : Directions, moves : BOOLEAN]

\* The drive never leaves its range and never gets into a state of another kind,
\* whatever it is asked.
LEMMA DriveReacts ==
  ASSUME TypeOK, NEW fl \in SUBSET ControlFlags, NEW command \in MotionRequests
  PROVE  Reactions(fl, command) \subseteq Hardware
<1> USE DEF Hardware
<1>1. hw \in Hardware /\ MaxPosition \in Nat
  BY DriveAssumption DEF TypeOK
<1>2. \A st \in HwStates : At(st) \in Hardware
  BY <1>1, RequestTypes DEF At, Directions
<1>3. [At("HomingFinished") EXCEPT !.pos = 0] \in Hardware
  BY <1>1, <1>2 DEF HwStates, Positions
<1>4. ASSUME NEW c \in MotionRequests
      PROVE  Travel(c) \subseteq Hardware
  <2> DEFINE towards == IF c.kind = "go" THEN Sign(c.target - hw.pos) ELSE 0
  <2>1. towards \in Directions
    BY <1>1, RequestTypes, SignType DEF Directions, Positions
  <2>2. c.kind = "go" => hw.pos + towards \in Positions
    BY <1>1, RequestTypes DEF Positions, Sign
  <2>3. \A p \in Positions :
          [state |-> "Operational", command |-> c, vel |-> towards, pos |-> p]
            \in Hardware
    BY <2>1 DEF HwStates
  <2> HIDE DEF towards
  <2>4. Travel(c) =
          {[state |-> "Operational", command |-> c, vel |-> towards, pos |-> p] :
             p \in IF c.kind = "go" THEN {hw.pos + towards}
                   ELSE {hw.pos, hw.pos + hw.vel} \cap Positions}
    BY DEF Travel, towards
  <2> QED
    BY <2>2, <2>3, <2>4
<1>5. Travel(IF command = NoCommand THEN hw.command ELSE command) \subseteq Hardware
  BY <1>1, <1>4
<1>6. hw.state \in HwStates
  BY <1>1
<1> QED
  BY <1>1, <1>2, <1>3, <1>5, <1>6 DEF Reactions, HwStates, Powered

\* Progress through a list: the request that follows from it is for the command
\* that has become the active one, whether the target was reached or not.
LEMMA AdvanceGoesOn ==
  ASSUME TypeOK, response.state = "Operational",
         NEW commands \in Seq(Positions), commands # <<>>,
         NEW mo \in BOOLEAN, Advance(commands, mo)
  PROVE  /\ index' \in 0..(Len(commands) - 1)
         /\ approached' \in BOOLEAN
         /\ direction' \in Directions
         /\ commands[index' + 1] \in Positions
         /\ next' = MotionRequest(mo, commands[index' + 1])
<1>1. Len(commands) \in Nat \ {0}
  BY EmptySeq, LenProperties
<1> DEFINE i == index % Len(commands)
           j == (i + 1) % Len(commands)
           target == commands[i + 1]
           displacement == target - response.pos
           near == approached \/ MovingToward(displacement)
<1>2. i \in 0..(Len(commands) - 1)
  BY <1>1, ModInRange DEF TypeOK
<1> HIDE DEF i
<1>3. j \in 0..(Len(commands) - 1)
  <2> DEFINE n == Len(commands)
  <2>1. n \in Nat \ {0} /\ i + 1 \in Nat
    BY <1>1, <1>2
  <2> HIDE DEF n
  <2>2. (i + 1) % n \in 0..(n - 1)
    BY <2>1, ModInRange
  <2> QED
    BY <2>2 DEF n
<1>4. \A k \in 0..(Len(commands) - 1) : commands[k + 1] \in Positions
  BY <1>1, ElementOfSeq
<1>5. near \in BOOLEAN
  BY DEF TypeOK, MovingToward
<1>6. Sign(commands[j + 1] - target) \in Directions
  BY <1>2, <1>3, <1>4, SignType DEF Positions
<1>7. \/ /\ index' = j
         /\ approached' = FALSE
         /\ direction' = Sign(commands[j + 1] - target)
         /\ next' = MotionRequest(mo, commands[j + 1])
      \/ /\ index' = i
         /\ approached' = near
         /\ next' = MotionRequest(mo, target)
         /\ direction' = direction
  BY DEF Advance, i
<1> HIDE DEF j, near
<1> QED
  BY <1>2, <1>3, <1>4, <1>5, <1>6, <1>7 DEF TypeOK
----------------------------------------------------------------------------
(* Types and the request that waits.                                       *)

\* Every write of the core leaves DriveCommands well formed.
LEMMA WritesTyped ==
  ASSUME TypeOK, NEW op \in Operations, Perform(op)
  PROVE  /\ UNCHANGED <<feedback, known, phase, threadVars, response, hw>>
         /\ shared' \in [power : BOOLEAN, motion : BOOLEAN, commands : Seq(Positions)]
         /\ mutex' \in {"free", "core"}
         /\ pending' \subseteq Actions
         /\ owed' \subseteq Actions
<1> USE DEF TypeOK, Actions
<1>1. CASE op = "power_on" /\ SetDrivePower(TRUE)
  BY <1>1 DEF SetDrivePower, Write
<1>2. CASE op = "power_off" /\ SetDrivePower(FALSE)
  BY <1>2 DEF SetDrivePower, Write
<1>3. CASE op \in MotionActions /\ SetMotionState(op)
  <2>1. Enables(op) \in BOOLEAN
    BY DEF Enables
  <2>2. /\ shared' = [shared EXCEPT !.motion = Enables(op)]
        /\ owed' = IF Resets(op) THEN {"RESET_INDEX"} ELSE {}
        /\ mutex' = "core"
        /\ UNCHANGED <<pending, feedback, known, phase, threadVars, response, hw>>
    BY <1>3 DEF SetMotionState, Write
  <2> QED
    BY <2>1, <2>2
<1>4. CASE op = "upsert" /\ \E cs \in CommandLists : UpsertCommandSet(cs)
  BY <1>4, DriveAssumption DEF UpsertCommandSet, Write
<1>5. CASE op = "lost" /\ WriterLost
  BY <1>5 DEF WriterLost, Write
<1>6. CASE op = "ack" /\ AcknowledgeError
  BY <1>6 DEF AcknowledgeError, coreVars
<1> QED
  BY <1>1, <1>2, <1>3, <1>4, <1>5, <1>6 DEF Perform
\* What the core does touches neither the drive nor the state of the thread.
LEMMA CoreKeepsTyping ==
  ASSUME TypeOK, CoreStep
  PROVE  TypeOK' /\ UNCHANGED <<phase, threadVars, response, hw>>
<1>1. ASSUME NEW op \in Operations, Perform(op)
      PROVE  TypeOK' /\ UNCHANGED <<phase, threadVars, response, hw>>
  BY <1>1, WritesTyped DEF TypeOK, threadVars
<1>2. CASE Unlock
  BY <1>2 DEF Unlock, TypeOK, coreVars, threadVars
<1>3. CASE SendActions
  BY <1>3 DEF SendActions, TypeOK, threadVars
<1>4. CASE HandleFeedback
  BY <1>4, HeadTailProperties DEF HandleFeedback, TypeOK, threadVars
<1> QED
  BY <1>1, <1>2, <1>3, <1>4 DEF CoreStep

\* A report, where there is room for it.
LEMMA ReportTyped ==
  ASSUME feedback \in Seq(DriveStates), NEW s \in DriveStates, Report(s)
  PROVE  feedback' \in Seq(DriveStates)
BY AppendProperties DEF Report

LEMMA ConnectKeeps ==
  ASSUME TypeOK, GoesToActiveCommand, Connect
  PROVE  TypeOK' /\ next'.kind # "go"
<1> USE DEF TypeOK
<1>1. feedback' \in Seq(DriveStates)
  BY ReportTyped DEF Connect, DriveStates
<1>2. phase' \in {"connect", "exchange"}
  BY DEF Connect
<1>3. next.kind # "go"
  BY DEF Connect, GoesToActiveCommand
<1>4. CASE phase' = "exchange"
  <2>1. /\ flags' = {} /\ next' = NoCommand
        /\ power' = FALSE /\ motion' = FALSE /\ input' = <<>>
        /\ index' = 0 /\ approached' = FALSE /\ direction' = 0
        /\ UNCHANGED <<shared, mutex, pending, known, owed, response, hw>>
    BY <1>4 DEF Connect, coreVars
  <2> QED
    BY <1>1, <1>2, <2>1, RequestTypes, EmptySeq DEF Directions
<1>5. CASE phase' # "exchange"
  BY <1>1, <1>2, <1>3, <1>5 DEF Connect, coreVars, threadVars
<1> QED
  BY <1>4, <1>5

LEMMA ExchangeKeeps ==
  ASSUME TypeOK, Exchange \/ ExchangeFails
  PROVE  TypeOK' /\ next' = NoCommand
<1> USE DEF TypeOK
<1>1. hw' \in Hardware /\ hw \in Hardware
  BY DriveReacts DEF Exchange, ExchangeFails, Hardware
<1>2. CASE Exchange
  <2>1. DriveState(hw.state) \in DriveStates
    BY DEF DriveState, DriveStates
  <2>2. feedback' \in Seq(DriveStates)
    BY <1>2, <2>1, ReportTyped DEF Exchange
  <2>3. Status \in Answers
    BY <1>1 DEF Status, Answers, Hardware
  <2>4. response' \in Answers
    BY <1>2, <2>3 DEF Exchange, Answers
  <2> QED
    BY <1>1, <1>2, <2>2, <2>4, RequestTypes
       DEF Exchange, Hardware, Answers, coreVars
<1>3. CASE ExchangeFails
  BY <1>1, <1>3, RequestTypes DEF ExchangeFails, Hardware, coreVars
<1> QED
  BY <1>2, <1>3

LEMMA TakeActionsKeeps ==
  ASSUME TypeOK, GoesToActiveCommand, TakeActions
  PROVE  TypeOK' /\ next'.kind # "go"
<1> USE DEF TypeOK
<1>1. next.kind # "go"
  BY DEF TakeActions, GoesToActiveCommand
<1>2. flags' \subseteq ControlFlags
  BY DEF TakeActions, ControlFlags
<1>3. index' \in Nat /\ approached' \in BOOLEAN /\ direction' \in Directions
  <2>1. \/ index' = 0 /\ approached' = FALSE /\ direction' = 0
        \/ UNCHANGED <<index, approached, direction>>
    BY DEF TakeActions
  <2>2. index' \in Nat /\ direction' \in Directions
    BY <2>1 DEF Directions
  <2>3. approached' \in BOOLEAN
    BY <2>1, Zenon
  <2> QED
    BY <2>2, <2>3
<1> QED
  BY <1>1, <1>2, <1>3 DEF TakeActions, coreVars
\* What a tick computes, from a copy that is fresh unless the core is writing.
LEMMA ComputeGoesOn ==
  ASSUME TypeOK, GoesToActiveCommand, Compute
  PROVE  /\ TypeOK' /\ GoesToActiveCommand'
         /\ mutex = "free" => power' = shared.power /\ motion' = shared.motion
         /\ "SWITCH_ON" \in flags' => power'
<1> USE DEF TypeOK
<1>1. /\ power' \in BOOLEAN /\ motion' \in BOOLEAN /\ input' \in Seq(Positions)
      /\ mutex = "free" => power' = shared.power /\ motion' = shared.motion
  BY DEF Compute
<1>2. flags' \subseteq ControlFlags /\ ("SWITCH_ON" \in flags' => power')
  <2>1. FlagsByState(power') \subseteq ControlFlags
    BY DEF FlagsByState, ControlFlags
  <2> QED
    BY <2>1 DEF Compute, NextFlags
<1>3. /\ response' = NoStatus
      /\ phase' = "exchange"
      /\ UNCHANGED <<shared, mutex, pending, feedback, known, owed, hw>>
  BY DEF Compute, coreVars
<1>4. next.kind # "go"
  BY DEF Compute, GoesToActiveCommand
<1>5. CASE ~(power' /\ response.state = "Operational")
  <2>1. UNCHANGED <<next, index, approached, direction>>
    BY <1>5 DEF Compute
  <2> QED
    BY <1>1, <1>2, <1>3, <1>4, <2>1 DEF GoesToActiveCommand
<1>6. CASE power' /\ response.state = "Operational" /\ input' = <<>>
  <2>1. next' = Stop /\ UNCHANGED <<index, approached, direction>>
    BY <1>6 DEF Compute
  <2> QED
    BY <1>1, <1>2, <1>3, <2>1, RequestTypes DEF GoesToActiveCommand
<1>7. CASE power' /\ response.state = "Operational" /\ input' # <<>>
  <2> DEFINE list == input'
             mo == motion'
  <2>1. Advance(list, mo)
    BY <1>7 DEF Compute
  <2>2. list \in Seq(Positions) /\ list # <<>> /\ mo \in BOOLEAN
    BY <1>1, <1>7
  <2> HIDE DEF list, mo
  <2>3. /\ index' \in 0..(Len(list) - 1)
        /\ approached' \in BOOLEAN
        /\ direction' \in Directions
        /\ list[index' + 1] \in Positions
        /\ next' = MotionRequest(mo, list[index' + 1])
    BY <1>7, <2>1, <2>2, AdvanceGoesOn
  <2>4. Len(list) \in Nat
    BY <2>2, LenProperties
  <2>5. next' \in MotionRequests /\ (next'.kind = "go" => mo /\ next'.target = list[index' + 1])
    BY <2>2, <2>3, RequestTypes DEF MotionRequest
  <2>6. index' \in Nat /\ index' < Len(list)
    BY <2>3, <2>4
  <2>7. TypeOK'
    BY <1>1, <1>2, <1>3, <2>3, <2>5, <2>6
  <2>8. GoesToActiveCommand'
    BY <1>3, <1>7, <2>5, <2>6 DEF GoesToActiveCommand, list, mo
  <2> QED
    BY <1>1, <1>2, <2>7, <2>8
<1> QED
  BY <1>5, <1>6, <1>7

\* The invariant, step by step.
LEMMA InitTyped ==
  ASSUME Init
  PROVE  TypeOK /\ GoesToActiveCommand
<1>1. <<>> \in Seq(Positions) /\ <<>> \in Seq(DriveStates)
  BY EmptySeq
<1>2. hw \in [state : HwStates, pos : Positions, vel : Directions, command : MotionRequests]
  BY RequestTypes DEF Init, HwStates, Directions
<1> QED
  BY <1>1, <1>2, RequestTypes
     DEF Init, ThreadStart, TypeOK, GoesToActiveCommand, DriveStates, Directions

LEMMA StepKeepsRequests ==
  ASSUME TypeOK, GoesToActiveCommand, [Next]_vars
  PROVE  TypeOK' /\ GoesToActiveCommand'
<1>1. CASE CoreStep
  BY <1>1, CoreKeepsTyping DEF GoesToActiveCommand, threadVars
<1>2. CASE Connect
  BY <1>2, ConnectKeeps DEF GoesToActiveCommand
<1>3. CASE Exchange \/ ExchangeFails
  BY <1>3, ExchangeKeeps, RequestTypes DEF GoesToActiveCommand
<1>4. CASE TakeActions
  BY <1>4, TakeActionsKeeps DEF GoesToActiveCommand
<1>5. CASE Compute
  BY <1>5, ComputeGoesOn
<1>6. CASE UNCHANGED vars
  BY <1>6 DEF vars, coreVars, threadVars, TypeOK, GoesToActiveCommand
<1> QED
  BY <1>1, <1>2, <1>3, <1>4, <1>5, <1>6 DEF Next, ThreadStep

----------------------------------------------------------------------------
(* Theorems.                                                               *)

\* Every state of the core, the drive thread and the drive is well formed:
\* whatever is written, lost or reset, the drive stays in its range and the
\* thread's progress is a command index (drive.rs:334-349, 402-412, 553-582).
THEOREM LinkTyping == Spec => []TypeOK
<1>1. Init => TypeOK /\ GoesToActiveCommand
  BY InitTyped
<1>2. TypeOK /\ GoesToActiveCommand /\ [Next]_vars => (TypeOK /\ GoesToActiveCommand)'
  BY StepKeepsRequests
<1> QED
  BY <1>1, <1>2, PTL DEF Spec

\* The thread asks the drive to travel only to the target of the active command
\* of the list it holds, with power and motion enabled in its copy: for lists of
\* any length that replace one another at any moment (drive.rs:402-412, 516-536,
\* 553, 582).
THEOREM ActiveTargets == Spec => []GoesToActiveCommand
<1>1. Init => TypeOK /\ GoesToActiveCommand
  BY InitTyped
<1>2. TypeOK /\ GoesToActiveCommand /\ [Next]_vars => (TypeOK /\ GoesToActiveCommand)'
  BY StepKeepsRequests
<1> QED
  BY <1>1, <1>2, PTL DEF Spec

\* Once the core has released the mutex after switching motion or power off, the
\* next request that is computed neither makes the drive travel nor keeps it
\* switched on: the copy is refreshed before it is used, and a request that was
\* not recomputed is not a request to travel (drive.rs:344-349, 382-385, 553).
THEOREM PromptObedience == Spec => ObeysAtNextTick
<1>1. TypeOK /\ GoesToActiveCommand /\ [Next]_vars =>
        [Computes /\ mutex = "free" =>
           /\ next'.kind = "go" => shared.motion /\ shared.power
           /\ "SWITCH_ON" \in flags' => shared.power]_vars
  <2> SUFFICES ASSUME TypeOK, GoesToActiveCommand, [Next]_vars,
                      Computes, mutex = "free"
               PROVE  /\ next'.kind = "go" => shared.motion /\ shared.power
                      /\ "SWITCH_ON" \in flags' => shared.power
    OBVIOUS
  <2>1. Compute
    BY CoreKeepsTyping
       DEF Computes, Next, ThreadStep, Connect, Exchange, ExchangeFails,
           TakeActions, vars
  <2> QED
    BY <2>1, ComputeGoesOn DEF GoesToActiveCommand
<1> QED
  BY <1>1, LinkTyping, ActiveTargets, PTL DEF Spec, ObeysAtNextTick
=============================================================================
