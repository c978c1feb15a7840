----------------------------- MODULE MotionLoop -----------------------------
(***************************************************************************)
(* The drive thread and the drive as a control loop: every tick the drive  *)
(* is given the motion command computed in the tick before, answers with   *)
(* where it is, and the thread computes the next command from the answer   *)
(* (the second half of compute_next_request, src/src/drive.rs). DriveLink  *)
(* leaves the outcome of the predictions open; here they are computed.     *)
(*                                                                         *)
(* The drive is external. Its interpolator is modelled from what the code  *)
(* expects of VaiGoToPos and VaiStop: it brakes at the deceleration of its *)
(* command, no sooner than it must in order to stop at its target. A tick  *)
(* lasts two units of time, in which a constant acceleration a moves the   *)
(* drive by 2v + 2a: half of the sum of the velocities before and after.   *)
(***************************************************************************)
EXTENDS MotionMath, FiniteSets

CONSTANTS
  Lists,          \* the command lists the core may install
  MaxPosition     \* the position limit of the system

Fields == {"position", "velocity", "acceleration", "deceleration"}

ASSUME LoopAssumption ==
  /\ TimeUnit = 1 /\ Interval = 2
  /\ Lists \subseteq Seq([Fields -> Nat])
  /\ \A l \in Lists : \A i \in DOMAIN l : l[i].position <= MaxPosition

VARIABLES
  list,        \* input_commands
  motion,      \* motion_enabled
  index,       \* active_command_index
  approached,  \* active_command_has_approached
  direction,   \* active_approach_direction
  next,        \* next_motion_command
  drive        \* demand position, velocity and acceleration, and its command

vars == <<list, motion, index, approached, direction, next, drive>>
core == <<list, motion>>

NoCommand == [kind |-> "none"]
Stop(deceleration) == [kind |-> "stop", deceleration |-> deceleration]
Go(command, deceleration) ==
  [kind |-> "go", target |-> command.position, velocity |-> command.velocity,
   acceleration |-> command.acceleration, deceleration |-> deceleration]

Init ==
  /\ list = <<>> /\ motion = FALSE
  /\ index = 0 /\ approached = FALSE /\ direction = 0
  /\ next = NoCommand
  /\ drive \in [p : 0..MaxPosition, v : {0}, a : {0}, command : {NoCommand}]

-----------------------------------------------------------------------------
(* The drive                                                               *)

\* Where the drive can be one tick later, at which velocity. A drive that stops
\* between two whole positions is at one of them.
Moved(p, v, before) ==
  LET change == v - before
  IN [p |-> p, v |-> v, a |-> Signum(change) * ((Abs(change) + 1) \div 2)]

Brakes(p, v, deceleration) ==
  LET speed == Abs(v)
  IN IF 2 * deceleration >= speed
     THEN IF v = 0 THEN {Moved(p, 0, 0)}
          ELSE LET way == (v * v) \div (2 * deceleration)
               IN {[Moved(p + Signum(v) * w, 0, v) EXCEPT !.a = 0] :
                     w \in {way, AtMost(way + 1, speed)}}
     ELSE LET after == Signum(v) * (speed - 2 * deceleration)
          IN {Moved(p + v + after, after, v)}

\* Speeds that the interpolator can take on during a tick and still stop at
\* a target that is remaining away, in the direction of motion.
Speeds(speed, remaining, command) ==
  {s \in 0..AtMost(speed + 2 * command.acceleration, command.velocity) :
     /\ s >= speed - 2 * command.deceleration
     /\ speed + s <= remaining
     /\ s * s <= 2 * command.deceleration * (remaining - speed - s)}

\* The target is so near that the drive arrives within the tick.
Lands(speed, remaining, command) ==
  /\ speed * speed <= 2 * command.deceleration * remaining
  /\ speed <= 2 * command.deceleration
  /\ remaining <= speed + AtMost(command.acceleration, command.deceleration)

Goes(p, v, command) ==
  LET remaining == Abs(command.target - p)
      heading == Signum(command.target - p)
      speed == Abs(v)
      speeds == Speeds(speed, remaining, command)
  IN IF v = 0 /\ remaining = 0 THEN {Moved(p, 0, 0)}
     ELSE IF v * heading < 0 \/ remaining = 0 THEN Brakes(p, v, command.deceleration)
     ELSE IF Lands(speed, remaining, command)
          THEN {[Moved(command.target, 0, v) EXCEPT !.a = 0]}
     ELSE IF speeds = {} THEN Brakes(p, v, command.deceleration)
     ELSE LET s == CHOOSE s \in speeds : \A o \in speeds : o <= s
          IN {Moved(p + heading * (speed + s), heading * s, v)}

Moves(p, v, command) ==
  CASE command.kind = "none" -> {Moved(p, v, v)}
    [] command.kind = "stop" -> Brakes(p, v, command.deceleration)
    [] command.kind = "go" -> Goes(p, v, command)

-----------------------------------------------------------------------------
(* The drive thread                                                        *)

Active == index % Len(list)
Target == At(list, Active).position

\* The drive has been seen to move toward the target.
Seen == approached \/ MovingToward(Target - drive.p, drive.v, direction)

Reached == TargetReached(drive.p, drive.v, drive.a, Target, direction, Seen)

\* Motion, or a stop, at a deceleration that is clamped against the bound.
Request(command, bound) ==
  LET Clamped(requested) ==
        ClampDeceleration(drive.p, drive.v, bound.target, requested, bound.direction)
  IN IF motion THEN Go(command, Clamped(command.deceleration))
     ELSE Stop(Clamped(HardDecelerationMin))

\* The part of compute_next_request that follows the state of the drive: nothing to
\* do,
Idle ==
  /\ list = <<>>
  /\ next' = Stop(HardDecelerationMin)
  /\ UNCHANGED <<index, approached, direction>>

\* an arrival and the handoff to the command that follows,
Arrive ==
  /\ list # <<>> /\ Reached
  /\ index' = Successor(list, Active)
  /\ approached' = FALSE
  /\ direction' = Signum(At(list, index').position - Target)
  /\ next' = Request(At(list, index'),
                EffectiveBound(list, index', FALSE, direction',
                               Bound(Target, LegDirection(list, Active))))

\* or the approach to a target.
Approach ==
  /\ list # <<>> /\ ~Reached
  /\ index' = Active
  /\ approached' = Seen
  /\ UNCHANGED direction
  /\ next' = Request(At(list, index'),
                EffectiveBound(list, index', Seen, direction, Bound(Target, direction)))

\* The drive executes its command until the next tick.
Exchange ==
  LET command == IF next = NoCommand THEN drive.command ELSE next
  IN \E m \in Moves(drive.p, drive.v, command) :
       drive' = [p |-> m.p, v |-> m.v, a |-> m.a, command |-> command]

\* One tick: the exchange, the motion that the drive makes of it, and the request
\* that is computed from its answer.
Tick == Exchange /\ (Idle \/ Arrive \/ Approach) /\ UNCHANGED core

-----------------------------------------------------------------------------
(* The core                                                                *)

Replace(l) ==
  /\ list' = l
  /\ UNCHANGED <<motion, index, approached, direction, next, drive>>

SetMotion(enabled) ==
  /\ motion # enabled
  /\ motion' = enabled
  /\ UNCHANGED <<list, index, approached, direction, next, drive>>

\* ACTION_RESET_INDEX, as the thread takes it.
ResetIndex ==
  /\ index' = 0 /\ approached' = FALSE /\ direction' = 0
  /\ UNCHANGED <<list, motion, next, drive>>

Next ==
  \/ Tick
  \/ \E l \in Lists : Replace(l)
  \/ \E enabled \in BOOLEAN : SetMotion(enabled)
  \/ ResetIndex

Spec == Init /\ [][Next]_vars /\ WF_vars(Tick)

-----------------------------------------------------------------------------

\* The drive never leaves the stroke of the machine by more than the margin,
\* whatever decelerations are commanded, whenever lists are replaced and motion is
\* paused, and although it acts on each command one tick late: "the drive must not
\* overshoot target_position beyond overshoot_margin", and the delay "is accounted
\* for by the margin" (drive.rs, clamp_deceleration).
StaysWithinMargin == drive.p \in -OvershootMargin..(MaxPosition + OvershootMargin)

\* A list that the drive can follow.
Feasible(l) ==
  /\ Len(l) > 1
  /\ \A i \in DOMAIN l : \A f \in Fields \ {"position"} : l[i][f] > 0

\* A list that stays is executed for ever: every leg comes to an end, legs of no
\* length too, wherever the drive was and whatever the thread remembered of an
\* earlier list.
LegsAreCompleted ==
  \/ []<>~(motion /\ Feasible(list))
  \/ []<><<index' # index \/ list' # list>>_vars
=============================================================================
