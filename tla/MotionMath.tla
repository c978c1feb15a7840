----------------------------- MODULE MotionMath -----------------------------
(***************************************************************************)
(* The arithmetic of the drive thread (src/src/drive.rs): where the drive  *)
(* will be, whether it has reached the target it was sent to, and which    *)
(* deceleration keeps it from overshooting.                                *)
(*                                                                         *)
(* All quantities are integers: positions in 0.1 um, velocities in um/s,   *)
(* accelerations in 10 um/s^2, durations in us. TimeUnit, 100 000 us, is   *)
(* the duration in which these units agree: an acceleration of 1 adds 1 to *)
(* the velocity, a velocity of 1 adds 1 to the position. Commands are      *)
(* within the system limits and feedback is within 32 bits, so the 64-bit  *)
(* intermediate results of the code do not overflow. A direction is 1, -1  *)
(* or, where the code has None or Some(0), 0.                              *)
(***************************************************************************)
EXTENDS Integers, Sequences

CONSTANTS
  Interval,              \* the drive loop's
  TimeUnit,
  OvershootMargin,
  HardDecelerationMin,
  HardDecelerationMax,
  Saturated              \* i32::MAX

ASSUME MathAssumption ==
  /\ Interval \in Nat
  /\ TimeUnit \in Nat \ {0}
  /\ OvershootMargin \in Nat
  /\ HardDecelerationMin \in Nat
  /\ HardDecelerationMax \in Nat
  /\ HardDecelerationMin <= HardDecelerationMax
  /\ HardDecelerationMax <= Saturated
  /\ Saturated \in Nat

Abs(x) == IF x < 0 THEN -x ELSE x
Signum(x) == IF x < 0 THEN -1 ELSE IF x > 0 THEN 1 ELSE 0
AtMost(x, bound) == IF x > bound THEN bound ELSE x
AtLeast(x, bound) == IF x < bound THEN bound ELSE x

\* Division of machine integers rounds towards zero.
Quotient(x, y) == IF x < 0 THEN -((-x) \div y) ELSE x \div y

-----------------------------------------------------------------------------
(* Prediction and arrival                                                  *)

PredictPosition(p, v, a, duration) ==
  p + Quotient(v * duration, TimeUnit)
    + Quotient(a * duration * duration, 2 * TimeUnit * TimeUnit)

PredictVelocity(v, a, duration) == v + Quotient(a * duration, TimeUnit)

\* "Feedback is already one cycle old", and a command computed now is used on a
\* later one.
HandoffHorizon == 3 * Interval

\* The direction in which the active command is approached is that of its leg, or
\* without one that of the drive's displacement from the target.
MovingToward(displacement, v, direction) ==
  (IF direction # 0 THEN direction ELSE displacement) * v > 0

\* A stop at hard_deceleration_max would end within the margin.
CanRecover(distance, v) ==
  \/ distance + OvershootMargin = 0
  \/ /\ HardDecelerationMax # 0
     /\ v * v <= 2 * HardDecelerationMax * (distance + OvershootMargin)

PredictedCrossing(p, v, a, target) ==
  LET displacement == target - p
      after == target - PredictPosition(p, v, a, HandoffHorizon)
  IN (displacement > 0 /\ after <= 0) \/ (displacement < 0 /\ after >= 0)

\* The drive slows down and will have stopped, or turned, within the horizon.
PredictedStop(v, a) ==
  LET after == PredictVelocity(v, a, HandoffHorizon)
  IN v * a < 0 /\ ((v > 0 /\ after <= 0) \/ (v < 0 /\ after >= 0))

\* Mutant of TargetReached: a drive that stands at the target is not recognised.
ReachedInMotion(p, v, a, target, direction, approached) ==
  LET distance == Abs(target - p)
      toward == MovingToward(target - p, v, direction)
  IN \/ approached /\ (v = 0 \/ ~toward)
     \/ PredictedCrossing(p, v, a, target) /\ CanRecover(distance, v)
     \/ approached /\ toward /\ PredictedStop(v, a)

\* Whether the drive has reached the target closely enough to be given the next
\* command. approached tells whether it has been seen to move toward the target,
\* in this tick or an earlier one.
TargetReached(p, v, a, target, direction, approached) ==
  LET distance == Abs(target - p)
      toward == MovingToward(target - p, v, direction)
  IN \/ distance = 0
     \/ approached /\ (v = 0 \/ ~toward)
     \/ PredictedCrossing(p, v, a, target) /\ CanRecover(distance, v)
     \/ approached /\ toward /\ PredictedStop(v, a)

-----------------------------------------------------------------------------
(* Decelerations                                                           *)

\* Has the drive gone beyond the target? Without a direction of approach, moving
\* away from the target counts as having passed it.
PastTarget(displacement, v, direction) ==
  (IF direction # 0 THEN direction ELSE v) * displacement < 0

\* Is there room to stop from v? (v^2 = 2 d s)
StopsWithin(deceleration, v, room) ==
  deceleration > 0 /\ v * v <= 2 * deceleration * room

\* Beyond the margin the hard stop grows with the distance, in steps of a
\* thousandth, from its minimum at the margin to its maximum at twice the margin.
HardDeceleration(excess) ==
  LET t == AtMost((excess * 1000) \div AtLeast(OvershootMargin, 1), 1000)
  IN HardDecelerationMin + ((HardDecelerationMax - HardDecelerationMin) * t) \div 1000

\* The room that there is to stop. The margin is granted only to a deceleration
\* that needs no clamping then.
StoppingBudget(displacement, v, requested, past) ==
  LET distance == Abs(displacement)
  IN IF past THEN OvershootMargin - distance
     ELSE IF StopsWithin(requested, v, distance + OvershootMargin)
          THEN distance + OvershootMargin
          ELSE distance

\* Mutant: rounded down.
TooLittleDeceleration(v, room) == (v * v) \div (2 * room)

\* The least deceleration that stops within the room, rounded up.
LeastDeceleration(v, room) == (v * v + 2 * room - 1) \div (2 * room)

ClampDeceleration(p, v, target, requested, direction) ==
  LET displacement == target - p
      past == PastTarget(displacement, v, direction)
      excess == Abs(displacement) - OvershootMargin
      budget == StoppingBudget(displacement, v, requested, past)
  IN IF past /\ excess >= 0
     THEN AtMost(HardDeceleration(excess), Saturated)
     ELSE IF v = 0 \/ budget = 0 \/ StopsWithin(requested, v, budget)
     THEN requested
     ELSE AtMost(LeastDeceleration(v, budget), Saturated)

-----------------------------------------------------------------------------
(* Legs of a list of commands. Indices count from 0.                       *)

At(commands, index) == commands[index + 1]
Successor(commands, index) == (index + 1) % Len(commands)
Predecessor(commands, index) == (index + Len(commands) - 1) % Len(commands)

\* The direction from the waypoint before index to the one at index.
LegDirection(commands, index) ==
  Signum(At(commands, index).position
           - At(commands, Predecessor(commands, index)).position)

\* What a deceleration is clamped against: a target and the direction in which it
\* is approached.
Bound(target, direction) == [target |-> target, direction |-> direction]

\* After a handoff the clamp stays with the waypoint before, until the drive is
\* seen to approach the new one.
EffectiveBound(commands, index, approached, direction, fallback) ==
  IF approached \/ direction = 0 \/ Len(commands) < 2
  THEN fallback
  ELSE LET before == Predecessor(commands, index)
       IN Bound(At(commands, before).position, LegDirection(commands, before))
=============================================================================
