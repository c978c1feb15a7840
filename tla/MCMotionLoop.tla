---------------------------- MODULE MCMotionLoop ----------------------------
(***************************************************************************)
(* A small machine for TLC. Commands are limited to a velocity of 3 and    *)
(* decelerations of 2, so that the hard stops are 1 and 4 and the drive    *)
(* travels 6 in a tick, which is the margin, as for the default options    *)
(* of main.rs (2.5 m/s, 2 ms, 5 mm).                                       *)
(***************************************************************************)
EXTENDS MotionLoop

Command(position, velocity, deceleration) ==
  [position |-> position, velocity |-> velocity, acceleration |-> 1,
   deceleration |-> deceleration]

\* Both ends, with soft, hard and no braking; a waypoint on the way, a leg of no
\* length, a list of one command.
MCLists ==
  {<<Command(0, 3, 1), Command(12, 3, 2)>>,
   <<Command(0, 3, 0), Command(12, 3, 0)>>,
   <<Command(0, 3, 2), Command(6, 2, 1), Command(6, 3, 1), Command(12, 3, 1)>>,
   <<Command(6, 2, 0)>>}
=============================================================================
