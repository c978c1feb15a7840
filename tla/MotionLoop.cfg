\* Arrival, handoff and clamping in a loop with the drive, under lists that are
\* replaced, pauses and resets.
SPECIFICATION Spec
CONSTANTS
  Interval = 2
  TimeUnit = 1
  OvershootMargin = 6
  HardDecelerationMin = 1
  HardDecelerationMax = 4
  Saturated = 1000000
  MaxPosition = 12
  Lists <- MCLists
INVARIANTS
  StaysWithinMargin
PROPERTIES
  LegsAreCompleted
