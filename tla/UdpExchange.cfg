\* Requests and answers between the drive thread and the drive, lost and late.
SPECIFICATION Spec
CONSTANTS
  MaxLosses = 1
  MaxLates = 2
INVARIANTS
  TypeOK
  RequestIsUnderstood
  ResponseIsUnderstood
PROPERTIES
  LagIsBounded
  CommandTakesEffect
