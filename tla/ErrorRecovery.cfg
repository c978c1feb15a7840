\* After an error or a lost link the drive moves again without a start.
SPECIFICATION Spec
CONSTANTS
  Fields <- NoFields
  Limit <- NoLimit
  Keep = keep
  MaxPosition = 1
  CommandLists <- OneStroke
  Operations = {"power_on", "upsert", "Start", "ack"}
  Faults = {"error"}
  MaxFeedback = 1
PROPERTIES
  MovesOnlyFromPaused
