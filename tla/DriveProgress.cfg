\* Switching on, homing, moving, recovering from errors, stopping and switching off.
SPECIFICATION LiveSpec
CONSTANTS
  Fields <- NoFields
  Limit <- NoLimit
  Keep = keep
  MaxPosition = 1
  CommandLists <- OneStroke
  Operations = {"power_on", "power_off", "ack", "upsert", "Start", "Stop"}
  Faults = {"silence", "error"}
  MaxFeedback = 1
PROPERTIES
  PowerOffIsObeyed
  PowerOnCompletes
  AcknowledgementIsSent
  StopIsObeyed
