\* Encoders and buttons of the handheld in every drive state, against a rival
\* controller that replaces the active set.
SPECIFICATION UiSpec
CONSTANTS
  Hid = hid
  Nobody = nobody
  Everyone = everyone
  Active = active_set
  AnyVersion = any_version
  Keep = keep
  Fields <- MCFields
  Limit <- MCLimit
  DefaultCommand <- MCDefault
  UiCommands = {}
  HidRequests = {}
  SetNames = {}
  WebSockets = {w1}
  Requests <- RivalRequests
  HidReports <- MCReports
  ReportedStates = {"Off", "Paused", "Moving", "Errored"}
  MaxQueue = 1
  MaxVersion = 3
INVARIANTS
  StrokeIsOrdered
  HandheldMirrorsActiveSet
PROPERTIES
  HandheldIsNeverRefused
