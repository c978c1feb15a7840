\* Who holds write access and what it is good for, under every order of claims,
\* releases, losses and drive reports.
SPECIFICATION Spec
CONSTANTS
  Hid = hid
  Nobody = nobody
  Everyone = everyone
  Active = active_set
  AnyVersion = any_version
  Keep = keep
  Fields <- MCFields
  Limit <- MCLimit
  HidReports <- MCReports
  UiCommands <- MCUiCommands
  WebSockets = {w1, w2}
  SetNames = {}
  Requests <- AccessRequests
  HidRequests <- AccessHid
  ReportedStates = {"Off", "Paused"}
  MaxQueue = 2
  MaxVersion = 1
INVARIANTS
  HolderIsLive
PROPERTIES
  OnlyWriterCommands
  ImplementsRules
  DeadWriterRevoked
