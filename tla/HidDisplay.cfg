\* The display of the handheld, through unplugging and failing writes.
SPECIFICATION HidSpec
CONSTANTS
  Hid = hid
  Nobody = nobody
  Everyone = everyone
  Active = active_set
  AnyVersion = any_version
  Keep = keep
  Fields <- MCFields
  Limit <- MCLimit
  DefaultCommand <- MCDefault
  UiCommands = {}
  HidRequests = {}
  SetNames = {}
  WebSockets = {w1}
  Requests <- RivalRequests
  HidReports <- DisplayReports
  ReportedStates = {"Off"}
  Unknown = unknown
  MaxQueue = 2
  MaxVersion = 3
  MaxPayload = 10
  MaxOutbound = 2
INVARIANTS
  DisplayIsCurrent
