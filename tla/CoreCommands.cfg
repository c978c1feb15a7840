\* Every request of the command-set protocol, from the writer and from others.
SPECIFICATION Spec
CONSTANTS
  Hid = hid
  Nobody = nobody
  Everyone = everyone
  Active = active_set
  AnyVersion = any_version
  Keep = keep
  Fields <- MCFields
  Limit <- MCLimit
  HidReports <- MCReports
  UiCommands <- MCUiCommands
  WebSockets = {w1}
  SetNames = {pattern}
  Requests <- CommandRequests
  HidRequests <- CommandHid
  ReportedStates = {"Moving", "Errored"}
  MaxQueue = 1
  MaxVersion = 3
INVARIANTS
  TypeOK
  DriveMirrorsActiveSet
PROPERTIES
  ChangesAreAnnounced
  RefusalChangesNothing
  VersionsGrow
