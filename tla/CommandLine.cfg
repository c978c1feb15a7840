\* The command line client with the core, and the handheld as its rival.
SPECIFICATION CliSpec
CONSTANTS
  Hid = hid
  Nobody = nobody
  Everyone = everyone
  Active = active_set
  AnyVersion = any_version
  Keep = keep
  Cli = cli
  NoView = no_view
  NoDialog = no_dialog
  Fields <- MCFields
  Limit <- MCLimit
  FieldOrder <- MCOrder
  Initial <- MCInitial
  Steps <- MCSteps
  Entries <- MCEntries
  UiCommands <- MCUiCommands
  Requests = {}
  HidRequests <- MCHidRequests
  SetNames = {}
  WebSockets = {cli}
  HidReports = {report}
  ReportedStates = {"Off", "Moving"}
  MaxQueue = 1
  MaxVersion = 3
  MaxUnderWay = 2
INVARIANTS
  KnowsTheCore
  WriterShowsActiveSet
  LeavingReleases
