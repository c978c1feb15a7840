\* Every interleaving of the core and the drive thread, with faults and a link
\* that fails.
SPECIFICATION Spec
CONSTANTS
  Fields <- NoFields
  Limit <- NoLimit
  Keep = keep
  MaxPosition = 2
  CommandLists <- TwoLists
  Operations = {"power_on", "power_off", "upsert", "Start", "Pause", "lost"}
  Faults = {"silence", "no_status", "error"}
  MaxFeedback = 1
INVARIANTS
  TypeOK
  GoesToActiveCommand
PROPERTIES
  ObeysAtNextTick
