SPECIFICATION FairSpec
CONSTANTS
  EntrySize = 3
  BlockSize = 2
  GroupSize = 8
  BufSize = 48
  MinGroups = 2
  EhsUnit = 3
  EhsBufSize = 7
  Commands <- AttributionCommands
  TagCount = 2
  Funcs = {1}
  TmDummy = 254
  PatternModes = {"HW_INCREASE", "HW_FIX"}
  ManualAlign = 4
  EhsSupported = TRUE
  QueueDepths = {2}
  MaxCommands = 4
  NONE = NONE
INVARIANTS TypeOK RefusedNeverSent OwnResponse
PROPERTIES SuccessAnswersAll FreshDoneQueue PackageSpec
