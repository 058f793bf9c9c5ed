SPECIFICATION TmSpec
CONSTANTS
  EntrySize = 3
  BlockSize = 2
  GroupSize = 8
  BufSize = 48
  MinGroups = 2
  EhsUnit = 3
  EhsBufSize = 7
  Commands <- ScsiCommands
  TmCommand <- TmRequest
  TagCount = 4
  Funcs = {1}
  TmDummy = 254
  PatternModes = {"HW_INCREASE"}
  ManualAlign = 4
  EhsSupported = TRUE
  QueueDepths = {4}
  MaxCommands = 4
  NONE = NONE
INVARIANTS AbortHitsItsTarget VerdictMatchesAnswers QueriedInFlight
