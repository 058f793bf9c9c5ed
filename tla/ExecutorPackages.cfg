SPECIFICATION PackagesSpec
CONSTANTS
  EntrySize = 3
  BlockSize = 2
  GroupSize = 8
  BufSize = 32
  MinGroups = 3
  EhsUnit = 3
  EhsBufSize = 7
  Commands <- PackageCommands
  TagCount = 4
  Funcs = {1}
  TmDummy = 254
  PatternModes = {"HW_INCREASE", "HW_FIX"}
  ManualAlign = 4
  EhsSupported = TRUE
  QueueDepths = {1}
  MaxCommands = 6
  MaxModeCommands = 3
  NONE = NONE
INVARIANTS AcceptedFits RegionsDisjoint TesterSeesTheList PackageUniform OptionsMatchPackage
