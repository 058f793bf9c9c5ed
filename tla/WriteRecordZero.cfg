SPECIFICATION Spec
CONSTANTS
  MaxLba = 4
  Data = {"a", "b"}
  Erased = "erased"
  Lengths = {0, 1, 2}
  Write6Lengths = {}
  Unmaps <- UnmapCommands
  ZeroMeans = 2
  NONE = NONE
INVARIANT RecordMatchesDevice
