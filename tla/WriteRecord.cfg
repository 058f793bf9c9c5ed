SPECIFICATION Spec
CONSTANTS
  MaxLba = 4
  Data = {"a"}
  Erased = "erased"
  Lengths = {1, 2, 3, 4}
  Write6Lengths = {1}
  Unmaps <- UnmapCommands
  ZeroMeans = 2
  NONE = NONE
INVARIANTS SortedDisjoint RecordMatchesDevice LookupExact
PROPERTY MapSpec
