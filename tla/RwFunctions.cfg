SPECIFICATION Spec
CONSTANTS
  MaxNumberLU = 3
  Enabled = {0, 2}
  Capacity <- UnitCapacity
  Requests <- HelperRequests
  MaxTransfer = 2
  MaxChunk = 2
  MaxCommands = 1
  MaxTag = 3
  NONE = NONE
INVARIANTS TypeOK RecordMatchesDevice FailsOnlyInDoubt VerifiedMeansEqual
PROPERTIES CommandsInRange UsesPackage CallsReturn
