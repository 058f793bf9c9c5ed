SPECIFICATION Spec
CONSTANTS
  Keys = {"own", "other"}
  DefaultKey = "own"
  MaxCounter = 4
  Size = 5
  PerfRequests <- MCPerfRequests
  MaxEntries = 4
  NONE = NONE
INVARIANTS CopiesAreDevice ChunksAsAsked
PROPERTY RefusedOnlyInDoubt
