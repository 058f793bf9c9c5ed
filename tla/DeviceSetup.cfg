SPECIFICATION Spec
CONSTANTS
  Gears = {1, 2}
  MaxGear = 2
  Clocks = {0, 1}
  Devices <- MCDevices
  MaxLuns = 2
  SpeedRequests <- MCSpeedRequests
  InitRequests <- MCInitRequests
  MaxPending = 1
  NONE = NONE
INVARIANTS CacheIsLink CommandsAreLegal
PROPERTIES CapacitiesAreCached FirstInitSettles ReturnsClear
