CONSTANTS
  Period = 400
  Latency = 2
  Step = 3
  MeasureCycles = 4
  Dwell = 3
  SyncRefCycles = 3
  StartPositions <- MCStartPositions
  InitfModes = {TRUE, FALSE}
SPECIFICATION FairSpec
INVARIANTS
  TargetInRange
  FilterFollowsLock
PROPERTIES
  NoStrobe
  PhaseSettles
