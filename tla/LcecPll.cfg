CONSTANTS
  Period = 60
  Step = 2
  MaxErrs = {28, 60}
  AutoDriftDelay = 1
  DriftModes = {0, 1}
  WrapResidue = 16
  Latency = 1
  Drift = 1
  Noise = 1
  StartOffsets <- MCStartOffsets
  MaxOffset = 100
  Far = 60
  Quiet = 1
SPECIFICATION FairSpec
INVARIANTS
  SteersTheShortWay
  PhaseIsLatency
PROPERTIES
  ResyncRemovesOffset
  NoOffsetRemovedTwice
  PllSettles
