CONSTANTS
  Period = 60
  Step = 2
  MaxErrs = {60}
  AutoDriftDelay = 1
  DriftModes = {0, 1}
  WrapResidue = 16
  Latency = 1
  Drift = 1
  Noise = 1
  StartOffsets <- MCFarOffsets
  MaxOffset = 180
  Far = 60
  Quiet = 1
SPECIFICATION Spec
INVARIANT
  PhaseIsElapsedModPeriod
