SPECIFICATION Spec
CONSTANTS
  Diag <- MCDiag
  Info <- MCInfo
  InfosRO <- MCInfosRO
  Interval = 2
  StartDelay = 2
INVARIANT OneInFlight
