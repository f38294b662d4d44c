SPECIFICATION Spec
CONSTANTS
  MaxItems = 6
  Cycles = {1}
  Most <- MCMost
  Attrs <- MCAttrs
  BitLengths = {1}
  RegCounts = {1, 3}
  MaxRegs = 2
CHECK_DEADLOCK FALSE
INVARIANTS ImageUnderstood TreeIsTheDocument ReleasedOnce RegisteredOnce
PROPERTY LoadingEnds
