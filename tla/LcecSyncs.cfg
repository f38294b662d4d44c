CONSTANTS
  MaxSyncs = 2
  MaxPdos = 3
  MaxEntries = 4
  Objects = {"x", "y"}
  Limits <- MCLimits
  MaxAsked = 6
SPECIFICATION Spec
CHECK_DEADLOCK FALSE
INVARIANTS
  NothingIsLost
  SlicesInTable
  LimitsHold
