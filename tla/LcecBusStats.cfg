CONSTANTS
  drives = drives
  inputs = inputs
  Units <- MCUnits
  Expected <- MCExpected
  Diffs = {5, 40}
  Thresholds = {10, 50}
  Invalid = 99
  MissMax = 3
  MaxChanges = 3
SPECIFICATION Spec
INVARIANTS
  HealthyBusIsQuiet
  DropoutsAreRecorded
  NoStaleConverged
