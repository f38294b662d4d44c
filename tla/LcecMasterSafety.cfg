CONSTANTS
  base = base
  half = half
  quarter = quarter
  third = third
  NMasters = 2
  Units <- MCUnits
  MasterOf <- MCMasterOf
  Divider <- MCDivider
  Hyperperiod <- MCHyperperiod
  Slaves <- MCSlaves
  UnitOf <- MCUnitOf
  Period = 2
  XmlPeriod <- MCXmlPeriod
  StateUpdatePeriod = 3
  Boots = {"legacy", "initf", "forgot"}
  MaxFailures = 1
SPECIFICATION Spec
INVARIANTS
  TypeOK
  QueueDiscipline
  Cadence
  HarmonicAlignment
  StatesAreFresh
  GlobalAllOpSound
PROPERTIES
  NullImageUntouched
