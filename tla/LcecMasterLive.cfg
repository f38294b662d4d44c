CONSTANTS
  base = base
  half = half
  quarter = quarter
  third = third
  NMasters = 2
  Units <- SmallUnits
  MasterOf <- SmallMasterOf
  Divider <- SmallDivider
  Hyperperiod <- SmallHyperperiod
  Slaves <- SmallSlaves
  UnitOf <- SmallUnitOf
  Period = 2
  XmlPeriod <- MCXmlPeriod
  StateUpdatePeriod = 5
  Boots = {"legacy", "initf", "forgot"}
  MaxFailures = 1
SPECIFICATION FairSpec
INVARIANTS
  PinsAgree
PROPERTIES
  ImplementsSchedule
  EveryUnitIsServed
  EventuallyStarted
