CONSTANTS
  CountM16 = 4
  CountM32 = 8
  CountM64 = 8
  Reach <- MCReach
  Steps <- MCSteps
  CountScales = {0, 2, 3}
  Presets = {3}
  CountActs = 2
  EncM24 = 16
  EncM32 = 16
  EncM64 = 64
  EncReach <- MCEncReach
  EncSteps <- MCEncSteps
  Bases <- MCBases
  Homes = {0, 2}
  EncActs = 2
  Unit = 4
  DutyValues <- MCDutyValues
  DutyScales = {0, 2, 3}
  Offsets <- MCOffsets
  Limits <- MCLimits
  DutyActs = 3
  Autoresets <- MCAutoresets
  ServoWindow = 2
  Speed = 5
  Ramp = 2
  ServoCommands <- MCCommands
  ServoActs = 4
  Diag <- MCDiag
  Info <- MCInfo
  InfosRO <- MCInfosRO
  Interval = 2
  StartDelay = 2
  Settable = {0, 1, 2}
  Width = 2
  Entries = 2
  Messages = 3
  Orders <- MCOrders
  Links <- MCLinks
SPECIFICATION Spec
INVARIANTS
  CountIsTravel
  DriveAsTold
  FaultsAreHandled
  PollsInTurn
  SettingsAsConfigured
  MessagesInOrder
  FramesArrive
PROPERTY RequestsAreMet
