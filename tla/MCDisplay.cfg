SPECIFICATION Spec
CONSTANTS
  RingSlots = 2
  MaxInFlight = 1
  Sizes = {1, 2}
  Cards <- MCCards
  DriverQueue = 4
  MonitorOrder <- MCMonitorOrder
  NameOf <- MCNameOf
  NoName = "noname"
  Positions = {0, 1, 2}
  Places <- MCPlaces
  OutputIds <- MCOutputIds
  Configs <- MCConfigs
  Start <- MCStart
  FatalStreak = 2
  MaxPlugs = 2
  MaxEdits = 1
INVARIANTS DisplayInvariant FatalOnlyInTheDark
PROPERTIES ScreensComeBack
CHECK_DEADLOCK FALSE
