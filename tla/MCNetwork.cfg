SPECIFICATION Spec
CONSTANTS
  MaxBundles = 2
  Throttle = 2
  LastCue = 9
  Channels = 4
  MaxSources = 2
  Window = 1
  GapWarn = 8
  First <- MCFirst
  Settings <- MCSettings
  Patches <- MCPatches
  Address <- MCAddress
  Literal = {"ip"}
  Datagrams <- MCDatagrams
  Packets <- MCPackets
  BusCap = 1
  Budget = 2
  ChanCap = 1
  MaxInputs = 2
  MaxEdits = 1
INVARIANTS NetworkInvariant
PROPERTIES FramesSeePatch RespawnEnds FeedbackCatchesUp
CHECK_DEADLOCK FALSE
