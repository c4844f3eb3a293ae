SPECIFICATION HSpec
CONSTANTS
  Numbers = {1, 2, 3}
  CueLists <- Lists
  Addrs = {"x", "y"}
  Values = {1, 2, 3}
  Slices = {s1}
  Deltas = {1, 2}
  Fades = {0, 2}
  Full = 2
  MaxWait = 1
  MaxPending = 1
  Rates = {2}
  MaxFrames = 4
  SeekFwd = 1
  Freewheel = 1
INVARIANTS
  TypeOK
  IndicesInRange
  TransitionRuns
  ChaseTracks
PROPERTIES
  PanicHolds
  ProgrammeMovesAsAsked
CHECK_DEADLOCK TRUE
