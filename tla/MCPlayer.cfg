SPECIFICATION Spec
CONSTANTS
  Medias <- McMedias
  Capacity = 2
  Tolerance = 1
  MaxSeeks = 1
  MaxFaults = 2
  MaxPts = 4
INVARIANTS PlayerInvariant
PROPERTIES FramesAsAsked NothingHangs
CHECK_DEADLOCK FALSE
