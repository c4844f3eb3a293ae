SPECIFICATION Spec
CONSTANTS
  Viewers = {v1, v2}
  Settings <- MCSettings
  Start <- MCStart
  JobCap = 1
  AuCap = 1
  RingCap = 2
  Gop = 2
  MaxSpawns = 2
  MaxOpens = 1
  MaxChanges = 1
INVARIANTS PreviewInvariant UnderItsConfig
SYMMETRY MCViewerSymmetry
CHECK_DEADLOCK FALSE
