SPECIFICATION Spec
CONSTANTS
  Pages = {p1}
  Ops <- MCOps
  Gestures <- MCGestures
  Start <- MCStart
  Other <- MCOther
  Nothing <- MCNothing
  Tuned <- MCTuned
  BusCap = 1
  EventCap = 2
  EarlyCap = 1
  MaxEdits = 2
  MaxLoads = 1
  MaxLines = 1
  MaxCuts = 1
INVARIANTS NoWarningMissed
PROPERTIES  DeadLinkSeen
