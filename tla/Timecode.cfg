SPECIFICATION MtcSpec
CONSTANTS
  Rates = {"r25", "r30"}
  Groups = 4
  Freewheel = 10
  ChannelCap = 1
  Late = 4
  Spots = {2}
  MaxMoves = 2
  MaxTime = 38
INVARIANTS TimecodeInvariant
PROPERTIES AssembledWasSent FrozenUntilPosition
