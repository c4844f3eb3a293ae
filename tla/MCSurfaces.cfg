SPECIFICATION HSpec
CONSTANTS
  Coarse = 3
  Timeout = 1
  One = 15
  Gains = {15}
  Cycle = 2
  Alphas = {5, 10, 15}
  Shows <- MCShows
  Positions = {1, 14}
  Orders <- MCOrders
  MaxInputs = 3
  EventsCap = 1
  BusCap = 1
  Budget = 2
INVARIANTS SurfacesInvariant
PROPERTIES TakesOver FadeMovesForward EditKeepsPlaying
