SPECIFICATION PlaybackSpec
CONSTANTS
  v1 = v1  v2 = v2  i1 = i1  NoContent = NoContent  Black = Black
  Numbers = {1, 2}
  CueLists <- AloneLists
  Scenes <- AloneScenes
  Inputs <- AloneInputs
  Addrs = {}  Values = {}
  Slices = {1}
  Deltas = {1}
  Fades = {1}  Full = 2
  MaxWait = 1  MaxPending = 1
  Rates = {1}  MaxFrames = 0  SeekFwd = 1  Freewheel = 1
  Videos <- VideoSet  Images = {}  Colors = {}
  Loops = {}  BlackEnds <- BlackSet  Absent = {}
  MaxBacklog = 0
PROPERTIES ShowGoesOn
