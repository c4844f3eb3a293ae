SPECIFICATION PlaybackSpec
CONSTANTS
  v1 = v1  v2 = v2  i1 = i1  NoContent = NoContent  Black = Black
  Numbers = {1, 2}
  CueLists <- ShowLists
  Scenes <- ShowScenes
  Inputs <- ShowInputs
  Addrs = {}  Values = {}
  Slices = {1}
  Deltas = {1}
  Fades = {1}  Full = 2
  MaxWait = 0  MaxPending = 1
  Rates = {1}  MaxFrames = 0  SeekFwd = 1  Freewheel = 1
  Videos <- VideoSet  Images <- ImageSet  Colors = {}
  Loops = {}  BlackEnds = {}  Absent = {}
  MaxBacklog = 1
INVARIANTS PlaybackInvariant
PROPERTIES DecksFollowCues
