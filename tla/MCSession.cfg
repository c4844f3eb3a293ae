SPECIFICATION Spec
CONSTANTS
  UndoCap = 2
  ByteCap = 5
  Bytes <- MCBytes
  Slices = {1}
  NoMaterial = NoMaterial
  Kind <- MCKind
  Hidden = {".h"}
  Anchors = {"/"}
  PathBefore <- MCBefore
  MaxDepth = 2
  Info <- MCInfo
  Blank <- MCBlank
  Catalogue <- MCCatalogue
  Started <- MCStarted
  Ops <- MCOps
  Versions <- MCVersions
  MediaDirs <- MCMediaDirs
  Frequencies = {2}
  MaxEdits = 2
  MaxOpens = 1
  MaxWrites = 1
INVARIANTS SessionInvariant ProgramsCurrent
PROPERTIES UndoIsLinear NoCompileInShow
