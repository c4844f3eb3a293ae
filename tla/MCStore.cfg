SPECIFICATION HFairSpec
CONSTANTS
  gala = gala
  rescue = rescue
  First = gala
  NewName = gala
  Names = {gala, rescue}
  Fallback <- RescueOf
  Stock <- BothFolders
  Stocked = 0
  QueueCap = 1
  BackupKeep = 1
  Ops <- Everything
  MaxEdits = 2
  MaxFaults = 1
  MaxMoves = 1
INVARIANTS TypeOK OwnShowSaved FilesCanBeTrusted
PROPERTIES RecoveryKept NothingForgotten
