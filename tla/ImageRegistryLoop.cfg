SPECIFICATION PatientSpec
CONSTANTS
  None = None
  Edited = Edited
  Images <- OneImage
  NameOf <- OneName
  Syncs <- LoopSyncs
  MaxGen = 1
  MaxLag = 1
  MaxPush = 1
  Held <- OnePushed
  Allowed = {}
  MaxTrouble = 0
PROPERTY WaitsForTheInterval
CHECK_DEADLOCK FALSE
