SPECIFICATION FairSpec
CONSTANTS
  None = None
  Edited = Edited
  Images <- ThreeImages
  NameOf <- TwoNames
  Syncs <- CatalogSyncs
  MaxGen = 2
  MaxLag = 1
  MaxPush = 2
  Held <- FirstTags
  Allowed = {"fault", "crash", "hand", "remote", "force"}
  MaxTrouble = 1
INVARIANTS
  SelectsTheNewest
  RestIsInSync
PROPERTIES
  KeptEntriesStay
  CatalogFollowsRemote
  NothingIsLeftBehind
CHECK_DEADLOCK FALSE
