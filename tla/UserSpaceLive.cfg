SPECIFICATION FairSpec
CONSTANTS
  r1 = r1
  r2 = r2
  g1 = g1
  g2 = g2
  k1 = k1
  NoKey = NoKey
  MaxGen = 2
  MaxLag = 1
  ClusterRoles = {r1}
  Gpus = {g1, g2}
  Keys = {k1}
  Allowed = {"fault", "crash", "drift", "settings"}
  MaxTrouble = 1
INVARIANT RestGrantsMatchRole
INVARIANT ReadyBackedByChildren
INVARIANT RestIsProvisioned
PROPERTY ComesToRest
PROPERTY NothingIsLeftBehind
CHECK_DEADLOCK FALSE
