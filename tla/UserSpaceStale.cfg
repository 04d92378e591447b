SPECIFICATION Spec
CONSTANTS
  r1 = r1
  r2 = r2
  g1 = g1
  g2 = g2
  k1 = k1
  NoKey = NoKey
  MaxGen = 2
  MaxLag = 5
  ClusterRoles = {r1}
  Gpus = {g1}
  Keys = {}
  Allowed = {}
  MaxTrouble = 0
INVARIANT StaleReadyIsDetectable
CHECK_DEADLOCK FALSE
