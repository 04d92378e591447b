CONSTANTS
  k1 = k1
  k2 = k2
  NoKey = NoKey
  Keys = {k1, k2}
  MaxGen = 1
  MaxLag = 2
  Limit <- LimitKeys
SPECIFICATION Spec
INVARIANTS
  RestMountsCurrentKeys
CHECK_DEADLOCK FALSE
