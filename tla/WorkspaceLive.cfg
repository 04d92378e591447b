CONSTANTS
  k1 = k1
  k2 = k2
  NoKey = NoKey
  Keys = {k1}
  MaxGen = 2
  MaxLag = 1
  Limit <- LimitLive
SPECIFICATION FairSpec
ACTION_CONSTRAINT FewEvents
INVARIANTS
  TypeOK
  GoverningServiceFirst
  ReadySpeaksOfCurrentSpec
  StatusBackedByWorkload
  RestIsConverged
PROPERTIES
  ObservedGenerationAdvances
  ComesToRest
  OrphansAreCollected
CHECK_DEADLOCK FALSE
