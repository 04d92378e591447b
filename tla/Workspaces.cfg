SPECIFICATION WorkspacesSpec
CONSTANTS
  w1 = w1
  w2 = w2
  None = None
  Names = {w1, w2}
  Shapes <- ChargedShapes
  DefaultRequest = 2
  Storage = {1}
  Quotas <- TightQuotas
  MaxPending = 1
  MaxQuotaEdits = 1
  NoKey = NoKey
  Keys = {k1}
  MaxGen = 2
  Limit <- LimitTrouble
  MaxLag = 1
CONSTRAINTS Unexcused TwoEvents
SYMMETRY Symmetry
INVARIANTS OverQuotaNeedsRace ShrinkIsAdmitted BackstopAgrees RestIsConverged
CHECK_DEADLOCK FALSE
