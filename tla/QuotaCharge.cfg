SPECIFICATION Spec
CONSTANTS
  w1 = w1
  w2 = w2
  None = None
  Names = {w1, w2}
  Shapes <- SmallShapes
  DefaultRequest = 2
  Storage = {1}
  Quotas <- TightQuotas
  MaxPending = 1
  MaxQuotaEdits = 1
CONSTRAINT Unexcused
SYMMETRY Symmetry
INVARIANT NumbersAgree
CHECK_DEADLOCK FALSE
