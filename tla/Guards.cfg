SPECIFICATION Spec
CONSTANTS
  Branch = {c, d}
  MaxDepth = 3
  ContainsDepth = 8
  useDepthLimit = FALSE
  kLimit <- Unlimited
  mLimit = 1
  nLimit = 2
  MaxGuards = 5
  MaxAst = 3
SYMMETRY Symmetry
CHECK_DEADLOCK FALSE
INVARIANTS TypeOK AndExact OrNeverInvents SatExact FastGuardFaithful LimitsWeaken CappedChainsFull
