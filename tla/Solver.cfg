SPECIFICATION FairSpec
CONSTANTS
  va = va
  vb = vb
  vd = vd
  ve = ve
  vf = vf
  ox = ox
  oy = oy
  NoGuard = NoGuard
  Node = {va, vb, ox, oy}
  Obj = {ox, oy}
  ConstObj = {oy}
  Branch = {c}
  MaxDepth = 100
  ContainsDepth = 8
  kLimit <- Unlimited
  mLimit = 0
  nLimit = 0
  unconditional = FALSE
  useDepthLimit = TRUE
  eagerSat = FALSE
  mergeCondSCC = FALSE
  Programs <- Cycles
  Solution <- MCSolution
  PathSolution <- MCPathSolution
  Path <- MCPath
  Admits <- MCAdmits
  trueGuard <- MCtrueGuard
  guardIsTrue <- MCguardIsTrue
  guardIsFalse <- MCguardIsFalse
  guardAnd <- MCguardAnd
  guardOr <- MCguardOr
  guardIsSat <- MCguardIsSat
  guardLimited <- MCguardLimited
  guardCapped <- MCguardCapped
  guardKept <- MCguardKept
CHECK_DEADLOCK FALSE
INVARIANTS TypeOK Precise Complete NoLostWork GuardsJustified
PROPERTIES ImplementsPointsTo Terminates
