SPECIFICATION TrackSpec
CONSTANTS
  va = va
  vb = vb
  vd = vd
  ve = ve
  vf = vf
  ox = ox
  oy = oy
  NotCached = NotCached
  NoGuard = NoGuard
  Node = {va, vb, vd, ve, vf, ox, oy}
  Obj = {ox, oy}
  ConstObj = {}
  Branch = {c}
  MaxDepth = 100
  ContainsDepth = 8
  kLimit <- Unlimited
  mLimit = 0
  nLimit = 0
  unconditional = FALSE
  useDepthLimit = TRUE
  eagerSat = TRUE
  mergeCondSCC = FALSE
  Programs <- TrackPrograms
  Solution <- MCSolution
  PathSolution <- MCTrackSolution
  Path <- MCPath
  Admits <- MCAdmits
  trueGuard <- MCtrueGuard
  guardIsTrue <- MCguardIsTrue
  guardIsFalse <- MCguardIsFalse
  guardAnd <- MCguardAnd
  guardOr <- MCguardOr
  guardIsSat <- MCguardIsSat
  guardLimited <- MCguardLimited
  guardCapped <- MCguardCapped
  guardKept <- MCguardKept
  falseGuard <- MCfalseGuard
  guardOutgrows <- MCguardOutgrows
  orOutgrows <- MCorOutgrows
  aliasUseSat = TRUE
CHECK_DEADLOCK FALSE
INVARIANTS PtsExact TrackedAliasExact
