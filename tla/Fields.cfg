SPECIFICATION FairFieldSpec
CONSTANTS
  va = va
  vb = vb
  vd = vd
  ve = ve
  vf = vf
  ox = ox
  oy = oy
  ox0 = ox0
  ox1 = ox1
  NoGuard = NoGuard
  Node = {va, vb, vd, ve, ox, oy, ox0, ox1}
  Obj = {ox, oy, ox0, ox1}
  ConstObj = {}
  GepObj <- MCGepObj
  base <- MCbase
  gepObjVar <- MCgepObjVar
  FIObj = {}
  detectPWC = TRUE
  GepStmtSets <- openGeps
  FieldSolution <- MCFieldSolution
  Branch = {c}
  MaxDepth = 100
  ContainsDepth = 8
  kLimit <- Unlimited
  mLimit = 0
  nLimit = 0
  unconditional = FALSE
  useDepthLimit = TRUE
  eagerSat = FALSE
  mergeCondSCC = FALSE
  Programs <- FieldPrograms
  Solution <- MCSolution
  PathSolution <- MCPathSolution
  Path <- MCPath
  Admits <- MCAdmits
  trueGuard <- MCtrueGuard
  guardIsTrue <- MCguardIsTrue
  guardIsFalse <- MCguardIsFalse
  guardAnd <- MCguardAnd
  guardOr <- MCguardOr
  guardIsSat <- MCguardIsSat
  guardLimited <- MCguardLimited
  guardCapped <- MCguardCapped
  guardKept <- MCguardKept
CHECK_DEADLOCK FALSE
INVARIANTS FieldTypeOK FieldPrecise FieldComplete NoCollapsedFields FieldAliasExact
PROPERTIES FieldsTerminate
