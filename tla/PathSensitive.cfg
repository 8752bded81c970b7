SPECIFICATION FairPathSensitiveSpec
CONSTANTS
  c = c
  s1 = s1
  s2 = s2
  oa = oa
  ob = ob
  oh = oh
  op = op
  oq = oq
  b0 = b0
  b1 = b1
  b2 = b2
  b3 = b3
  bf = bf
  fmain = fmain
  ff = ff
  NoAtom = NoAtom
  NoSite = NoSite
  NoObj = NoObj
  PathAtom = {c}
  ContextAtom = {s1, s2}
  Var <- MCVar
  Obj = {oa, ob, oh, op, oq}
  ConstObj = {}
  StrongObj = {op, oq}
  Block = {b0, b1, b2, b3, bf}
  Fun = {fmain, ff}
  Programs <- PathPrograms
  kLimit = 2
  useDepthLimit = TRUE
  useRefinement = TRUE
CHECK_DEADLOCK FALSE
INVARIANTS PathSound PathExact PathAliasSound EdgesSettled
PROPERTIES PSTerminates
