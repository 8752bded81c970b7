---------------------------- MODULE GuardLimits -----------------------------
(***************************************************************************)
(* The guard limits of the conditional analyses                            *)
(* (ConditionalAndersen::applyLimits and the helpers it calls).            *)
(* Either the AST height of a guard is bounded by kLimit (depth mode), or  *)
(* conjunctive chains are cut to their mLimit most recent literals and     *)
(* guards of more than nLimit clauses collapse to a capped True (m/n mode).*)
(***************************************************************************)
EXTENDS PathCond, Integers

CONSTANTS
  useDepthLimit,   \* TRUE: depth mode, FALSE: m/n mode
  kLimit,          \* depth bound; -1 unlimited, 0 turns every guard to True
  mLimit,          \* literals of a conjunctive chain, 0 unlimited
  nLimit           \* clauses of a guard, 0 unlimited

ASSUME GuardLimitsAssumption ==
  /\ useDepthLimit \in BOOLEAN
  /\ kLimit \in Nat \cup {-1}
  /\ mLimit \in Nat
  /\ nLimit \in Nat

(* The literals of a chain without repetitions, in the order of their last *)
(* occurrence.                                                             *)
recentLiterals(g) ==
  FoldLeft(LAMBDA lits, x : Append(SelectSeq(lits, LAMBDA y : y # x), x),
           <<>>, extractAndLeaves(g))

buildAndChain(lits) ==
  IF lits = <<>> THEN getTrue ELSE FoldLeft(getAnd, Head(lits), Tail(lits))

exceedsMLimit(g) ==
  mLimit > 0 /\ isPureAndChain(g) /\ Len(recentLiterals(g)) > mLimit

keepsOneTooMany(g) ==                                      \* mutant
  LET lits == recentLiterals(g)
  IN  buildAndChain(SubSeq(lits, Len(lits) - mLimit, Len(lits)))

(* The mLimit most recent literals; this guard becomes conj-capped.        *)
truncated(g) ==
  LET lits == recentLiterals(g)
  IN  buildAndChain(SubSeq(lits, Len(lits) - mLimit + 1, Len(lits)))

applyMLimit(g) == IF exceedsMLimit(g) THEN truncated(g) ELSE g

countsPastLimit(g, seen) == clauseCount(g, nLimit + 3, seen)  \* mutant
countsToLimit(g, seen)   == clauseCount(g, nLimit, seen)      \* mutant

(* countClauses answers with the counts cached in the guards, "seen".      *)
countClauses(g, seen) ==
  IF isCapped(g) THEN [n |-> nLimit + 1, seen |-> seen]
  ELSE IF g.kind \notin {"And", "Or"} THEN [n |-> 1, seen |-> seen]
  ELSE clauseCount(g, nLimit + 1, seen)

(* applyLimits: the limited guard, the guards it made conj-capped, and the *)
(* clause counts it left behind.                                           *)
applyLimitsSeen(g, seen) ==
  LET chain == applyMLimit(g)
      count == countClauses(chain, seen)
  IN
  IF kLimit = 0 THEN [guard |-> getTrue, capped |-> {}, seen |-> seen]
  ELSE IF useDepthLimit
  THEN [guard |-> IF kLimit = -1 \/ depth(g) <= kLimit THEN g ELSE getTrue,
        capped |-> {}, seen |-> seen]
  ELSE [guard  |-> IF nLimit > 0 /\ count.n > nLimit
                   THEN getCappedTrue ELSE chain,
        capped |-> IF exceedsMLimit(g) THEN {chain} ELSE {},
        seen   |-> IF nLimit > 0 THEN count.seen ELSE seen]

(* The limited guard when no clause count is cached yet.                   *)
cutsToLeft(g)   == IF depth(g) > kLimit /\ kLimit # -1 THEN g.left ELSE g  \* mutant
applyLimits(g)  == applyLimitsSeen(g, <<>>).guard
cappedChains(g) == applyLimitsSeen(g, <<>>).capped

(* In depth mode a chain that would outgrow kLimit is passed on unchanged  *)
(* instead of being conjoined with the edge guard (processCopy).           *)
keepsChain(cond, guard) ==
  LET d == depth(cond)
      e == depth(guard)
  IN /\ useDepthLimit
     /\ kLimit # -1
     /\ isPureAndChain(cond)
     /\ (IF d > e THEN d ELSE e) + 1 > kLimit

(* The wave-diff solver keeps any guard a conjunction would take past      *)
(* kLimit, and any guard a disjunction would take past a depth of 3.       *)
deeper(g, h)          == IF depth(g) > depth(h) THEN depth(g) ELSE depth(h)
outgrows(cond, guard) == useDepthLimit /\ kLimit # -1 /\ deeper(cond, guard) + 1 > kLimit
orLimit              == 3
orGrowsPast(old, merged) ==
  useDepthLimit /\ depth(merged) > orLimit /\ depth(merged) > depth(old)

-----------------------------------------------------------------------------
FG == INSTANCE FastGuard

(* FastGuard::fromPathCond                                                 *)
RECURSIVE fromPathCond(_)
fromPathCond(g) ==
  CASE isTrue(g)  -> FG!fgTrue
    [] isFalse(g) -> FG!fgFalse
    [] isAtom(g)  -> FG!fgAtom(g.branchId, g.trueBranch)
    [] isAnd(g)   -> FG!fgAnd(fromPathCond(g.left), fromPathCond(g.right))
    [] isOr(g)    -> FG!fgOr(fromPathCond(g.left), fromPathCond(g.right))

(* z3IsSat with useFastGuard.                                              *)
isSat(g) == isTrue(g) \/ (~isFalse(g) /\ FG!fgIsSat(fromPathCond(g)))
=============================================================================
