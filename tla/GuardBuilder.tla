---------------------------- MODULE GuardBuilder ----------------------------
(***************************************************************************)
(* The guards a run of the analysis builds: it starts from branch atoms    *)
(* and only ever conjoins, disjoins and limits guards it already holds     *)
(* (the edge guards and the entries of condPtsMap).  The module composes   *)
(* PathCond, its limits and FastGuard, and checks them against the truth   *)
(* assignments a guard admits.                                             *)
(***************************************************************************)
EXTENDS GuardLimits

CONSTANTS
  MaxGuards,     \* bound: guards held at once
  MaxAst         \* bound: height of the guards that are combined further

VARIABLES
  guards,            \* the guards held so far
  counts,            \* the clause counts cached in PathCond objects
  conjCappedGuards   \* the guards that applyLimits truncated

vars == <<guards, counts, conjCappedGuards>>

-----------------------------------------------------------------------------
Init ==
  /\ guards = {}
  /\ counts = <<>>
  /\ conjCappedGuards = {}

Hold(g) ==
  /\ Cardinality(guards) < MaxGuards
  /\ g \notin guards
  /\ guards' = guards \cup {g}

Small == {g \in guards : depth(g) <= MaxAst}

(* A branch condition met on a control-flow edge (getBBGuard).             *)
BranchAtom(b, v) ==
  Hold(getAtom(b, v)) /\ UNCHANGED <<counts, conjCappedGuards>>

(* Edge guards are conjoined and merged without limits (processLoad,       *)
(* processStore, processGep, mergeCopyEdgeGuard).                          *)
Conjoin(a, b) == Hold(getAnd(a, b)) /\ UNCHANGED <<counts, conjCappedGuards>>
Disjoin(a, b) == Hold(getOr(a, b)) /\ UNCHANGED <<counts, conjCappedGuards>>

(* Guards that enter condPtsMap are limited (processCopy, orMergeCondPts). *)
Limit(g) ==
  LET l == applyLimitsSeen(g, counts)
  IN  /\ guards' = guards \cup {l.guard}
      /\ counts' = l.seen
      /\ conjCappedGuards' = conjCappedGuards \cup l.capped

Next ==
  \/ \E b \in Branch, v \in BOOLEAN : BranchAtom(b, v)
  \/ \E a, b \in Small : Conjoin(a, b) \/ Disjoin(a, b)
  \/ \E g \in guards : Limit(g)

Spec == Init /\ [][Next]_vars

-----------------------------------------------------------------------------
TypeOK ==
  /\ \A g \in guards : isGuard(g)
  /\ \A g \in DOMAIN counts : isGuard(g) /\ counts[g] \in 1..(nLimit + 1)
  /\ \A g \in conjCappedGuards : isGuard(g)

(* The conjunction of two guards admits exactly the paths both admit,      *)
(* except that it may give up and become unconditional: getAnd never cuts  *)
(* a path that both guards allow, and never lets in another one unless it  *)
(* collapsed to True.                                                      *)
AndExact ==
  \A a, b \in guards :
    LET g == getAnd(a, b)
    IN  \/ Den(g) = Den(a) \cap Den(b)
        \/ isCapped(g)

(* The disjunction never admits a path that neither guard admits, unless   *)
(* it collapsed to True.                                                   *)
OrNeverInvents ==
  \A a, b \in guards :
    LET g == getOr(a, b)
    IN  Den(g) \subseteq Den(a) \cup Den(b) \/ isCapped(g)

(* The satisfiability tests never declare a feasible guard infeasible; the *)
(* FastGuard test behind alias() is exact, the syntactic one may be too    *)
(* generous below a nested Or.                                             *)
SatExact ==
  \A g \in guards :
    /\ isSat(g) <=> Den(g) # {}
    /\ Den(g) # {} => isSatisfiable(g)

(* The conversion to disjunctive normal form preserves the meaning of a    *)
(* guard, although it drops contradictory and subsumed clauses.            *)
FastGuardFaithful ==
  \A g \in guards : \A alpha \in Assignment :
    FG!Models(alpha, fromPathCond(g)) <=> Holds(g, alpha)

(* The clauses of a guard's disjunctive normal form, counted with no bound *)
(* and nothing cached: the reference for clauseCount.                      *)
RECURSIVE clausesOf(_)
clausesOf(g) ==
  CASE isOr(g)  -> clausesOf(g.left) + clausesOf(g.right)
    [] isAnd(g) -> clausesOf(g.left) * clausesOf(g.right)
    [] OTHER    -> 1

(* Somewhere in the guard a count is cached that is within nLimit although *)
(* the clauses are more: the right child of a disjunction is counted only  *)
(* up to what its sibling left of the bound, and that is what it caches.   *)
RECURSIVE countedShort(_, _)
countedShort(g, seen) ==
  \/ g \in DOMAIN seen /\ seen[g] <= nLimit /\ seen[g] < clausesOf(g)
  \/ g.kind \in {"And", "Or"} /\ \/ countedShort(g.left, seen)
                                 \/ countedShort(g.right, seen)

(* Limiting a guard can only weaken it (a sound over-approximation); what  *)
(* is left has at most mLimit literals if it is a chain, and at most       *)
(* nLimit clauses, unless a count cached before was cut short; a guard     *)
(* collapses only if it has more clauses than that; and limiting it again  *)
(* changes nothing.  The exception is real: a guard counted as the right   *)
(* child of a disjunction passes the clause limit later (applyLimits).     *)
LimitsWeaken ==
  \A g \in guards :
    LET l == applyLimitsSeen(g, counts)
    IN  /\ Den(g) \subseteq Den(l.guard)
        /\ ~exceedsMLimit(l.guard)
        /\ clausesOf(l.guard) <= nLimit \/ countedShort(g, counts)
        /\ isCapped(l.guard) => isCapped(g) \/ clausesOf(g) > nLimit
        /\ sameTree(applyLimitsSeen(l.guard, l.seen).guard, l.guard)

(* A guard truncated by the m-limit is a chain of exactly mLimit distinct  *)
(* literals.                                                               *)
CappedChainsFull ==
  \A g \in conjCappedGuards :
    isPureAndChain(g) /\ Len(recentLiterals(g)) = mLimit
=============================================================================
