------------------------------ MODULE PathCond ------------------------------
(***************************************************************************)
(* The guard language of the conditional analyses: the immutable formula   *)
(* tree PathCond (SVF/svf/include/Util/PathCond.h).  A guard is a record   *)
(* whose kind is the C++ enumerator; a capped True is the singleton        *)
(* getCappedTrue.                                                          *)
(*                                                                         *)
(* getAtom allocates a fresh object on every call, so one tree, and its    *)
(* mirror image, may exist as several C++ objects.  Here a guard is its    *)
(* tree.  getAnd and getOr answer alike for objects of the same tree, so   *)
(* only object identity is lost: in conjCappedGuards and in the cached     *)
(* clause counts, where the model treats equal trees as one object.        *)
(*                                                                         *)
(* The operators below are recursive, so nothing is proved in a module     *)
(* that extends this one: the solver modules take the guard algebra as     *)
(* constants instead.                                                      *)
(***************************************************************************)
EXTENDS Naturals, Sequences, FiniteSets, SequencesExt

CONSTANTS
  Branch,        \* branch identifiers (NodeIDs of branch conditions)
  MaxDepth,      \* AST depth above which And and Or collapse (100 in the code)
  ContainsDepth  \* recursion bound of containsInOr (8 in the code)

ASSUME PathCondAssumption == MaxDepth \in Nat \ {0} /\ ContainsDepth \in Nat

-----------------------------------------------------------------------------
(* Construction and kind tests.                                            *)

getTrue       == [kind |-> "True", capped |-> FALSE]
getCappedTrue == [kind |-> "True", capped |-> TRUE]
getFalse      == [kind |-> "False"]
getAtom(b, v) == [kind |-> "Atom", branchId |-> b, trueBranch |-> v]
mkAnd(a, b)   == [kind |-> "And", left |-> a, right |-> b]
mkOr(a, b)    == [kind |-> "Or", left |-> a, right |-> b]

isTrue(g)   == g.kind = "True"
isFalse(g)  == g.kind = "False"
isAtom(g)   == g.kind = "Atom"
isAnd(g)    == g.kind = "And"
isOr(g)     == g.kind = "Or"
isCapped(g) == isTrue(g) /\ g.capped

Atoms == {getAtom(b, v) : b \in Branch, v \in BOOLEAN}

(* A conjunction or a disjunction never holds True or False below its root *)
(* (getAnd and getOr absorb them), so tree equality is equality of records *)
(* up to the capped flag of a True.                                        *)
sameTree(a, b) == a = b \/ (isTrue(a) /\ isTrue(b))

RECURSIVE depth(_)
depth(g) ==
  CASE g.kind \in {"True", "False"} -> 0
    [] isAtom(g)                    -> 1
    [] OTHER -> LET l == depth(g.left)
                    r == depth(g.right)
                IN  (IF l > r THEN l ELSE r) + 1

-----------------------------------------------------------------------------
(* Pure And chains: what the m-limit and the absorption rule look at.      *)

RECURSIVE isPureAndChain(_)
isPureAndChain(g) ==
  \/ g.kind \in {"True", "False", "Atom"}
  \/ isAnd(g) /\ isPureAndChain(g.left) /\ isPureAndChain(g.right)

RECURSIVE extractAndLeaves(_)
extractAndLeaves(g) ==
  CASE g.kind \in {"True", "False"} -> <<>>
    [] isAtom(g)                    -> <<g>>
    [] OTHER -> extractAndLeaves(g.left) \o extractAndLeaves(g.right)

isAndSubset(sub, sup) ==
  /\ isPureAndChain(sub)
  /\ isPureAndChain(sup)
  /\ ToSet(extractAndLeaves(sub)) \subseteq ToSet(extractAndLeaves(sup))

-----------------------------------------------------------------------------
(* getAnd: True and False are absorbed, a capped True is sticky, and a     *)
(* conjunction of deep guards collapses to a capped True.                  *)
andAbsorbsChains(a, b) ==                                  \* mutant
  IF isAndSubset(a, b) THEN a ELSE IF isAndSubset(b, a) THEN b ELSE mkAnd(a, b)

getAnd(a, b) ==
  IF isFalse(a) \/ isFalse(b) THEN getFalse
  ELSE IF isTrue(a) THEN (IF isCapped(a) THEN a ELSE b)
  ELSE IF isTrue(b) THEN (IF isCapped(b) THEN b ELSE a)
  ELSE IF depth(a) > MaxDepth \/ depth(b) > MaxDepth THEN getCappedTrue
  ELSE mkAnd(a, b)

RECURSIVE containsIn(_, _, _)
containsIn(tree, sub, bound) ==
  /\ bound > 0
  /\ \/ sameTree(tree, sub)
     \/ isOr(tree) /\ \/ containsIn(tree.left, sub, bound - 1)
                      \/ containsIn(tree.right, sub, bound - 1)

containsInOr(tree, sub) == containsIn(tree, sub, ContainsDepth)

(* A disjunction one of whose direct children is the other guard.          *)
hasDisjunct(g, d) == isOr(g) /\ (sameTree(g.left, d) \/ sameTree(g.right, d))

orForgetsCap(a, b) ==                                      \* mutant
  IF isTrue(a) \/ isTrue(b) \/ depth(a) > MaxDepth \/ depth(b) > MaxDepth
  THEN getTrue ELSE mkOr(a, b)

(* getOr, in the order of its early returns.  The two isAndSubset rules    *)
(* return the conjunction with MORE literals.                              *)
getOr(a, b) ==
  IF isTrue(a) \/ isTrue(b) THEN getTrue
  ELSE IF isFalse(a) THEN b
  ELSE IF isFalse(b) \/ a = b THEN a
  ELSE IF hasDisjunct(a, b) THEN a
  ELSE IF hasDisjunct(b, a) THEN b
  ELSE IF containsInOr(a, b) THEN a
  ELSE IF containsInOr(b, a) THEN b
  ELSE IF isAndSubset(b, a) THEN a
  ELSE IF isAndSubset(a, b) THEN b
  ELSE IF depth(a) > MaxDepth \/ depth(b) > MaxDepth THEN getCappedTrue
  ELSE mkOr(a, b)

-----------------------------------------------------------------------------
(* The syntactic satisfiability test.  On a conjunction the C++ worklist   *)
(* visits the conjuncts from left to right and stops at the first clash    *)
(* or at the first nested Or, whichever comes first.                       *)

RECURSIVE conjuncts(_)
conjuncts(g) == IF isAnd(g) THEN conjuncts(g.left) \o conjuncts(g.right)
                            ELSE <<g>>

negated(atom) == getAtom(atom.branchId, ~atom.trueBranch)

RECURSIVE isSatisfiable(_)
isSatisfiable(g) ==
  CASE isFalse(g) -> FALSE
    [] isOr(g)    -> isSatisfiable(g.left) \/ isSatisfiable(g.right)
    [] isAnd(g)   ->
         LET cs      == conjuncts(g)
             isNest(i) == \E j \in 1..i : isOr(cs[j])
         IN  ~ \E i \in 1..Len(cs) :
                 /\ ~isNest(i)
                 /\ isAtom(cs[i])
                 /\ \E j \in 1..(i - 1) : cs[j] = negated(cs[i])
    [] OTHER      -> TRUE

-----------------------------------------------------------------------------
(* clauseCount(cap) caches its answer in every node it visits, whatever    *)
(* the cap it was asked with: "seen" maps the guards already counted to    *)
(* the number stored in them, and the answer carries the updated map.      *)

RECURSIVE clauseCount(_, _, _)
clauseCount(g, cap, seen) ==
  LET answer(n, s) == [n |-> n, seen |-> [h \in DOMAIN s \cup {g} |->
                                            IF h = g THEN n ELSE s[h]]]
  IN
  IF g \in DOMAIN seen THEN [n |-> seen[g], seen |-> seen]
  ELSE IF g.kind \notin {"And", "Or"} THEN answer(1, seen)
  ELSE LET l == clauseCount(g.left, cap, seen)
           room == IF isOr(g) THEN cap - l.n ELSE cap
       IN IF l.n >= cap THEN answer(cap, l.seen)
          ELSE LET r == clauseCount(g.right, room, l.seen)
               IN IF r.n >= room \/ (isAnd(g) /\ r.n > cap \div l.n)
                  THEN answer(cap, r.seen)
                  ELSE answer(IF isOr(g) THEN l.n + r.n ELSE l.n * r.n, r.seen)

-----------------------------------------------------------------------------
(* What a guard means: the truth assignments of the branches it admits.    *)
(* This is the reference the properties are stated against; the code has   *)
(* no such function.                                                       *)

Assignment == [Branch -> BOOLEAN]

RECURSIVE Holds(_, _)
Holds(g, alpha) ==
  CASE isTrue(g)  -> TRUE
    [] isFalse(g) -> FALSE
    [] isAtom(g)  -> alpha[g.branchId] = g.trueBranch
    [] isAnd(g)   -> Holds(g.left, alpha) /\ Holds(g.right, alpha)
    [] isOr(g)    -> Holds(g.left, alpha) \/ Holds(g.right, alpha)

Den(g) == {alpha \in Assignment : Holds(g, alpha)}

RECURSIVE isGuard(_)
isGuard(g) ==
  \/ g \in {getTrue, getCappedTrue, getFalse}
  \/ g \in Atoms
  \/ g.kind \in {"And", "Or"} /\ isGuard(g.left) /\ isGuard(g.right)
=============================================================================
