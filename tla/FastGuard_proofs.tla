-------------------------- MODULE FastGuard_proofs --------------------------
(***************************************************************************)
(* What the solver-free guards of FastGuard mean, for any finite set of    *)
(* branches: the operations on clauses and guards agree with the logical   *)
(* connectives under every truth assignment, although the code drops       *)
(* contradictory and subsumed clauses on the way.                          *)
(***************************************************************************)
EXTENDS FastGuard, FiniteSetTheorems, WellFoundedInduction, TLAPS

Assignment == [Branch -> BOOLEAN]

(* The union of two clauses is their conjunction.                          *)
LEMMA ClauseAndMeaning ==
  ASSUME NEW c, NEW d, NEW alpha
  PROVE  Satisfies(alpha, clauseAnd(c, d))
           <=> Satisfies(alpha, c) /\ Satisfies(alpha, d)
BY DEF Satisfies, clauseAnd

(* No assignment satisfies a clause that holds a literal and its negation. *)
LEMMA ContradictionHasNoModel ==
  ASSUME NEW c \in Clause, NEW alpha \in Assignment, Satisfies(alpha, c)
  PROVE  clauseIsSat(c)
<1> SUFFICES ASSUME NEW lit \in c, <<lit[1], ~lit[2]>> \in c
             PROVE  FALSE
  BY DEF clauseIsSat
<1>1. lit \in Branch \X BOOLEAN
  BY DEF Clause, Literal
<1>2. alpha[lit[1]] = lit[2] /\ alpha[lit[1]] = ~lit[2]
  BY DEF Satisfies
<1> QED BY <1>1, <1>2

(* Conversely a clause without a contradiction has a model: choose each    *)
(* branch as the clause says, TRUE where it says nothing.                  *)
LEMMA ConsistentClauseHasModel ==
  ASSUME NEW c \in Clause, clauseIsSat(c)
  PROVE  \E alpha \in Assignment : Satisfies(alpha, c)
<1> DEFINE alpha == [b \in Branch |-> <<b, FALSE>> \notin c]
<1>1. alpha \in Assignment
  BY DEF Assignment
<1>2. ASSUME NEW lit \in c
      PROVE  alpha[lit[1]] = lit[2]
  <2>1. /\ lit[1] \in Branch
        /\ lit[2] \in BOOLEAN
        /\ lit = <<lit[1], lit[2]>>
    BY <1>2 DEF Clause, Literal
  <2>2. CASE lit[2] = TRUE
    <3>1. <<lit[1], FALSE>> \notin c
      BY <1>2, <2>2 DEF clauseIsSat
    <3> QED BY <2>1, <2>2, <3>1
  <2>3. CASE lit[2] = FALSE
    <3>1. <<lit[1], FALSE>> \in c
      BY <1>2, <2>1, <2>3
    <3> QED BY <2>1, <2>3, <3>1
  <2> QED BY <2>1, <2>2, <2>3
<1>3. Satisfies(alpha, c)
  BY <1>2 DEF Satisfies
<1> QED BY <1>1, <1>3

(* Below every clause of a guard lies one that removeSubsumed keeps.       *)
LEMMA KeptClauseBelow ==
  ASSUME IsFiniteSet(Branch), NEW d \in DNF, NEW c \in d
  PROVE  \E b \in removeSubsumed(d) : b \subseteq c
<1>1. IsFiniteSet(Literal)
  <2>1. IsFiniteSet(BOOLEAN)
    <3>1. IsFiniteSet({TRUE}) /\ IsFiniteSet({FALSE})
      BY FS_Singleton, Zenon
    <3>2. IsFiniteSet({TRUE} \cup {FALSE})
      BY <3>1, FS_Union, Zenon
    <3>3. BOOLEAN = {TRUE} \cup {FALSE}
      OBVIOUS
    <3> QED BY <3>2, <3>3, Zenon
  <2> QED BY <2>1, FS_Product DEF Literal
<1> DEFINE below == {b \in d : b \subseteq c}
<1>2. IsWellFoundedOn(StrictSubsetOrdering(Literal), Clause)
  BY <1>1, FS_StrictSubsetOrderingWellFounded, FS_FiniteSubsetsOfFinite
     DEF Clause
<1>3. below \subseteq Clause /\ below # {}
  BY DEF DNF
<1>4. PICK b \in below :
        \A e \in below : <<e, b>> \notin StrictSubsetOrdering(Literal)
  <2> HIDE DEF below
  <2> QED BY <1>2, <1>3, WFMin
<1>5. ASSUME NEW e \in d, e \subseteq b, e # b
      PROVE  FALSE
  <2>1. e \in below
    BY <1>5
  <2>2. e \in SUBSET Literal /\ b \in SUBSET Literal
    BY <1>3, <2>1 DEF Clause
  <2>3. <<e, b>> \in StrictSubsetOrdering(Literal)
    BY <1>5, <2>2 DEF StrictSubsetOrdering
  <2> QED BY <1>4, <2>1, <2>3
<1>6. b \in removeSubsumed(d)
  BY <1>5 DEF removeSubsumed
<1> QED BY <1>6

(* Dropping subsumed clauses does not change what a guard admits.          *)
LEMMA SubsumptionKeepsMeaning ==
  ASSUME IsFiniteSet(Branch), NEW d \in DNF, NEW alpha
  PROVE  Models(alpha, removeSubsumed(d)) <=> Models(alpha, d)
<1>1. removeSubsumed(d) \subseteq d
  BY DEF removeSubsumed
<1>2. ASSUME NEW c \in d, Satisfies(alpha, c)
      PROVE  \E b \in removeSubsumed(d) : Satisfies(alpha, b)
  <2>1. PICK b \in removeSubsumed(d) : b \subseteq c
    BY KeptClauseBelow
  <2> QED BY <1>2, <2>1 DEF Satisfies
<1> QED BY <1>1, <1>2 DEF Models

(* The whole of simplify keeps the meaning, and yields a guard.            *)
LEMMA SimplifyKeepsMeaning ==
  ASSUME IsFiniteSet(Branch), NEW d \in DNF, NEW alpha \in Assignment
  PROVE  /\ simplify(d) \in DNF
         /\ Models(alpha, simplify(d)) <=> Models(alpha, d)
<1> DEFINE sat  == {c \in d : clauseIsSat(c)}
           kept == removeSubsumed(sat)
<1>1. sat \in DNF
  BY DEF DNF
<1>2. kept \in DNF
  BY <1>1 DEF removeSubsumed, DNF
<1>3. Models(alpha, sat) <=> Models(alpha, d)
  BY ContradictionHasNoModel DEF Models, DNF
<1>4. Models(alpha, kept) <=> Models(alpha, d)
  <2> HIDE DEF sat
  <2> QED BY <1>1, <1>3, SubsumptionKeepsMeaning
<1>5. CASE {} \in kept
  <2>1. Models(alpha, kept) /\ Models(alpha, fgTrue)
    BY <1>5 DEF Models, Satisfies, fgTrue
  <2>2. simplify(d) = fgTrue
    BY <1>5 DEF simplify
  <2>3. fgTrue \in DNF
    BY DEF fgTrue, DNF, Clause
  <2> QED BY <1>4, <2>1, <2>2, <2>3
<1>6. CASE {} \notin kept
  <2>1. simplify(d) = kept
    BY <1>6 DEF simplify
  <2> QED BY <1>2, <1>4, <2>1
<1> QED BY <1>5, <1>6

-----------------------------------------------------------------------------
(* FastGuard::AND is conjunction: an assignment satisfies the result       *)
(* exactly when it satisfies both guards.                                  *)
THEOREM FastAndIsConjunction ==
  ASSUME IsFiniteSet(Branch), NEW a \in DNF, NEW b \in DNF,
         NEW alpha \in Assignment
  PROVE  /\ fgAnd(a, b) \in DNF
         /\ Models(alpha, fgAnd(a, b)) <=> Models(alpha, a) /\ Models(alpha, b)
<1> DEFINE product == {clauseAnd(c, d) : c \in a, d \in b}
           joined  == {e \in product : clauseIsSat(e)}
<1>1. product \in DNF
  BY DEF DNF, Clause, clauseAnd
<1>2. joined \in DNF
  BY <1>1 DEF DNF
<1>3. Models(alpha, product) <=> Models(alpha, a) /\ Models(alpha, b)
  BY ClauseAndMeaning DEF Models
<1>4. Models(alpha, joined) <=> Models(alpha, product)
  <2> HIDE DEF product
  <2> QED BY <1>1, ContradictionHasNoModel DEF Models, DNF
<1>5. Models(alpha, fgTrue) /\ ~Models(alpha, fgFalse)
  BY DEF Models, Satisfies, fgTrue, fgFalse
<1>6. fgFalse \in DNF
  BY DEF fgFalse, DNF
<1>7. CASE fgIsFalse(a) \/ fgIsFalse(b)
  <2>1. fgAnd(a, b) = fgFalse
    BY <1>7 DEF fgAnd
  <2> QED BY <1>5, <1>6, <1>7, <2>1 DEF fgIsFalse, fgFalse
<1>8. CASE ~fgIsFalse(a) /\ ~fgIsFalse(b) /\ fgIsTrue(a)
  BY <1>5, <1>8 DEF fgAnd, fgIsTrue, fgTrue
<1>9. CASE ~fgIsFalse(a) /\ ~fgIsFalse(b) /\ ~fgIsTrue(a) /\ fgIsTrue(b)
  BY <1>5, <1>9 DEF fgAnd, fgIsTrue, fgTrue
<1>10. CASE ~fgIsFalse(a) /\ ~fgIsFalse(b) /\ ~fgIsTrue(a) /\ ~fgIsTrue(b)
  <2>1. fgAnd(a, b) = simplify(joined)
    BY <1>10 DEF fgAnd
  <2> HIDE DEF joined
  <2> QED BY <1>2, <1>3, <1>4, <2>1, SimplifyKeepsMeaning
<1> QED BY <1>7, <1>8, <1>9, <1>10

(* FastGuard::OR is disjunction.                                           *)
THEOREM FastOrIsDisjunction ==
  ASSUME IsFiniteSet(Branch), NEW a \in DNF, NEW b \in DNF,
         NEW alpha \in Assignment
  PROVE  /\ fgOr(a, b) \in DNF
         /\ Models(alpha, fgOr(a, b)) <=> Models(alpha, a) \/ Models(alpha, b)
<1>1. Models(alpha, fgTrue) /\ ~Models(alpha, fgFalse)
  BY DEF Models, Satisfies, fgTrue, fgFalse
<1>2. fgTrue \in DNF
  BY DEF fgTrue, DNF, Clause
<1>3. a \cup b \in DNF
  BY DEF DNF
<1>4. Models(alpha, a \cup b) <=> Models(alpha, a) \/ Models(alpha, b)
  BY DEF Models
<1>5. CASE fgIsTrue(a) \/ fgIsTrue(b)
  <2>1. fgOr(a, b) = fgTrue
    BY <1>5 DEF fgOr
  <2> QED BY <1>1, <1>2, <1>5, <2>1 DEF fgIsTrue, fgTrue
<1>6. CASE ~fgIsTrue(a) /\ ~fgIsTrue(b) /\ fgIsFalse(a)
  BY <1>1, <1>6 DEF fgOr, fgIsFalse, fgFalse
<1>7. CASE ~fgIsTrue(a) /\ ~fgIsTrue(b) /\ ~fgIsFalse(a) /\ fgIsFalse(b)
  BY <1>1, <1>7 DEF fgOr, fgIsFalse, fgFalse
<1>8. CASE ~fgIsTrue(a) /\ ~fgIsTrue(b) /\ ~fgIsFalse(a) /\ ~fgIsFalse(b)
  <2>1. fgOr(a, b) = simplify(a \cup b)
    BY <1>8 DEF fgOr
  <2> QED BY <1>3, <1>4, <2>1, SimplifyKeepsMeaning
<1> QED BY <1>5, <1>6, <1>7, <1>8

(* FastGuard::isSat is exact: it answers TRUE for the guards some          *)
(* assignment satisfies and for no other, so alias() refutes a pair of     *)
(* objects only on infeasible paths.                                       *)
THEOREM FastSatIsExact ==
  ASSUME NEW d \in DNF
  PROVE  fgIsSat(d) <=> \E alpha \in Assignment : Models(alpha, d)
<1>1. d \subseteq Clause
  BY DEF DNF
<1>2. ASSUME fgIsSat(d)
      PROVE  \E alpha \in Assignment : Models(alpha, d)
  <2>1. PICK c \in d : clauseIsSat(c)
    BY <1>2 DEF fgIsSat
  <2>2. PICK alpha \in Assignment : Satisfies(alpha, c)
    BY <1>1, <2>1, ConsistentClauseHasModel
  <2> QED BY <2>2 DEF Models
<1>3. ASSUME NEW alpha \in Assignment, Models(alpha, d)
      PROVE  fgIsSat(d)
  BY <1>1, <1>3, ContradictionHasNoModel DEF fgIsSat, Models
<1> QED BY <1>2, <1>3
=============================================================================
