----------------------------- MODULE FastGuard ------------------------------
(***************************************************************************)
(* The solver-free guard back end FastGuard                                *)
(* (SVF/svf/lib/Util/FastGuard.cpp): a guard in disjunctive normal form,   *)
(* as a set of clauses, each a set of literals <<branch, polarity>>.       *)
(* It answers the satisfiability checks of alias() and of eager pruning    *)
(* when -cond-ander-fast-guard is on (the default).                        *)
(***************************************************************************)
EXTENDS Naturals, FiniteSets

CONSTANT Branch

Literal == Branch \X BOOLEAN
Clause  == SUBSET Literal
DNF     == SUBSET Clause

fgTrue       == {{}}
fgFalse      == {}
fgAtom(b, v) == {{<<b, v>>}}

fgIsTrue(d)  == d = {{}}
fgIsFalse(d) == d = {}

-----------------------------------------------------------------------------
clauseAnd(c, d) == c \cup d

everyClauseIsSat(c) == TRUE                                \* mutant
clauseIsSat(c) == \A lit \in c : <<lit[1], ~lit[2]>> \notin c

(* A clause goes when another clause of the guard is a strict subset of    *)
(* it.  The C++ loop skips clauses it has already removed; since being a   *)
(* strict subset is transitive, what is left is the set of minimal clauses.*)
removeSubsuming(d) == {c \in d : ~ \E b \in d : c \subseteq b /\ b # c}  \* mutant
removeSubsumed(d) == {c \in d : ~ \E b \in d : b \subseteq c /\ b # c}

(* An empty clause makes the whole guard True; after removeSubsumed it is  *)
(* then already the only one.                                              *)
simplify(d) ==
  LET kept == removeSubsumed({c \in d : clauseIsSat(c)})
  IN  IF {} \in kept THEN fgTrue ELSE kept

fgAnd(a, b) ==
  IF fgIsFalse(a) \/ fgIsFalse(b) THEN fgFalse
  ELSE IF fgIsTrue(a) THEN b
  ELSE IF fgIsTrue(b) THEN a
  ELSE simplify({e \in {clauseAnd(c, d) : c \in a, d \in b} : clauseIsSat(e)})

fgOr(a, b) ==
  IF fgIsTrue(a) \/ fgIsTrue(b) THEN fgTrue
  ELSE IF fgIsFalse(a) THEN b
  ELSE IF fgIsFalse(b) THEN a
  ELSE simplify(a \cup b)

fgIsSat(d) == \E c \in d : clauseIsSat(c)

-----------------------------------------------------------------------------
(* The reference meaning of a clause and of a guard under a truth          *)
(* assignment of the branches.                                             *)
Satisfies(alpha, c) == \A lit \in c : alpha[lit[1]] = lit[2]
Models(alpha, d)    == \E c \in d : Satisfies(alpha, c)
=============================================================================
