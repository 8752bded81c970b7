------------------------------- MODULE Guard --------------------------------
(***************************************************************************)
(* The guards of the path-sensitive analysis (SVF/svf/lib/Util/Guard.cpp   *)
(* with SVF_ENABLE_SPAS): binary decision diagrams over two kinds of       *)
(* atoms, the outcomes of branches and the call sites.  A diagram is       *)
(* canonical, so it is what it means: the set of worlds it admits, where a *)
(* world is the set of atoms that are true.                                *)
(*                                                                         *)
(* Beside the diagram a guard has a flag, set by the atom of a call site   *)
(* and by whatever is made of a guard that has it, also when the diagram   *)
(* no longer depends on a call site.  Only isContextIndependent reads it;  *)
(* equality and hashing, which key the points-to maps, do not.             *)
(***************************************************************************)
EXTENDS FiniteSets, Integers

CONSTANTS
  PathAtom,      \* branch conditions
  ContextAtom    \* call sites

ASSUME GuardAtomAssumption ==
  /\ IsFiniteSet(PathAtom)
  /\ IsFiniteSet(ContextAtom)
  /\ PathAtom \cap ContextAtom = {}

Atom  == PathAtom \cup ContextAtom
World == SUBSET Atom
Guard == [bdd : SUBSET World, hasCtxAtom : BOOLEAN]

plainGuard(worlds) == [bdd |-> worlds, hasCtxAtom |-> FALSE]
getTrue            == plainGuard(World)
getFalse           == plainGuard({})

atom(a, branch) ==
  [bdd        |-> {w \in World : (a \in w) = branch},
   hasCtxAtom |-> a \in ContextAtom]

guardAnd(g, h) ==
  [bdd |-> g.bdd \cap h.bdd, hasCtxAtom |-> g.hasCtxAtom \/ h.hasCtxAtom]

guardOr(g, h) ==
  [bdd |-> g.bdd \cup h.bdd, hasCtxAtom |-> g.hasCtxAtom \/ h.hasCtxAtom]

guardNot(g) == [bdd |-> World \ g.bdd, hasCtxAtom |-> g.hasCtxAtom]

isTrue(g)               == g.bdd = World
isFalse(g)              == g.bdd = {}
isSat(g)                == g.bdd # {}
implies(g, h)           == (World \ g.bdd) \cup h.bdd = World
isContextIndependent(g) == ~g.hasCtxAtom

(* The disjunction of several guards.                                      *)
anyOf(S) ==
  [bdd |-> UNION {g.bdd : g \in S}, hasCtxAtom |-> \E g \in S : g.hasCtxAtom]

(* The atoms a diagram depends on.                                         *)
support(worlds) ==
  {a \in Atom : \E w \in World : (w \cup {a} \in worlds) # (w \ {a} \in worlds)}

supportSize(worlds) == Cardinality(support(worlds))
=============================================================================
