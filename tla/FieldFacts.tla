----------------------------- MODULE FieldFacts -----------------------------
(***************************************************************************)
(* What the field-sensitive analysis answers, against the constraints read *)
(* with fields.  Which objects lose their fields is the solver's decision; *)
(* the reference takes the set F of those objects as given, and there an   *)
(* object of F stands for all of its fields.                               *)
(***************************************************************************)
EXTENDS Fields, GuardedFacts

CONSTANTS
  FieldSolution(_, _, _)  \* the least solution of a program and its geps, given F

canon(o, F)      == IF base[o] \in F THEN base[o] ELSE o
canonNode(n, F)  == IF n \in Obj THEN canon(n, F) ELSE n
canonSet(S, F)   == {canon(o, F) : o \in S}

gepTarget(o, s, F) ==
  IF o \in ConstObj THEN o
  ELSE IF s.kind = "variantGep" THEN base[o]
  ELSE IF base[o] \in F THEN base[o]
  ELSE gepObjVar(o, s.off)

(* What the theorems use of the reference: it is a solution, not that it   *)
(* is the least.                                                           *)
ASSUME FieldSolutionAssumption ==
  \A p \in Programs : \A G \in GepStmtSets(p) : \A F \in SUBSET (Obj \ GepObj) :
    LET S == FieldSolution(p, G, F)
    IN  /\ S \in [Node -> SUBSET Obj]
        /\ IsSolution(p, S)
        /\ \A s \in G : \A o \in S[s.src] : gepTarget(o, s, F) \in S[s.dst]

-----------------------------------------------------------------------------
FieldTypeOK ==
  /\ pc \in {"addr", "attach", "merge", "pwc", "loadstore", "propagate", "update", "done"}
  /\ geps \in GepStmtSets(prog)
  /\ \A e \in DOMAIN gepCG :
       /\ e.kind \in {"normalGep", "variantGep"}
       /\ e.src \in live /\ e.dst \in live /\ e.src # e.dst
  /\ IF pc = "attach" THEN gepTodo \subseteq geps ELSE gepTodo \subseteq DOMAIN gepCG
  /\ fieldInsensitive \subseteq Obj \ GepObj
  /\ created \subseteq GepObj
  /\ pwcNodes \subseteq live
  /\ nodesToBeCollapsed \subseteq fieldInsensitive
  /\ \A o \in ptsToCollapse : ~isFieldInsensitive(o)
  /\ collapsing.base \subseteq fieldInsensitive
  /\ collapsing.fields \subseteq created
  /\ reanalyze \in BOOLEAN
  /\ pts \in [Node -> SUBSET Obj]
  /\ DOMAIN consCG \subseteq Edge

(* The answer with every object of F standing for its fields.              *)
canonAnswer(F) == [n \in Node |-> canonSet(answer[n], F)]

(* The objects that give up their fields: the field-insensitive ones, and  *)
(* those that reach a cycle with a gep on it, merged or about to be.       *)
willBe(n) ==
  IF \E r \in Node : <<rep[n], r>> \in subs
  THEN CHOOSE r \in Node : <<rep[n], r>> \in subs
  ELSE rep[n]

onGepCycle    == {n \in Node : \E s \in geps : willBe(s.src) = willBe(n) /\ willBe(s.dst) = willBe(n)}
mayLoseFields == fieldInsensitive \cup {base[o] : o \in UNION {answer[n] : n \in onGepCycle}}

(* FieldPrecise: in every state, and however it creates, collapses and     *)
(* merges fields, the solver gives a variable no object that the           *)
(* constraints do not, once the objects it has given up fields for are     *)
(* taken as a whole (Andersen::collapseField, processGepPts).              *)
FieldPrecise ==
  LET F == mayLoseFields
      S == FieldSolution(prog, geps, F)
  IN  \A n \in Node : canonAnswer(F)[n] \subseteq S[canonNode(n, F)]

(* A zero-offset gep on a merged cycle is dropped without making the node  *)
(* PWC, although the first field is an object of its own: isZeroOffsetted- *)
(* GepCGEdge.  What it would have added is excepted below.                 *)
droppedZeroGep(s) == s.kind = "normalGep" /\ s.off = 0 /\ rep[s.src] = rep[s.dst]

(* FieldComplete: at the end the answer accounts for every statement, call *)
(* and gep, although a collapse changes points-to sets of nodes that were  *)
(* processed long before and merges nodes behind the sweep's back, and a   *)
(* gep whose two ends were merged is no longer in the graph.               *)
FieldComplete ==
  pc = "done" =>
    LET A == canonAnswer(fieldInsensitive)
    IN  /\ IsSolution([prog EXCEPT !.addr =
                         {<<canon(a[1], fieldInsensitive), a[2]>> : a \in @}], A)
        /\ \A s \in geps : ~droppedZeroGep(s) =>
             \A o \in A[s.src] : gepTarget(o, s, fieldInsensitive) \in A[s.dst]

(* NoCollapsedFields: between two nodes of the worklist nobody points to a *)
(* field of a collapsed object any more, and the field's node is the       *)
(* object's: a gep that ran before the collapse leaves none behind         *)
(* (Andersen::collapseField).                                              *)
NoCollapsedFields ==
  idle /\ fieldsDone =>
    \A f \in created : isFieldInsensitive(f) =>
      /\ holders(f) = {}
      /\ rep[f] = rep[base[f]]

(* FieldsTerminate: the rounds that collapses ask for come to an end.      *)
FieldsTerminate == <>(pc = "done")

-----------------------------------------------------------------------------
(* alias(): expandCondFIObjs walks the objects in the order of their ids,  *)
(* an object before its fields.  An object gives all its fields its guard; *)
(* a field held as such gets its own instead.                              *)
expandedObjs(v) ==
  answer[v] \cup {f \in created : base[f] \in answer[v]}

objectsGuard(v, o) ==                                      \* mutant
  guardOf(rep[v], IF base[o] \in answer[v] THEN base[o] ELSE o)

expandedGuard(v, o) ==
  IF o \in answer[v] THEN guardOf(rep[v], o) ELSE guardOf(rep[v], base[o])

fieldsMayAlias(v, w) ==
  \/ v = w
  \/ \E o \in expandedObjs(v) \cap expandedObjs(w) :
       unconditional \/ guardIsSat(guardAnd(expandedGuard(v, o), expandedGuard(w, o)))

gepsOnPath(path) == {s \in geps : path \in Admits(s.guard)}

(* The whole object a in v covers the field b, unless v holds b as well:   *)
(* the guard a gave it is then overwritten, and a's paths are forgotten.   *)
covers(v, a, b) == a = base[b] /\ a # b /\ b \notin answer[v]

(* On one path: the two hold the same object, or one holds an object and   *)
(* the other one of its fields.                                            *)
aliasOnPath(v, w, path) ==
  LET S == FieldSolution(onPath(prog, path), gepsOnPath(path), fieldInsensitive)
  IN  \E a \in S[v], b \in S[w] : a = b \/ covers(v, a, b) \/ covers(w, b, a)

(* A merge or a collapse leaves facts whose guards are gone.               *)
guardsKept == fieldInsensitive = {} /\ \A n \in Node : rep[n] = n

(* FieldAliasExact: at the end alias() denies no alias that some path      *)
(* produces, whatever guards the fields got from the objects they were     *)
(* made of and the geps on the way, except the one that only the forgotten *)
(* paths of "covers" produce; and it claims none that no path produces as  *)
(* long as nothing was merged or collapsed (alias, expandCondFIObjs,       *)
(* processGep).                                                            *)
FieldAliasExact ==
  pc = "done" =>
    \A v, w \in Node \ Obj : v # w =>
      LET onSomePath == \E path \in Path : aliasOnPath(v, w, path)
      IN  /\ onSomePath => fieldsMayAlias(v, w)
          /\ fieldsMayAlias(v, w) /\ guardsKept => onSomePath
=============================================================================
