--------------------------- MODULE Fields_proofs ---------------------------
(***************************************************************************)
(* What holds of fields for every program, object layout, guard algebra    *)
(* and choice of options: between two nodes of the worklist no field of a  *)
(* collapsed object is left behind (NoCollapsedFields), the state is well  *)
(* formed (FieldTypeOK), and the answer is within the constraints once the *)
(* objects that gave up their fields stand for them (FieldPrecise).        *)
(*                                                                         *)
(* Collapsing: a field whose object is field-insensitive is always due to  *)
(* be collapsed - its object waits for it, or the collapse that runs has   *)
(* still to reach it - or it is gone; and a field that is gone never comes *)
(* back, because facts only arise from facts that are there and a gep      *)
(* creates no field of an object that is already insensitive.              *)
(*                                                                         *)
(* Precision: the solver decides as it runs which objects give up their    *)
(* fields, so the invariant compares it with the constraints for every set *)
(* of objects it may still end with.                                       *)
(***************************************************************************)
EXTENDS FieldFacts, Completeness_proofs

GepEdge == [kind : {"normalGep", "variantGep"}, src : Node, dst : Node]

(* The state the field handlers share with the solver is well formed.      *)
FieldTypes ==
  /\ prog \in Programs
  /\ geps \in GepStmtSets(prog)
  /\ pc = "addr"      => todo \subseteq prog.addr
  /\ pc = "merge"     => todo \subseteq Node
  /\ pc = "loadstore" => todo \subseteq Obj \X Edge
  /\ pc = "propagate" => todo \subseteq Edge
  /\ pc = "pwc"       => todo = {}
  /\ pc = "update"    => todo \subseteq prog.calls
  /\ subs \subseteq Node \X Node
  /\ pts \in [Node -> SUBSET Obj]
  /\ DOMAIN condPtsMap = Node
  /\ \A n \in Node : DOMAIN condPtsMap[n] = Obj
  /\ DOMAIN consCG \subseteq Edge
  /\ rep \in [Node -> Node]

(* Every gep edge stems from a statement, and the loop over a node's geps  *)
(* only meets edges that are in the graph: nothing is merged while it runs. *)
IsGepGraph(g) ==
  /\ DOMAIN g \subseteq GepEdge
  /\ \A e \in DOMAIN g : \E s \in geps : g[e].off = s.off

GepsKept ==
  /\ IsGepGraph(gepCG)
  /\ pc = "propagate" => gepTodo \subseteq DOMAIN gepCG
  /\ pc \in {"merge", "pwc"} => gepTodo = {}
  /\ collapsing.fields # {} => pc \in {"pwc", "propagate"} /\ gepTodo = {}

(* Facts and their guards name no field that has not been created.         *)
FieldsTracked ==
  /\ created \subseteq GepObj
  /\ DOMAIN collapsing = {"base", "fields"}
  /\ collapsing.fields \subseteq created
  /\ \A n \in Node : pts[n] \cap GepObj \subseteq created
  /\ \A n \in Node, o \in GepObj : condPtsMap[n][o] # NoGuard => o \in created

gone(f) == /\ \A n \in Node : f \notin pts[n]
           /\ rep[f] = rep[base[f]]

CollapseDue ==
  \A f \in created : isFieldInsensitive(f) =>
    \/ base[f] \in nodesToBeCollapsed
    \/ f \in collapsing.fields
    \/ gone(f)

FieldInv == FieldTypes /\ GepsKept /\ FieldsTracked /\ CollapseDue

-----------------------------------------------------------------------------
(* The objects and fields of a program.                                    *)
LEMMA ObjectFacts ==
  ASSUME prog \in Programs, geps \in GepStmtSets(prog)
  PROVE  /\ Obj \subseteq Node
         /\ GepObj \subseteq Obj
         /\ \A o \in Obj : base[o] \in Obj /\ base[o] \notin GepObj
         /\ \A a \in prog.addr : a[1] \in Obj \ GepObj /\ a[2] \in Node
         /\ \A s \in geps, o \in Obj :
              gepObjVar(o, s.off) \in Obj /\ base[gepObjVar(o, s.off)] = base[o]
<1>1. /\ Obj \subseteq Node
      /\ \A a \in prog.addr : a[1] \in Obj /\ a[2] \in Node
  BY ConstraintsAssumption DEF IsProgram
<1>2. /\ GepObj \subseteq Obj
      /\ \A o \in Obj : base[o] \in Obj /\ base[o] \notin GepObj
      /\ \A a \in prog.addr : a[1] \notin GepObj
  BY FieldAssumption
<1>3. \A s \in geps : \A o \in Obj : gepObjVar(o, s.off) \in {q \in Obj : base[q] = base[o]}
  BY FieldAssumption
<1> QED BY <1>1, <1>2, <1>3

(* Retargeting a gep keeps it a gep, with the offset of a statement.       *)
LEMMA ReTargetGepGraph ==
  ASSUME NEW g, IsGepGraph(g), NEW side \in {"src", "dst"}, NEW n \in Node, NEW r \in Node
  PROVE  IsGepGraph(reTargetGeps(g, side, n, r))
<1> DEFINE h == reTargetGeps(g, side, n, r)
<1>1. ASSUME NEW e \in DOMAIN h
      PROVE  /\ e \in GepEdge
             /\ \E f \in DOMAIN g : h[e] = g[f]
  <2>1. PICK f \in DOMAIN g : e = moved(f, side, n, r)
    BY <1>1 DEF reTargetGeps
  <2>2. f \in GepEdge
    BY DEF IsGepGraph
  <2>3. e \in GepEdge
    BY <2>1, <2>2 DEF moved, GepEdge
  <2>4. e \in DOMAIN g \/ [e EXCEPT ![side] = n] = f
    BY <2>1, <2>2 DEF moved, GepEdge
  <2>5. h[e] = IF e \in DOMAIN g THEN g[e] ELSE g[[e EXCEPT ![side] = n]]
    BY <1>1 DEF reTargetGeps
  <2> QED BY <2>3, <2>4, <2>5
<1> QED BY <1>1 DEF IsGepGraph

(* What merging one node into another does, in the SCC loop as in a        *)
(* collapse: facts, guards and merged nodes only move.                     *)
LEMMA MergeMoves ==
  ASSUME FieldTypes, IsGepGraph(gepCG), geps' = geps,
         NEW n \in Node, NEW r \in Node, NEW P \in [Node -> SUBSET Obj],
         mergeWithFields(n, r, P)
  PROVE  /\ pts' \in [Node -> SUBSET Obj]
         /\ rep' \in [Node -> Node]
         /\ DOMAIN condPtsMap' = Node
         /\ \A m \in Node : DOMAIN condPtsMap'[m] = Obj
         /\ DOMAIN consCG' \subseteq Edge
         /\ IsGepGraph(gepCG)'
         /\ \A m \in Node : pts'[m] \subseteq UNION {P[k] : k \in Node}
         /\ \A m \in Node, o \in Obj : condPtsMap'[m][o] # NoGuard =>
              \E k \in Node : condPtsMap[k][o] # NoGuard
         /\ \A k, m \in Node : rep[k] = rep[m] => rep'[k] = rep'[m]
         /\ \A k, m \in Node : rep[k] = n /\ rep[m] = r => rep'[k] = rep'[m]
<1>1. CASE n = r
  BY <1>1 DEF mergeWithFields, FieldTypes, IsGepGraph
<1>2. CASE n # r
  <2>1. /\ condPtsMap' = [condPtsMap EXCEPT ![r] = [o \in Obj |-> mergedEntry(n, r, o)],
                                            ![n] = noEntries]
        /\ pts' = [P EXCEPT ![r] = @ \cup P[n]]
        /\ consCG' = moveEdgesToRepNode(consCG, n, r)
        /\ gepCG' = reTargetGeps(reTargetGeps(gepCG, "dst", n, r), "src", n, r)
        /\ rep' = [m \in Node |-> IF rep[m] = n THEN r ELSE rep[m]]
    BY <1>2 DEF mergeWithFields
  <2>2. IsGepGraph(gepCG')
    BY <2>1, ReTargetGepGraph
  <2>3. IsGepGraph(gepCG)'
    BY <2>2 DEF IsGepGraph
  <2>4. DOMAIN consCG' \subseteq Edge
    BY <2>1, ReTargetEdges DEF FieldTypes, moveEdgesToRepNode
  <2>5. /\ pts' \in [Node -> SUBSET Obj]
        /\ \A m \in Node : pts'[m] \subseteq UNION {P[k] : k \in Node}
    BY <2>1
  <2>6. /\ rep' \in [Node -> Node]
        /\ \A k, m \in Node : rep[k] = rep[m] => rep'[k] = rep'[m]
        /\ \A k, m \in Node : rep[k] = n /\ rep[m] = r => rep'[k] = rep'[m]
    BY <2>1, <1>2 DEF FieldTypes
  <2>7. /\ DOMAIN condPtsMap' = Node
        /\ \A m \in Node : condPtsMap'[m] = IF m = n THEN noEntries
                             ELSE IF m = r THEN [o \in Obj |-> mergedEntry(n, r, o)]
                             ELSE condPtsMap[m]
    BY <2>1, <1>2 DEF FieldTypes
  <2>8. \A m \in Node : DOMAIN condPtsMap'[m] = Obj
    BY <2>7 DEF FieldTypes, noEntries
  <2>9. \A m \in Node, o \in Obj : condPtsMap'[m][o] # NoGuard =>
          \E k \in Node : condPtsMap[k][o] # NoGuard
    BY <2>7 DEF noEntries, mergedEntry
  <2> QED BY <2>3, <2>4, <2>5, <2>6, <2>8, <2>9, <2>7
<1> QED BY <1>1, <1>2

-----------------------------------------------------------------------------
(* The handlers that neither touch facts, guards or fields nor merge keep  *)
(* what the argument is about.                                             *)
LEMMA FactsKept ==
  ASSUME FieldsTracked, CollapseDue,
         UNCHANGED <<pts, condPtsMap, rep, created, fieldInsensitive,
                     nodesToBeCollapsed, collapsing>>
  PROVE  FieldsTracked' /\ CollapseDue'
BY DEF FieldsTracked, CollapseDue, isFieldInsensitive, gone

(* Facts that arise from facts and guards that arise from guards name no   *)
(* new field and bring no collapsed field back.                            *)
LEMMA FactsMoved ==
  ASSUME FieldTypes, FieldsTracked, CollapseDue,
         UNCHANGED <<created, fieldInsensitive, nodesToBeCollapsed, collapsing>>,
         \A m \in Node : pts'[m] \subseteq (Obj \ GepObj) \cup UNION {pts[k] : k \in Node},
         \A m \in Node, o \in GepObj : condPtsMap'[m][o] # NoGuard =>
           \E k \in Node : o \in pts[k] \/ condPtsMap[k][o] # NoGuard,
         \A k, m \in Node : rep[k] = rep[m] => rep'[k] = rep'[m]
  PROVE  FieldsTracked' /\ CollapseDue'
<1>1. GepObj \subseteq Obj /\ Obj \subseteq Node /\ \A o \in Obj : base[o] \in Obj
  BY ObjectFacts DEF FieldTypes
<1>2. FieldsTracked'
  <2>1. \A m \in Node : pts'[m] \cap GepObj \subseteq created
    BY DEF FieldsTracked
  <2>2. \A m \in Node, o \in GepObj : condPtsMap'[m][o] # NoGuard => o \in created
    BY DEF FieldsTracked
  <2> QED BY <2>1, <2>2 DEF FieldsTracked
<1>3. ASSUME NEW f \in created, gone(f) PROVE gone(f)'
  <2>1. f \in GepObj /\ f \in Node /\ base[f] \in Node
    BY <1>1 DEF FieldsTracked
  <2> QED BY <1>3, <2>1 DEF gone
<1> QED BY <1>2, <1>3 DEF CollapseDue, isFieldInsensitive

-----------------------------------------------------------------------------
(* The solver starts with no fields and nothing to collapse.               *)
LEMMA FieldInvInit == FieldInit => FieldInv
<1> SUFFICES ASSUME FieldInit PROVE FieldInv OBVIOUS
<1>1. TypeOK /\ Init
  BY TypeInit DEF FieldInit
<1>2. FieldTypes
  BY <1>1 DEF FieldTypes, FieldInit, TypeOK, Init
<1>3. \A s \in geps : IsGepStmt(s)
  BY FieldAssumption, <1>2 DEF FieldTypes
<1>4. IsGepGraph(gepCG)
  <2>1. DOMAIN gepCG = {gepEdge(s) : s \in geps}
    BY DEF FieldInit
  <2>2. \A s \in geps : gepEdge(s) \in GepEdge
    BY <1>3 DEF IsGepStmt, gepEdge, GepEdge
  <2>3. ASSUME NEW e \in DOMAIN gepCG
        PROVE  \E s \in geps : gepCG[e].off = s.off
    <3>1. \E s \in geps : gepEdge(s) = e
      BY <2>1
    <3>2. (CHOOSE s \in geps : gepEdge(s) = e) \in geps
      BY <3>1
    <3> QED BY <3>2, <2>1 DEF FieldInit
  <2> QED BY <2>1, <2>2, <2>3 DEF IsGepGraph
<1>5. GepsKept
  BY <1>1, <1>4 DEF GepsKept, FieldInit, Init, notCollapsing
<1>6. FieldsTracked /\ CollapseDue
  BY <1>1, FieldAssumption
     DEF FieldsTracked, CollapseDue, FieldInit, Init, noEntries, notCollapsing
<1> QED BY <1>2, <1>5, <1>6 DEF FieldInv

(* The handlers without merges and without facts: the state stays well     *)
(* formed.                                                                 *)
LEMMA SolverStepsKeep ==
  ASSUME FieldInv
  PROVE  /\ fieldBeginAttach => FieldInv'
         /\ \A s \in todo : fieldAttachStaticEdgeGuard(s) => FieldInv'
         /\ \A s \in gepTodo : attachGepGuard(s) => FieldInv'
         /\ fieldSCCDetect => FieldInv'
         /\ \A r \in todo : fieldBeginSCC(r) => FieldInv'
<1> USE DEF FieldInv
<1>1. ASSUME fieldBeginAttach PROVE FieldInv'
  <2>1. FieldTypes'
    BY <1>1 DEF fieldBeginAttach, beginAttach, FieldTypes
  <2>2. GepsKept'
    BY <1>1 DEF fieldBeginAttach, beginAttach, GepsKept, IsGepGraph
  <2> QED BY <1>1, <2>1, <2>2, FactsKept DEF fieldBeginAttach, beginAttach
<1>2. ASSUME NEW s \in todo, fieldAttachStaticEdgeGuard(s) PROVE FieldInv'
  <2>1. FieldTypes'
    BY <1>2, MergeEdgeGuardDomain
       DEF fieldAttachStaticEdgeGuard, attachStaticEdgeGuard, FieldTypes, fieldVars
  <2>2. GepsKept'
    BY <1>2 DEF fieldAttachStaticEdgeGuard, attachStaticEdgeGuard, GepsKept, IsGepGraph,
                fieldVars
  <2> QED BY <1>2, <2>1, <2>2, FactsKept
          DEF fieldAttachStaticEdgeGuard, attachStaticEdgeGuard, fieldVars
<1>3. ASSUME NEW s \in gepTodo, attachGepGuard(s) PROVE FieldInv'
  <2>1. FieldTypes'
    BY <1>3 DEF attachGepGuard, FieldTypes, vars
  <2>2. IsGepGraph(gepCG)'
    <3>1. /\ DOMAIN gepCG' = DOMAIN gepCG
          /\ \A e \in DOMAIN gepCG : gepCG'[e].off = gepCG[e].off
          /\ geps' = geps
      BY <1>3 DEF attachGepGuard
    <3> QED BY <3>1 DEF GepsKept, IsGepGraph
  <2>3. GepsKept'
    BY <1>3, <2>2 DEF attachGepGuard, GepsKept, vars
  <2> QED BY <1>3, <2>1, <2>3, FactsKept DEF attachGepGuard, vars
<1>4. ASSUME fieldSCCDetect PROVE FieldInv'
  <2>1. FieldTypes'
    BY <1>4 DEF fieldSCCDetect, FieldTypes, inGraph, live
  <2>2. gepTodo = {} /\ collapsing.fields = {}
    BY <1>4 DEF fieldSCCDetect, fieldsSolved, fieldsDone, collapsed, notCollapsing, GepsKept
  <2>3. GepsKept'
    BY <1>4, <2>2 DEF fieldSCCDetect, GepsKept, IsGepGraph
  <2> QED BY <1>4, <2>1, <2>3, FactsKept DEF fieldSCCDetect
<1>5. ASSUME NEW r \in todo, fieldBeginSCC(r) PROVE FieldInv'
  <2>1. FieldTypes'
    <3>1. r \in Node /\ scc(r, reach) \subseteq Node
      BY <1>5 DEF fieldBeginSCC, FieldTypes, scc
    <3>2. subs' \subseteq Node \X Node /\ todo' \subseteq todo
      BY <1>5, <3>1 DEF fieldBeginSCC
    <3> QED BY <1>5, <3>2 DEF fieldBeginSCC, FieldTypes, fieldVars
  <2>2. GepsKept'
    BY <1>5 DEF fieldBeginSCC, GepsKept, IsGepGraph, fieldVars
  <2> QED BY <1>5, <2>1, <2>2, FactsKept DEF fieldBeginSCC, fieldVars
<1> QED BY <1>1, <1>2, <1>3, <1>4, <1>5

(* The same of the steps of the sweep and the worklist.                    *)
LEMMA WorklistStepsKeep ==
  ASSUME FieldInv
  PROVE  /\ \A r \in nodeStack : collapsePWCNode(r) => FieldInv'
         /\ processPWCNode => FieldInv'
         /\ \A r \in nodeStack : fieldSweepNode(r) => FieldInv'
         /\ \A r \in nodeStack : skipMergedNode(r) => FieldInv'
         /\ fieldPopFromWorklist => FieldInv'
         /\ fieldHandleCopyGep => FieldInv'
<1> USE DEF FieldInv
<1>a. \A n : pts[n] \X through(n) \subseteq Obj \X Edge
  <2> SUFFICES ASSUME NEW n, NEW t \in pts[n] \X through(n) PROVE t \in Obj \X Edge
    OBVIOUS
  <2>1. t[2] \in Edge /\ n \in Node
    BY DEF through, FieldTypes, Edge
  <2> QED BY <2>1 DEF FieldTypes
<1>1. ASSUME NEW r \in nodeStack, collapsePWCNode(r) PROVE FieldInv'
  <2>1. FieldTypes'
    BY <1>1 DEF collapsePWCNode, FieldTypes, idle
  <2>2. GepsKept'
    BY <1>1 DEF collapsePWCNode, GepsKept, IsGepGraph, fieldsDone
  <2> QED BY <1>1, <2>1, <2>2, FactsKept DEF collapsePWCNode
<1>2. ASSUME processPWCNode PROVE FieldInv'
  <2>1. FieldTypes'
    BY <1>2, <1>a DEF processPWCNode, processNode, FieldTypes, fieldVars
  <2>2. GepsKept'
    BY <1>2 DEF processPWCNode, processNode, GepsKept, IsGepGraph, fieldVars, collapsed,
                notCollapsing
  <2> QED BY <1>2, <2>1, <2>2, FactsKept DEF processPWCNode, fieldVars
<1>3. ASSUME NEW r \in nodeStack, fieldSweepNode(r) PROVE FieldInv'
  <2>1. FieldTypes'
    BY <1>3, <1>a DEF fieldSweepNode, sweepNode, processNode, FieldTypes, fieldVars
  <2>2. GepsKept'
    BY <1>3 DEF fieldSweepNode, sweepNode, processNode, GepsKept, IsGepGraph, fieldVars,
                fieldsDone, collapsed, notCollapsing
  <2> QED BY <1>3, <2>1, <2>2, FactsKept DEF fieldSweepNode, sweepNode, fieldVars
<1>4. ASSUME NEW r \in nodeStack, skipMergedNode(r) PROVE FieldInv'
  <2>1. FieldTypes'
    BY <1>4 DEF skipMergedNode, FieldTypes, fieldVars
  <2>2. GepsKept'
    BY <1>4 DEF skipMergedNode, GepsKept, IsGepGraph, fieldVars
  <2> QED BY <1>4, <2>1, <2>2, FactsKept DEF skipMergedNode, fieldVars
<1>5. ASSUME fieldPopFromWorklist PROVE FieldInv'
  <2>1. FieldTypes'
    BY <1>5, <1>a DEF fieldPopFromWorklist, popFromWorklist, processNode, FieldTypes, fieldVars
  <2>2. GepsKept'
    BY <1>5 DEF fieldPopFromWorklist, popFromWorklist, processNode, GepsKept, IsGepGraph,
                fieldVars, fieldsDone, collapsed, notCollapsing
  <2> QED BY <1>5, <2>1, <2>2, FactsKept DEF fieldPopFromWorklist, popFromWorklist, fieldVars
<1>6. ASSUME fieldHandleCopyGep PROVE FieldInv'
  <2>1. FieldTypes'
    BY <1>6 DEF fieldHandleCopyGep, handleCopyGep, FieldTypes, edges
  <2>2. GepsKept'
    BY <1>6 DEF fieldHandleCopyGep, handleCopyGep, GepsKept, IsGepGraph
  <2> QED BY <1>6, <2>1, <2>2, FactsKept DEF fieldHandleCopyGep, handleCopyGep
<1> QED BY <1>1, <1>2, <1>3, <1>4, <1>5, <1>6

(* The same of the handlers of addresses, loads, stores, copies and calls. *)
LEMMA HandlersKeep ==
  ASSUME FieldInv
  PROVE  /\ \A a \in todo : fieldProcessAddr(a) => FieldInv'
         /\ \A t \in todo : fieldProcessLoad(t[1], t[2]) => FieldInv'
         /\ \A t \in todo : fieldProcessStore(t[1], t[2]) => FieldInv'
         /\ \A e \in todo : fieldProcessCopy(e) => FieldInv'
         /\ fieldUpdateCallGraph => FieldInv'
         /\ \A c \in todo : fieldConnectCallParams(c) => FieldInv'
         /\ \A n \in cpySrcNodes : fieldPushCpySrcNode(n) => FieldInv'
         /\ fieldFinish => FieldInv'
<1> USE DEF FieldInv
<1>a. /\ Obj \subseteq Node /\ GepObj \subseteq Obj
      /\ \A a \in prog.addr : a[1] \in Obj \ GepObj /\ a[2] \in Node
      /\ IsProgram(prog)
  BY ObjectFacts, ProgramFacts DEF FieldTypes
<1>b. ASSUME pc' = pc, UNCHANGED fieldVars PROVE GepsKept'
  BY <1>b DEF GepsKept, IsGepGraph, fieldVars
<1>1. ASSUME NEW a \in todo, fieldProcessAddr(a) PROVE FieldInv'
  <2>1. a[1] \in Obj \ GepObj /\ a[2] \in Node
    BY <1>1, <1>a DEF fieldProcessAddr, processAddr, FieldTypes
  <2>2. FieldTypes'
    BY <1>1, <2>1 DEF fieldProcessAddr, processAddr, FieldTypes, fieldVars
  <2>3. \A m \in Node : pts'[m] \subseteq (Obj \ GepObj) \cup UNION {pts[k] : k \in Node}
    BY <1>1, <2>1 DEF fieldProcessAddr, processAddr, FieldTypes
  <2>4. FieldsTracked' /\ CollapseDue'
    BY <1>1, <2>3, <1>a, FactsMoved DEF fieldProcessAddr, processAddr, fieldVars
  <2> QED BY <1>1, <1>b, <2>2, <2>4 DEF fieldProcessAddr, processAddr
<1>2. ASSUME NEW t \in todo, processLoadStore(t[1], t[2]), pc = "loadstore", UNCHANGED fieldVars
      PROVE  FieldInv'
  <2> DEFINE o == t[1]
             e == t[2]
             new == derivedEdge(o, e)
             added == addCopyEdges(consCG, IF o \in ConstObj THEN {} ELSE {new})
  <2>1. o \in Node /\ e \in Edge
    BY <1>2, <1>a DEF FieldTypes
  <2>2. new \in Edge
    BY <2>1 DEF FieldTypes, derivedEdge, edge, Edge
  <2>3. DOMAIN added \subseteq Edge
    BY <2>2, AddCopyEdgesDomain DEF FieldTypes
  <2>4. DOMAIN consCG' = DOMAIN added
    BY <1>2, MergeEdgeGuardDomain DEF processLoadStore
  <2>5. FieldTypes'
    BY <1>2, <2>3, <2>4 DEF processLoadStore, FieldTypes, fieldVars
  <2>6. FieldsTracked' /\ CollapseDue'
    BY <1>2, FactsKept DEF processLoadStore, fieldVars
  <2> QED BY <1>2, <1>b, <2>5, <2>6 DEF processLoadStore
<1>3. ASSUME NEW e \in todo, fieldProcessCopy(e) PROVE FieldInv'
  <2>1. e.src \in Node /\ e.dst \in Node
    BY <1>3 DEF fieldProcessCopy, processCopy, FieldTypes, Edge
  <2>2. FieldTypes'
    <3>1. pts' \in [Node -> SUBSET Obj]
      BY <1>3, <2>1 DEF fieldProcessCopy, processCopy, FieldTypes
    <3>2. DOMAIN condPtsMap' = Node /\ \A n \in Node : DOMAIN condPtsMap'[n] = Obj
      BY <1>3, <2>1 DEF fieldProcessCopy, processCopy, FieldTypes
    <3> QED BY <1>3, <3>1, <3>2 DEF fieldProcessCopy, processCopy, FieldTypes, fieldVars
  <2>3. \A m \in Node : pts'[m] \subseteq UNION {pts[k] : k \in Node}
    BY <1>3, <2>1 DEF fieldProcessCopy, processCopy, FieldTypes
  <2>4. ASSUME NEW m \in Node, NEW o \in GepObj, condPtsMap'[m][o] # NoGuard
        PROVE  \E k \in Node : o \in pts[k] \/ condPtsMap[k][o] # NoGuard
    <3>1. condPtsMap'[m][o] = condPtsMap[m][o] \/ o \in passedObjs(e)
      BY <1>3, <2>1, <1>a DEF fieldProcessCopy, processCopy, FieldTypes
    <3>2. o \in passedObjs(e) => condPtsMap[e.src][o] # NoGuard \/ o \in pts[e.src]
      BY DEF passedObjs
    <3> QED BY <2>4, <3>1, <3>2, <2>1
  <2>5. FieldsTracked' /\ CollapseDue'
    BY <1>3, <2>3, <2>4, FactsMoved DEF fieldProcessCopy, processCopy, fieldVars
  <2> QED BY <1>3, <1>b, <2>2, <2>5 DEF fieldProcessCopy, processCopy
<1>4. ASSUME fieldUpdateCallGraph PROVE FieldInv'
  <2>1. FieldTypes'
    BY <1>4 DEF fieldUpdateCallGraph, updateCallGraph, newCalls, FieldTypes, fieldVars
  <2>2. GepsKept'
    BY <1>4 DEF fieldUpdateCallGraph, updateCallGraph, GepsKept, IsGepGraph, fieldVars,
                fieldsDone, collapsed, notCollapsing
  <2> QED BY <1>4, <2>1, <2>2, FactsKept DEF fieldUpdateCallGraph, updateCallGraph, fieldVars
<1>5. ASSUME NEW c \in todo, fieldConnectCallParams(c) PROVE FieldInv'
  <2>1. boundEdges(c) \subseteq Edge
    BY <1>5, <1>a DEF fieldConnectCallParams, connectCaller2CalleeParams, FieldTypes,
                      boundEdges, edge, Edge, IsProgram, IsCall
  <2>2. DOMAIN addCopyEdges(consCG, boundEdges(c)) \subseteq Edge
    BY <2>1, AddCopyEdgesDomain DEF FieldTypes
  <2>3. FieldTypes'
    BY <1>5, <2>2 DEF fieldConnectCallParams, connectCaller2CalleeParams, FieldTypes, fieldVars
  <2>4. FieldsTracked' /\ CollapseDue'
    BY <1>5, FactsKept DEF fieldConnectCallParams, connectCaller2CalleeParams, fieldVars
  <2> QED BY <1>5, <1>b, <2>3, <2>4 DEF fieldConnectCallParams, connectCaller2CalleeParams
<1>6. ASSUME NEW n \in cpySrcNodes, fieldPushCpySrcNode(n) PROVE FieldInv'
  <2>1. FieldTypes'
    BY <1>6 DEF fieldPushCpySrcNode, pushCpySrcNode, FieldTypes, fieldVars
  <2>2. FieldsTracked' /\ CollapseDue'
    BY <1>6, FactsKept DEF fieldPushCpySrcNode, pushCpySrcNode, fieldVars
  <2> QED BY <1>6, <1>b, <2>1, <2>2 DEF fieldPushCpySrcNode, pushCpySrcNode
<1>7. ASSUME fieldFinish PROVE FieldInv'
  <2>1. FieldTypes'
    BY <1>7 DEF fieldFinish, finish, FieldTypes, fieldVars
  <2>2. GepsKept'
    BY <1>7 DEF fieldFinish, finish, GepsKept, IsGepGraph, fieldVars, fieldsDone, collapsed,
                notCollapsing
  <2> QED BY <1>7, <2>1, <2>2, FactsKept DEF fieldFinish, finish, fieldVars
<1> QED
  BY <1>1, <1>2, <1>3, <1>4, <1>5, <1>6, <1>7
     DEF fieldProcessLoad, fieldProcessStore, processLoad, processStore

-----------------------------------------------------------------------------
(* The handlers of fields.                                                 *)

(* What a gep makes of an object: the object itself, its base, or a field  *)
(* of an object whose fields are still told apart.                         *)
LEMMA TranslatedField ==
  ASSUME FieldInv, NEW e \in DOMAIN gepCG, NEW o \in Obj
  PROVE  /\ translateField(o, e) \in Obj
         /\ \/ translateField(o, e) = o
            \/ translateField(o, e) \notin GepObj
            \/ /\ e.kind # "variantGep"
               /\ ~isFieldInsensitive(translateField(o, e))
<1>1. /\ \A q \in Obj : base[q] \in Obj /\ base[q] \notin GepObj
      /\ \A s \in geps, q \in Obj :
           gepObjVar(q, s.off) \in Obj /\ base[gepObjVar(q, s.off)] = base[q]
  BY ObjectFacts DEF FieldInv, FieldTypes
<1>2. PICK s \in geps : gepCG[e].off = s.off
  BY DEF FieldInv, GepsKept, IsGepGraph
<1>3. gepObjVar(o, gepCG[e].off) \in Obj /\ base[gepObjVar(o, gepCG[e].off)] = base[o]
  BY <1>1, <1>2
<1> QED BY <1>1, <1>3 DEF translateField, isFieldInsensitive

(* A gep may make an object field-insensitive, which it then asks to have  *)
(* collapsed, and creates fields only of objects that are not.             *)
LEMMA GepKeeps ==
  ASSUME FieldInv, NEW e \in gepTodo, fieldProcessGep(e)
  PROVE  FieldInv'
<1> DEFINE fields  == {translateField(o, e) : o \in pts[e.src]}
           arrived == {translateField(o, e) : o \in guardedObjs(e) \cup implicitObjs(e)}
<1>1. /\ e \in DOMAIN gepCG /\ e.src \in Node /\ e.dst \in Node
      /\ e.kind \in {"normalGep", "variantGep"}
      /\ GepObj \subseteq Obj /\ \A o \in Obj : base[o] \in Obj /\ base[o] \notin GepObj
  BY ObjectFacts DEF FieldInv, FieldTypes, GepsKept, IsGepGraph, GepEdge, fieldProcessGep
<1>2. /\ pts' = [pts EXCEPT ![e.dst] = @ \cup fields]
      /\ created' = created \cup ((fields \cup arrived) \cap GepObj)
      /\ fieldInsensitive' = fieldInsensitive \cup madeInsensitive(e)
      /\ nodesToBeCollapsed' = nodesToBeCollapsed \cup (madeInsensitive(e) \ fieldInsensitive)
      /\ pc = "propagate" /\ todo = {} /\ gepTodo' = gepTodo \ {e}
      /\ UNCHANGED <<prog, pc, todo, subs, consCG, rep, geps, gepCG, collapsing>>
  BY DEF fieldProcessGep
<1>3. /\ DOMAIN condPtsMap' = Node
      /\ \A n \in Node : DOMAIN condPtsMap'[n] = Obj
      /\ \A n \in Node, o \in Obj :
           condPtsMap'[n][o] = condPtsMap[n][o] \/ o \in arrived
  <2> DEFINE into(order) == [condPtsMap EXCEPT ![e.dst] =
               [f \in Obj |-> IF f \in arrived THEN guardsMerged(@[f], guardsInto(f, e, order))
                                              ELSE @[f]]]
  <2>1. condPtsMap' = condPtsMap \/ \E order : condPtsMap' = into(order)
    BY Zenon DEF fieldProcessGep
  <2>2. DOMAIN condPtsMap = Node /\ \A n \in Node : DOMAIN condPtsMap[n] = Obj
    BY DEF FieldInv, FieldTypes
  <2>3. CASE condPtsMap' = condPtsMap
    BY <2>2, <2>3
  <2>4. ASSUME NEW order, condPtsMap' = into(order)
        PROVE  /\ DOMAIN condPtsMap' = Node
               /\ \A n \in Node : DOMAIN condPtsMap'[n] = Obj
               /\ \A n \in Node, o \in Obj :
                    condPtsMap'[n][o] = condPtsMap[n][o] \/ o \in arrived
    <3> HIDE DEF arrived
    <3> QED BY <1>1, <2>2, <2>4
  <2> QED BY <2>1, <2>3, <2>4
<1>4. pts[e.src] \subseteq Obj /\ guardedObjs(e) \subseteq Obj /\ implicitObjs(e) \subseteq Obj
  BY <1>1 DEF FieldInv, FieldTypes, guardedObjs, implicitObjs
<1>5. fields \subseteq Obj
  BY <1>1, <1>4, TranslatedField
<1>6. FieldTypes'
  BY <1>1, <1>2, <1>3, <1>5 DEF FieldInv, FieldTypes
<1>7. GepsKept'
  BY <1>2 DEF FieldInv, GepsKept, IsGepGraph
<1>8. FieldsTracked'
  <2>1. \A n \in Node : pts'[n] \cap GepObj \subseteq created'
    BY <1>1, <1>2 DEF FieldInv, FieldTypes, FieldsTracked
  <2>2. \A n \in Node, o \in GepObj : condPtsMap'[n][o] # NoGuard => o \in created'
    BY <1>1, <1>2, <1>3 DEF FieldInv, FieldsTracked
  <2> QED BY <1>2, <2>1, <2>2 DEF FieldInv, FieldsTracked
<1>9. ASSUME NEW o \in pts[e.src] \cup guardedObjs(e) \cup implicitObjs(e), o \in GepObj
      PROVE  o \in created
  BY <1>1, <1>9 DEF FieldInv, FieldsTracked, guardedObjs, implicitObjs
<1>10. e.kind # "variantGep" => madeInsensitive(e) = {}
  BY DEF madeInsensitive
<1>11. ASSUME NEW f \in created', isFieldInsensitive(f)'
       PROVE  (base[f] \in nodesToBeCollapsed \/ f \in collapsing.fields \/ gone(f))'
  <2>1. base[f] \in fieldInsensitive \/ base[f] \in madeInsensitive(e) \ fieldInsensitive
    BY <1>2, <1>11 DEF isFieldInsensitive
  <2>2. CASE base[f] \in madeInsensitive(e) \ fieldInsensitive
    BY <1>2, <2>2
  <2>3. CASE base[f] \in fieldInsensitive
    <3>1. f \in created
      <4>1. SUFFICES ASSUME f \in fields \cup arrived, f \in GepObj PROVE f \in created
        BY <1>2, <1>11
      <4>2. PICK o \in pts[e.src] \cup guardedObjs(e) \cup implicitObjs(e) :
              f = translateField(o, e)
        BY <4>1
      <4>3. f = o
        BY <1>1, <1>4, <2>3, <4>1, <4>2, TranslatedField DEF isFieldInsensitive
      <4> QED BY <1>9, <4>1, <4>3
    <3>2. CASE base[f] \in nodesToBeCollapsed \/ f \in collapsing.fields
      BY <1>2, <3>2
    <3>3. CASE gone(f)
      <4>1. f \in GepObj
        BY <3>1 DEF FieldInv, FieldsTracked
      <4>2. f \notin fields
        <5>1. SUFFICES ASSUME NEW o \in pts[e.src], f = translateField(o, e) PROVE FALSE
          OBVIOUS
        <5>2. f = o
          BY <1>1, <1>4, <2>3, <4>1, <5>1, TranslatedField DEF isFieldInsensitive
        <5> QED BY <1>1, <3>3, <5>2 DEF gone
      <4> QED BY <1>1, <1>2, <3>3, <4>2 DEF gone, FieldInv, FieldTypes
    <3> QED BY <2>3, <3>1, <3>2, <3>3 DEF FieldInv, CollapseDue, isFieldInsensitive
  <2> QED BY <2>1, <2>2, <2>3
<1>12. CollapseDue'
  BY <1>11 DEF CollapseDue
<1> QED BY <1>6, <1>7, <1>8, <1>12 DEF FieldInv

(* The merges of the SCC loop only move facts.                             *)
LEMMA SCCMergeKeeps ==
  ASSUME FieldInv, NEW p \in subs, fieldMergeNodeToRep(p[1], p[2])
  PROVE  FieldInv'
<1>1. p[1] \in Node /\ p[2] \in Node /\ pts \in [Node -> SUBSET Obj]
  BY DEF FieldInv, FieldTypes
<1>2. mergeWithFields(p[1], p[2], pts) /\ geps' = geps /\ pc = "merge" /\ pc' = pc
  BY DEF fieldMergeNodeToRep
<1>3. FieldTypes /\ IsGepGraph(gepCG)
  BY DEF FieldInv, GepsKept
<1>4. /\ pts' \in [Node -> SUBSET Obj]
      /\ rep' \in [Node -> Node]
      /\ DOMAIN condPtsMap' = Node
      /\ \A m \in Node : DOMAIN condPtsMap'[m] = Obj
      /\ DOMAIN consCG' \subseteq Edge
      /\ IsGepGraph(gepCG)'
      /\ \A m \in Node : pts'[m] \subseteq UNION {pts[k] : k \in Node}
      /\ \A m \in Node, o \in Obj : condPtsMap'[m][o] # NoGuard =>
           \E k \in Node : condPtsMap[k][o] # NoGuard
      /\ \A k, m \in Node : rep[k] = rep[m] => rep'[k] = rep'[m]
  BY <1>1, <1>2, <1>3, MergeMoves
<1>5. FieldTypes'
  BY <1>4 DEF FieldInv, FieldTypes, fieldMergeNodeToRep
<1>6. GepsKept'
  BY <1>2, <1>4 DEF FieldInv, GepsKept, fieldMergeNodeToRep
<1>7. GepObj \subseteq Obj
  BY FieldAssumption
<1>8. FieldsTracked' /\ CollapseDue'
  BY <1>3, <1>4, <1>7, FactsMoved DEF FieldInv, fieldMergeNodeToRep
<1> QED BY <1>5, <1>6, <1>8 DEF FieldInv

(* A collapse begins with every field that exists.                         *)
LEMMA BeginCollapseKeeps ==
  ASSUME FieldInv, NEW o, beginCollapseField(o)
  PROVE  FieldInv'
<1>1. FieldTypes'
  BY DEF FieldInv, FieldTypes, beginCollapseField, vars
<1>2. GepsKept'
  BY DEF FieldInv, GepsKept, IsGepGraph, beginCollapseField, collapsePhase, vars
<1>3. FieldsTracked'
  BY DEF FieldInv, FieldsTracked, beginCollapseField, vars
<1>4. ASSUME NEW f \in created, isFieldInsensitive(f)'
      PROVE  (base[f] \in nodesToBeCollapsed \/ f \in collapsing.fields \/ gone(f))'
  <2>1. CASE base[f] = base[o]
    BY <2>1 DEF beginCollapseField
  <2>2. CASE base[f] # base[o]
    <3>1. base[f] \in nodesToBeCollapsed \/ gone(f)
      BY <1>4, <2>2 DEF FieldInv, CollapseDue, isFieldInsensitive, beginCollapseField,
                        notCollapsing
    <3>2. base[f] # o
      <4>1. f \in Obj
        BY FieldAssumption DEF FieldInv, FieldsTracked
      <4>2. base[base[f]] = base[f]
        BY <4>1, FieldAssumption
      <4> QED BY <2>2, <4>2
    <3>3. gone(f) => gone(f)'
      BY DEF gone, beginCollapseField, vars
    <3> QED BY <3>1, <3>2, <3>3 DEF beginCollapseField
  <2> QED BY <2>1, <2>2
<1>5. CollapseDue'
  BY <1>4 DEF CollapseDue, beginCollapseField
<1> QED BY <1>1, <1>2, <1>3, <1>5 DEF FieldInv

(* Its holders get the object, its node is merged into the object's: the   *)
(* field is gone, and no other field is touched.                           *)
LEMMA CollapseKeeps ==
  ASSUME FieldInv, NEW f \in collapsing.fields, collapseOneField(f)
  PROVE  FieldInv'
<1> DEFINE P == replacePts(f, base[f])
<1>1. /\ f \in created /\ f \in GepObj /\ f \in Obj /\ f \in Node
      /\ base[f] \in Obj /\ base[f] \in Node /\ base[f] \notin GepObj
      /\ \A g \in created : g \in GepObj /\ g \in Node /\ base[g] \in Node
  BY ObjectFacts DEF FieldInv, FieldTypes, FieldsTracked
<1>2. rep[f] \in Node /\ rep[base[f]] \in Node /\ P \in [Node -> SUBSET Obj]
  BY <1>1 DEF FieldInv, FieldTypes, replacePts
<1>3. /\ mergeWithFields(rep[f], rep[base[f]], P)
      /\ UNCHANGED <<prog, pc, todo, subs, geps, gepTodo, fieldInsensitive, created,
                     nodesToBeCollapsed>>
      /\ collapsing' = [collapsing EXCEPT !.fields = @ \ {f}]
  BY DEF collapseOneField
<1>4. FieldTypes /\ IsGepGraph(gepCG)
  BY DEF FieldInv, GepsKept
<1>5. /\ pts' \in [Node -> SUBSET Obj]
      /\ rep' \in [Node -> Node]
      /\ DOMAIN condPtsMap' = Node
      /\ \A m \in Node : DOMAIN condPtsMap'[m] = Obj
      /\ DOMAIN consCG' \subseteq Edge
      /\ IsGepGraph(gepCG)'
      /\ \A m \in Node : pts'[m] \subseteq UNION {P[k] : k \in Node}
      /\ \A m \in Node, o \in Obj : condPtsMap'[m][o] # NoGuard =>
           \E k \in Node : condPtsMap[k][o] # NoGuard
      /\ \A k, m \in Node : rep[k] = rep[m] => rep'[k] = rep'[m]
      /\ \A k, m \in Node : rep[k] = rep[f] /\ rep[m] = rep[base[f]] => rep'[k] = rep'[m]
  BY <1>2, <1>3, <1>4, MergeMoves
<1>6. FieldTypes'
  BY <1>3, <1>5 DEF FieldInv, FieldTypes
<1>7. collapsing'.fields = collapsing.fields \ {f} /\ DOMAIN collapsing' = {"base", "fields"}
  BY <1>3 DEF FieldInv, FieldsTracked
<1>8. GepsKept'
  BY <1>3, <1>5, <1>7 DEF FieldInv, GepsKept
<1>9. ASSUME NEW m \in Node, NEW g \in pts'[m], g \in GepObj
      PROVE  g # f /\ \E k \in Node : g \in pts[k]
  <2>1. PICK k \in Node : g \in P[k]
    BY <1>5, <1>9
  <2> QED BY <1>1, <1>9, <2>1 DEF replacePts
<1>10. FieldsTracked'
  <2>1. \A m \in Node : pts'[m] \cap GepObj \subseteq created'
    BY <1>3, <1>9 DEF FieldInv, FieldsTracked
  <2>2. \A m \in Node, o \in GepObj : condPtsMap'[m][o] # NoGuard => o \in created'
    BY <1>3, <1>5, FieldAssumption DEF FieldInv, FieldsTracked
  <2> QED BY <1>3, <1>7, <2>1, <2>2 DEF FieldInv, FieldsTracked
<1>11. gone(f)'
  BY <1>1, <1>5, <1>9 DEF gone
<1>12. ASSUME NEW g \in created, gone(g) PROVE gone(g)'
  <2>1. \A m \in Node : g \notin pts'[m]
    BY <1>1, <1>9, <1>12 DEF gone
  <2>2. rep'[g] = rep'[base[g]]
    BY <1>1, <1>5, <1>12 DEF gone
  <2> QED BY <2>1, <2>2 DEF gone
<1>13. CollapseDue'
  BY <1>3, <1>7, <1>11, <1>12 DEF FieldInv, CollapseDue, isFieldInsensitive
<1> QED BY <1>6, <1>8, <1>10, <1>13 DEF FieldInv

(* A collapse ends when no field is left.                                  *)
LEMMA EndCollapseKeeps ==
  ASSUME FieldInv, endCollapseField
  PROVE  FieldInv'
<1>1. FieldTypes'
  BY DEF FieldInv, FieldTypes, endCollapseField, vars
<1>2. GepsKept'
  BY DEF FieldInv, GepsKept, IsGepGraph, endCollapseField, notCollapsing, vars
<1>3. FieldsTracked'
  BY DEF FieldInv, FieldsTracked, endCollapseField, notCollapsing, vars
<1>4. CollapseDue'
  BY DEF FieldInv, CollapseDue, isFieldInsensitive, gone, endCollapseField, notCollapsing, vars
<1> QED BY <1>1, <1>2, <1>3, <1>4 DEF FieldInv

-----------------------------------------------------------------------------
(* Every handler keeps the invariant.                                      *)
LEMMA FieldInvStep == FieldInv /\ [FieldNext]_allVars => FieldInv'
<1> SUFFICES ASSUME FieldInv, [FieldNext]_allVars PROVE FieldInv' OBVIOUS
<1>1. CASE UNCHANGED allVars
  BY <1>1 DEF FieldInv, FieldTypes, GepsKept, IsGepGraph, FieldsTracked, CollapseDue,
              isFieldInsensitive, gone, allVars, vars, fieldVars
<1>2. CASE FieldNext
  BY <1>2, SolverStepsKeep, WorklistStepsKeep, HandlersKeep, GepKeeps, SCCMergeKeeps,
     BeginCollapseKeeps, CollapseKeeps, EndCollapseKeeps DEF FieldNext
<1> QED BY <1>1, <1>2

(* FieldsCollapsed: for every program, object layout and guard algebra,    *)
(* between two nodes nobody points to a field of a collapsed object, and   *)
(* the field's node is the object's, whatever ran before the collapse.     *)
THEOREM FieldsCollapsed == FieldSpec => []NoCollapsedFields
<1>1. FieldInv => NoCollapsedFields
  <2> SUFFICES ASSUME FieldInv, idle, fieldsDone,
                      NEW f \in created, isFieldInsensitive(f)
               PROVE  holders(f) = {} /\ rep[f] = rep[base[f]]
    BY DEF NoCollapsedFields
  <2>1. nodesToBeCollapsed = {} /\ collapsing.fields = {}
    BY DEF fieldsDone, collapsed, notCollapsing
  <2>2. gone(f)
    BY <2>1 DEF FieldInv, CollapseDue
  <2> QED BY <2>2 DEF gone, holders, live
<1> QED BY <1>1, FieldInvInit, FieldInvStep, PTL DEF FieldSpec

-----------------------------------------------------------------------------
(* Type correctness, and the shape of the state that precision rests on.   *)

(* Every load, store and gep edge stems from a statement between nodes     *)
(* that its ends stand for; no edge ends at a node that is not there.      *)
GraphStems ==
  /\ \A e \in DOMAIN consCG :
       /\ e.src \in inGraph /\ e.dst \in inGraph
       /\ e.kind # "copy" => \E s \in prog.stmts :
            s.kind = e.kind /\ rep[s.src] = e.src /\ rep[s.dst] = e.dst
  /\ \A e \in DOMAIN gepCG :
       /\ e.src \in inGraph /\ e.dst \in inGraph /\ e.src # e.dst
       /\ \E s \in geps : /\ s.kind = e.kind /\ gepCG[e].off = s.off
                          /\ rep[s.src] = e.src /\ rep[s.dst] = e.dst

(* A field that does not exist yet has not been merged into anything.      *)
RepsInGraph ==
  /\ \A m \in Node : IF m \in GepObj \ created THEN rep[m] = m ELSE rep[m] \in inGraph
  /\ pc = "addr" => \A m \in Node : rep[m] = m

(* The merges of the SCC loop, as in SubsWithin and RootsWithin.           *)
FieldSubs ==
  /\ pc # "merge" => subs = {}
  /\ \A p \in subs : p[1] \in inGraph /\ p[2] \in inGraph /\ p[1] # p[2]
  /\ \A p, q \in subs : p[2] = q[2]

FieldRoots ==
  pc = "merge" =>
    /\ \A r \in todo : r \in scc(r, reach) /\ scc(r, reach) \subseteq inGraph
    /\ \A r \in todo, p \in subs : p[1] \notin scc(r, reach) /\ p[2] \notin scc(r, reach)
    /\ \A r, q \in todo : r # q => scc(r, reach) \cap scc(q, reach) = {}

(* The loops walk edges that are there and objects that are pointed to.    *)
FieldLoops ==
  /\ pc = "loadstore" => \A t \in todo :
       /\ t[2] \in DOMAIN consCG /\ t[2].kind \in {"load", "store"}
       /\ t[1] \in pts[pointer(t[2])]
  /\ pc = "propagate" => todo \subseteq edges("copy")
  /\ pc = "update" => \A c \in todo : c.fun \in pts[rep[c.fp]]
  /\ pc = "attach" => gepTodo \subseteq geps
  /\ pc \notin {"attach", "propagate"} => gepTodo = {}

(* Collapses run only between the loops, over objects that have given up   *)
(* their fields.                                                           *)
FieldCollapses ==
  /\ pc \notin {"pwc", "propagate"} => collapsed
  /\ collapsing # notCollapsing \/ ptsToCollapse # {} => collapsePhase
  /\ fieldInsensitive \subseteq Obj \ GepObj
  /\ pwcNodes \subseteq live
  /\ nodesToBeCollapsed \subseteq fieldInsensitive
  /\ ptsToCollapse \subseteq Obj
  /\ \A o \in ptsToCollapse : ~isFieldInsensitive(o)
  /\ collapsing.base \subseteq fieldInsensitive
  /\ \A f \in collapsing.fields : base[f] \in collapsing.base
  /\ reanalyze \in BOOLEAN

FieldShape ==
  /\ GraphStems
  /\ RepsInGraph
  /\ FieldSubs
  /\ FieldRoots
  /\ FieldLoops
  /\ FieldCollapses

phases == {"addr", "attach", "merge", "pwc", "loadstore", "propagate", "update", "done"}

FieldState == FieldInv /\ FieldShape /\ pc \in phases

-----------------------------------------------------------------------------
(* Statements, calls and geps are about nodes that are in the graph from   *)
(* the start.                                                              *)
LEMMA StatementFacts ==
  ASSUME prog \in Programs, geps \in GepStmtSets(prog)
  PROVE  /\ \A a \in prog.addr : a[2] \in Node \ GepObj
         /\ \A s \in prog.stmts : s.src \in Node \ GepObj /\ s.dst \in Node \ GepObj
         /\ \A c \in prog.calls :
              /\ c.fp \in Node \ GepObj /\ c.fun \in Obj \ GepObj
              /\ \A arg \in c.args : arg[1] \in Node \ GepObj /\ arg[2] \in Node \ GepObj
         /\ \A s \in geps : /\ s.src \in Node \ GepObj /\ s.dst \in Node \ GepObj
                            /\ s.kind \in {"normalGep", "variantGep"}
                            /\ s.src # s.dst
<1>1. IsProgram(prog)
  BY ConstraintsAssumption
<1>2. /\ \A a \in prog.addr : a[2] \in Node \ GepObj
      /\ \A s \in prog.stmts : s.src \in Node \ GepObj /\ s.dst \in Node \ GepObj
  BY <1>1, FieldsOnDemandAssumption DEF IsProgram, IsStmt, edge, Edge
<1>3. \A c \in prog.calls :
        /\ c.fp \in Node \ GepObj /\ c.fun \in Obj \ GepObj
        /\ \A arg \in c.args : arg[1] \in Node \ GepObj /\ arg[2] \in Node \ GepObj
  <2>1. ASSUME NEW c \in prog.calls
        PROVE  c.fp \in Node /\ c.fun \in Obj /\ c.args \subseteq Node \X Node
    BY <1>1 DEF IsProgram, IsCall
  <2>2. ASSUME NEW c \in prog.calls
        PROVE  /\ c.fp \notin GepObj /\ c.fun \notin GepObj
               /\ \A arg \in c.args : arg[1] \notin GepObj /\ arg[2] \notin GepObj
    BY FieldsOnDemandAssumption
  <2>3. ASSUME NEW c \in prog.calls, NEW arg \in c.args
        PROVE  arg[1] \in Node /\ arg[2] \in Node
    BY <2>1
  <2> QED BY <2>1, <2>2, <2>3
<1>4. \A s \in geps : IsGepStmt(s)
  BY FieldAssumption
<1>5. \A s \in geps : s.src \notin GepObj /\ s.dst \notin GepObj
  BY FieldsOnDemandAssumption
<1> QED BY <1>2, <1>3, <1>4, <1>5 DEF IsGepStmt

(* Where the gep edges go when n is merged into r, and whose offset they   *)
(* keep.                                                                   *)
LEMMA ReTargetGepsFrom ==
  ASSUME NEW g, DOMAIN g \subseteq GepEdge, NEW side \in {"src", "dst"},
         NEW n \in Node, NEW r \in Node, n # r
  PROVE  \A e \in DOMAIN reTargetGeps(g, side, n, r) :
           /\ e \in GepEdge /\ e.src # e.dst
           /\ \E f \in DOMAIN g : /\ e = moved(f, side, n, r)
                                  /\ reTargetGeps(g, side, n, r)[e] = g[f]
<1> SUFFICES ASSUME NEW e \in DOMAIN reTargetGeps(g, side, n, r)
             PROVE  /\ e \in GepEdge /\ e.src # e.dst
                    /\ \E f \in DOMAIN g : /\ e = moved(f, side, n, r)
                                           /\ reTargetGeps(g, side, n, r)[e] = g[f]
  OBVIOUS
<1>1. PICK f \in DOMAIN g : e = moved(f, side, n, r)
  BY DEF reTargetGeps
<1>2. e.src # e.dst
  BY DEF reTargetGeps
<1>3. reTargetGeps(g, side, n, r)[e] =
        IF e \in DOMAIN g THEN g[e] ELSE g[[e EXCEPT ![side] = n]]
  BY DEF reTargetGeps
<1>4. f \in GepEdge
  OBVIOUS
<1>5. e \in GepEdge
  BY <1>1, <1>4 DEF moved, GepEdge
<1>6. CASE e \in DOMAIN g
  <2>1. e[side] # n
    BY <1>1, <1>4 DEF moved, GepEdge
  <2>2. moved(e, side, n, r) = e
    BY <2>1 DEF moved
  <2> QED BY <1>2, <1>3, <1>5, <1>6, <2>2
<1>7. CASE e \notin DOMAIN g
  <2>1. [e EXCEPT ![side] = n] = f
    BY <1>1, <1>4, <1>7 DEF moved, GepEdge
  <2> QED BY <1>1, <1>2, <1>3, <1>5, <1>7, <2>1
<1> QED BY <1>6, <1>7

(* Both ends of every gep edge are moved: what is left is the image of an  *)
(* edge, with its offset, and joins two nodes.                             *)
LEMMA MoveGepsFrom ==
  ASSUME NEW g, DOMAIN g \subseteq GepEdge, NEW n \in Node, NEW r \in Node, n # r
  PROVE  \A e \in DOMAIN reTargetGeps(reTargetGeps(g, "dst", n, r), "src", n, r) :
           /\ e.src # e.dst
           /\ \E f \in DOMAIN g :
                /\ e = mergedEdge(f, n, r)
                /\ reTargetGeps(reTargetGeps(g, "dst", n, r), "src", n, r)[e] = g[f]
<1> DEFINE h == reTargetGeps(g, "dst", n, r)
<1>1. \A e \in DOMAIN h :
        /\ e \in GepEdge
        /\ \E f \in DOMAIN g : e = moved(f, "dst", n, r) /\ h[e] = g[f]
  BY ReTargetGepsFrom
<1>2. DOMAIN h \subseteq GepEdge
  BY <1>1
<1> HIDE DEF h
<1>3. \A e \in DOMAIN reTargetGeps(h, "src", n, r) :
        /\ e.src # e.dst
        /\ \E f \in DOMAIN h : /\ e = moved(f, "src", n, r)
                               /\ reTargetGeps(h, "src", n, r)[e] = h[f]
  BY <1>2, ReTargetGepsFrom
<1>4. \A f \in GepEdge : moved(f, "dst", n, r) = edge(f.kind, f.src, end(f.dst, n, r))
  BY DEF moved, GepEdge, edge, end
<1>5. \A f \in GepEdge : moved(f, "src", n, r) = edge(f.kind, end(f.src, n, r), f.dst)
  BY DEF moved, GepEdge, edge, end
<1>6. \A f \in DOMAIN g :
        moved(f, "dst", n, r) \in GepEdge =>
          moved(moved(f, "dst", n, r), "src", n, r) = mergedEdge(f, n, r)
  BY <1>4, <1>5 DEF mergedEdge, edge
<1> QED BY <1>1, <1>3, <1>6 DEF h

-----------------------------------------------------------------------------
(* Merging n into r, in the SCC loop as in a collapse, moves every edge    *)
(* and takes n alone out of the graph.                                     *)
LEMMA MergeShape ==
  ASSUME FieldState, NEW n \in inGraph, NEW r \in inGraph, n # r,
         NEW P \in [Node -> SUBSET Obj], mergeWithFields(n, r, P),
         UNCHANGED <<prog, geps, created>>
  PROVE  /\ n \in Node /\ r \in Node /\ rep[n] = n /\ rep[r] = r
         /\ \A m \in Node : rep'[m] = end(rep[m], n, r)
         /\ \A m \in Node : pts'[m] = IF m = r THEN P[r] \cup P[n] ELSE P[m]
         /\ \A e \in DOMAIN consCG' : \E f \in DOMAIN consCG : e = mergedEdge(f, n, r)
         /\ live' = live \ {n}
         /\ inGraph' = inGraph \ {n}
         /\ GraphStems'
         /\ \A m \in Node : IF m \in GepObj \ created' THEN rep'[m] = m
                             ELSE rep'[m] \in inGraph'
         /\ pwcNodes' \subseteq live'
<1>1. /\ FieldTypes /\ IsGepGraph(gepCG) /\ GraphStems /\ RepsInGraph
      /\ pwcNodes \subseteq live
  BY DEF FieldState, FieldInv, GepsKept, FieldShape, FieldCollapses
<1>2. n \in Node /\ r \in Node /\ rep[n] = n /\ rep[r] = r
  BY DEF inGraph, live
<1>3. /\ pts' = [P EXCEPT ![r] = @ \cup P[n]]
      /\ consCG' = moveEdgesToRepNode(consCG, n, r)
      /\ gepCG' = reTargetGeps(reTargetGeps(gepCG, "dst", n, r), "src", n, r)
      /\ rep' = [m \in Node |-> IF rep[m] = n THEN r ELSE rep[m]]
      /\ pwcNodes' = (pwcNodes \ {n}) \cup (IF becomesPWC(n, r) THEN {r} ELSE {})
  BY DEF mergeWithFields
<1>4. \A m \in Node : rep'[m] = end(rep[m], n, r)
  BY <1>3 DEF end
<1>5. \A m \in Node : pts'[m] = IF m = r THEN P[r] \cup P[n] ELSE P[m]
  BY <1>2, <1>3
<1>6. \A e \in DOMAIN consCG' : \E f \in DOMAIN consCG : e = mergedEdge(f, n, r)
  <2>1. DOMAIN consCG \subseteq Edge
    BY <1>1 DEF FieldTypes
  <2> QED BY <1>2, <1>3, <2>1, MoveEdgesDomain
<1>7. \A e \in DOMAIN gepCG' :
        /\ e.src # e.dst
        /\ \E f \in DOMAIN gepCG : e = mergedEdge(f, n, r) /\ gepCG'[e] = gepCG[f]
  <2>1. DOMAIN gepCG \subseteq GepEdge
    BY <1>1 DEF IsGepGraph
  <2>2. PICK h : h = reTargetGeps(reTargetGeps(gepCG, "dst", n, r), "src", n, r)
    OBVIOUS
  <2>3. \A e \in DOMAIN h :
          /\ e.src # e.dst
          /\ \E f \in DOMAIN gepCG : e = mergedEdge(f, n, r) /\ h[e] = gepCG[f]
    BY <1>2, <2>1, <2>2, MoveGepsFrom
  <2> QED BY <1>3, <2>2, <2>3
<1>8. live' = live \ {n}
  BY <1>2, <1>4 DEF live, end
<1>9. inGraph' = inGraph \ {n}
  BY <1>8 DEF inGraph
<1>10. GraphStems'
  <2>1. \A s \in prog.stmts : s.src \in Node /\ s.dst \in Node
    BY <1>1, StatementFacts DEF FieldTypes
  <2>2. \A s \in geps : s.src \in Node /\ s.dst \in Node
    BY <1>1, StatementFacts DEF FieldTypes
  <2>3. \A x \in inGraph : end(x, n, r) \in inGraph'
    BY <1>9 DEF end
  <2>4. ASSUME NEW e \in DOMAIN consCG'
        PROVE  /\ e.src \in inGraph' /\ e.dst \in inGraph'
               /\ e.kind # "copy" => \E s \in prog.stmts :
                    s.kind = e.kind /\ rep'[s.src] = e.src /\ rep'[s.dst] = e.dst
    <3>1. PICK f \in DOMAIN consCG : e = mergedEdge(f, n, r)
      BY <1>6
    <3>2. e.kind = f.kind /\ e.src = end(f.src, n, r) /\ e.dst = end(f.dst, n, r)
      BY <3>1 DEF mergedEdge, edge
    <3> QED BY <1>1, <1>4, <2>1, <2>3, <3>2 DEF GraphStems
  <2>5. ASSUME NEW e \in DOMAIN gepCG'
        PROVE  /\ e.src \in inGraph' /\ e.dst \in inGraph' /\ e.src # e.dst
               /\ \E s \in geps : /\ s.kind = e.kind /\ gepCG'[e].off = s.off
                                  /\ rep'[s.src] = e.src /\ rep'[s.dst] = e.dst
    <3>1. PICK f \in DOMAIN gepCG : e = mergedEdge(f, n, r) /\ gepCG'[e] = gepCG[f]
      BY <1>7
    <3>2. e.kind = f.kind /\ e.src = end(f.src, n, r) /\ e.dst = end(f.dst, n, r)
      BY <3>1 DEF mergedEdge, edge
    <3> QED BY <1>1, <1>4, <1>7, <2>2, <2>3, <3>1, <3>2 DEF GraphStems
  <2> QED BY <2>4, <2>5 DEF GraphStems
<1>11. \A m \in Node : IF m \in GepObj \ created' THEN rep'[m] = m
                       ELSE rep'[m] \in inGraph'
  <2> SUFFICES ASSUME NEW m \in Node
               PROVE  IF m \in GepObj \ created THEN rep'[m] = m ELSE rep'[m] \in inGraph'
    OBVIOUS
  <2>1. CASE m \in GepObj \ created
    <3>1. rep[m] = m /\ m # n
      BY <1>1, <2>1 DEF RepsInGraph, inGraph
    <3> QED BY <1>4, <2>1, <3>1 DEF end
  <2>2. CASE m \notin GepObj \ created
    BY <1>1, <1>4, <1>9, <2>2 DEF RepsInGraph, end
  <2> QED BY <2>1, <2>2
<1>12. pwcNodes' \subseteq live'
  BY <1>1, <1>2, <1>3, <1>8 DEF inGraph
<1> QED BY <1>2, <1>4, <1>5, <1>6, <1>8, <1>9, <1>10, <1>11, <1>12

(* What a handler that neither merges nor walks edges must leave alone.    *)
LEMMA StemsKept ==
  ASSUME GraphStems, UNCHANGED <<prog, geps, rep>>, inGraph \subseteq inGraph',
         \A e \in DOMAIN consCG' : \/ e \in DOMAIN consCG
                                  \/ /\ e.kind = "copy"
                                     /\ e.src \in inGraph' /\ e.dst \in inGraph',
         DOMAIN gepCG' = DOMAIN gepCG,
         \A e \in DOMAIN gepCG : gepCG'[e].off = gepCG[e].off
  PROVE  GraphStems'
<1>1. \A e \in DOMAIN consCG' :
        /\ e.src \in inGraph' /\ e.dst \in inGraph'
        /\ e.kind # "copy" => \E s \in prog'.stmts :
             s.kind = e.kind /\ rep'[s.src] = e.src /\ rep'[s.dst] = e.dst
  BY DEF GraphStems
<1>2. \A e \in DOMAIN gepCG' :
        /\ e.src \in inGraph' /\ e.dst \in inGraph' /\ e.src # e.dst
        /\ \E s \in geps' : /\ s.kind = e.kind /\ gepCG'[e].off = s.off
                            /\ rep'[s.src] = e.src /\ rep'[s.dst] = e.dst
  BY DEF GraphStems
<1> QED BY <1>1, <1>2 DEF GraphStems

(* A handler that leaves the edges and the merged nodes alone.             *)
LEMMA GraphKept ==
  ASSUME GraphStems, RepsInGraph, UNCHANGED <<prog, geps, rep, created, gepCG>>,
         DOMAIN consCG' = DOMAIN consCG, pc' # "addr" \/ pc = "addr"
  PROVE  GraphStems' /\ RepsInGraph' /\ inGraph' = inGraph /\ live' = live
<1>1. live' = live
  BY DEF live
<1>2. inGraph' = inGraph
  BY <1>1 DEF inGraph
<1>3. GraphStems'
  BY <1>2, StemsKept
<1>4. RepsInGraph'
  BY <1>2 DEF RepsInGraph
<1> QED BY <1>1, <1>2, <1>3, <1>4

-----------------------------------------------------------------------------
(* In the first state every edge is its own statement and every node       *)
(* stands for itself.                                                      *)
LEMMA ShapeInit == FieldInit => FieldState
<1> SUFFICES ASSUME FieldInit PROVE FieldState OBVIOUS
<1>1. FieldInv /\ Init
  BY FieldInvInit DEF FieldInit
<1>2. /\ prog \in Programs /\ geps \in GepStmtSets(prog) /\ rep = [n \in Node |-> n]
      /\ pc = "addr" /\ subs = {} /\ created = {}
  BY <1>1 DEF Init, FieldInv, FieldTypes, FieldInit
<1>3. live = Node /\ inGraph = Node \ GepObj
  BY <1>2 DEF live, inGraph
<1>4. GraphStems
  <2>1. ASSUME NEW e \in DOMAIN consCG
        PROVE  /\ e.src \in inGraph /\ e.dst \in inGraph
               /\ \E s \in prog.stmts :
                    s.kind = e.kind /\ rep[s.src] = e.src /\ rep[s.dst] = e.dst
    <3>1. PICK s \in prog.stmts : e = edge(s.kind, s.src, s.dst)
      BY <1>1 DEF Init
    <3> QED BY <1>2, <1>3, <3>1, StatementFacts DEF edge
  <2>2. ASSUME NEW e \in DOMAIN gepCG
        PROVE  /\ e.src \in inGraph /\ e.dst \in inGraph /\ e.src # e.dst
               /\ \E s \in geps : /\ s.kind = e.kind /\ gepCG[e].off = s.off
                                  /\ rep[s.src] = e.src /\ rep[s.dst] = e.dst
    <3>1. /\ \E s \in geps : gepEdge(s) = e
          /\ gepCG[e].off = (CHOOSE s \in geps : gepEdge(s) = e).off
      BY DEF FieldInit
    <3>2. PICK s \in geps : gepEdge(s) = e /\ gepCG[e].off = s.off
      BY <3>1
    <3> QED BY <1>2, <1>3, <3>2, StatementFacts DEF gepEdge
  <2> QED BY <2>1, <2>2 DEF GraphStems
<1>5. RepsInGraph
  BY <1>2, <1>3 DEF RepsInGraph
<1>6. FieldSubs /\ FieldRoots
  BY <1>2 DEF FieldSubs, FieldRoots
<1>7. FieldLoops
  BY <1>2 DEF FieldLoops, FieldInit
<1>8. FieldCollapses
  BY FieldAssumption DEF FieldCollapses, FieldInit, collapsed, notCollapsing
<1> QED BY <1>1, <1>2, <1>4, <1>5, <1>6, <1>7, <1>8 DEF FieldState, FieldShape, phases

(* Handlers that leave the graph, the facts and the merges alone and stay  *)
(* outside of merging and collapsing.                                      *)
LEMMA CollapsesKept ==
  ASSUME FieldCollapses, pc' \in {"pwc", "propagate"} \/ collapsed,
         pc' = pc \/ (collapsing = notCollapsing /\ ptsToCollapse = {}),
         todo' \subseteq todo \/ (collapsing = notCollapsing /\ ptsToCollapse = {}),
         gepTodo' \subseteq gepTodo \/ (collapsing = notCollapsing /\ ptsToCollapse = {}),
         UNCHANGED <<rep, fieldInsensitive, pwcNodes, nodesToBeCollapsed, ptsToCollapse,
                     collapsing>>,
         reanalyze' \in BOOLEAN
  PROVE  FieldCollapses'
<1>1. collapsed' = collapsed
  BY DEF collapsed, notCollapsing
<1>2. (collapsing # notCollapsing \/ ptsToCollapse # {}) => collapsePhase'
  BY DEF FieldCollapses, collapsePhase
<1>3. live' = live
  BY DEF live
<1>4. \A o \in ptsToCollapse : isFieldInsensitive(o)' = isFieldInsensitive(o)
  BY DEF isFieldInsensitive
<1> QED BY <1>1, <1>2, <1>3, <1>4 DEF FieldCollapses, notCollapsing

-----------------------------------------------------------------------------
(* The handlers up to the merge loop.                                      *)
LEMMA SolverStepsShape ==
  ASSUME FieldState
  PROVE  /\ \A a \in todo : fieldProcessAddr(a) => FieldShape' /\ pc' \in phases
         /\ fieldBeginAttach => FieldShape' /\ pc' \in phases
         /\ \A s \in todo : fieldAttachStaticEdgeGuard(s) => FieldShape' /\ pc' \in phases
         /\ \A s \in gepTodo : attachGepGuard(s) => FieldShape' /\ pc' \in phases
<1>a. /\ FieldInv /\ GraphStems /\ RepsInGraph /\ FieldSubs /\ FieldRoots /\ FieldLoops
      /\ FieldCollapses /\ FieldTypes /\ pc \in phases
  BY DEF FieldState, FieldShape, FieldInv
<1>1. ASSUME NEW a \in todo, fieldProcessAddr(a) PROVE FieldShape' /\ pc' \in phases
  <2>1. /\ pc = "addr" /\ pc' = pc /\ todo' \subseteq todo
        /\ UNCHANGED <<prog, subs, consCG, rep, fieldVars>>
    BY <1>1 DEF fieldProcessAddr, processAddr
  <2>2. GraphStems' /\ RepsInGraph'
    BY <1>a, <2>1, GraphKept DEF fieldVars
  <2>3. FieldSubs' /\ FieldRoots' /\ FieldLoops'
    BY <1>a, <2>1 DEF FieldSubs, FieldRoots, FieldLoops, fieldVars
  <2>4. FieldCollapses'
    <3>1. collapsed /\ reanalyze' \in BOOLEAN
      BY <1>a, <2>1 DEF FieldCollapses, fieldVars
    <3> QED BY <1>a, <2>1, <3>1, CollapsesKept DEF fieldVars
  <2> QED BY <1>a, <2>1, <2>2, <2>3, <2>4 DEF FieldShape
<1>2. ASSUME fieldBeginAttach PROVE FieldShape' /\ pc' \in phases
  <2>1. /\ pc = "addr" /\ pc' = "attach" /\ gepTodo' = geps
        /\ UNCHANGED <<prog, subs, pts, consCG, rep, geps, gepCG, fieldInsensitive, created,
                       pwcNodes, nodesToBeCollapsed, ptsToCollapse, collapsing, reanalyze>>
    BY <1>2 DEF fieldBeginAttach, beginAttach
  <2>2. GraphStems' /\ RepsInGraph'
    BY <1>a, <2>1, GraphKept
  <2>3. FieldSubs' /\ FieldRoots' /\ FieldLoops'
    BY <1>a, <2>1 DEF FieldSubs, FieldRoots, FieldLoops
  <2>4. FieldCollapses'
    <3>1. collapsed /\ reanalyze' \in BOOLEAN
      BY <1>a, <2>1 DEF FieldCollapses
    <3> QED BY <1>a, <2>1, <3>1, CollapsesKept DEF collapsed
  <2> QED BY <2>1, <2>2, <2>3, <2>4 DEF FieldShape, phases
<1>3. ASSUME NEW s \in todo, fieldAttachStaticEdgeGuard(s) PROVE FieldShape' /\ pc' \in phases
  <2>1. /\ pc = "attach" /\ pc' = pc /\ todo' \subseteq todo
        /\ DOMAIN consCG' = DOMAIN consCG
        /\ UNCHANGED <<prog, subs, pts, rep, fieldVars>>
    BY <1>3, MergeEdgeGuardDomain DEF fieldAttachStaticEdgeGuard, attachStaticEdgeGuard
  <2>2. GraphStems' /\ RepsInGraph'
    BY <1>a, <2>1, GraphKept DEF fieldVars
  <2>3. FieldSubs' /\ FieldRoots' /\ FieldLoops'
    BY <1>a, <2>1 DEF FieldSubs, FieldRoots, FieldLoops, fieldVars
  <2>4. FieldCollapses'
    <3>1. collapsed /\ reanalyze' \in BOOLEAN
      BY <1>a, <2>1 DEF FieldCollapses, fieldVars
    <3> QED BY <1>a, <2>1, <3>1, CollapsesKept DEF fieldVars
  <2> QED BY <1>a, <2>1, <2>2, <2>3, <2>4 DEF FieldShape
<1>4. ASSUME NEW s \in gepTodo, attachGepGuard(s) PROVE FieldShape' /\ pc' \in phases
  <2>1. /\ pc = "attach" /\ pc' = pc /\ gepTodo' \subseteq gepTodo
        /\ DOMAIN gepCG' = DOMAIN gepCG
        /\ \A e \in DOMAIN gepCG : gepCG'[e].off = gepCG[e].off
        /\ UNCHANGED <<prog, todo, subs, pts, consCG, rep, geps, fieldInsensitive, created,
                       pwcNodes, nodesToBeCollapsed, ptsToCollapse, collapsing, reanalyze>>
    BY <1>4 DEF attachGepGuard, vars
  <2>2. inGraph' = inGraph
    BY <2>1 DEF inGraph, live
  <2>3. GraphStems' /\ RepsInGraph'
    <3>1. GraphStems'
      BY <1>a, <2>1, <2>2, StemsKept
    <3> QED BY <1>a, <2>1, <2>2, <3>1 DEF RepsInGraph
  <2>4. FieldSubs' /\ FieldRoots' /\ FieldLoops'
    BY <1>a, <2>1 DEF FieldSubs, FieldRoots, FieldLoops
  <2>5. FieldCollapses'
    <3>1. collapsed /\ reanalyze' \in BOOLEAN
      BY <1>a, <2>1 DEF FieldCollapses
    <3> QED BY <1>a, <2>1, <3>1, CollapsesKept
  <2> QED BY <1>a, <2>1, <2>3, <2>4, <2>5 DEF FieldShape
<1> QED BY <1>1, <1>2, <1>3, <1>4

(* Reachability along copies and geps is reflexive and transitive.         *)
LEMMA FieldReachTransitive ==
  /\ fieldReachable \subseteq inGraph \X inGraph
  /\ \A n \in inGraph : <<n, n>> \in fieldReachable
  /\ \A x, y, z : <<x, y>> \in fieldReachable /\ <<y, z>> \in fieldReachable
                    => <<x, z>> \in fieldReachable
BY DEF fieldReachable

(* The SCCs it finds are disjoint and in the graph.                        *)
LEMMA SCCDetectShape ==
  ASSUME FieldState, fieldSCCDetect
  PROVE  FieldShape' /\ pc' \in phases
<1>a. /\ FieldInv /\ GraphStems /\ RepsInGraph /\ FieldSubs /\ FieldRoots /\ FieldLoops
      /\ FieldCollapses /\ FieldTypes /\ pc \in phases
  BY DEF FieldState, FieldShape, FieldInv
<1>1. /\ pc' = "merge" /\ reach' = fieldReachable /\ reanalyze' = FALSE
      /\ UNCHANGED <<prog, subs, pts, consCG, rep, geps, gepCG, gepTodo, fieldInsensitive,
                     created, pwcNodes, nodesToBeCollapsed, ptsToCollapse, collapsing>>
  BY DEF fieldSCCDetect, newRound
<1>2. subs = {} /\ gepTodo = {} /\ collapsed
  BY <1>a DEF fieldSCCDetect, fieldsSolved, fieldsDone, solved, idle, FieldSubs, FieldCollapses
<1>3. GraphStems' /\ RepsInGraph' /\ inGraph' = inGraph
  BY <1>a, <1>1, GraphKept
<1>4. PICK roots \in SUBSET inGraph :
        /\ \A r, q \in roots : q \in scc(r, reach') => q = r
        /\ todo' = {r \in roots : scc(r, reach') # {r}}
  BY DEF fieldSCCDetect
<1>5. inGraph \subseteq Node
  BY DEF inGraph, live
<1>6. \A r \in todo' : r \in scc(r, reach') /\ scc(r, reach') \subseteq inGraph
  BY <1>1, <1>4, <1>5, FieldReachTransitive DEF scc
<1>7. ASSUME NEW r \in todo', NEW q \in todo', NEW x \in scc(r, reach'), x \in scc(q, reach')
      PROVE  r = q
  <2>1. r \in roots /\ q \in roots /\ q \in Node
    BY <1>4, <1>5
  <2>2. q \in scc(r, reach')
    BY <1>1, <1>7, <2>1, FieldReachTransitive DEF scc
  <2> QED BY <1>4, <2>1, <2>2
<1>8. FieldRoots'
  BY <1>1, <1>2, <1>3, <1>6, <1>7 DEF FieldRoots, scc
<1>9. FieldSubs' /\ FieldLoops'
  BY <1>1, <1>2 DEF FieldSubs, FieldLoops
<1>10. FieldCollapses'
  BY <1>a, <1>1, <1>2, CollapsesKept DEF collapsed
<1> QED BY <1>1, <1>3, <1>8, <1>9, <1>10 DEF FieldShape, phases

(* The pairs of an SCC send its other nodes to one of them.                *)
LEMMA BeginSCCShape ==
  ASSUME FieldState, NEW r \in todo, fieldBeginSCC(r)
  PROVE  FieldShape' /\ pc' \in phases
<1>a. /\ FieldInv /\ GraphStems /\ RepsInGraph /\ FieldSubs /\ FieldRoots /\ FieldLoops
      /\ FieldCollapses /\ FieldTypes /\ pc \in phases
  BY DEF FieldState, FieldShape, FieldInv
<1>1. /\ pc = "merge" /\ pc' = pc /\ todo' = todo \ {r} /\ subs = {}
      /\ \A p \in subs' : \E n \in scc(r, reach) \ {r} : p = <<n, r>>
      /\ UNCHANGED <<prog, reach, pts, consCG, rep, fieldVars>>
  BY DEF fieldBeginSCC
<1>2. GraphStems' /\ RepsInGraph' /\ inGraph' = inGraph
  BY <1>a, <1>1, GraphKept DEF fieldVars
<1>3. r \in scc(r, reach) /\ scc(r, reach) \subseteq inGraph
  BY <1>a, <1>1 DEF FieldRoots
<1>4. FieldSubs'
  BY <1>1, <1>2, <1>3 DEF FieldSubs
<1>5. FieldRoots'
  <2>1. \A q \in todo' : scc(r, reach) \cap scc(q, reach) = {}
    BY <1>a, <1>1 DEF FieldRoots
  <2>2. \A q \in todo', p \in subs' : p[1] \notin scc(q, reach) /\ p[2] \notin scc(q, reach)
    BY <1>1, <1>3, <2>1
  <2> QED BY <1>a, <1>1, <1>2, <2>2 DEF FieldRoots, scc
<1>6. FieldLoops'
  BY <1>a, <1>1 DEF FieldLoops, fieldVars
<1>7. FieldCollapses'
  <2>1. collapsed /\ reanalyze' \in BOOLEAN
    BY <1>a, <1>1 DEF FieldCollapses, fieldVars
  <2> QED BY <1>a, <1>1, <2>1, CollapsesKept DEF fieldVars
<1> QED BY <1>a, <1>1, <1>2, <1>4, <1>5, <1>6, <1>7 DEF FieldShape

(* A merge takes its node out of the pairs and of no other SCC.            *)
LEMMA SCCMergeShape ==
  ASSUME FieldState, NEW p \in subs, fieldMergeNodeToRep(p[1], p[2])
  PROVE  FieldShape' /\ pc' \in phases
<1> DEFINE n == p[1]
           r == p[2]
<1>a. /\ FieldInv /\ GraphStems /\ RepsInGraph /\ FieldSubs /\ FieldRoots /\ FieldLoops
      /\ FieldCollapses /\ FieldTypes /\ pc \in phases
  BY DEF FieldState, FieldShape, FieldInv
<1>1. /\ n \in inGraph /\ r \in inGraph /\ n # r /\ pts \in [Node -> SUBSET Obj]
      /\ p \in Node \X Node
  BY <1>a DEF FieldSubs, FieldTypes
<1>2. /\ pc = "merge" /\ mergeWithFields(n, r, pts) /\ subs' = subs \ {<<n, r>>}
      /\ UNCHANGED <<prog, pc, todo, reach, geps, gepTodo, fieldInsensitive, created,
                     nodesToBeCollapsed, ptsToCollapse, collapsing, reanalyze>>
  BY DEF fieldMergeNodeToRep
<1> HIDE DEF n, r
<1>3. /\ inGraph' = inGraph \ {n}
      /\ GraphStems'
      /\ \A m \in Node : IF m \in GepObj \ created' THEN rep'[m] = m ELSE rep'[m] \in inGraph'
      /\ pwcNodes' \subseteq live'
  BY <1>1, <1>2, MergeShape
<1>4. RepsInGraph'
  BY <1>2, <1>3 DEF RepsInGraph
<1>5. ASSUME NEW q \in subs' PROVE q[1] # n /\ q[2] = r
  <2>1. q \in subs /\ q # <<n, r>> /\ q \in Node \X Node /\ q[2] = r
    BY <1>a, <1>2 DEF FieldTypes, FieldSubs, n, r
  <2> QED BY <2>1
<1>6. FieldSubs'
  BY <1>a, <1>1, <1>2, <1>3, <1>5 DEF FieldSubs
<1>7. FieldRoots'
  <2>1. \A q \in todo : n \notin scc(q, reach)
    BY <1>a, <1>2 DEF FieldRoots, n
  <2>2. /\ \A q \in todo : q \in scc(q, reach) /\ scc(q, reach) \subseteq inGraph'
        /\ \A q \in todo, s \in subs' : s[1] \notin scc(q, reach) /\ s[2] \notin scc(q, reach)
        /\ \A q, s \in todo : q # s => scc(q, reach) \cap scc(s, reach) = {}
    BY <1>a, <1>2, <1>3, <2>1 DEF FieldRoots
  <2> QED BY <1>2, <2>2 DEF FieldRoots, scc
<1>8. FieldLoops'
  BY <1>a, <1>2 DEF FieldLoops
<1>9. FieldCollapses'
  <2>1. collapsed
    BY <1>a, <1>2 DEF FieldCollapses
  <2> QED BY <1>a, <1>2, <1>3, <2>1 DEF FieldCollapses, collapsed, notCollapsing,
                                            isFieldInsensitive
<1> QED BY <1>a, <1>2, <1>3, <1>4, <1>6, <1>7, <1>8, <1>9 DEF FieldShape

-----------------------------------------------------------------------------
(* The steps of the sweep and the worklist take up a node, and touch       *)
(* neither graph nor facts.                                                *)
LEMMA TakenUp ==
  ASSUME FieldState, NEW n, processNode(n), UNCHANGED <<prog, subs, pts, consCG, rep>>,
         UNCHANGED fieldVars, subs = {}, collapsed, gepTodo = {}
  PROVE  FieldShape' /\ pc' \in phases
<1>a. /\ GraphStems /\ RepsInGraph /\ FieldLoops /\ FieldCollapses
  BY DEF FieldState, FieldShape
<1>1. GraphStems' /\ RepsInGraph'
  BY <1>a, GraphKept DEF processNode, fieldVars
<1>2. FieldSubs' /\ FieldRoots'
  BY DEF FieldSubs, FieldRoots, processNode
<1>3. FieldLoops'
  <2>1. \A t \in todo' : /\ t[2] \in DOMAIN consCG /\ t[2].kind \in {"load", "store"}
                         /\ t[1] \in pts[pointer(t[2])]
    BY DEF processNode, through, pointer
  <2> QED BY <2>1 DEF FieldLoops, processNode, fieldVars
<1>4. FieldCollapses'
  <2>1. reanalyze' \in BOOLEAN
    BY <1>a DEF FieldCollapses, fieldVars
  <2> QED BY <1>a, <2>1, CollapsesKept DEF collapsed, fieldVars
<1> QED BY <1>1, <1>2, <1>3, <1>4 DEF FieldShape, processNode, phases

(* Taking up the next node, or skipping one that a collapse has merged.    *)
LEMMA WorklistStepsShape ==
  ASSUME FieldState
  PROVE  /\ \A r \in nodeStack : collapsePWCNode(r) => FieldShape' /\ pc' \in phases
         /\ processPWCNode => FieldShape' /\ pc' \in phases
         /\ \A r \in nodeStack : fieldSweepNode(r) => FieldShape' /\ pc' \in phases
         /\ \A r \in nodeStack : skipMergedNode(r) => FieldShape' /\ pc' \in phases
         /\ fieldPopFromWorklist => FieldShape' /\ pc' \in phases
         /\ fieldHandleCopyGep => FieldShape' /\ pc' \in phases
<1>a. /\ FieldInv /\ GraphStems /\ RepsInGraph /\ FieldSubs /\ FieldRoots /\ FieldLoops
      /\ FieldCollapses /\ FieldTypes /\ pc \in phases
  BY DEF FieldState, FieldShape, FieldInv
<1>1. ASSUME NEW r \in nodeStack, collapsePWCNode(r) PROVE FieldShape' /\ pc' \in phases
  <2>1. /\ todo = {} /\ subs = {} /\ gepTodo = {} /\ collapsed /\ pc' = "pwc"
        /\ ptsToCollapse' = collapsible(pts[rep[r]]) /\ rep[r] \in pwcNodes
        /\ UNCHANGED <<prog, todo, subs, pts, consCG, rep, geps, gepCG, gepTodo, reanalyze,
                       fieldInsensitive, created, pwcNodes, nodesToBeCollapsed, collapsing>>
    BY <1>1 DEF collapsePWCNode, idle, fieldsDone
  <2>2. GraphStems' /\ RepsInGraph' /\ live' = live
    BY <1>a, <2>1, GraphKept
  <2>3. FieldSubs' /\ FieldRoots' /\ FieldLoops'
    BY <2>1 DEF FieldSubs, FieldRoots, FieldLoops
  <2>4. ptsToCollapse' \subseteq Obj /\ \A o \in ptsToCollapse' : ~isFieldInsensitive(o)'
    <3>1. pts[rep[r]] \subseteq Obj
      BY <1>a, <2>1 DEF FieldTypes, FieldCollapses, live
    <3> QED BY <2>1, <3>1 DEF collapsible, isFieldInsensitive
  <2>5. FieldCollapses'
    BY <1>a, <2>1, <2>2, <2>4 DEF FieldCollapses, collapsePhase, collapsed, notCollapsing
  <2> QED BY <2>1, <2>2, <2>3, <2>5 DEF FieldShape, phases
<1>2. ASSUME processPWCNode PROVE FieldShape' /\ pc' \in phases
  <2>1. /\ pc = "pwc" /\ collapsed /\ UNCHANGED <<prog, subs, pts, consCG, rep, fieldVars>>
    BY <1>2 DEF processPWCNode
  <2>2. subs = {} /\ gepTodo = {} /\ todo = {}
    BY <1>a, <2>1 DEF FieldSubs, FieldLoops, FieldTypes
  <2>3. CASE rep[cur] = cur
    <3>1. processNode(cur)
      BY <1>2, <2>3 DEF processPWCNode
    <3> QED BY <2>1, <2>2, <3>1, TakenUp
  <2>4. CASE rep[cur] # cur
    <3>1. pc' = "propagate" /\ todo' = todo
      BY <1>2, <2>4 DEF processPWCNode
    <3>2. GraphStems' /\ RepsInGraph'
      BY <1>a, <2>1, <3>1, GraphKept DEF fieldVars
    <3>3. FieldSubs' /\ FieldRoots' /\ FieldLoops'
      BY <2>1, <2>2, <3>1 DEF FieldSubs, FieldRoots, FieldLoops, fieldVars
    <3>4. FieldCollapses'
      <4>1. reanalyze' \in BOOLEAN
        BY <1>a, <2>1 DEF FieldCollapses, fieldVars
      <4> QED BY <1>a, <2>1, <3>1, <4>1, CollapsesKept DEF collapsed, fieldVars
    <3> QED BY <3>1, <3>2, <3>3, <3>4 DEF FieldShape, phases
  <2> QED BY <2>3, <2>4
<1>3. ASSUME NEW r \in nodeStack, fieldSweepNode(r) PROVE FieldShape' /\ pc' \in phases
  <2>1. /\ processNode(r) /\ UNCHANGED <<prog, subs, pts, consCG, rep>> /\ UNCHANGED fieldVars
        /\ subs = {} /\ collapsed /\ gepTodo = {}
    BY <1>3 DEF fieldSweepNode, sweepNode, idle, fieldsDone
  <2> QED BY <2>1, TakenUp
<1>4. ASSUME NEW r \in nodeStack, skipMergedNode(r) PROVE FieldShape' /\ pc' \in phases
  <2>1. /\ UNCHANGED <<prog, pc, todo, subs, pts, consCG, rep, reach, fieldVars>>
        /\ collapsed
    BY <1>4 DEF skipMergedNode, fieldsDone
  <2>2. GraphStems' /\ RepsInGraph' /\ inGraph' = inGraph
    BY <1>a, <2>1, GraphKept DEF fieldVars
  <2>3. FieldSubs' /\ FieldRoots' /\ FieldLoops'
    BY <1>a, <2>1, <2>2 DEF FieldSubs, FieldRoots, FieldLoops, scc, edges, fieldVars
  <2>4. FieldCollapses'
    <3>1. reanalyze' \in BOOLEAN
      BY <1>a, <2>1 DEF FieldCollapses, fieldVars
    <3> QED BY <1>a, <2>1, <3>1, CollapsesKept DEF fieldVars
  <2> QED BY <1>a, <2>1, <2>2, <2>3, <2>4 DEF FieldShape
<1>5. ASSUME fieldPopFromWorklist PROVE FieldShape' /\ pc' \in phases
  <2>1. /\ processNode(rep[Head(worklist)])
        /\ UNCHANGED <<prog, subs, pts, consCG, rep>> /\ UNCHANGED fieldVars
        /\ subs = {} /\ collapsed /\ gepTodo = {}
    BY <1>5 DEF fieldPopFromWorklist, popFromWorklist, idle, fieldsDone
  <2> QED BY <2>1, TakenUp
<1>6. ASSUME fieldHandleCopyGep PROVE FieldShape' /\ pc' \in phases
  <2>1. /\ pc = "loadstore" /\ pc' = "propagate"
        /\ todo' \subseteq edges("copy") /\ gepTodo' \subseteq DOMAIN gepCG
        /\ UNCHANGED <<prog, subs, pts, consCG, rep, geps, gepCG, fieldInsensitive, created,
                       pwcNodes, nodesToBeCollapsed, ptsToCollapse, collapsing, reanalyze>>
    BY <1>6 DEF fieldHandleCopyGep, handleCopyGep
  <2>2. GraphStems' /\ RepsInGraph'
    BY <1>a, <2>1, GraphKept
  <2>3. FieldSubs' /\ FieldRoots' /\ FieldLoops'
    BY <1>a, <2>1 DEF FieldSubs, FieldRoots, FieldLoops, edges
  <2>4. FieldCollapses'
    <3>1. collapsed /\ reanalyze' \in BOOLEAN
      BY <1>a, <2>1 DEF FieldCollapses
    <3> QED BY <1>a, <2>1, <3>1, CollapsesKept DEF collapsed
  <2> QED BY <2>1, <2>2, <2>3, <2>4 DEF FieldShape, phases
<1> QED BY <1>1, <1>2, <1>3, <1>4, <1>5, <1>6

-----------------------------------------------------------------------------
(* The handlers of loads, stores, copies and calls.                        *)
LEMMA LoadStoreShape ==
  ASSUME FieldState, NEW t \in todo, pc = "loadstore", processLoadStore(t[1], t[2]),
         UNCHANGED fieldVars
  PROVE  FieldShape' /\ pc' \in phases
<1>a. /\ GraphStems /\ RepsInGraph /\ FieldSubs /\ FieldLoops
      /\ FieldCollapses /\ FieldTypes /\ FieldsTracked
  BY DEF FieldState, FieldShape, FieldInv
<1> DEFINE o == t[1]
           e == t[2]
<1>1. /\ e \in DOMAIN consCG /\ e.kind \in {"load", "store"} /\ o \in pts[pointer(e)]
      /\ e.src \in inGraph /\ e.dst \in inGraph
  BY <1>a DEF FieldLoops, GraphStems
<1>2. /\ pc' = pc /\ todo' \subseteq todo
      /\ DOMAIN consCG' = DOMAIN addCopyEdges(consCG, IF o \in ConstObj THEN {}
                                                       ELSE {derivedEdge(o, e)})
      /\ UNCHANGED <<prog, subs, pts, rep, geps, gepCG, gepTodo, fieldInsensitive, created,
                     pwcNodes, nodesToBeCollapsed, ptsToCollapse, collapsing, reanalyze>>
  BY MergeEdgeGuardDomain DEF processLoadStore, fieldVars
<1>3. o \in Node /\ rep[o] \in inGraph
  <2>1. pointer(e) \in Node
    BY <1>1 DEF pointer, inGraph, live
  <2>2. Obj \subseteq Node
    BY <1>a, ObjectFacts DEF FieldTypes
  <2>3. o \in Obj /\ (o \in GepObj => o \in created)
    BY <1>a, <1>1, <2>1 DEF FieldTypes, FieldsTracked
  <2> QED BY <1>a, <2>2, <2>3 DEF RepsInGraph
<1>4. \A f \in DOMAIN consCG' : \/ f \in DOMAIN consCG
                                \/ f.kind = "copy" /\ f.src \in inGraph /\ f.dst \in inGraph
  <2>1. /\ derivedEdge(o, e).kind = "copy"
        /\ derivedEdge(o, e).src \in inGraph /\ derivedEdge(o, e).dst \in inGraph
    BY <1>1, <1>3 DEF derivedEdge, edge
  <2>2. PICK E : /\ \A f \in E : f = derivedEdge(o, e)
                 /\ DOMAIN consCG' = DOMAIN addCopyEdges(consCG, E)
    BY <1>2
  <2>3. \A f \in DOMAIN consCG' : f \in DOMAIN consCG \/ f \in E
    BY <2>2, AddCopyEdgesDomain
  <2> HIDE DEF o, e
  <2> QED BY <2>1, <2>2, <2>3
<1>5. DOMAIN consCG \subseteq DOMAIN consCG'
  BY <1>2, AddCopyEdgesDomain
<1>6. inGraph' = inGraph
  BY <1>2 DEF inGraph, live
<1>7. GraphStems'
  BY <1>a, <1>2, <1>4, <1>6, StemsKept
<1>8. RepsInGraph'
  BY <1>a, <1>2, <1>6 DEF RepsInGraph
<1>9. FieldSubs' /\ FieldRoots'
  BY <1>a, <1>2 DEF FieldSubs, FieldRoots
<1>10. FieldLoops'
  BY <1>a, <1>2, <1>5 DEF FieldLoops
<1>11. FieldCollapses'
  <2>1. collapsed /\ reanalyze' \in BOOLEAN
    BY <1>a, <1>2 DEF FieldCollapses
  <2> QED BY <1>a, <1>2, <2>1, CollapsesKept
<1> QED BY <1>2, <1>7, <1>8, <1>9, <1>10, <1>11 DEF FieldShape, phases

(* Copies, and the calls that the points-to sets resolve.                  *)
LEMMA HandlersShape ==
  ASSUME FieldState
  PROVE  /\ \A e \in todo : fieldProcessCopy(e) => FieldShape' /\ pc' \in phases
         /\ fieldUpdateCallGraph => FieldShape' /\ pc' \in phases
         /\ \A c \in todo : fieldConnectCallParams(c) => FieldShape' /\ pc' \in phases
         /\ \A n \in cpySrcNodes : fieldPushCpySrcNode(n) => FieldShape' /\ pc' \in phases
         /\ fieldFinish => FieldShape' /\ pc' \in phases
<1>a. /\ FieldInv /\ GraphStems /\ RepsInGraph /\ FieldSubs /\ FieldRoots /\ FieldLoops
      /\ FieldCollapses /\ FieldTypes /\ pc \in phases
  BY DEF FieldState, FieldShape, FieldInv
<1>1. ASSUME NEW e \in todo, fieldProcessCopy(e) PROVE FieldShape' /\ pc' \in phases
  <2>1. /\ pc = "propagate" /\ pc' = pc /\ todo' \subseteq todo
        /\ UNCHANGED <<prog, subs, consCG, rep, fieldVars>>
    BY <1>1 DEF fieldProcessCopy, processCopy
  <2>2. GraphStems' /\ RepsInGraph'
    BY <1>a, <2>1, GraphKept DEF fieldVars
  <2>3. FieldSubs' /\ FieldRoots' /\ FieldLoops'
    BY <1>a, <2>1 DEF FieldSubs, FieldRoots, FieldLoops, edges, fieldVars
  <2>4. FieldCollapses'
    <3>1. reanalyze' \in BOOLEAN
      BY <1>a, <2>1 DEF FieldCollapses, fieldVars
    <3> QED BY <1>a, <2>1, <3>1, CollapsesKept DEF fieldVars
  <2> QED BY <1>a, <2>1, <2>2, <2>3, <2>4 DEF FieldShape
<1>2. ASSUME fieldUpdateCallGraph PROVE FieldShape' /\ pc' \in phases
  <2>1. /\ subs = {} /\ collapsed /\ gepTodo = {} /\ pc' = "update" /\ todo' = newCalls
        /\ UNCHANGED <<prog, subs, pts, consCG, rep, fieldVars>>
    BY <1>2 DEF fieldUpdateCallGraph, updateCallGraph, solved, idle, fieldsDone
  <2>2. GraphStems' /\ RepsInGraph'
    BY <1>a, <2>1, GraphKept DEF fieldVars
  <2>3. FieldSubs' /\ FieldRoots' /\ FieldLoops'
    BY <2>1 DEF FieldSubs, FieldRoots, FieldLoops, newCalls, fieldVars
  <2>4. FieldCollapses'
    <3>1. reanalyze' \in BOOLEAN
      BY <1>a, <2>1 DEF FieldCollapses, fieldVars
    <3> QED BY <1>a, <2>1, <3>1, CollapsesKept DEF fieldVars, collapsed
  <2> QED BY <2>1, <2>2, <2>3, <2>4 DEF FieldShape, phases
<1>3. ASSUME NEW c \in todo, fieldConnectCallParams(c) PROVE FieldShape' /\ pc' \in phases
  <2>1. /\ pc = "update" /\ pc' = pc /\ todo' \subseteq todo
        /\ DOMAIN consCG' = DOMAIN addCopyEdges(consCG, boundEdges(c))
        /\ UNCHANGED <<prog, subs, pts, rep, geps, gepCG, gepTodo, fieldInsensitive, created,
                       pwcNodes, nodesToBeCollapsed, ptsToCollapse, collapsing, reanalyze>>
    BY <1>3 DEF fieldConnectCallParams, connectCaller2CalleeParams, fieldVars
  <2>2. \A arg \in c.args : rep[arg[1]] \in inGraph /\ rep[arg[2]] \in inGraph
    BY <1>a, <2>1, StatementFacts DEF FieldTypes, RepsInGraph
  <2>3. \A f \in boundEdges(c) : f.kind = "copy" /\ f.src \in inGraph /\ f.dst \in inGraph
    BY <2>2 DEF boundEdges, edge
  <2>4. inGraph' = inGraph
    BY <2>1 DEF inGraph, live
  <2>5. GraphStems' /\ RepsInGraph'
    <3>1. \A f \in DOMAIN consCG' : f \in DOMAIN consCG \/ f \in boundEdges(c)
      BY <2>1, AddCopyEdgesDomain
    <3>2. GraphStems'
      BY <1>a, <2>1, <2>3, <2>4, <3>1, StemsKept
    <3> QED BY <1>a, <2>1, <2>4, <3>2 DEF RepsInGraph
  <2>6. FieldSubs' /\ FieldRoots' /\ FieldLoops'
    BY <1>a, <2>1 DEF FieldSubs, FieldRoots, FieldLoops
  <2>7. FieldCollapses'
    <3>1. collapsed /\ reanalyze' \in BOOLEAN
      BY <1>a, <2>1 DEF FieldCollapses
    <3> QED BY <1>a, <2>1, <3>1, CollapsesKept
  <2> QED BY <1>a, <2>1, <2>5, <2>6, <2>7 DEF FieldShape
<1>4. ASSUME NEW n \in cpySrcNodes, fieldPushCpySrcNode(n) PROVE FieldShape' /\ pc' \in phases
  <2>1. /\ pc = "update" /\ UNCHANGED <<prog, pc, todo, subs, pts, consCG, rep, fieldVars>>
    BY <1>4 DEF fieldPushCpySrcNode, pushCpySrcNode
  <2>2. GraphStems' /\ RepsInGraph'
    BY <1>a, <2>1, GraphKept DEF fieldVars
  <2>3. FieldSubs' /\ FieldRoots' /\ FieldLoops'
    BY <1>a, <2>1 DEF FieldSubs, FieldRoots, FieldLoops, fieldVars
  <2>4. FieldCollapses'
    <3>1. collapsed /\ reanalyze' \in BOOLEAN
      BY <1>a, <2>1 DEF FieldCollapses, fieldVars
    <3> QED BY <1>a, <2>1, <3>1, CollapsesKept DEF fieldVars
  <2> QED BY <1>a, <2>1, <2>2, <2>3, <2>4 DEF FieldShape
<1>5. ASSUME fieldFinish PROVE FieldShape' /\ pc' \in phases
  <2>1. /\ subs = {} /\ collapsed /\ gepTodo = {} /\ pc' = "done"
        /\ UNCHANGED <<prog, todo, subs, pts, consCG, rep, fieldVars>>
    BY <1>5 DEF fieldFinish, finish, solved, idle, fieldsDone
  <2>2. GraphStems' /\ RepsInGraph'
    BY <1>a, <2>1, GraphKept DEF fieldVars
  <2>3. FieldSubs' /\ FieldRoots' /\ FieldLoops'
    BY <2>1 DEF FieldSubs, FieldRoots, FieldLoops, fieldVars
  <2>4. FieldCollapses'
    <3>1. reanalyze' \in BOOLEAN
      BY <1>a, <2>1 DEF FieldCollapses, fieldVars
    <3> QED BY <1>a, <2>1, <3>1, CollapsesKept DEF fieldVars, collapsed
  <2> QED BY <2>1, <2>2, <2>3, <2>4 DEF FieldShape, phases
<1> QED BY <1>1, <1>2, <1>3, <1>4, <1>5

-----------------------------------------------------------------------------
(* A gep creates fields, and makes objects field-insensitive only while    *)
(* none is waiting to be collapsed for a PWC node.                         *)
LEMMA GepShape ==
  ASSUME FieldState, NEW e \in gepTodo, fieldProcessGep(e)
  PROVE  FieldShape' /\ pc' \in phases
<1>a. /\ FieldInv /\ GraphStems /\ RepsInGraph /\ FieldSubs /\ FieldRoots /\ FieldLoops
      /\ FieldCollapses /\ FieldTypes /\ pc \in phases
  BY DEF FieldState, FieldShape, FieldInv
<1>1. /\ pc = "propagate" /\ pc' = pc /\ todo = {} /\ todo' = {} /\ gepTodo' = gepTodo \ {e}
      /\ created \subseteq created'
      /\ fieldInsensitive' = fieldInsensitive \cup madeInsensitive(e)
      /\ nodesToBeCollapsed' = nodesToBeCollapsed \cup (madeInsensitive(e) \ fieldInsensitive)
      /\ UNCHANGED <<prog, subs, consCG, rep, geps, gepCG, pwcNodes, ptsToCollapse, collapsing,
                     reanalyze>>
  BY DEF fieldProcessGep
<1>2. collapsing = notCollapsing /\ ptsToCollapse = {}
  BY <1>a, <1>1 DEF FieldCollapses, collapsePhase
<1>3. live' = live /\ inGraph \subseteq inGraph'
  BY <1>1 DEF live, inGraph
<1>4. GraphStems'
  BY <1>a, <1>1, <1>3, StemsKept
<1>5. RepsInGraph'
  <2> SUFFICES ASSUME NEW m \in Node
               PROVE  IF m \in GepObj \ created' THEN rep[m] = m ELSE rep[m] \in inGraph'
    BY <1>1 DEF RepsInGraph
  <2>1. CASE m \in GepObj \ created
    <3>1. rep[m] = m
      BY <1>a, <2>1 DEF RepsInGraph
    <3>2. m \in created' => m \in inGraph'
      BY <1>1, <3>1 DEF inGraph, live
    <3> QED BY <2>1, <3>1, <3>2
  <2>2. CASE m \notin GepObj \ created
    BY <1>a, <1>1, <1>3, <2>2 DEF RepsInGraph
  <2> QED BY <2>1, <2>2
<1>6. FieldSubs' /\ FieldRoots' /\ FieldLoops'
  BY <1>a, <1>1 DEF FieldSubs, FieldRoots, FieldLoops, edges
<1>7. madeInsensitive(e) \subseteq Obj \ GepObj
  <2>1. e.src \in Node
    BY <1>a, <1>1 DEF FieldLoops, GraphStems, inGraph, live, FieldInv, GepsKept
  <2>2. pts[e.src] \subseteq Obj
    BY <1>a, <2>1 DEF FieldTypes
  <2> QED BY <2>2, FieldAssumption DEF madeInsensitive
<1>8. FieldCollapses'
  BY <1>a, <1>1, <1>2, <1>3, <1>7
     DEF FieldCollapses, collapsePhase, collapsed, notCollapsing, isFieldInsensitive
<1> QED BY <1>a, <1>1, <1>4, <1>5, <1>6, <1>8 DEF FieldShape

(* Collapses begin with objects and end with the objects of their node.    *)
LEMMA BeginCollapseShape ==
  ASSUME FieldState, NEW o, beginCollapseField(o)
  PROVE  FieldShape' /\ pc' \in phases
<1>a. /\ FieldInv /\ GraphStems /\ RepsInGraph /\ FieldSubs /\ FieldRoots /\ FieldLoops
      /\ FieldCollapses /\ FieldTypes /\ pc \in phases
  BY DEF FieldState, FieldShape, FieldInv
<1>1. /\ collapsePhase /\ collapsing = notCollapsing
      /\ o \in ptsToCollapse \cup nodesToBeCollapsed
      /\ nodesToBeCollapsed' = nodesToBeCollapsed \ {o}
      /\ fieldInsensitive' = fieldInsensitive \cup {base[o]}
      /\ ptsToCollapse' = {q \in ptsToCollapse : base[q] # base[o]}
      /\ collapsing' = [base |-> {base[o]}, fields |-> {f \in created : base[f] = base[o]}]
      /\ UNCHANGED <<prog, pc, todo, subs, reach, pts, consCG, rep, geps, gepCG, gepTodo,
                     created, pwcNodes, reanalyze>>
  BY DEF beginCollapseField, vars
<1>2. GraphStems' /\ RepsInGraph' /\ inGraph' = inGraph /\ live' = live
  BY <1>a, <1>1, GraphKept
<1>3. FieldSubs' /\ FieldRoots' /\ FieldLoops'
  BY <1>a, <1>1, <1>2 DEF FieldSubs, FieldRoots, FieldLoops, scc, edges
<1>4. collapsePhase' /\ pc \in {"pwc", "propagate"}
  BY <1>1 DEF collapsePhase
<1>5. base[o] \in Obj \ GepObj
  BY <1>a, <1>1, FieldAssumption DEF FieldCollapses
<1>6. \A q \in ptsToCollapse' : q \in Obj /\ ~isFieldInsensitive(q)'
  BY <1>a, <1>1 DEF FieldCollapses, isFieldInsensitive
<1>7. FieldCollapses'
  BY <1>a, <1>1, <1>2, <1>4, <1>5, <1>6 DEF FieldCollapses
<1> QED BY <1>a, <1>1, <1>2, <1>3, <1>7 DEF FieldShape

(* A collapse merges the node of a field into that of its object, between  *)
(* the loops.                                                              *)
LEMMA CollapseShape ==
  ASSUME FieldState, NEW f \in collapsing.fields, collapseOneField(f)
  PROVE  FieldShape' /\ pc' \in phases
<1>a. /\ FieldInv /\ GraphStems /\ RepsInGraph /\ FieldSubs /\ FieldRoots /\ FieldLoops
      /\ FieldCollapses /\ FieldTypes /\ FieldsTracked /\ pc \in phases
  BY DEF FieldState, FieldShape, FieldInv
<1>1. /\ mergeWithFields(rep[f], rep[base[f]], replacePts(f, base[f]))
      /\ collapsing' = [collapsing EXCEPT !.fields = @ \ {f}]
      /\ reanalyze' = (reanalyze \/ holders(f) # {})
      /\ UNCHANGED <<prog, pc, todo, subs, reach, geps, gepTodo, fieldInsensitive, created,
                     nodesToBeCollapsed, ptsToCollapse>>
  BY DEF collapseOneField
<1>2. /\ f \in created /\ f \in GepObj /\ f \in Node
      /\ base[f] \in Obj /\ base[f] \in Node /\ base[f] \notin GepObj
  BY <1>a, ObjectFacts DEF FieldTypes, FieldsTracked
<1>3. collapsing # notCollapsing /\ collapsePhase /\ pc \in {"pwc", "propagate"}
  BY <1>a DEF notCollapsing, FieldCollapses, collapsePhase
<1>4. todo = {} /\ subs = {} /\ gepTodo = {}
  BY <1>a, <1>3 DEF collapsePhase, FieldTypes, FieldSubs, FieldLoops
<1>5. rep[f] \in inGraph /\ rep[base[f]] \in inGraph
  BY <1>a, <1>2 DEF RepsInGraph
<1>6. replacePts(f, base[f]) \in [Node -> SUBSET Obj]
  BY <1>a, <1>2 DEF replacePts, FieldTypes
<1>7. GraphStems' /\ RepsInGraph' /\ pwcNodes' \subseteq live'
  <2>1. CASE rep[f] = rep[base[f]]
    <3>1. UNCHANGED <<consCG, gepCG, rep, pwcNodes>>
      BY <1>1, <2>1 DEF mergeWithFields
    <3> QED BY <1>a, <1>1, <3>1, GraphKept DEF FieldCollapses
  <2>2. CASE rep[f] # rep[base[f]]
    <3>1. /\ GraphStems' /\ pwcNodes' \subseteq live'
          /\ \A m \in Node : IF m \in GepObj \ created' THEN rep'[m] = m
                             ELSE rep'[m] \in inGraph'
      BY <1>1, <1>5, <1>6, <2>2, MergeShape
    <3> QED BY <1>1, <1>3, <3>1 DEF RepsInGraph
  <2> QED BY <2>1, <2>2
<1>8. FieldSubs' /\ FieldRoots' /\ FieldLoops'
  BY <1>1, <1>3, <1>4 DEF FieldSubs, FieldRoots, FieldLoops
<1>9. FieldCollapses'
  <2>1. collapsing'.fields \subseteq collapsing.fields /\ collapsing'.base = collapsing.base
    BY <1>a, <1>1 DEF FieldsTracked
  <2>2. collapsePhase' /\ reanalyze' \in BOOLEAN
    BY <1>1, <1>3, <1>4 DEF collapsePhase
  <2> QED BY <1>a, <1>1, <1>3, <1>7, <2>1, <2>2 DEF FieldCollapses, isFieldInsensitive
<1> QED BY <1>a, <1>1, <1>7, <1>8, <1>9 DEF FieldShape

(* The objects of a node that has become PWC are added to those that wait. *)
LEMMA EndCollapseShape ==
  ASSUME FieldState, endCollapseField
  PROVE  FieldShape' /\ pc' \in phases
<1>a. /\ FieldInv /\ GraphStems /\ RepsInGraph /\ FieldSubs /\ FieldRoots /\ FieldLoops
      /\ FieldCollapses /\ FieldTypes /\ pc \in phases
  BY DEF FieldState, FieldShape, FieldInv
<1>1. /\ collapsing # notCollapsing /\ collapsing' = notCollapsing
      /\ ptsToCollapse' = ptsToCollapse \cup
           UNION {collapsible(pts[rep[b]]) : b \in {x \in collapsing.base : rep[x] \in pwcNodes}}
      /\ UNCHANGED <<prog, pc, todo, subs, reach, pts, consCG, rep, geps, gepCG, gepTodo,
                     fieldInsensitive, created, pwcNodes, nodesToBeCollapsed, reanalyze>>
  BY DEF endCollapseField, vars
<1>2. GraphStems' /\ RepsInGraph' /\ inGraph' = inGraph /\ live' = live
  BY <1>a, <1>1, GraphKept
<1>3. FieldSubs' /\ FieldRoots' /\ FieldLoops'
  BY <1>a, <1>1, <1>2 DEF FieldSubs, FieldRoots, FieldLoops, scc, edges
<1>4. collapsePhase' /\ pc \in {"pwc", "propagate"}
  BY <1>a, <1>1 DEF collapsePhase, FieldCollapses
<1>5. \A q \in ptsToCollapse' : q \in Obj /\ ~isFieldInsensitive(q)'
  <2> SUFFICES ASSUME NEW x, rep[x] \in pwcNodes, NEW q \in collapsible(pts[rep[x]])
               PROVE  q \in Obj /\ base[q] \notin fieldInsensitive
    BY <1>a, <1>1 DEF FieldCollapses, isFieldInsensitive
  <2>1. pts[rep[x]] \subseteq Obj
    BY <1>a DEF FieldCollapses, live, FieldTypes
  <2> QED BY <2>1 DEF collapsible, isFieldInsensitive
<1>6. FieldCollapses'
  BY <1>a, <1>1, <1>2, <1>4, <1>5 DEF FieldCollapses, notCollapsing
<1> QED BY <1>a, <1>1, <1>2, <1>3, <1>6 DEF FieldShape

(* The shape of the state is inductive.                                    *)
LEMMA StateStep == FieldState /\ [FieldNext]_allVars => FieldState'
<1> SUFFICES ASSUME FieldState, [FieldNext]_allVars PROVE FieldState' OBVIOUS
<1>1. FieldInv'
  BY FieldInvStep DEF FieldState
<1>2. FieldShape' /\ pc' \in phases
  <2>1. CASE UNCHANGED allVars
    <3>1. UNCHANGED <<vars, fieldVars>>
      BY <2>1 DEF allVars
    <3>2. live' = live /\ inGraph' = inGraph
      BY <3>1 DEF vars, fieldVars, inGraph, live
    <3>3. GraphStems' /\ RepsInGraph'
      BY <3>1, <3>2 DEF FieldState, FieldShape, GraphStems, RepsInGraph, vars, fieldVars
    <3>4. FieldSubs' /\ FieldRoots' /\ FieldLoops'
      BY <3>1, <3>2 DEF FieldState, FieldShape, FieldSubs, FieldRoots, FieldLoops, vars,
                        fieldVars, scc, edges
    <3>5. FieldCollapses'
      BY <3>1, <3>2 DEF FieldState, FieldShape, FieldCollapses, vars, fieldVars, collapsed,
                        collapsePhase, isFieldInsensitive, notCollapsing
    <3> QED BY <3>1, <3>3, <3>4, <3>5 DEF FieldState, FieldShape, vars
  <2>2. CASE FieldNext
    <3>1. ASSUME NEW t \in todo, fieldProcessLoad(t[1], t[2]) \/ fieldProcessStore(t[1], t[2])
          PROVE  FieldShape' /\ pc' \in phases
      BY <3>1, LoadStoreShape
         DEF fieldProcessLoad, fieldProcessStore, processLoad, processStore
    <3> QED BY <2>2, <3>1, SolverStepsShape, SCCDetectShape, BeginSCCShape, SCCMergeShape,
               WorklistStepsShape, HandlersShape, GepShape, BeginCollapseShape, CollapseShape,
               EndCollapseShape DEF FieldNext
  <2> QED BY <2>1, <2>2
<1> QED BY <1>1, <1>2 DEF FieldState

(* FieldTypeCorrect: every handler of the field-sensitive solver leaves    *)
(* its state well formed: geps lead between distinct nodes that are in the *)
(* graph however they are merged, the loops walk edges that are there, and *)
(* an object waits to be collapsed for a PWC node only while its fields    *)
(* are still told apart.                                                   *)
THEOREM FieldTypeCorrect == FieldSpec => []FieldTypeOK
<1>1. FieldState => FieldTypeOK
  <2> SUFFICES ASSUME FieldState PROVE FieldTypeOK OBVIOUS
  <2>1. /\ FieldTypes /\ GepsKept /\ FieldsTracked /\ GraphStems /\ FieldLoops
        /\ FieldCollapses /\ pc \in phases
    BY DEF FieldState, FieldInv, FieldShape
  <2>2. \A e \in DOMAIN gepCG : e.kind \in {"normalGep", "variantGep"}
    BY <2>1 DEF GepsKept, IsGepGraph, GepEdge
  <2>3. \A e \in DOMAIN gepCG : e.src \in live /\ e.dst \in live /\ e.src # e.dst
    BY <2>1 DEF GraphStems, inGraph
  <2>4. IF pc = "attach" THEN gepTodo \subseteq geps ELSE gepTodo \subseteq DOMAIN gepCG
    BY <2>1 DEF FieldLoops, GepsKept
  <2> QED BY <2>1, <2>2, <2>3, <2>4
          DEF FieldTypeOK, FieldTypes, FieldsTracked, FieldCollapses, phases
<1> QED BY <1>1, ShapeInit, StateStep, PTL DEF FieldSpec

-----------------------------------------------------------------------------
(* Precision.  The reference is taken for a set F of objects that have     *)
(* given up their fields, and F grows as the solver runs.  The invariant   *)
(* therefore speaks of every F that holds the objects the solver has given *)
(* up so far: what it has done must stay right if it gives up more.        *)

(* What the constraints give a node, once an object of F stands for all    *)
(* its fields.                                                             *)
fieldSol(F, n) == FieldSolution(prog, geps, F)[canonNode(n, F)]

FieldFactsWithin(F) ==
  \A m \in Node : \A o \in answer[m] : canon(o, F) \in fieldSol(F, m)

(* Merging joins nodes of a cycle.  Around a cycle without geps all nodes  *)
(* get the same; around one with geps they get the same objects of F, and  *)
(* all their objects belong to F, which holds what reaches such a cycle.   *)
ClassesWithin(F) ==
  \A m, k \in Node : willBe(m) = willBe(k) =>
    /\ fieldSol(F, m) \cap F = fieldSol(F, k) \cap F
    /\ m \notin onGepCycle => fieldSol(F, m) = fieldSol(F, k)

CopiesWithin(F) ==
  \A e \in edges("copy") : \E a, b \in Node :
    rep[a] = e.src /\ rep[b] = e.dst /\ fieldSol(F, a) \subseteq fieldSol(F, b)

gepInside(r) == \E s \in geps : rep[s.src] \in scc(r, reach) /\ rep[s.dst] \in scc(r, reach)

SCCsWithin(F) ==
  pc = "merge" => \A r \in todo : \A x, y \in scc(r, reach) :
    /\ fieldSol(F, x) \cap F = fieldSol(F, y) \cap F
    /\ gepInside(r) \/ fieldSol(F, x) = fieldSol(F, y)

FieldWithin(F) ==
  FieldFactsWithin(F) /\ ClassesWithin(F) /\ CopiesWithin(F) /\ SCCsWithin(F)

FieldPreciseInv ==
  /\ FieldState
  /\ \A F \in SUBSET (Obj \ GepObj) : mayLoseFields \subseteq F => FieldWithin(F)

-----------------------------------------------------------------------------
(* Objects, nodes and the reference, given F.                              *)
LEMMA CanonFacts ==
  ASSUME prog \in Programs, geps \in GepStmtSets(prog), NEW F \in SUBSET (Obj \ GepObj)
  PROVE  /\ \A o \in Obj : canon(o, F) \in Obj /\ base[canon(o, F)] = base[o]
         /\ \A o \in Obj : canon(o, F) \in ConstObj <=> o \in ConstObj
         /\ \A o \in Obj : base[o] \in F => canon(o, F) \in F
         /\ \A o \in Obj \ GepObj : canon(o, F) = o
         /\ \A o \in F : base[o] = o
         /\ \A n \in Node : canonNode(n, F) \in Node
         /\ \A n \in Node \ GepObj : canonNode(n, F) = n
         /\ \A o \in Obj : canonNode(o, F) = canon(o, F)
<1>1. /\ Obj \subseteq Node /\ GepObj \subseteq Obj
      /\ \A o \in Obj : base[o] \in Obj \ GepObj
      /\ \A o \in Obj \ GepObj : base[o] = o
  BY ObjectFacts, FieldAssumption
<1>2. \A o \in Obj : o \in ConstObj <=> base[o] \in ConstObj
  BY FieldsOnDemandAssumption
<1> QED BY <1>1, <1>2 DEF canon, canonNode

(* The reference respects statements, calls and geps, for what objects of  *)
(* F stand for.                                                            *)
LEMMA ReferenceFacts ==
  ASSUME prog \in Programs, geps \in GepStmtSets(prog), NEW F \in SUBSET (Obj \ GepObj)
  PROVE  /\ \A n \in Node : fieldSol(F, n) \subseteq Obj
         /\ \A a \in prog.addr : a[1] \in fieldSol(F, a[2])
         /\ \A s \in prog.stmts : s.kind = "copy" =>
              fieldSol(F, s.src) \subseteq fieldSol(F, s.dst)
         /\ \A s \in prog.stmts : s.kind = "load" =>
              \A o \in Obj \ ConstObj : canon(o, F) \in fieldSol(F, s.src) =>
                 fieldSol(F, o) \subseteq fieldSol(F, s.dst)
         /\ \A s \in prog.stmts : s.kind = "store" =>
              \A o \in Obj \ ConstObj : canon(o, F) \in fieldSol(F, s.dst) =>
                 fieldSol(F, s.src) \subseteq fieldSol(F, o)
         /\ \A c \in prog.calls : canon(c.fun, F) \in fieldSol(F, c.fp) =>
              \A arg \in c.args : fieldSol(F, arg[1]) \subseteq fieldSol(F, arg[2])
         /\ \A s \in geps : \A o \in fieldSol(F, s.src) :
              gepTarget(o, s, F) \in fieldSol(F, s.dst)
<1> DEFINE S == FieldSolution(prog, geps, F)
<1>1. /\ S \in [Node -> SUBSET Obj] /\ IsSolution(prog, S)
      /\ \A s \in geps : \A o \in S[s.src] : gepTarget(o, s, F) \in S[s.dst]
  BY FieldSolutionAssumption
<1>2. /\ \A n \in Node : canonNode(n, F) \in Node
      /\ \A n \in Node \ GepObj : fieldSol(F, n) = S[n]
      /\ \A o \in Obj : fieldSol(F, o) = S[canon(o, F)]
  BY CanonFacts DEF fieldSol
<1>3. \A n \in Node : fieldSol(F, n) \subseteq Obj
  BY <1>1, <1>2 DEF fieldSol
<1> HIDE DEF S
<1>4. \A a \in prog.addr : a[1] \in fieldSol(F, a[2])
  BY <1>1, <1>2, StatementFacts DEF IsSolution
<1>5. \A s \in prog.stmts : Respects(S, s) /\ fieldSol(F, s.src) = S[s.src]
                                           /\ fieldSol(F, s.dst) = S[s.dst]
  BY <1>1, <1>2, StatementFacts DEF IsSolution
<1>6. \A o \in Obj \ ConstObj : canon(o, F) \notin ConstObj
  BY CanonFacts
<1>7. \A c \in prog.calls : canon(c.fun, F) \in fieldSol(F, c.fp) =>
        \A arg \in c.args : fieldSol(F, arg[1]) \subseteq fieldSol(F, arg[2])
  <2> SUFFICES ASSUME NEW c \in prog.calls, canon(c.fun, F) \in fieldSol(F, c.fp),
                      NEW arg \in c.args
               PROVE  fieldSol(F, arg[1]) \subseteq fieldSol(F, arg[2])
    OBVIOUS
  <2>1. c.fun \in S[c.fp]
    BY <1>2, StatementFacts, CanonFacts
  <2>2. S[arg[1]] \subseteq S[arg[2]]
    BY <1>1, <2>1 DEF IsSolution
  <2> QED BY <1>2, <2>2, StatementFacts
<1>8. \A s \in geps : \A o \in fieldSol(F, s.src) : gepTarget(o, s, F) \in fieldSol(F, s.dst)
  BY <1>1, <1>2, StatementFacts
<1> QED BY <1>2, <1>3, <1>4, <1>5, <1>6, <1>7, <1>8 DEF Respects

(* What a gep makes of an object is what the reference makes of what the   *)
(* object stands for.                                                      *)
LEMMA CanonOfField ==
  ASSUME FieldState, NEW F \in SUBSET (Obj \ GepObj), fieldInsensitive \subseteq F,
         NEW e \in DOMAIN gepCG, NEW s \in geps, s.kind = e.kind, gepCG[e].off = s.off,
         NEW o \in Obj
  PROVE  canon(translateField(o, e), F) = gepTarget(canon(o, F), s, F)
<1>1. /\ prog \in Programs /\ geps \in GepStmtSets(prog)
  BY DEF FieldState, FieldInv, FieldTypes
<1>2. /\ canon(o, F) \in Obj /\ base[canon(o, F)] = base[o] /\ base[o] \in Obj
      /\ canon(o, F) \in ConstObj <=> o \in ConstObj
      /\ base[base[o]] = base[o]
      /\ gepObjVar(o, s.off) \in Obj /\ base[gepObjVar(o, s.off)] = base[o]
  BY <1>1, CanonFacts, ObjectFacts, FieldAssumption
<1>3. CASE o \in ConstObj
  BY <1>2, <1>3 DEF translateField, gepTarget
<1>4. CASE o \notin ConstObj /\ e.kind = "variantGep"
  BY <1>2, <1>4 DEF translateField, gepTarget, canon
<1>5. CASE o \notin ConstObj /\ e.kind # "variantGep" /\ base[o] \in F
  <2>1. gepTarget(canon(o, F), s, F) = base[o]
    BY <1>2, <1>5 DEF gepTarget
  <2>2. base[translateField(o, e)] = base[o]
    BY <1>2, <1>5 DEF translateField
  <2> QED BY <1>5, <2>1, <2>2 DEF canon
<1>6. CASE o \notin ConstObj /\ e.kind # "variantGep" /\ base[o] \notin F
  BY <1>2, <1>6 DEF translateField, gepTarget, canon, isFieldInsensitive
<1> QED BY <1>3, <1>4, <1>5, <1>6

-----------------------------------------------------------------------------
(* Outside of the merge of an SCC, merged nodes are one and no others.     *)
LEMMA WillBe ==
  ASSUME subs = {}
  PROVE  \A n : willBe(n) = rep[n]
BY DEF willBe

(* The objects that may lose their fields only become more.                *)
LEMMA LosesMore ==
  ASSUME fieldInsensitive \subseteq fieldInsensitive', UNCHANGED geps,
         \A s \in geps : s.src \in Node /\ s.dst \in Node,
         \A m, k \in Node : willBe(m) = willBe(k) => willBe(m)' = willBe(k)',
         \A m \in Node : \A o \in answer[m] : \E q \in answer'[m] : base[q] = base[o]
  PROVE  onGepCycle \subseteq onGepCycle' /\ mayLoseFields \subseteq mayLoseFields'
<1>1. onGepCycle \subseteq onGepCycle'
  BY DEF onGepCycle
<1>2. \A m \in onGepCycle : m \in Node
  BY DEF onGepCycle
<1> QED BY <1>1, <1>2 DEF mayLoseFields

-----------------------------------------------------------------------------
(* What the invariant says of an F that holds the objects given up after   *)
(* the step.                                                               *)
LEMMA PreciseFacts ==
  ASSUME FieldPreciseInv
  PROVE  /\ FieldState /\ FieldTypes /\ FieldsTracked /\ GraphStems /\ RepsInGraph
         /\ FieldSubs /\ FieldRoots /\ FieldLoops /\ FieldCollapses
         /\ prog \in Programs /\ geps \in GepStmtSets(prog)
         /\ Obj \subseteq Node /\ pts \in [Node -> SUBSET Obj] /\ rep \in [Node -> Node]
         /\ \A m \in Node : rep[rep[m]] = rep[m]
         /\ \A m \in Node : answer[m] = pts[rep[m]] /\ answer[m] \subseteq Obj
         /\ \A s \in geps : s.src \in Node /\ s.dst \in Node
         /\ \A F \in SUBSET (Obj \ GepObj) : mayLoseFields \subseteq F => FieldWithin(F)
<1>1. /\ FieldState /\ FieldTypes /\ FieldsTracked /\ GraphStems /\ RepsInGraph
      /\ FieldSubs /\ FieldRoots /\ FieldLoops /\ FieldCollapses
      /\ prog \in Programs /\ geps \in GepStmtSets(prog)
      /\ pts \in [Node -> SUBSET Obj] /\ rep \in [Node -> Node]
      /\ \A F \in SUBSET (Obj \ GepObj) : mayLoseFields \subseteq F => FieldWithin(F)
  BY DEF FieldPreciseInv, FieldState, FieldInv, FieldShape, FieldTypes
<1>2. Obj \subseteq Node
  BY <1>1, ObjectFacts
<1>3. ASSUME NEW m \in Node PROVE rep[rep[m]] = rep[m]
  BY <1>1 DEF RepsInGraph, inGraph, live
<1>4. \A m \in Node : answer[m] = pts[rep[m]] /\ answer[m] \subseteq Obj
  BY <1>1 DEF answer
<1>5. \A s \in geps : s.src \in Node /\ s.dst \in Node
  BY <1>1, StatementFacts
<1> QED BY <1>1, <1>2, <1>3, <1>4, <1>5

(* A handler that adds no fact and merges nothing must only add copies the *)
(* reference respects.                                                     *)
LEMMA WithinKept ==
  ASSUME FieldPreciseInv, NEW F \in SUBSET (Obj \ GepObj), mayLoseFields' \subseteq F,
         UNCHANGED <<prog, geps, pts, rep, subs>>,
         fieldInsensitive \subseteq fieldInsensitive',
         \A e \in edges("copy")' : \/ e \in edges("copy")
                                   \/ \E a, b \in Node :
                                        /\ rep[a] = e.src /\ rep[b] = e.dst
                                        /\ fieldSol(F, a) \subseteq fieldSol(F, b),
         pc' = "merge" => pc = "merge" /\ todo' \subseteq todo /\ reach' = reach
  PROVE  FieldWithin(F)'
<1>1. answer' = answer /\ \A n : willBe(n)' = willBe(n)
  BY DEF answer, willBe
<1>2. mayLoseFields \subseteq mayLoseFields' /\ onGepCycle' = onGepCycle
  <2>1. onGepCycle' = onGepCycle
    BY <1>1 DEF onGepCycle
  <2> QED BY <1>1, <2>1 DEF mayLoseFields
<1>3. FieldFactsWithin(F) /\ ClassesWithin(F) /\ CopiesWithin(F) /\ SCCsWithin(F)
  BY <1>2 DEF FieldPreciseInv, FieldWithin
<1>4. \A n : fieldSol(F, n)' = fieldSol(F, n)
  BY DEF fieldSol
<1>5. FieldFactsWithin(F)'
  BY <1>1, <1>3, <1>4 DEF FieldFactsWithin
<1>6. ClassesWithin(F)'
  BY <1>1, <1>2, <1>3, <1>4 DEF ClassesWithin
<1>7. CopiesWithin(F)'
  BY <1>3, <1>4 DEF CopiesWithin
<1>8. SCCsWithin(F)'
  <2> SUFFICES ASSUME pc' = "merge", NEW r \in todo', NEW x \in scc(r, reach'),
                      NEW y \in scc(r, reach')
               PROVE  /\ fieldSol(F, x)' \cap F = fieldSol(F, y)' \cap F
                      /\ gepInside(r)' \/ fieldSol(F, x)' = fieldSol(F, y)'
    BY DEF SCCsWithin
  <2>1. pc = "merge" /\ r \in todo /\ x \in scc(r, reach) /\ y \in scc(r, reach)
    OBVIOUS
  <2>2. /\ fieldSol(F, x) \cap F = fieldSol(F, y) \cap F
        /\ gepInside(r) \/ fieldSol(F, x) = fieldSol(F, y)
    BY <1>3, <2>1 DEF SCCsWithin
  <2>3. gepInside(r)' = gepInside(r)
    BY DEF gepInside, scc
  <2> QED BY <1>4, <2>2, <2>3
<1> QED BY <1>5, <1>6, <1>7, <1>8 DEF FieldWithin

(* A fact may arrive at a node if the reference has it at any node of its  *)
(* class: where classes are not alike, they are on a cycle with a gep, and *)
(* the object has been given up with the fact.                             *)
LEMMA FactsArrive ==
  ASSUME FieldPreciseInv, NEW F \in SUBSET (Obj \ GepObj), mayLoseFields' \subseteq F,
         UNCHANGED <<prog, geps, rep, subs, consCG>>, subs = {}, pc' # "merge",
         fieldInsensitive \subseteq fieldInsensitive',
         \A m \in Node : pts[m] \subseteq pts'[m] /\ pts'[m] \subseteq Obj,
         \A m \in Node : \A o \in answer'[m] : \/ o \in answer[m]
           \/ \E b \in Node : rep[b] = rep[m] /\ canon(o, F) \in fieldSol(F, b)
  PROVE  FieldWithin(F)'
<1>1. /\ \A m \in Node : answer'[m] = pts'[rep[m]] /\ answer[m] = pts[rep[m]]
      /\ \A m \in Node : rep[m] \in Node
      /\ \A s \in geps : s.src \in Node /\ s.dst \in Node
      /\ prog \in Programs /\ geps \in GepStmtSets(prog)
  BY PreciseFacts DEF answer
<1>2. \A n : willBe(n) = rep[n] /\ willBe(n)' = rep[n]
  <2>1. \A n : willBe(n) = rep[n]
    BY WillBe, PreciseFacts
  <2> QED BY <2>1 DEF willBe
<1>3. onGepCycle' = onGepCycle /\ mayLoseFields \subseteq mayLoseFields'
  <2>1. onGepCycle' = onGepCycle
    BY <1>2 DEF onGepCycle
  <2>2. \A m \in Node : answer[m] \subseteq answer'[m]
    BY <1>1
  <2>3. \A m \in onGepCycle : m \in Node
    BY DEF onGepCycle
  <2> QED BY <2>1, <2>2, <2>3 DEF mayLoseFields
<1>4. FieldFactsWithin(F) /\ ClassesWithin(F) /\ CopiesWithin(F)
  BY <1>3 DEF FieldPreciseInv, FieldWithin
<1>5. \A n : fieldSol(F, n)' = fieldSol(F, n)
  BY DEF fieldSol
<1>6. FieldFactsWithin(F)'
  <2> SUFFICES ASSUME NEW m \in Node, NEW o \in answer'[m]
               PROVE  canon(o, F) \in fieldSol(F, m)
    BY <1>5 DEF FieldFactsWithin
  <2>1. CASE o \in answer[m]
    BY <1>4, <2>1 DEF FieldFactsWithin
  <2>2. CASE o \notin answer[m]
    <3>1. PICK b \in Node : rep[b] = rep[m] /\ canon(o, F) \in fieldSol(F, b)
      BY <2>2
    <3>2. CASE m \notin onGepCycle
      BY <1>2, <1>4, <3>1, <3>2 DEF ClassesWithin
    <3>3. CASE m \in onGepCycle
      <4>1. base[o] \in F
        BY <1>3, <3>3 DEF mayLoseFields
      <4>2. canon(o, F) \in F
        BY <4>1 DEF canon
      <4> QED BY <1>2, <1>4, <3>1, <4>2 DEF ClassesWithin
    <3> QED BY <3>2, <3>3
  <2> QED BY <2>1, <2>2
<1>7. ClassesWithin(F)'
  BY <1>2, <1>3, <1>4, <1>5 DEF ClassesWithin
<1>8. CopiesWithin(F)'
  BY <1>4, <1>5 DEF CopiesWithin, edges
<1>9. SCCsWithin(F)'
  BY DEF SCCsWithin
<1> QED BY <1>6, <1>7, <1>8, <1>9 DEF FieldWithin

(* Addresses, copies and geps bring facts of the reference.                *)
LEMMA AddrWithin ==
  ASSUME FieldPreciseInv, NEW F \in SUBSET (Obj \ GepObj), mayLoseFields' \subseteq F,
         NEW a \in todo, fieldProcessAddr(a)
  PROVE  FieldWithin(F)'
<1>1. /\ pc = "addr" /\ pc' = pc /\ pts' = [pts EXCEPT ![a[2]] = @ \cup {a[1]}]
      /\ UNCHANGED <<prog, subs, consCG, rep, geps, fieldInsensitive>>
  BY DEF fieldProcessAddr, processAddr, fieldVars
<1>2. a \in prog.addr /\ a[1] \in Obj \ GepObj /\ a[2] \in Node
  BY <1>1, PreciseFacts, ObjectFacts DEF FieldTypes
<1>3. subs = {} /\ \A m \in Node : rep[m] = m
  BY <1>1, PreciseFacts DEF FieldSubs, RepsInGraph
<1>4. \A m \in Node : pts'[m] = IF m = a[2] THEN pts[m] \cup {a[1]} ELSE pts[m]
  BY <1>1, <1>2, PreciseFacts
<1>5. canon(a[1], F) \in fieldSol(F, a[2])
  <2>1. prog \in Programs /\ geps \in GepStmtSets(prog)
    BY PreciseFacts
  <2>2. canon(a[1], F) = a[1]
    BY <1>2, <2>1, CanonFacts
  <2>3. a[1] \in fieldSol(F, a[2])
    BY <1>2, <2>1, ReferenceFacts
  <2> QED BY <2>2, <2>3
<1>6. \A m \in Node : \A o \in answer'[m] : \/ o \in answer[m]
        \/ \E b \in Node : rep[b] = rep[m] /\ canon(o, F) \in fieldSol(F, b)
  BY <1>1, <1>2, <1>3, <1>4, <1>5 DEF answer
<1>7. \A m \in Node : pts[m] \subseteq pts'[m] /\ pts'[m] \subseteq Obj
  <2>1. pts \in [Node -> SUBSET Obj]
    BY PreciseFacts
  <2> QED BY <1>2, <1>4, <2>1
<1> QED BY <1>1, <1>3, <1>6, <1>7, FactsArrive

(* A copy passes on what the node it starts from stands for.               *)
LEMMA CopyWithin ==
  ASSUME FieldPreciseInv, NEW F \in SUBSET (Obj \ GepObj), mayLoseFields' \subseteq F,
         NEW e \in todo, fieldProcessCopy(e)
  PROVE  FieldWithin(F)'
<1>1. /\ pc = "propagate" /\ pc' = pc /\ pts' = [pts EXCEPT ![e.dst] = @ \cup pts[e.src]]
      /\ UNCHANGED <<prog, subs, consCG, rep, geps, fieldInsensitive>>
  BY DEF fieldProcessCopy, processCopy, fieldVars
<1>2. e \in edges("copy") /\ e.src \in Node /\ e.dst \in Node /\ subs = {}
  <2>1. e \in edges("copy") /\ subs = {}
    BY <1>1, PreciseFacts DEF FieldLoops, FieldSubs
  <2> QED BY <2>1, PreciseFacts DEF edges, FieldTypes, Edge
<1>3. \A m \in Node : pts'[m] = IF m = e.dst THEN pts[m] \cup pts[e.src] ELSE pts[m]
  BY <1>1, <1>2, PreciseFacts
<1>4. mayLoseFields \subseteq F
  <2>1. \A m \in Node : answer[m] \subseteq answer'[m]
    BY <1>1, <1>3, PreciseFacts DEF answer
  <2>2. \A n : willBe(n)' = willBe(n)
    BY <1>1 DEF willBe
  <2> QED BY <1>1, <2>1, <2>2, PreciseFacts, LosesMore
<1>5. PICK a, b \in Node :
        rep[a] = e.src /\ rep[b] = e.dst /\ fieldSol(F, a) \subseteq fieldSol(F, b)
  BY <1>2, <1>4 DEF FieldPreciseInv, FieldWithin, CopiesWithin
<1>6. \A o \in pts[e.src] : canon(o, F) \in fieldSol(F, b)
  <2>1. \A o \in answer[a] : canon(o, F) \in fieldSol(F, a)
    BY <1>4 DEF FieldPreciseInv, FieldWithin, FieldFactsWithin
  <2> QED BY <1>5, <2>1, PreciseFacts
<1>7. \A m \in Node : \A o \in answer'[m] : \/ o \in answer[m]
        \/ \E k \in Node : rep[k] = rep[m] /\ canon(o, F) \in fieldSol(F, k)
  <2>1. \A m \in Node : answer'[m] = pts'[rep[m]] /\ answer[m] = pts[rep[m]] /\ rep[m] \in Node
    BY <1>1, PreciseFacts DEF answer
  <2> SUFFICES ASSUME NEW m \in Node, NEW o \in answer'[m], o \notin answer[m]
               PROVE  rep[b] = rep[m] /\ canon(o, F) \in fieldSol(F, b)
    OBVIOUS
  <2>2. pts'[rep[m]] = IF rep[m] = e.dst THEN pts[rep[m]] \cup pts[e.src] ELSE pts[rep[m]]
    BY <1>3, <2>1
  <2>3. rep[m] = e.dst /\ o \in pts[e.src]
    BY <2>1, <2>2
  <2> QED BY <1>5, <1>6, <2>3
<1>8. \A m \in Node : pts[m] \subseteq pts'[m] /\ pts'[m] \subseteq Obj
  BY <1>2, <1>3, PreciseFacts
<1> QED BY <1>1, <1>2, <1>7, <1>8, FactsArrive

(* A gep passes on the field that the reference makes of the object.       *)
LEMMA GepWithin ==
  ASSUME FieldPreciseInv, NEW F \in SUBSET (Obj \ GepObj), mayLoseFields' \subseteq F,
         NEW e \in gepTodo, fieldProcessGep(e)
  PROVE  FieldWithin(F)'
<1> DEFINE fields == {translateField(o, e) : o \in pts[e.src]}
<1>1. /\ pc = "propagate" /\ pc' = pc /\ pts' = [pts EXCEPT ![e.dst] = @ \cup fields]
      /\ fieldInsensitive \subseteq fieldInsensitive'
      /\ UNCHANGED <<prog, subs, consCG, rep, geps>>
  BY DEF fieldProcessGep
<1>2. e \in DOMAIN gepCG /\ e.src \in Node /\ e.dst \in Node /\ subs = {}
  <2>1. e \in DOMAIN gepCG /\ subs = {}
    BY <1>1, PreciseFacts DEF FieldSubs, FieldState, FieldInv, GepsKept
  <2> QED BY <2>1, PreciseFacts DEF GraphStems, inGraph, live
<1>3. PICK s \in geps : /\ s.kind = e.kind /\ gepCG[e].off = s.off
                        /\ rep[s.src] = e.src /\ rep[s.dst] = e.dst
  BY <1>2, PreciseFacts DEF GraphStems
<1>4. s.src \in Node /\ s.dst \in Node /\ pts[e.src] = answer[s.src] /\ pts[e.src] \subseteq Obj
  BY <1>3, PreciseFacts
<1>5. fields \subseteq Obj
  BY <1>2, <1>4, TranslatedField, PreciseFacts DEF FieldState
<1> HIDE DEF fields
<1>6. \A m \in Node : pts'[m] = IF m = e.dst THEN pts[m] \cup fields ELSE pts[m]
  BY <1>1, <1>2, PreciseFacts
<1>7. mayLoseFields \subseteq F
  <2>1. \A m \in Node : answer[m] \subseteq answer'[m]
    BY <1>1, <1>6, PreciseFacts DEF answer
  <2>2. \A n : willBe(n)' = willBe(n)
    BY <1>1 DEF willBe
  <2> QED BY <1>1, <2>1, <2>2, PreciseFacts, LosesMore
<1>8. fieldInsensitive \subseteq F
  BY <1>7 DEF mayLoseFields
<1>9. \A f \in fields : canon(f, F) \in fieldSol(F, s.dst)
  <2> SUFFICES ASSUME NEW o \in pts[e.src]
               PROVE  canon(translateField(o, e), F) \in fieldSol(F, s.dst)
    BY DEF fields
  <2>1. canon(o, F) \in fieldSol(F, s.src)
    BY <1>4, <1>7 DEF FieldPreciseInv, FieldWithin, FieldFactsWithin
  <2>2. gepTarget(canon(o, F), s, F) \in fieldSol(F, s.dst)
    BY <2>1, PreciseFacts, ReferenceFacts
  <2>3. o \in Obj
    BY <1>4
  <2> QED BY <1>2, <1>3, <1>8, <2>2, <2>3, PreciseFacts, CanonOfField
<1>10. \A m \in Node : \A o \in answer'[m] : \/ o \in answer[m]
         \/ \E k \in Node : rep[k] = rep[m] /\ canon(o, F) \in fieldSol(F, k)
  <2>1. \A m \in Node : answer'[m] = pts'[rep[m]] /\ answer[m] = pts[rep[m]] /\ rep[m] \in Node
    BY <1>1, PreciseFacts DEF answer
  <2> SUFFICES ASSUME NEW m \in Node, NEW o \in answer'[m], o \notin answer[m]
               PROVE  rep[s.dst] = rep[m] /\ canon(o, F) \in fieldSol(F, s.dst)
    BY <1>4
  <2>2. pts'[rep[m]] = IF rep[m] = e.dst THEN pts[rep[m]] \cup fields ELSE pts[rep[m]]
    BY <1>6, <2>1
  <2>3. rep[m] = e.dst /\ o \in fields
    BY <2>1, <2>2
  <2> QED BY <1>3, <1>9, <2>3
<1>11. \A m \in Node : pts[m] \subseteq pts'[m] /\ pts'[m] \subseteq Obj
  BY <1>2, <1>5, <1>6, PreciseFacts
<1> QED BY <1>1, <1>2, <1>10, <1>11, FactsArrive

-----------------------------------------------------------------------------
(* Handlers that neither add facts or edges nor merge.                     *)
LEMMA QuietWithin ==
  ASSUME FieldPreciseInv, NEW F \in SUBSET (Obj \ GepObj), mayLoseFields' \subseteq F,
         UNCHANGED <<prog, geps, pts, rep, subs>>,
         fieldInsensitive \subseteq fieldInsensitive',
         DOMAIN consCG' = DOMAIN consCG,
         pc' = "merge" => pc = "merge" /\ todo' \subseteq todo /\ reach' = reach
  PROVE  FieldWithin(F)'
<1>1. \A e \in edges("copy")' : e \in edges("copy")
  BY DEF edges
<1> QED BY <1>1, WithinKept

(* The handlers that do neither: guards, the choice of the next node, and  *)
(* the bookkeeping of collapses.                                           *)
LEMMA QuietSteps ==
  ASSUME FieldPreciseInv, NEW F \in SUBSET (Obj \ GepObj), mayLoseFields' \subseteq F
  PROVE  /\ fieldBeginAttach => FieldWithin(F)'
         /\ \A s \in todo : fieldAttachStaticEdgeGuard(s) => FieldWithin(F)'
         /\ \A s \in gepTodo : attachGepGuard(s) => FieldWithin(F)'
         /\ \A r \in nodeStack : collapsePWCNode(r) => FieldWithin(F)'
         /\ processPWCNode => FieldWithin(F)'
         /\ \A r \in nodeStack : fieldSweepNode(r) => FieldWithin(F)'
         /\ \A r \in nodeStack : skipMergedNode(r) => FieldWithin(F)'
         /\ fieldPopFromWorklist => FieldWithin(F)'
         /\ fieldHandleCopyGep => FieldWithin(F)'
         /\ fieldUpdateCallGraph => FieldWithin(F)'
         /\ \A n \in cpySrcNodes : fieldPushCpySrcNode(n) => FieldWithin(F)'
         /\ fieldFinish => FieldWithin(F)'
         /\ \A o : beginCollapseField(o) => FieldWithin(F)'
         /\ endCollapseField => FieldWithin(F)'
         /\ UNCHANGED allVars => FieldWithin(F)'
<1> DEFINE quiet == /\ UNCHANGED <<prog, geps, pts, rep, subs>>
                    /\ fieldInsensitive \subseteq fieldInsensitive'
                    /\ DOMAIN consCG' = DOMAIN consCG
                    /\ pc' = "merge" => pc = "merge" /\ todo' \subseteq todo /\ reach' = reach
<1>1. quiet => FieldWithin(F)'
  BY QuietWithin
<1>2. fieldBeginAttach => quiet
  BY DEF fieldBeginAttach, beginAttach
<1>3. \A s \in todo : fieldAttachStaticEdgeGuard(s) => quiet
  BY MergeEdgeGuardDomain DEF fieldAttachStaticEdgeGuard, attachStaticEdgeGuard, fieldVars
<1>4. \A s \in gepTodo : attachGepGuard(s) => quiet
  BY DEF attachGepGuard, vars
<1>5. \A r \in nodeStack : collapsePWCNode(r) => quiet
  BY DEF collapsePWCNode
<1>6. processPWCNode => quiet
  BY DEF processPWCNode, processNode, fieldVars
<1>7. \A r \in nodeStack : fieldSweepNode(r) => quiet
  BY DEF fieldSweepNode, sweepNode, processNode, fieldVars
<1>8. \A r \in nodeStack : skipMergedNode(r) => quiet
  BY DEF skipMergedNode, fieldVars
<1>9. fieldPopFromWorklist => quiet
  BY DEF fieldPopFromWorklist, popFromWorklist, processNode, fieldVars
<1>10. fieldHandleCopyGep => quiet
  BY DEF fieldHandleCopyGep, handleCopyGep
<1>11. fieldUpdateCallGraph => quiet
  BY DEF fieldUpdateCallGraph, updateCallGraph, fieldVars
<1>12. \A n \in cpySrcNodes : fieldPushCpySrcNode(n) => quiet
  BY DEF fieldPushCpySrcNode, pushCpySrcNode, fieldVars
<1>13. fieldFinish => quiet
  BY DEF fieldFinish, finish, fieldVars
<1>14. \A o : beginCollapseField(o) => quiet
  BY DEF beginCollapseField, vars
<1>15. endCollapseField => quiet
  BY DEF endCollapseField, vars
<1>16. UNCHANGED allVars => quiet
  BY DEF allVars, vars, fieldVars
<1> HIDE DEF quiet
<1> QED BY <1>1, <1>2, <1>3, <1>4, <1>5, <1>6, <1>7, <1>8, <1>9, <1>10, <1>11, <1>12, <1>13,
           <1>14, <1>15, <1>16

(* A load or store only derives copies that the reference respects: the    *)
(* object it goes through is one the reference gives the pointer.          *)
LEMMA DerivedWithin ==
  ASSUME FieldPreciseInv, NEW F \in SUBSET (Obj \ GepObj), mayLoseFields' \subseteq F,
         NEW t \in todo, pc = "loadstore", processLoadStore(t[1], t[2]), UNCHANGED fieldVars
  PROVE  FieldWithin(F)'
<1>1. /\ prog \in Programs /\ geps \in GepStmtSets(prog) /\ pts \in [Node -> SUBSET Obj]
      /\ \A m \in Node : answer[m] = pts[rep[m]] /\ rep[m] \in Node
      /\ Obj \subseteq Node
  BY PreciseFacts
<1> DEFINE o   == t[1]
           stm == t[2]
<1>2. /\ stm \in DOMAIN consCG /\ stm.kind \in {"load", "store"} /\ o \in pts[pointer(stm)]
      /\ \E s \in prog.stmts : s.kind = stm.kind /\ rep[s.src] = stm.src /\ rep[s.dst] = stm.dst
  <2>1. FieldLoops /\ GraphStems
    BY PreciseFacts
  <2> QED BY <2>1 DEF FieldLoops, GraphStems
<1>3. /\ UNCHANGED <<prog, geps, pts, rep, subs, pc, reach, fieldInsensitive>>
      /\ DOMAIN consCG' = DOMAIN addCopyEdges(consCG, IF o \in ConstObj THEN {}
                                                       ELSE {derivedEdge(o, stm)})
  BY MergeEdgeGuardDomain DEF processLoadStore, fieldVars
<1>4. PICK s \in prog.stmts : s.kind = stm.kind /\ rep[s.src] = stm.src /\ rep[s.dst] = stm.dst
  BY <1>2
<1>5. s.src \in Node /\ s.dst \in Node
  BY <1>1, StatementFacts
<1>6. o \in Obj /\ o \in Node
  <2>1. pointer(stm) \in Node
    BY <1>1, <1>4, <1>5 DEF pointer
  <2> QED BY <1>1, <1>2, <2>1
<1> HIDE DEF o, stm
<1>7. FieldFactsWithin(F)
  <2>1. answer' = answer /\ \A n : willBe(n)' = willBe(n)
    BY <1>3 DEF answer, willBe
  <2>2. onGepCycle' = onGepCycle
    BY <1>3, <2>1 DEF onGepCycle
  <2>3. mayLoseFields' = mayLoseFields
    BY <1>3, <2>1, <2>2 DEF mayLoseFields
  <2> QED BY <2>3, PreciseFacts DEF FieldWithin
<1>8. o \notin ConstObj => \E a, b \in Node :
        /\ rep[a] = derivedEdge(o, stm).src /\ rep[b] = derivedEdge(o, stm).dst
        /\ fieldSol(F, a) \subseteq fieldSol(F, b)
  <2> SUFFICES ASSUME o \notin ConstObj
               PROVE  \E a, b \in Node :
                        /\ rep[a] = derivedEdge(o, stm).src /\ rep[b] = derivedEdge(o, stm).dst
                        /\ fieldSol(F, a) \subseteq fieldSol(F, b)
    OBVIOUS
  <2>1. CASE stm.kind = "load"
    <3>1. o \in answer[s.src]
      BY <1>1, <1>2, <1>4, <1>5, <2>1 DEF pointer
    <3>2. canon(o, F) \in fieldSol(F, s.src)
      BY <1>5, <1>7, <3>1 DEF FieldFactsWithin
    <3>3. fieldSol(F, o) \subseteq fieldSol(F, s.dst)
      BY <1>1, <1>4, <1>6, <2>1, <3>2, ReferenceFacts
    <3>4. derivedEdge(o, stm).src = rep[o] /\ derivedEdge(o, stm).dst = stm.dst
      BY <2>1 DEF derivedEdge, edge
    <3> QED BY <1>4, <1>5, <1>6, <3>3, <3>4
  <2>2. CASE stm.kind = "store"
    <3>1. o \in answer[s.dst]
      BY <1>1, <1>2, <1>4, <1>5, <2>2 DEF pointer
    <3>2. canon(o, F) \in fieldSol(F, s.dst)
      BY <1>5, <1>7, <3>1 DEF FieldFactsWithin
    <3>3. fieldSol(F, s.src) \subseteq fieldSol(F, o)
      BY <1>1, <1>4, <1>6, <2>2, <3>2, ReferenceFacts
    <3>4. derivedEdge(o, stm).src = stm.src /\ derivedEdge(o, stm).dst = rep[o]
      BY <2>2 DEF derivedEdge, edge
    <3> QED BY <1>4, <1>5, <1>6, <3>3, <3>4
  <2> QED BY <1>2, <2>1, <2>2
<1>9. \A f \in edges("copy")' : \/ f \in edges("copy")
                                \/ \E a, b \in Node :
                                     /\ rep[a] = f.src /\ rep[b] = f.dst
                                     /\ fieldSol(F, a) \subseteq fieldSol(F, b)
  <2>1. PICK E : /\ \A f \in E : o \notin ConstObj /\ f = derivedEdge(o, stm)
                 /\ DOMAIN consCG' = DOMAIN addCopyEdges(consCG, E)
    BY <1>3
  <2>2. \A f \in DOMAIN consCG' : f \in DOMAIN consCG \/ f \in E
    BY <2>1, AddCopyEdgesDomain
  <2>3. \A f \in edges("copy")' : f \in edges("copy") \/ f \in E
    BY <2>2 DEF edges
  <2> QED BY <1>8, <2>1, <2>3
<1>10. pc' # "merge" /\ UNCHANGED <<prog, geps, pts, rep, subs>>
       /\ fieldInsensitive \subseteq fieldInsensitive'
  BY <1>3
<1> QED BY <1>9, <1>10, WithinKept

(* A call binds arguments of calls that the reference resolves too.        *)
LEMMA CallWithin ==
  ASSUME FieldPreciseInv, NEW F \in SUBSET (Obj \ GepObj), mayLoseFields' \subseteq F,
         NEW c \in todo, fieldConnectCallParams(c)
  PROVE  FieldWithin(F)'
<1>1. /\ pc = "update" /\ pc' = pc
      /\ DOMAIN consCG' = DOMAIN addCopyEdges(consCG, boundEdges(c))
      /\ UNCHANGED <<prog, subs, pts, rep, geps, fieldInsensitive>>
  BY DEF fieldConnectCallParams, connectCaller2CalleeParams, fieldVars
<1>2. /\ prog \in Programs /\ geps \in GepStmtSets(prog) /\ FieldLoops /\ FieldTypes
      /\ \A m \in Node : answer[m] = pts[rep[m]]
  BY PreciseFacts
<1>3. c \in prog.calls /\ c.fun \in pts[rep[c.fp]] /\ c.fp \in Node /\ c.fun \in Obj \ GepObj
  BY <1>1, <1>2, StatementFacts DEF FieldLoops, FieldTypes
<1>4. FieldFactsWithin(F)
  <2>1. answer' = answer /\ \A n : willBe(n)' = willBe(n)
    BY <1>1 DEF answer, willBe
  <2>2. onGepCycle' = onGepCycle
    BY <1>1, <2>1 DEF onGepCycle
  <2>3. mayLoseFields' = mayLoseFields
    BY <1>1, <2>1, <2>2 DEF mayLoseFields
  <2> QED BY <2>3, PreciseFacts DEF FieldWithin
<1>5. canon(c.fun, F) \in fieldSol(F, c.fp)
  BY <1>2, <1>3, <1>4 DEF FieldFactsWithin
<1>6. \A arg \in c.args : /\ arg[1] \in Node /\ arg[2] \in Node
                          /\ fieldSol(F, arg[1]) \subseteq fieldSol(F, arg[2])
  <2>1. \A arg \in c.args : arg[1] \in Node /\ arg[2] \in Node
    BY <1>2, <1>3, StatementFacts
  <2>2. \A arg \in c.args : fieldSol(F, arg[1]) \subseteq fieldSol(F, arg[2])
    BY <1>2, <1>3, <1>5, ReferenceFacts
  <2> QED BY <2>1, <2>2
<1>7. \A f \in boundEdges(c) : \E a, b \in Node :
        rep[a] = f.src /\ rep[b] = f.dst /\ fieldSol(F, a) \subseteq fieldSol(F, b)
  <2> SUFFICES ASSUME NEW arg \in c.args, NEW f, f = edge("copy", rep[arg[1]], rep[arg[2]])
               PROVE  rep[arg[1]] = f.src /\ rep[arg[2]] = f.dst
    BY <1>6 DEF boundEdges
  <2> QED BY DEF edge
<1>8. \A f \in edges("copy")' : f \in edges("copy") \/ f \in boundEdges(c)
  <2>1. \A f \in DOMAIN consCG' : f \in DOMAIN consCG \/ f \in boundEdges(c)
    BY <1>1, AddCopyEdgesDomain
  <2> QED BY <2>1 DEF edges
<1> QED BY <1>1, <1>7, <1>8, WithinKept

-----------------------------------------------------------------------------
(* SCC detection.  What every edge keeps, reachability keeps.              *)
LEMMA ReachedWithin ==
  ASSUME NEW X \in SUBSET inGraph, NEW x \in X, NEW y, <<x, y>> \in fieldReachable,
         \A e \in edges("copy") : e.src \in X => e.dst \in X,
         \A e \in DOMAIN gepCG : e.src \in X => e.dst \in X
  PROVE  y \in X
<1>1. \A p \in fieldReachable : \A Y \in SUBSET inGraph :
        (/\ \A e \in edges("copy") : e.src \in Y => e.dst \in Y
         /\ \A e \in DOMAIN gepCG : e.src \in Y => e.dst \in Y)
          => (p[1] \in Y => p[2] \in Y)
  BY DEF fieldReachable
<1>2. <<x, y>>[1] \in X => <<x, y>>[2] \in X
  BY <1>1
<1> QED BY <1>2

(* A copy edge is in the relation SCC detection works on.                  *)
LEMMA CopiesReach ==
  ASSUME FieldState, NEW e \in edges("copy")
  PROVE  e.src \in inGraph /\ e.dst \in inGraph /\ <<e.src, e.dst>> \in fieldReachable
<1>1. e.src \in inGraph /\ e.dst \in inGraph
  BY DEF FieldState, FieldShape, GraphStems, edges
<1> QED BY <1>1 DEF fieldReachable

(* Along copies and geps the objects of F are passed on as they are; along *)
(* a cycle of copies everything is.                                        *)
LEMMA CycleWithin ==
  ASSUME FieldPreciseInv, NEW F \in SUBSET (Obj \ GepObj), mayLoseFields \subseteq F,
         subs = {}, NEW x, NEW y, <<x, y>> \in fieldReachable
  PROVE  /\ fieldSol(F, x) \cap F \subseteq fieldSol(F, y)
         /\ <<y, x>> \in fieldReachable =>
              \/ fieldSol(F, x) \subseteq fieldSol(F, y)
              \/ \E s \in geps : \A n \in {rep[s.src], rep[s.dst]} :
                   <<x, n>> \in fieldReachable /\ <<n, x>> \in fieldReachable
<1>a. /\ FieldState /\ GraphStems /\ prog \in Programs /\ geps \in GepStmtSets(prog)
      /\ \A s \in geps : s.src \in Node /\ s.dst \in Node
      /\ inGraph \subseteq Node /\ \A n \in inGraph : rep[n] = n
  BY PreciseFacts DEF inGraph, live
<1>b. FieldFactsWithin(F) /\ ClassesWithin(F) /\ CopiesWithin(F)
  BY PreciseFacts DEF FieldWithin
<1>c. \A n : willBe(n) = rep[n]
  BY <1>a, WillBe
<1>d. x \in inGraph /\ y \in inGraph
  BY DEF fieldReachable
<1>1. \A m \in Node, n \in inGraph : rep[m] = n =>
        /\ fieldSol(F, m) \cap F = fieldSol(F, n) \cap F
        /\ m \notin onGepCycle => fieldSol(F, m) = fieldSol(F, n)
  BY <1>a, <1>b, <1>c DEF ClassesWithin
<1>2. fieldSol(F, x) \cap F \subseteq fieldSol(F, y)
  <2> DEFINE X == {z \in inGraph : fieldSol(F, x) \cap F \subseteq fieldSol(F, z)}
  <2>1. ASSUME NEW e \in edges("copy"), e.src \in X PROVE e.dst \in X
    <3>1. PICK a, b \in Node :
            rep[a] = e.src /\ rep[b] = e.dst /\ fieldSol(F, a) \subseteq fieldSol(F, b)
      BY <1>b DEF CopiesWithin
    <3>2. e.src \in inGraph /\ e.dst \in inGraph
      BY <1>a, CopiesReach
    <3>3. /\ fieldSol(F, a) \cap F = fieldSol(F, e.src) \cap F
          /\ fieldSol(F, b) \cap F = fieldSol(F, e.dst) \cap F
      BY <1>1, <3>1, <3>2
    <3> QED BY <2>1, <3>1, <3>2, <3>3
  <2>2. ASSUME NEW e \in DOMAIN gepCG, e.src \in X PROVE e.dst \in X
    <3>1. /\ e.src \in inGraph /\ e.dst \in inGraph
          /\ \E s \in geps : rep[s.src] = e.src /\ rep[s.dst] = e.dst
      BY <1>a DEF GraphStems
    <3>2. PICK s \in geps : rep[s.src] = e.src /\ rep[s.dst] = e.dst
      BY <3>1
    <3>3. /\ fieldSol(F, s.src) \cap F = fieldSol(F, e.src) \cap F
          /\ fieldSol(F, s.dst) \cap F = fieldSol(F, e.dst) \cap F
      BY <1>1, <1>a, <3>1, <3>2
    <3>4. ASSUME NEW o \in fieldSol(F, x) \cap F PROVE o \in fieldSol(F, e.dst)
      <4>1. o \in fieldSol(F, s.src)
        BY <2>2, <3>3, <3>4
      <4>2. gepTarget(o, s, F) \in fieldSol(F, s.dst)
        BY <1>a, <4>1, ReferenceFacts
      <4>3. base[o] = o
        BY <1>a, CanonFacts
      <4>4. gepTarget(o, s, F) = o
        BY <4>3 DEF gepTarget
      <4> QED BY <3>3, <4>2, <4>4
    <3> QED BY <3>1, <3>4
  <2>3. x \in X /\ X \in SUBSET inGraph
    BY <1>d
  <2>4. y \in X
    <3> HIDE DEF X
    <3> QED BY <2>1, <2>2, <2>3, ReachedWithin
  <2> QED BY <2>4
<1>3. ASSUME <<y, x>> \in fieldReachable,
             \A s \in geps : \E n \in {rep[s.src], rep[s.dst]} :
                <<x, n>> \notin fieldReachable \/ <<n, x>> \notin fieldReachable
      PROVE  fieldSol(F, x) \subseteq fieldSol(F, y)
  <2> DEFINE onCycle(n) == <<x, n>> \in fieldReachable /\ <<n, x>> \in fieldReachable
  <2> DEFINE X == {z \in inGraph : /\ <<x, z>> \in fieldReachable
                                   /\ onCycle(z) => fieldSol(F, x) \subseteq fieldSol(F, z)}
  <2>1. \A s \in geps : ~(onCycle(rep[s.src]) /\ onCycle(rep[s.dst]))
    BY <1>3
  <2>2. \A m \in Node : onCycle(rep[m]) => m \notin onGepCycle
    <3> SUFFICES ASSUME NEW m \in Node, onCycle(rep[m]), m \in onGepCycle PROVE FALSE
      OBVIOUS
    <3>1. PICK s \in geps : rep[s.src] = rep[m] /\ rep[s.dst] = rep[m]
      BY <1>c DEF onGepCycle
    <3> HIDE DEF onCycle
    <3> QED BY <2>1, <3>1
  <2>3. ASSUME NEW e \in edges("copy"), e.src \in X PROVE e.dst \in X
    <3>1. PICK a, b \in Node :
            rep[a] = e.src /\ rep[b] = e.dst /\ fieldSol(F, a) \subseteq fieldSol(F, b)
      BY <1>b DEF CopiesWithin
    <3>2. e.src \in inGraph /\ e.dst \in inGraph /\ <<e.src, e.dst>> \in fieldReachable
      BY <1>a, CopiesReach
    <3>3. <<x, e.dst>> \in fieldReachable
      BY <2>3, <3>2, FieldReachTransitive
    <3>4. ASSUME onCycle(e.dst) PROVE fieldSol(F, x) \subseteq fieldSol(F, e.dst)
      <4>1. onCycle(e.src)
        BY <2>3, <3>2, <3>4, FieldReachTransitive
      <4>2. fieldSol(F, a) = fieldSol(F, e.src) /\ fieldSol(F, b) = fieldSol(F, e.dst)
        <5>1. a \notin onGepCycle /\ b \notin onGepCycle
          <6> HIDE DEF onCycle
          <6> QED BY <2>2, <3>1, <3>4, <4>1
        <5> QED BY <1>1, <3>1, <3>2, <5>1
      <4> QED BY <2>3, <3>1, <4>1, <4>2
    <3> QED BY <3>2, <3>3, <3>4
  <2>4. ASSUME NEW e \in (IF detectPWC THEN DOMAIN gepCG ELSE {}), e.src \in X
        PROVE  e.dst \in X
    <3>1. e \in DOMAIN gepCG
      BY <2>4
    <3>2. /\ e.src \in inGraph /\ e.dst \in inGraph
          /\ \E s \in geps : rep[s.src] = e.src /\ rep[s.dst] = e.dst
      BY <1>a, <3>1 DEF GraphStems
    <3>3. <<e.src, e.dst>> \in fieldReachable
      BY <2>4, <3>2 DEF fieldReachable
    <3>4. <<x, e.dst>> \in fieldReachable
      BY <2>4, <3>3, FieldReachTransitive
    <3>5. ~onCycle(e.dst)
      <4>1. onCycle(e.dst) => onCycle(e.src)
        BY <2>4, <3>3, FieldReachTransitive
      <4> HIDE DEF onCycle
      <4> QED BY <2>1, <3>2, <4>1
    <3> HIDE DEF onCycle
    <3> QED BY <3>2, <3>4, <3>5
  <2>5. x \in X /\ X \in SUBSET inGraph
    BY <1>d, FieldReachTransitive
  <2>6. y \in X
    <3> HIDE DEF X
    <3>1. \A p \in fieldReachable : \A Y \in SUBSET inGraph :
            (/\ \A e \in edges("copy") : e.src \in Y => e.dst \in Y
             /\ \A e \in (IF detectPWC THEN DOMAIN gepCG ELSE {}) : e.src \in Y => e.dst \in Y)
               => (p[1] \in Y => p[2] \in Y)
      BY DEF fieldReachable
    <3>2. <<x, y>>[1] \in X => <<x, y>>[2] \in X
      BY <2>3, <2>4, <2>5, <3>1
    <3> QED BY <2>5, <3>2
  <2>7. onCycle(y)
    BY <1>3
  <2> HIDE DEF onCycle
  <2> QED BY <2>6, <2>7
<1> QED BY <1>2, <1>3

(* The SCCs that SCC detection leaves in the list: around a cycle without  *)
(* geps the reference gives every node the same.                           *)
LEMMA SCCDetectWithin ==
  ASSUME FieldPreciseInv, NEW F \in SUBSET (Obj \ GepObj), mayLoseFields' \subseteq F,
         fieldSCCDetect
  PROVE  FieldWithin(F)'
<1>1. /\ reach' = fieldReachable
      /\ UNCHANGED <<prog, subs, pts, consCG, rep, geps, gepCG, fieldInsensitive>>
  BY DEF fieldSCCDetect
<1>2. subs = {}
  BY PreciseFacts DEF fieldSCCDetect, fieldsSolved, solved, idle, FieldSubs
<1>3. answer' = answer /\ \A n : willBe(n)' = willBe(n)
  BY <1>1 DEF answer, willBe
<1>4. onGepCycle' = onGepCycle
  BY <1>1, <1>3 DEF onGepCycle
<1>5. mayLoseFields \subseteq F
  BY <1>1, <1>3, <1>4 DEF mayLoseFields
<1>6. FieldFactsWithin(F) /\ ClassesWithin(F) /\ CopiesWithin(F)
  BY <1>5, PreciseFacts DEF FieldWithin
<1>7. \A n : fieldSol(F, n)' = fieldSol(F, n)
  BY <1>1 DEF fieldSol
<1>8. FieldFactsWithin(F)'
  BY <1>3, <1>6, <1>7 DEF FieldFactsWithin
<1>9. ClassesWithin(F)'
  BY <1>3, <1>4, <1>6, <1>7 DEF ClassesWithin
<1>10. CopiesWithin(F)'
  <2>1. edges("copy")' = edges("copy")
    BY <1>1 DEF edges
  <2> QED BY <1>1, <1>6, <1>7, <2>1 DEF CopiesWithin
<1>11. SCCsWithin(F)'
  <2> SUFFICES ASSUME NEW r \in todo', NEW x \in scc(r, reach'), NEW y \in scc(r, reach')
               PROVE  /\ fieldSol(F, x) \cap F = fieldSol(F, y) \cap F
                      /\ gepInside(r)' \/ fieldSol(F, x) = fieldSol(F, y)
    BY <1>7 DEF SCCsWithin
  <2> DEFINE both(a, b) == <<a, b>> \in fieldReachable /\ <<b, a>> \in fieldReachable
  <2>1. both(r, x) /\ both(r, y) /\ both(x, y)
    BY <1>1, FieldReachTransitive DEF scc
  <2>2. /\ fieldSol(F, x) \cap F \subseteq fieldSol(F, y)
        /\ fieldSol(F, y) \cap F \subseteq fieldSol(F, x)
    BY <1>2, <1>5, <2>1, CycleWithin
  <2>3. ASSUME fieldSol(F, x) # fieldSol(F, y) PROVE gepInside(r)'
    <3>1. PICK z \in {x, y} : \E s \in geps :
            both(z, rep[s.src]) /\ both(z, rep[s.dst])
      <4>1. \/ fieldSol(F, x) \subseteq fieldSol(F, y)
            \/ \E s \in geps : both(x, rep[s.src]) /\ both(x, rep[s.dst])
        BY <1>2, <1>5, <2>1, CycleWithin
      <4>2. \/ fieldSol(F, y) \subseteq fieldSol(F, x)
            \/ \E s \in geps : both(y, rep[s.src]) /\ both(y, rep[s.dst])
        BY <1>2, <1>5, <2>1, CycleWithin
      <4> HIDE DEF both
      <4> QED BY <2>3, <4>1, <4>2
    <3>2. PICK s \in geps : both(z, rep[s.src]) /\ both(z, rep[s.dst])
      BY <3>1
    <3>3. both(r, rep[s.src]) /\ both(r, rep[s.dst])
      BY <2>1, <3>2, FieldReachTransitive
    <3>4. rep[s.src] \in Node /\ rep[s.dst] \in Node
      BY PreciseFacts
    <3>5. rep[s.src] \in scc(r, reach') /\ rep[s.dst] \in scc(r, reach')
      BY <1>1, <3>3, <3>4 DEF scc
    <3>6. rep'[s.src] \in scc(r, reach') /\ rep'[s.dst] \in scc(r, reach') /\ s \in geps'
      BY <1>1, <3>5
    <3> QED BY <3>6 DEF gepInside, scc
  <2> QED BY <2>2, <2>3
<1> QED BY <1>8, <1>9, <1>10, <1>11 DEF FieldWithin

(* The node that subs sends a node to.                                     *)
aim(x, G) == IF \E r \in Node : <<x, r>> \in G
             THEN CHOOSE r \in Node : <<x, r>> \in G ELSE x

(* It is the root, for every node of a pair, and the node itself           *)
(* otherwise.                                                              *)
LEMMA AimFacts ==
  ASSUME NEW G, G \subseteq Node \X Node, \A p, q \in G : p[2] = q[2]
  PROVE  /\ \A x, r : <<x, r>> \in G => aim(x, G) = r
         /\ \A x : (\A p \in G : p[1] # x) => aim(x, G) = x
<1>1. ASSUME NEW x, NEW r, <<x, r>> \in G PROVE aim(x, G) = r
  <2>1. r \in Node
    BY <1>1
  <2>2. PICK q \in Node : q = (CHOOSE k \in Node : <<x, k>> \in G) /\ <<x, q>> \in G
    BY <1>1, <2>1
  <2>3. <<x, q>>[2] = <<x, r>>[2]
    BY <1>1, <2>2
  <2> QED BY <1>1, <2>1, <2>2, <2>3 DEF aim
<1>2. ASSUME NEW x, \A p \in G : p[1] # x PROVE aim(x, G) = x
  BY <1>2 DEF aim
<1> QED BY <1>1, <1>2

(* The merges of an SCC: its nodes become a class of their own.            *)
LEMMA BeginSCCWithin ==
  ASSUME FieldPreciseInv, NEW F \in SUBSET (Obj \ GepObj), mayLoseFields' \subseteq F,
         NEW r \in todo, fieldBeginSCC(r)
  PROVE  FieldWithin(F)'
<1>1. /\ pc = "merge" /\ todo' \subseteq todo /\ subs = {} /\ todo \subseteq Node
      /\ subs' \in {{}, {<<n, r>> : n \in scc(r, reach) \ {r}}}
      /\ UNCHANGED <<prog, pc, reach, pts, consCG, rep, geps, fieldInsensitive>>
  <2>1. FieldTypes
    BY PreciseFacts
  <2> QED BY <2>1 DEF fieldBeginSCC, fieldVars, FieldTypes
<1>2. /\ \A n : willBe(n) = rep[n]
      /\ \A m \in Node : rep[m] \in Node /\ rep[rep[m]] = rep[m]
      /\ \A s \in geps : s.src \in Node /\ s.dst \in Node
      /\ scc(r, reach) \subseteq inGraph /\ inGraph \subseteq Node /\ r \in scc(r, reach)
  BY <1>1, PreciseFacts, WillBe DEF inGraph, live, FieldRoots
<1>3. \A n : willBe(n)' = aim(rep[n], subs')
  BY <1>1 DEF willBe, aim
<1>4. \/ \A n : willBe(n)' = rep[n]
      \/ \A n : willBe(n)' = IF rep[n] \in scc(r, reach) THEN r ELSE rep[n]
  <2>1. CASE subs' = {}
    BY <1>3, <2>1 DEF aim
  <2>2. CASE subs' = {<<n, r>> : n \in scc(r, reach) \ {r}}
    <3>1. subs' \subseteq Node \X Node /\ \A p, q \in subs' : p[2] = q[2]
      BY <1>1, <1>2, <2>2
    <3>2. /\ \A x : <<x, r>> \in subs' => aim(x, subs') = r
          /\ \A x : (\A p \in subs' : p[1] # x) => aim(x, subs') = x
      BY <3>1, AimFacts
    <3>3. \A x \in scc(r, reach) \ {r} : aim(x, subs') = r
      BY <2>2, <3>2
    <3>4. \A x : x \notin scc(r, reach) \ {r} => aim(x, subs') = x
      BY <2>2, <3>2
    <3>5. \A n : willBe(n)' = IF rep[n] \in scc(r, reach) THEN r ELSE rep[n]
      BY <1>3, <3>3, <3>4
    <3> QED BY <3>5
  <2> QED BY <1>1, <2>1, <2>2
<1>5. \A m, k \in Node : willBe(m) = willBe(k) => willBe(m)' = willBe(k)'
  BY <1>2, <1>4
<1>6. answer' = answer
  BY <1>1 DEF answer
<1>7. onGepCycle \subseteq onGepCycle' /\ mayLoseFields \subseteq F
  BY <1>1, <1>2, <1>5, <1>6, LosesMore
<1>8. FieldFactsWithin(F) /\ ClassesWithin(F) /\ CopiesWithin(F) /\ SCCsWithin(F)
  BY <1>7, PreciseFacts DEF FieldWithin
<1>9. \A n : fieldSol(F, n)' = fieldSol(F, n)
  BY <1>1 DEF fieldSol
<1>10. FieldFactsWithin(F)'
  BY <1>6, <1>8, <1>9 DEF FieldFactsWithin
<1>11. ClassesWithin(F)'
  <2> SUFFICES ASSUME NEW m \in Node, NEW k \in Node, willBe(m)' = willBe(k)'
               PROVE  /\ fieldSol(F, m) \cap F = fieldSol(F, k) \cap F
                      /\ m \notin onGepCycle' => fieldSol(F, m) = fieldSol(F, k)
    BY <1>9 DEF ClassesWithin
  <2>1. CASE rep[m] = rep[k]
    BY <1>2, <1>7, <1>8, <2>1 DEF ClassesWithin
  <2>2. CASE rep[m] # rep[k]
    <3>1. /\ \A n : willBe(n)' = IF rep[n] \in scc(r, reach) THEN r ELSE rep[n]
          /\ rep[m] \in scc(r, reach) /\ rep[k] \in scc(r, reach)
      <4>1. \A n : willBe(n)' = IF rep[n] \in scc(r, reach) THEN r ELSE rep[n]
        BY <1>4, <2>2
      <4> QED BY <1>2, <2>2, <4>1
    <3>2. /\ fieldSol(F, rep[m]) \cap F = fieldSol(F, rep[k]) \cap F
          /\ gepInside(r) \/ fieldSol(F, rep[m]) = fieldSol(F, rep[k])
      BY <1>1, <1>8, <3>1 DEF SCCsWithin
    <3>3. ASSUME NEW a \in {m, k}
          PROVE  /\ fieldSol(F, a) \cap F = fieldSol(F, rep[a]) \cap F
                 /\ a \notin onGepCycle => fieldSol(F, a) = fieldSol(F, rep[a])
      BY <1>2, <1>8 DEF ClassesWithin
    <3>4. ASSUME m \notin onGepCycle'
          PROVE  m \notin onGepCycle /\ k \notin onGepCycle /\ ~gepInside(r)
      <4>1. k \notin onGepCycle'
        BY <3>4 DEF onGepCycle
      <4>2. ASSUME gepInside(r) PROVE m \in onGepCycle'
        <5>1. PICK s \in geps : rep[s.src] \in scc(r, reach) /\ rep[s.dst] \in scc(r, reach)
          BY <4>2 DEF gepInside
        <5>2. willBe(s.src)' = willBe(m)' /\ willBe(s.dst)' = willBe(m)' /\ s \in geps'
          BY <1>1, <3>1, <5>1
        <5> QED BY <5>2 DEF onGepCycle
      <4> QED BY <1>7, <3>4, <4>1, <4>2
    <3> QED BY <3>2, <3>3, <3>4
  <2> QED BY <2>1, <2>2
<1>12. CopiesWithin(F)'
  <2>1. edges("copy")' = edges("copy")
    BY <1>1 DEF edges
  <2> QED BY <1>1, <1>8, <1>9, <2>1 DEF CopiesWithin
<1>13. SCCsWithin(F)'
  <2>1. \A q : gepInside(q)' = gepInside(q) /\ scc(q, reach)' = scc(q, reach)
    BY <1>1 DEF gepInside, scc
  <2> SUFFICES ASSUME NEW q \in todo', NEW x \in scc(q, reach), NEW y \in scc(q, reach)
               PROVE  /\ fieldSol(F, x) \cap F = fieldSol(F, y) \cap F
                      /\ gepInside(q) \/ fieldSol(F, x) = fieldSol(F, y)
    BY <1>9, <2>1 DEF SCCsWithin
  <2> QED BY <1>1, <1>8 DEF SCCsWithin
<1> QED BY <1>10, <1>11, <1>12, <1>13 DEF FieldWithin

-----------------------------------------------------------------------------
(* What merging keeps, in the SCC loop as in a collapse: facts that move   *)
(* within a class stay facts of the reference, and so do copies.           *)
LEMMA FactsJoin ==
  ASSUME NEW F \in SUBSET (Obj \ GepObj), mayLoseFields' \subseteq F,
         UNCHANGED <<prog, geps>>, ClassesWithin(F)', FieldFactsWithin(F),
         \A m \in Node : \A o \in answer'[m] : \E k \in Node :
           /\ willBe(k)' = willBe(m)'
           /\ \E q \in answer[k] : canon(q, F) = canon(o, F)
  PROVE  FieldFactsWithin(F)'
<1>1. \A n : fieldSol(F, n)' = fieldSol(F, n)
  BY DEF fieldSol
<1> SUFFICES ASSUME NEW m \in Node, NEW o \in answer'[m]
             PROVE  canon(o, F) \in fieldSol(F, m)
  BY <1>1 DEF FieldFactsWithin
<1>2. PICK k \in Node : /\ willBe(k)' = willBe(m)'
                        /\ \E q \in answer[k] : canon(q, F) = canon(o, F)
  OBVIOUS
<1>3. canon(o, F) \in fieldSol(F, k)
  BY <1>2 DEF FieldFactsWithin
<1>4. /\ fieldSol(F, m) \cap F = fieldSol(F, k) \cap F
      /\ m \notin onGepCycle' => fieldSol(F, m) = fieldSol(F, k)
  BY <1>1, <1>2 DEF ClassesWithin
<1>5. CASE m \in onGepCycle'
  <2>1. base[o] \in F
    BY <1>5 DEF mayLoseFields
  <2>2. canon(o, F) \in F
    BY <2>1 DEF canon
  <2> QED BY <1>3, <1>4, <2>2
<1> QED BY <1>3, <1>4, <1>5

(* The copies of merged nodes are copies of the nodes they stand for.      *)
LEMMA CopiesJoin ==
  ASSUME NEW F, NEW n, NEW r, UNCHANGED <<prog, geps>>, CopiesWithin(F),
         \A m \in Node : rep'[m] = end(rep[m], n, r),
         \A e \in DOMAIN consCG' : \E f \in DOMAIN consCG : e = mergedEdge(f, n, r)
  PROVE  CopiesWithin(F)'
<1>1. \A m : fieldSol(F, m)' = fieldSol(F, m)
  BY DEF fieldSol
<1> SUFFICES ASSUME NEW e \in edges("copy")'
             PROVE  \E a, b \in Node : /\ rep'[a] = e.src /\ rep'[b] = e.dst
                                       /\ fieldSol(F, a) \subseteq fieldSol(F, b)
  BY <1>1 DEF CopiesWithin
<1>2. PICK f \in DOMAIN consCG : e = mergedEdge(f, n, r)
  BY DEF edges
<1>3. e.kind = f.kind /\ e.src = end(f.src, n, r) /\ e.dst = end(f.dst, n, r)
  BY <1>2 DEF mergedEdge, edge
<1>4. f \in edges("copy")
  BY <1>3 DEF edges
<1>5. PICK a, b \in Node :
        rep[a] = f.src /\ rep[b] = f.dst /\ fieldSol(F, a) \subseteq fieldSol(F, b)
  BY <1>4 DEF CopiesWithin
<1> QED BY <1>3, <1>5

(* One merge of the SCC loop: the classes have been joined before.         *)
LEMMA SCCMergeWithin ==
  ASSUME FieldPreciseInv, NEW F \in SUBSET (Obj \ GepObj), mayLoseFields' \subseteq F,
         NEW p \in subs, fieldMergeNodeToRep(p[1], p[2])
  PROVE  FieldWithin(F)'
<1> DEFINE n == p[1]
           r == p[2]
<1>a. /\ FieldState /\ FieldTypes /\ FieldSubs /\ FieldRoots
      /\ \A m \in Node : rep[m] \in Node
      /\ \A m \in Node : answer[m] = pts[rep[m]]
      /\ \A s \in geps : s.src \in Node /\ s.dst \in Node
  BY PreciseFacts
<1>1. /\ n \in inGraph /\ r \in inGraph /\ n # r /\ pts \in [Node -> SUBSET Obj]
      /\ <<n, r>> \in subs /\ subs \subseteq Node \X Node
      /\ \A q \in subs : q[2] = r /\ q[1] # r
      /\ \A s, q \in subs : s[2] = q[2]
  BY <1>a DEF FieldSubs, FieldTypes
<1>2. /\ pc = "merge" /\ mergeWithFields(n, r, pts) /\ subs' = subs \ {<<n, r>>}
      /\ UNCHANGED <<prog, pc, todo, reach, geps, created, fieldInsensitive>>
  BY DEF fieldMergeNodeToRep
<1>3. \A q \in todo : n \notin scc(q, reach)
  BY <1>a, <1>2 DEF FieldRoots
<1> HIDE DEF n, r
<1>4. /\ n \in Node /\ r \in Node /\ rep[n] = n /\ rep[r] = r
      /\ \A m \in Node : rep'[m] = end(rep[m], n, r)
      /\ \A m \in Node : pts'[m] = IF m = r THEN pts[r] \cup pts[n] ELSE pts[m]
      /\ \A e \in DOMAIN consCG' : \E f \in DOMAIN consCG : e = mergedEdge(f, n, r)
  <2>1. FieldState /\ UNCHANGED <<prog, geps, created>> /\ mergeWithFields(n, r, pts)
    BY <1>a, <1>2
  <2>2. n \in inGraph /\ r \in inGraph /\ n # r /\ pts \in [Node -> SUBSET Obj]
    BY <1>1
  <2> QED BY <2>1, <2>2, MergeShape
<1>5. \A m \in Node : willBe(m) = aim(rep[m], subs) /\ willBe(m)' = aim(rep'[m], subs')
  BY DEF willBe, aim
<1>6. \A m \in Node : willBe(m)' = willBe(m)
  <2>1. /\ \A x, y : <<x, y>> \in subs => aim(x, subs) = y
        /\ \A x : (\A q \in subs : q[1] # x) => aim(x, subs) = x
    BY <1>1, AimFacts
  <2>2. /\ \A x, y : <<x, y>> \in subs' => aim(x, subs') = y
        /\ \A x : (\A q \in subs' : q[1] # x) => aim(x, subs') = x
    <3>1. subs' \subseteq Node \X Node /\ \A s, q \in subs' : s[2] = q[2]
      BY <1>1, <1>2
    <3>2. PICK G : G = subs'
      OBVIOUS
    <3>3. /\ \A x, y : <<x, y>> \in G => aim(x, G) = y
          /\ \A x : (\A q \in G : q[1] # x) => aim(x, G) = x
      BY <3>1, <3>2, AimFacts
    <3> QED BY <3>2, <3>3
  <2> SUFFICES ASSUME NEW m \in Node PROVE aim(rep'[m], subs') = aim(rep[m], subs)
    BY <1>5
  <2>3. CASE rep[m] = n
    <3>1. aim(rep[m], subs) = r
      BY <1>1, <2>1, <2>3
    <3>2. rep'[m] = r
      BY <1>4, <2>3 DEF end
    <3>3. \A q \in subs' : q[1] # r
      BY <1>1, <1>2
    <3> QED BY <2>2, <3>1, <3>2, <3>3
  <2>4. CASE rep[m] # n
    <3>1. rep'[m] = rep[m]
      BY <1>4, <2>4 DEF end
    <3>2. CASE \A q \in subs : q[1] # rep[m]
      BY <1>2, <2>1, <2>2, <3>1, <3>2
    <3>3. CASE \E q \in subs : q[1] = rep[m]
      <4>1. PICK q \in subs : q[1] = rep[m]
        BY <3>3
      <4>2. q = <<rep[m], r>>
        BY <1>1, <4>1
      <4>3. q \in subs'
        BY <1>2, <2>4, <4>2
      <4> QED BY <2>1, <2>2, <3>1, <4>1, <4>2, <4>3
    <3> QED BY <3>2, <3>3
  <2> QED BY <2>3, <2>4
<1>7. \A m \in Node : answer'[m] = pts'[rep'[m]] /\ answer[m] \subseteq answer'[m]
  <2>1. \A m \in Node : answer'[m] = pts'[rep'[m]]
    BY DEF answer
  <2>2. ASSUME NEW m \in Node PROVE pts[rep[m]] \subseteq pts'[rep'[m]]
    BY <1>a, <1>4 DEF end
  <2> QED BY <1>a, <2>1, <2>2
<1>8. onGepCycle' = onGepCycle /\ mayLoseFields \subseteq F
  <2>1. onGepCycle' = onGepCycle
    BY <1>a, <1>2, <1>6 DEF onGepCycle
  <2>2. mayLoseFields \subseteq mayLoseFields'
    BY <1>a, <1>2, <1>6, <1>7, LosesMore
  <2> QED BY <2>1, <2>2
<1>9. FieldFactsWithin(F) /\ ClassesWithin(F) /\ CopiesWithin(F) /\ SCCsWithin(F)
  BY <1>8, PreciseFacts DEF FieldWithin
<1>10. \A m : fieldSol(F, m)' = fieldSol(F, m)
  BY <1>2 DEF fieldSol
<1>11. ClassesWithin(F)'
  BY <1>6, <1>8, <1>9, <1>10 DEF ClassesWithin
<1>12. FieldFactsWithin(F)'
  <2>1. willBe(n)' = r /\ willBe(r)' = r
    <3>1. aim(n, subs) = r /\ aim(r, subs) = r
      BY <1>1, AimFacts
    <3> QED BY <1>4, <1>5, <1>6, <3>1
  <2>2. ASSUME NEW m \in Node, NEW o \in answer'[m]
        PROVE  \E k \in Node : willBe(k)' = willBe(m)' /\ o \in answer[k]
    <3>1. CASE rep'[m] = r
      <4>1. o \in answer[r] \/ o \in answer[n]
        BY <1>a, <1>4, <1>7, <3>1
      <4>2. \A q \in subs' : q[1] # r
        BY <1>1, <1>2
      <4>3. willBe(m)' = r
        BY <1>5, <3>1, <4>2 DEF aim
      <4> QED BY <1>4, <2>1, <4>1, <4>3
    <3>2. CASE rep'[m] # r
      <4>1. rep'[m] = rep[m]
        BY <1>4, <3>2 DEF end
      <4>2. o \in answer[m]
        BY <1>a, <1>4, <1>7, <3>2, <4>1
      <4> QED BY <4>2
    <3> QED BY <3>1, <3>2
  <2>3. \A m \in Node : \A o \in answer'[m] : \E k \in Node :
          /\ willBe(k)' = willBe(m)'
          /\ \E q \in answer[k] : canon(q, F) = canon(o, F)
    BY <2>2
  <2> QED BY <1>2, <1>9, <1>11, <2>3, FactsJoin
<1>13. CopiesWithin(F)'
  BY <1>2, <1>4, <1>9, CopiesJoin
<1>14. SCCsWithin(F)'
  <2> SUFFICES ASSUME NEW q \in todo, NEW x \in scc(q, reach), NEW y \in scc(q, reach)
               PROVE  /\ fieldSol(F, x) \cap F = fieldSol(F, y) \cap F
                      /\ gepInside(q)' \/ fieldSol(F, x) = fieldSol(F, y)
    BY <1>2, <1>10 DEF SCCsWithin, scc
  <2>1. /\ fieldSol(F, x) \cap F = fieldSol(F, y) \cap F
        /\ gepInside(q) \/ fieldSol(F, x) = fieldSol(F, y)
    BY <1>2, <1>9 DEF SCCsWithin
  <2>2. gepInside(q) => gepInside(q)'
    <3> SUFFICES ASSUME NEW s \in geps, rep[s.src] \in scc(q, reach),
                        rep[s.dst] \in scc(q, reach)
                 PROVE  gepInside(q)'
      BY DEF gepInside
    <3>1. rep'[s.src] = rep[s.src] /\ rep'[s.dst] = rep[s.dst]
      BY <1>a, <1>3, <1>4 DEF end
    <3>2. s \in geps' /\ rep'[s.src] \in scc(q, reach) /\ rep'[s.dst] \in scc(q, reach)
      BY <1>2, <3>1
    <3> QED BY <1>2, <3>2 DEF gepInside, scc
  <2> QED BY <2>1, <2>2
<1> QED BY <1>11, <1>12, <1>13, <1>14 DEF FieldWithin

(* A collapse: the field and its object are one to the reference, since    *)
(* the object is in F.                                                     *)
LEMMA CollapseWithin ==
  ASSUME FieldPreciseInv, NEW F \in SUBSET (Obj \ GepObj), mayLoseFields' \subseteq F,
         NEW f \in collapsing.fields, collapseOneField(f)
  PROVE  FieldWithin(F)'
<1> DEFINE b == base[f]
           n == rep[f]
           r == rep[base[f]]
           P == replacePts(f, base[f])
<1>a. /\ FieldState /\ FieldTypes /\ FieldSubs /\ FieldCollapses /\ FieldsTracked /\ RepsInGraph
      /\ prog \in Programs /\ geps \in GepStmtSets(prog)
      /\ pts \in [Node -> SUBSET Obj] /\ rep \in [Node -> Node] /\ DOMAIN consCG \subseteq Edge
      /\ \A m \in Node : answer[m] = pts[rep[m]] /\ rep[rep[m]] = rep[m]
      /\ \A s \in geps : s.src \in Node /\ s.dst \in Node
  BY PreciseFacts DEF FieldTypes
<1>1. /\ mergeWithFields(n, r, P)
      /\ UNCHANGED <<prog, pc, subs, geps, created, fieldInsensitive>>
  BY DEF collapseOneField
<1>2. /\ f \in created /\ f \in Obj /\ f \in Node
      /\ b \in Obj \ GepObj /\ b \in Node /\ b \in fieldInsensitive
  BY <1>a, ObjectFacts DEF FieldsTracked, FieldCollapses
<1>3. pc # "merge" /\ subs = {} /\ subs' = {}
  <2>1. collapsing # notCollapsing
    BY DEF notCollapsing
  <2>2. pc # "merge"
    BY <1>a, <2>1 DEF FieldCollapses, collapsePhase
  <2> QED BY <1>a, <1>1, <2>2 DEF FieldSubs
<1>4. b \in F /\ base[b] = b /\ canon(f, F) = b /\ canon(b, F) = b
  <2>1. b \in F
    BY <1>1, <1>2 DEF mayLoseFields
  <2> QED BY <1>a, <1>2, <2>1, CanonFacts DEF canon
<1>5. fieldSol(F, f) = fieldSol(F, b)
  BY <1>2, <1>4 DEF fieldSol, canonNode
<1>6. n \in Node /\ r \in Node /\ n \in inGraph /\ r \in inGraph
  BY <1>a, <1>2 DEF RepsInGraph
<1>7. /\ P \in [Node -> SUBSET Obj]
      /\ \A m \in Node : P[m] = IF f \in pts[m] THEN (pts[m] \ {f}) \cup {b} ELSE pts[m]
  BY <1>a, <1>2 DEF replacePts
<1>8. b = base[f] /\ n = rep[f] /\ r = rep[b]
  OBVIOUS
<1> HIDE DEF b, n, r, P
<1>9. /\ \A m \in Node : rep'[m] = end(rep[m], n, r)
      /\ \A m \in Node : pts'[m] = IF m = r THEN P[r] \cup P[n] ELSE P[m]
      /\ \A e \in DOMAIN consCG' : \E g \in DOMAIN consCG : e = mergedEdge(g, n, r)
  <2>1. CASE n = r
    <3>1. UNCHANGED <<consCG, rep>> /\ pts' = P
      BY <1>1, <2>1 DEF mergeWithFields
    <3>2. \A e \in Edge : e = mergedEdge(e, n, r)
      BY <2>1 DEF mergedEdge, end, edge, Edge
    <3>3. \A m \in Node : rep'[m] = end(rep[m], n, r)
      BY <2>1, <3>1 DEF end
    <3>4. \A m \in Node : pts'[m] = IF m = r THEN P[r] \cup P[n] ELSE P[m]
      BY <2>1, <3>1
    <3> QED BY <1>a, <3>1, <3>2, <3>3, <3>4
  <2>2. CASE n # r
    <3>1. FieldState /\ UNCHANGED <<prog, geps, created>> /\ mergeWithFields(n, r, P)
      BY <1>a, <1>1
    <3>2. n \in inGraph /\ r \in inGraph /\ n # r /\ P \in [Node -> SUBSET Obj]
      BY <1>6, <1>7, <2>2
    <3>3. \A m \in Node : rep'[m] = end(rep[m], n, r)
      BY <3>1, <3>2, MergeShape
    <3>4. \A m \in Node : pts'[m] = IF m = r THEN P[r] \cup P[n] ELSE P[m]
      BY <1>6, <1>7, <2>2, <3>1 DEF mergeWithFields
    <3>5. \A e \in DOMAIN consCG' : \E g \in DOMAIN consCG : e = mergedEdge(g, n, r)
      BY <3>1, <3>2, MergeShape
    <3> QED BY <3>3, <3>4, <3>5
  <2> QED BY <2>1, <2>2
<1>10. \A m : willBe(m) = rep[m] /\ willBe(m)' = rep'[m]
  BY <1>3 DEF willBe
<1>11. \A m \in Node : answer'[m] = pts'[rep'[m]] /\ rep[m] \in Node
  BY <1>a DEF answer
<1>12. \A m \in Node : \A o \in answer[m] : \E q \in answer'[m] : base[q] = base[o]
  <2> SUFFICES ASSUME NEW m \in Node, NEW o \in pts[rep[m]]
               PROVE  \E q \in answer'[m] : base[q] = base[o]
    BY <1>a
  <2>1. \E q \in P[rep[m]] : base[q] = base[o]
    BY <1>4, <1>7, <1>8, <1>11
  <2>2. P[rep[m]] \subseteq pts'[rep'[m]]
    BY <1>9, <1>11, <1>6 DEF end
  <2> QED BY <1>11, <2>1, <2>2
<1>13. onGepCycle \subseteq onGepCycle' /\ mayLoseFields \subseteq F
  <2>1. \A m, k \in Node : willBe(m) = willBe(k) => willBe(m)' = willBe(k)'
    BY <1>9, <1>10
  <2> QED BY <1>a, <1>1, <1>12, <2>1, LosesMore
<1>14. FieldFactsWithin(F) /\ ClassesWithin(F) /\ CopiesWithin(F)
  BY <1>13, PreciseFacts DEF FieldWithin
<1>15. \A m : fieldSol(F, m)' = fieldSol(F, m)
  BY <1>1 DEF fieldSol
<1>16. ClassesWithin(F)'
  <2> SUFFICES ASSUME NEW m \in Node, NEW k \in Node, rep'[m] = rep'[k]
               PROVE  /\ fieldSol(F, m) \cap F = fieldSol(F, k) \cap F
                      /\ m \notin onGepCycle' => fieldSol(F, m) = fieldSol(F, k)
    BY <1>10, <1>15 DEF ClassesWithin
  <2>1. m \notin onGepCycle' => m \notin onGepCycle /\ k \notin onGepCycle
    <3>1. m \in onGepCycle' <=> k \in onGepCycle'
      BY <1>10 DEF onGepCycle
    <3> QED BY <1>13, <3>1
  <2>2. \A x, y \in Node : rep[x] = rep[y] =>
          /\ fieldSol(F, x) \cap F = fieldSol(F, y) \cap F
          /\ x \notin onGepCycle => fieldSol(F, x) = fieldSol(F, y)
    BY <1>10, <1>14 DEF ClassesWithin
  <2>3. CASE rep[m] = rep[k]
    BY <2>1, <2>2, <2>3
  <2>4. CASE rep[m] # rep[k]
    <3>1. \/ rep[m] = rep[f] /\ rep[k] = rep[b]
          \/ rep[m] = rep[b] /\ rep[k] = rep[f]
      BY <1>8, <1>9, <2>4 DEF end
    <3>2. CASE rep[m] = rep[f] /\ rep[k] = rep[b]
      <4>1. /\ fieldSol(F, m) \cap F = fieldSol(F, f) \cap F
            /\ m \notin onGepCycle => fieldSol(F, m) = fieldSol(F, f)
        BY <1>2, <2>2, <3>2
      <4>2. /\ fieldSol(F, k) \cap F = fieldSol(F, b) \cap F
            /\ k \notin onGepCycle => fieldSol(F, k) = fieldSol(F, b)
        BY <1>2, <2>2, <3>2
      <4> QED BY <1>5, <2>1, <4>1, <4>2
    <3>3. CASE rep[m] = rep[b] /\ rep[k] = rep[f]
      <4>1. /\ fieldSol(F, m) \cap F = fieldSol(F, b) \cap F
            /\ m \notin onGepCycle => fieldSol(F, m) = fieldSol(F, b)
        BY <1>2, <2>2, <3>3
      <4>2. /\ fieldSol(F, k) \cap F = fieldSol(F, f) \cap F
            /\ k \notin onGepCycle => fieldSol(F, k) = fieldSol(F, f)
        BY <1>2, <2>2, <3>3
      <4> QED BY <1>5, <2>1, <4>1, <4>2
    <3> QED BY <3>1, <3>2, <3>3
  <2> QED BY <2>3, <2>4
<1>17. FieldFactsWithin(F)'
  <2>1. ASSUME NEW m \in Node, NEW o \in answer'[m]
        PROVE  \E k \in Node : rep'[k] = rep'[m] /\ o \in P[rep[k]]
    <3>1. rep'[f] = r /\ rep'[b] = r
      BY <1>2, <1>8, <1>9 DEF end
    <3>2. CASE rep'[m] = r
      <4>1. o \in P[rep[f]] \/ o \in P[rep[b]]
        BY <1>6, <1>8, <1>9, <1>11, <3>2
      <4> QED BY <1>2, <3>1, <3>2, <4>1
    <3>3. CASE rep'[m] # r
      <4>1. rep'[m] = rep[m]
        BY <1>9, <3>3 DEF end
      <4> QED BY <1>9, <1>11, <3>3, <4>1
    <3> QED BY <3>2, <3>3
  <2>2. ASSUME NEW k \in Node, NEW o \in P[rep[k]]
        PROVE  \E q \in answer[k] : canon(q, F) = canon(o, F)
    BY <1>a, <1>4, <1>7, <1>11
  <2>3. \A m \in Node : \A o \in answer'[m] : \E k \in Node :
          /\ willBe(k)' = willBe(m)'
          /\ \E q \in answer[k] : canon(q, F) = canon(o, F)
    BY <1>10, <2>1, <2>2
  <2> QED BY <1>1, <1>14, <1>16, <2>3, FactsJoin
<1>18. CopiesWithin(F)'
  BY <1>1, <1>9, <1>14, CopiesJoin
<1>19. SCCsWithin(F)'
  BY <1>1, <1>3 DEF SCCsWithin
<1> QED BY <1>16, <1>17, <1>18, <1>19 DEF FieldWithin

-----------------------------------------------------------------------------
(* In the first state there are no facts, every node stands for itself and *)
(* every copy is a statement.                                              *)
LEMMA FieldPreciseInit == FieldInit => FieldPreciseInv
<1> SUFFICES ASSUME FieldInit, NEW F \in SUBSET (Obj \ GepObj) PROVE FieldWithin(F)
  BY ShapeInit DEF FieldPreciseInv
<1>1. /\ prog \in Programs /\ geps \in GepStmtSets(prog) /\ rep = [n \in Node |-> n]
      /\ pc = "addr" /\ subs = {} /\ pts = [n \in Node |-> {}]
      /\ \A e \in DOMAIN consCG : \E s \in prog.stmts : e = edge(s.kind, s.src, s.dst)
  BY DEF FieldInit, Init
<1>2. \A m \in Node : answer[m] = {} /\ willBe(m) = m
  BY <1>1 DEF answer, willBe
<1>3. FieldFactsWithin(F)
  BY <1>2 DEF FieldFactsWithin
<1>4. ClassesWithin(F)
  BY <1>2 DEF ClassesWithin
<1>5. CopiesWithin(F)
  <2> SUFFICES ASSUME NEW e \in edges("copy")
               PROVE  \E a, b \in Node : /\ rep[a] = e.src /\ rep[b] = e.dst
                                         /\ fieldSol(F, a) \subseteq fieldSol(F, b)
    BY DEF CopiesWithin
  <2>1. e \in DOMAIN consCG /\ e.kind = "copy"
    BY DEF edges
  <2>2. PICK s \in prog.stmts : e = edge(s.kind, s.src, s.dst)
    BY <1>1, <2>1
  <2>3. s.kind = "copy" /\ e.src = s.src /\ e.dst = s.dst
    BY <2>1, <2>2 DEF edge
  <2>4. s.src \in Node /\ s.dst \in Node
    BY <1>1, StatementFacts
  <2>5. fieldSol(F, s.src) \subseteq fieldSol(F, s.dst)
    BY <1>1, <2>3, ReferenceFacts
  <2> QED BY <1>1, <2>3, <2>4, <2>5
<1>6. SCCsWithin(F)
  BY <1>1 DEF SCCsWithin
<1> QED BY <1>3, <1>4, <1>5, <1>6 DEF FieldWithin

(* Precision, for every F that the state after the step allows, is         *)
(* inductive.                                                              *)
LEMMA FieldPreciseStep == FieldPreciseInv /\ [FieldNext]_allVars => FieldPreciseInv'
<1> SUFFICES ASSUME FieldPreciseInv, [FieldNext]_allVars PROVE FieldPreciseInv'
  OBVIOUS
<1>1. FieldState'
  BY StateStep DEF FieldPreciseInv
<1>2. ASSUME NEW F \in SUBSET (Obj \ GepObj), mayLoseFields' \subseteq F
      PROVE  FieldWithin(F)'
  <2>1. CASE UNCHANGED allVars
    BY <1>2, <2>1, QuietSteps
  <2>2. CASE FieldNext
    <3>1. ASSUME NEW t \in todo, fieldProcessLoad(t[1], t[2]) \/ fieldProcessStore(t[1], t[2])
          PROVE  FieldWithin(F)'
      BY <1>2, <3>1, DerivedWithin
         DEF fieldProcessLoad, fieldProcessStore, processLoad, processStore
    <3>2. \A a \in todo : fieldProcessAddr(a) => FieldWithin(F)'
      BY <1>2, AddrWithin
    <3>3. fieldSCCDetect => FieldWithin(F)'
      BY <1>2, SCCDetectWithin
    <3>4. \A r \in todo : fieldBeginSCC(r) => FieldWithin(F)'
      BY <1>2, BeginSCCWithin
    <3>5. \A p \in subs : fieldMergeNodeToRep(p[1], p[2]) => FieldWithin(F)'
      BY <1>2, SCCMergeWithin
    <3>6. \A e \in todo : fieldProcessCopy(e) => FieldWithin(F)'
      BY <1>2, CopyWithin
    <3>7. \A e \in gepTodo : fieldProcessGep(e) => FieldWithin(F)'
      BY <1>2, GepWithin
    <3>8. \A f \in collapsing.fields : collapseOneField(f) => FieldWithin(F)'
      BY <1>2, CollapseWithin
    <3>9. \A c \in todo : fieldConnectCallParams(c) => FieldWithin(F)'
      BY <1>2, CallWithin
    <3>10. /\ fieldBeginAttach => FieldWithin(F)'
           /\ \A s \in todo : fieldAttachStaticEdgeGuard(s) => FieldWithin(F)'
           /\ \A s \in gepTodo : attachGepGuard(s) => FieldWithin(F)'
           /\ \A r \in nodeStack : collapsePWCNode(r) => FieldWithin(F)'
           /\ processPWCNode => FieldWithin(F)'
           /\ \A r \in nodeStack : fieldSweepNode(r) => FieldWithin(F)'
           /\ \A r \in nodeStack : skipMergedNode(r) => FieldWithin(F)'
           /\ fieldPopFromWorklist => FieldWithin(F)'
           /\ fieldHandleCopyGep => FieldWithin(F)'
           /\ fieldUpdateCallGraph => FieldWithin(F)'
           /\ \A n \in cpySrcNodes : fieldPushCpySrcNode(n) => FieldWithin(F)'
           /\ fieldFinish => FieldWithin(F)'
           /\ \A o : beginCollapseField(o) => FieldWithin(F)'
           /\ endCollapseField => FieldWithin(F)'
      BY <1>2, QuietSteps
    <3> QED BY <2>2, <3>1, <3>2, <3>3, <3>4, <3>5, <3>6, <3>7, <3>8, <3>9, <3>10 DEF FieldNext
  <2> QED BY <2>1, <2>2
<1>3. \A F \in SUBSET (Obj \ GepObj) : mayLoseFields' \subseteq F => FieldWithin(F)'
  BY <1>2
<1> QED BY <1>1, <1>3 DEF FieldPreciseInv

(* FieldsPrecise: merging cycles, collapsing objects and merging their     *)
(* fields' nodes into them gives no variable an object the constraints     *)
(* would not, whatever the program, its geps and the order of the work -   *)
(* once the objects that gave up their fields stand for them.              *)
THEOREM FieldsPrecise == FieldSpec => []FieldPrecise
<1>1. FieldPreciseInv => FieldPrecise
  <2> SUFFICES ASSUME FieldPreciseInv, NEW n \in Node
               PROVE  canonAnswer(mayLoseFields)[n] \subseteq
                        FieldSolution(prog, geps, mayLoseFields)[canonNode(n, mayLoseFields)]
    BY DEF FieldPrecise
  <2>1. PICK F : F = mayLoseFields
    OBVIOUS
  <2>2. F \subseteq Obj \ GepObj
    <3>1. \A m \in Node : answer[m] \subseteq Obj
      BY PreciseFacts
    <3>2. fieldInsensitive \subseteq Obj \ GepObj
      BY PreciseFacts DEF FieldCollapses
    <3>3. \A o \in Obj : base[o] \in Obj \ GepObj
      BY FieldAssumption
    <3>4. onGepCycle \subseteq Node
      BY DEF onGepCycle
    <3>5. \A o \in UNION {answer[m] : m \in onGepCycle} : base[o] \in Obj \ GepObj
      BY <3>1, <3>3, <3>4
    <3> QED BY <2>1, <3>2, <3>5 DEF mayLoseFields
  <2>3. FieldFactsWithin(F)
    BY <2>1, <2>2, PreciseFacts DEF FieldWithin
  <2>4. \A o \in answer[n] : canon(o, F) \in FieldSolution(prog, geps, F)[canonNode(n, F)]
    BY <2>3 DEF FieldFactsWithin, fieldSol
  <2>5. canonAnswer(F)[n] = {canon(o, F) : o \in answer[n]}
    BY DEF canonAnswer, canonSet
  <2> QED BY <2>1, <2>4, <2>5
<1> QED BY <1>1, FieldPreciseInit, FieldPreciseStep, PTL DEF FieldSpec
=============================================================================
