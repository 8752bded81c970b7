------------------------------- MODULE Fields -------------------------------
(***************************************************************************)
(* Field sensitivity of ConditionalAndersen                                *)
(* (SVF/svf/lib/WPA/ConditionalAndersen.cpp, Andersen.cpp, Graphs/ConsG.cpp *)
(* and SVFIR/SVFIR.cpp): gep edges, which turn an object into one of its   *)
(* fields and create that field on demand; objects made field-insensitive  *)
(* by a gep with a variable offset, or because a gep lies on a cycle that  *)
(* was merged (a positive weight cycle, PWC); and the collapse of such an  *)
(* object, which gives every holder of one of its fields the object        *)
(* instead and merges the field's node into the object's.                  *)
(*                                                                         *)
(* The state and the handlers of the other constraints are those of        *)
(* CondAndersen.  A gep is the only definition of the variable it defines. *)
(* The objects that wait to be collapsed are taken in any order.           *)
(***************************************************************************)
EXTENDS CondAndersen, SequencesExt

CONSTANTS
  GepStmtSets(_),  \* the gep statements a program may come with
  GepObj,          \* the field objects, created on demand
  base,            \* getBaseObjVarID: the object an object is a field of
  gepObjVar(_, _), \* getGepObjVar: the field at an offset from an object
  FIObj,           \* objects that are field-insensitive from the start
  detectPWC        \* SCC detection follows geps too (cond-ander-pwc)

gepEdge(s) == [kind |-> s.kind, src |-> s.src, dst |-> s.dst]

IsGepStmt(s) ==
  /\ DOMAIN s = {"kind", "src", "dst", "off", "guard"}
  /\ s.kind \in {"normalGep", "variantGep"}
  /\ s.src \in Node /\ s.dst \in Node /\ s.src # s.dst

ASSUME FieldAssumption ==
  /\ GepObj \subseteq Obj
  /\ base \in [Obj -> Obj \ GepObj]
  /\ \A o \in Obj \ GepObj : base[o] = o
  /\ FIObj \subseteq Obj \ GepObj
  /\ detectPWC \in BOOLEAN
  /\ \A p \in Programs : \A a \in p.addr : a[1] \notin GepObj
  /\ \A p \in Programs : \A G \in GepStmtSets(p) :
       /\ \A s \in G : IsGepStmt(s)
       /\ \A s, t \in G : s.dst = t.dst => s = t
       /\ \A s \in G : \A o \in Obj : gepObjVar(o, s.off) \in {q \in Obj : base[q] = base[o]}

(* An object is constant when its base is (isConstantObj), and statements, *)
(* calls and geps are about variables and whole objects: a field comes     *)
(* into being only when a gep reaches it.                                  *)
ASSUME FieldsOnDemandAssumption ==
  /\ \A o \in Obj : o \in ConstObj <=> base[o] \in ConstObj
  /\ \A p \in Programs :
       /\ \A a \in p.addr : a[2] \notin GepObj
       /\ \A s \in p.stmts : s.src \notin GepObj /\ s.dst \notin GepObj
       /\ \A c \in p.calls :
            /\ c.fp \notin GepObj /\ c.fun \notin GepObj
            /\ \A arg \in c.args : arg[1] \notin GepObj /\ arg[2] \notin GepObj
       /\ \A G \in GepStmtSets(p) : \A s \in G : s.src \notin GepObj /\ s.dst \notin GepObj

VARIABLES
  geps,               \* the gep statements of the program
  gepCG,              \* the gep edges: offset and guard of each
  gepTodo,            \* gep statements, or edges, the running loop has still to visit
  fieldInsensitive,   \* objects whose fields are no longer told apart
  created,            \* the field objects that exist
  pwcNodes,           \* nodes marked PWC
  nodesToBeCollapsed, \* objects a variant gep has asked to collapse
  ptsToCollapse,      \* objects of a PWC node still to be collapsed
  collapsing,         \* the collapseField that runs: its object, the fields left
  reanalyze           \* a collapse changed points-to sets: another round is due

fieldVars == <<geps, gepCG, gepTodo, fieldInsensitive, created, pwcNodes,
               nodesToBeCollapsed, ptsToCollapse, collapsing, reanalyze>>
allVars   == <<vars, fieldVars>>

notCollapsing == [base |-> {}, fields |-> {}]

isFieldInsensitive(o) == base[o] \in fieldInsensitive
collapsible(S) == {o \in S \ ConstObj : ~isFieldInsensitive(o)}

-----------------------------------------------------------------------------
FieldInit ==
  /\ Init
  /\ geps \in GepStmtSets(prog)
  /\ gepCG = [e \in {gepEdge(s) : s \in geps} |->
                [off |-> (CHOOSE s \in geps : gepEdge(s) = e).off,
                 guard |-> trueGuard]]
  /\ gepTodo = {}
  /\ fieldInsensitive = FIObj
  /\ created = {}
  /\ pwcNodes = {}
  /\ nodesToBeCollapsed = {}
  /\ ptsToCollapse = {}
  /\ collapsing = notCollapsing
  /\ reanalyze = FALSE

fieldBeginAttach ==
  /\ beginAttach
  /\ gepTodo' = geps
  /\ UNCHANGED <<geps, gepCG, fieldInsensitive, created, pwcNodes, nodesToBeCollapsed,
                 ptsToCollapse, collapsing, reanalyze>>

(* setGepGuard, called by attachStaticEdgeGuards for each gep statement.   *)
attachGepGuard(s) ==
  /\ pc = "attach"
  /\ s \in gepTodo
  /\ gepTodo' = gepTodo \ {s}
  /\ gepCG' = [gepCG EXCEPT ![gepEdge(s)].guard =
                 IF guardIsTrue(s.guard) THEN @
                 ELSE IF guardIsTrue(@) THEN s.guard ELSE guardOr(@, s.guard)]
  /\ UNCHANGED <<vars, geps, fieldInsensitive, created, pwcNodes, nodesToBeCollapsed,
                 ptsToCollapse, collapsing, reanalyze>>

(* The handlers that know nothing of fields.                               *)
fieldProcessAddr(a)            == processAddr(a) /\ UNCHANGED fieldVars
fieldAttachStaticEdgeGuard(s)  == attachStaticEdgeGuard(s) /\ UNCHANGED fieldVars
fieldProcessLoad(o, e)         == processLoad(o, e) /\ UNCHANGED fieldVars
fieldProcessStore(o, e)        == processStore(o, e) /\ UNCHANGED fieldVars
fieldProcessCopy(e)            == processCopy(e) /\ UNCHANGED fieldVars
fieldConnectCallParams(c)      == connectCaller2CalleeParams(c) /\ UNCHANGED fieldVars
fieldPushCpySrcNode(n)         == pushCpySrcNode(n) /\ UNCHANGED fieldVars

-----------------------------------------------------------------------------
(* Between two nodes: no gep left to visit, nothing left to collapse.      *)
collapsed    == nodesToBeCollapsed = {} /\ ptsToCollapse = {} /\ collapsing = notCollapsing
fieldsDone   == gepTodo = {} /\ collapsed
fieldsSolved == solved /\ fieldsDone

(* SCC detection over copies and, with detectPWC, geps.                    *)
inGraph == {n \in live : n \in GepObj => n \in created}

fieldReachable ==
  LET direct == edges("copy") \cup (IF detectPWC THEN DOMAIN gepCG ELSE {})
      closed == {X \in SUBSET inGraph : \A e \in direct : e.src \in X => e.dst \in X}
  IN  {p \in inGraph \X inGraph : \A X \in closed : p[1] \in X => p[2] \in X}

staleRound == UNCHANGED reanalyze                          \* mutant
newRound   == reanalyze' = FALSE

fieldSCCDetect ==
  /\ \/ pc \in {"attach", "update"} /\ todo = {} /\ gepTodo = {} /\ cpySrcNodes = {}
     \/ fieldsSolved /\ newCalls = {} /\ reanalyze
  /\ pc' = "merge"
  /\ newRound
  /\ reach' = fieldReachable
  /\ \E roots \in SUBSET inGraph :
       /\ \A n \in inGraph : \E r \in roots : n \in scc(r, reach')
       /\ \A r, q \in roots : q \in scc(r, reach') => q = r
       /\ nodeStack' = roots
       /\ todo' = {r \in roots : scc(r, reach') # {r}}
  /\ UNCHANGED <<prog, subs, cur, pts, condPtsMap, consCG, rep, worklist,
                 conjCappedGuards, resolved, cpySrcNodes, geps, gepCG, gepTodo,
                 fieldInsensitive, created, pwcNodes, nodesToBeCollapsed,
                 ptsToCollapse, collapsing>>

sccHasConditionalGep(r) ==
  \E e \in DOMAIN gepCG :
    /\ e.src \in scc(r, reach) \/ e.dst \in scc(r, reach)
    /\ ~guardIsTrue(gepCG[e].guard)

fieldBeginSCC(r) ==
  /\ pc = "merge"
  /\ subs = {}
  /\ r \in todo
  /\ first(r, todo)
  /\ todo' = todo \ {r}
  /\ subs' = IF (sccHasConditionalEdge(r) \/ sccHasConditionalGep(r)) /\ ~mergeCondSCC
             THEN {} ELSE {<<n, r>> : n \in scc(r, reach) \ {r}}
  /\ UNCHANGED <<prog, pc, cur, pts, condPtsMap, consCG, rep, worklist, nodeStack,
                 reach, conjCappedGuards, resolved, cpySrcNodes, fieldVars>>

(* Gep edges move like copies: those between the two nodes disappear, an   *)
(* edge of the same kind that is there already stays.                      *)
keepsLoops(g, end, n, r) ==                                \* mutant
  [e \in {moved(f, end, n, r) : f \in DOMAIN g} |->
     IF e \in DOMAIN g THEN g[e] ELSE g[[e EXCEPT ![end] = n]]]

reTargetGeps(g, end, n, r) ==
  LET kept == {e \in {moved(f, end, n, r) : f \in DOMAIN g} : e.src # e.dst}
  IN  [e \in kept |-> IF e \in DOMAIN g THEN g[e] ELSE g[[e EXCEPT ![end] = n]]]

(* Not isZeroOffsettedGepCGEdge: the gep may lead to another field.        *)
critical(e) == e.kind = "variantGep" \/ gepCG[e].off # 0

inheritsPWC(n, r) == n \in pwcNodes                        \* mutant
becomesPWC(n, r) ==
  \/ n \in pwcNodes
  \/ \E e \in DOMAIN gepCG : {e.src, e.dst} = {n, r} /\ critical(e)

(* mergeNodeToRep and mergeSrcToTgt, the points-to sets being P before.    *)
mergeWithFields(n, r, P) ==
  IF n = r
  THEN pts' = P /\ UNCHANGED <<condPtsMap, conjCappedGuards, consCG, gepCG, rep, pwcNodes>>
  ELSE
  /\ condPtsMap' = [condPtsMap EXCEPT ![r] = [o \in Obj |-> mergedEntry(n, r, o)],
                                      ![n] = noEntries]
  /\ conjCappedGuards' = conjCappedGuards \cup
       UNION {orMergeCapped(condPtsMap[r][o], condPtsMap[n][o]) :
                o \in {q \in Obj : condPtsMap[n][q] # NoGuard /\ ~mergeCondSCC}}
  /\ pts' = [P EXCEPT ![r] = @ \cup P[n]]
  /\ consCG' = moveEdgesToRepNode(consCG, n, r)
  /\ gepCG' = reTargetGeps(reTargetGeps(gepCG, "dst", n, r), "src", n, r)
  /\ rep' = [m \in Node |-> IF rep[m] = n THEN r ELSE rep[m]]
  /\ pwcNodes' = (pwcNodes \ {n}) \cup (IF becomesPWC(n, r) THEN {r} ELSE {})

fieldMergeNodeToRep(n, r) ==
  /\ pc = "merge"
  /\ <<n, r>> \in subs
  /\ subs' = subs \ {<<n, r>>}
  /\ mergeWithFields(n, r, pts)
  /\ UNCHANGED <<prog, pc, todo, cur, worklist, nodeStack, reach, resolved, cpySrcNodes,
                 geps, gepTodo, fieldInsensitive, created, nodesToBeCollapsed, ptsToCollapse,
                 collapsing, reanalyze>>

-----------------------------------------------------------------------------
(* solveWorklist.  In the sweep the objects of a PWC node are collapsed    *)
(* first; a node that a collapse has merged away is not processed.         *)
collapsePWCNode(r) ==
  /\ idle /\ fieldsDone
  /\ r \in nodeStack
  /\ first(r, nodeStack)
  /\ rep[r] \in pwcNodes
  /\ pc' = "pwc"
  /\ nodeStack' = nodeStack \ {r}
  /\ cur' = r
  /\ ptsToCollapse' = collapsible(pts[rep[r]])
  /\ UNCHANGED <<prog, todo, subs, pts, condPtsMap, consCG, rep, worklist, reach,
                 conjCappedGuards, resolved, cpySrcNodes, geps, gepCG, gepTodo,
                 fieldInsensitive, created, pwcNodes, nodesToBeCollapsed, collapsing,
                 reanalyze>>

processPWCNode ==
  /\ pc = "pwc"
  /\ collapsed
  /\ IF rep[cur] = cur THEN processNode(cur)
     ELSE pc' = "propagate" /\ UNCHANGED <<cur, todo>>
  /\ UNCHANGED <<prog, subs, pts, condPtsMap, consCG, rep, worklist, nodeStack, reach,
                 conjCappedGuards, resolved, cpySrcNodes, fieldVars>>

fieldSweepNode(r) ==
  /\ fieldsDone
  /\ rep[r] = r /\ r \notin pwcNodes
  /\ sweepNode(r)
  /\ UNCHANGED fieldVars

skipMergedNode(r) ==
  /\ idle /\ fieldsDone
  /\ r \in nodeStack
  /\ first(r, nodeStack)
  /\ rep[r] # r /\ rep[r] \notin pwcNodes
  /\ nodeStack' = nodeStack \ {r}
  /\ UNCHANGED <<prog, pc, todo, subs, cur, pts, condPtsMap, consCG, rep, worklist,
                 reach, conjCappedGuards, resolved, cpySrcNodes, fieldVars>>

fieldPopFromWorklist == fieldsDone /\ popFromWorklist /\ UNCHANGED fieldVars

(* handleCopyGep: the copies, then the geps.                               *)
fieldHandleCopyGep ==
  /\ handleCopyGep
  /\ gepTodo' = {e \in DOMAIN gepCG : e.src = cur /\ pts[cur] # {}}
  /\ UNCHANGED <<geps, gepCG, fieldInsensitive, created, pwcNodes, nodesToBeCollapsed,
                 ptsToCollapse, collapsing, reanalyze>>

-----------------------------------------------------------------------------
(* processGep.                                                             *)
madeInsensitive(e) ==
  IF e.kind = "variantGep" THEN {base[o] : o \in pts[e.src] \ ConstObj} ELSE {}

(* translateField: the object a gep makes of another.                      *)
zeroIsBase(o, e) ==                                        \* mutant
  IF e.kind = "variantGep" THEN base[o]
  ELSE IF o \in ConstObj \/ isFieldInsensitive(o) \/ gepCG[e].off = 0 THEN o
  ELSE gepObjVar(o, gepCG[e].off)

translateField(o, e) ==
  IF o \in ConstObj THEN o
  ELSE IF e.kind = "variantGep" THEN base[o]
  ELSE IF isFieldInsensitive(o) THEN o
  ELSE gepObjVar(o, gepCG[e].off)

(* The guards that reach the field f: those of the objects with an entry,  *)
(* in the order the hash map gives, then the edge's own for the others.    *)
guardThrough(o, e) ==
  IF guardIsTrue(gepCG[e].guard) THEN condPtsMap[e.src][o]
  ELSE guardAnd(condPtsMap[e.src][o], gepCG[e].guard)

guardedObjs(e) ==
  {o \in Obj : /\ condPtsMap[e.src][o] # NoGuard
               /\ ~guardIsFalse(condPtsMap[e.src][o])
               /\ eagerSat => guardIsSat(guardThrough(o, e))}

implicitObjs(e) ==
  LET limited == guardLimited(gepCG[e].guard)
  IN  {o \in pts[e.src] :
         /\ condPtsMap[e.src][o] = NoGuard
         /\ ~guardIsTrue(gepCG[e].guard)
         /\ ~guardIsFalse(limited)
         /\ eagerSat => guardIsSat(limited)}

guardsInto(f, e, order) ==
  LET objs == SelectSeq(order, LAMBDA o : translateField(o, e) = f)
  IN  [i \in 1..Len(objs) |-> guardThrough(objs[i], e)]
        \o [i \in 1..Cardinality({o \in implicitObjs(e) : translateField(o, e) = f}) |->
              guardLimited(gepCG[e].guard)]

guardsMerged(old, guards) == FoldLeft(orMergeCondPts, old, guards)

cappedInto(old, guards) ==
  UNION {orMergeCapped(guardsMerged(old, SubSeq(guards, 1, i - 1)), guards[i]) :
           i \in 1..Len(guards)}

fieldProcessGep(e) ==
  /\ pc = "propagate"
  /\ todo = {}
  /\ e \in gepTodo
  /\ gepTodo' = gepTodo \ {e}
  /\ LET fields  == {translateField(o, e) : o \in pts[e.src]}
         arrived == {translateField(o, e) : o \in guardedObjs(e) \cup implicitObjs(e)}
     IN  /\ pts' = [pts EXCEPT ![e.dst] = @ \cup fields]
         /\ worklist' = IF fields \subseteq pts[e.dst] THEN worklist
                        ELSE push(worklist, e.dst)
         /\ created' = created \cup ((fields \cup arrived) \cap GepObj)
         /\ fieldInsensitive' = fieldInsensitive \cup madeInsensitive(e)
         /\ nodesToBeCollapsed' =
              nodesToBeCollapsed \cup (madeInsensitive(e) \ fieldInsensitive)
         /\ IF unconditional THEN UNCHANGED <<condPtsMap, conjCappedGuards>>
            ELSE \E order \in SetToSeqs(guardedObjs(e)) :
              /\ condPtsMap' = [condPtsMap EXCEPT ![e.dst] =
                   [f \in Obj |-> IF f \in arrived THEN guardsMerged(@[f], guardsInto(f, e, order))
                                                  ELSE @[f]]]
              /\ conjCappedGuards' = conjCappedGuards
                   \cup (IF guardIsTrue(gepCG[e].guard) THEN {}
                         ELSE guardCapped(gepCG[e].guard))
                   \cup UNION {cappedInto(condPtsMap[e.dst][f], guardsInto(f, e, order)) :
                                  f \in arrived}
  /\ UNCHANGED <<prog, pc, todo, subs, cur, consCG, rep, nodeStack, reach, resolved,
                 cpySrcNodes, geps, gepCG, pwcNodes, ptsToCollapse, collapsing, reanalyze>>

-----------------------------------------------------------------------------
(* collapseFields and collapseNodePts: one object after the other.         *)
collapsePhase == pc = "pwc" \/ (pc = "propagate" /\ todo = {} /\ gepTodo = {})

beginCollapseField(o) ==
  /\ collapsePhase
  /\ collapsing = notCollapsing
  /\ o \in ptsToCollapse \/ (ptsToCollapse = {} /\ o \in nodesToBeCollapsed)
  /\ nodesToBeCollapsed' = nodesToBeCollapsed \ {o}
  /\ fieldInsensitive' = fieldInsensitive \cup {base[o]}
  /\ ptsToCollapse' = {q \in ptsToCollapse : base[q] # base[o]}
  /\ collapsing' = [base |-> {base[o]}, fields |-> {f \in created : base[f] = base[o]}]
  /\ UNCHANGED <<vars, geps, gepCG, gepTodo, created, pwcNodes, reanalyze>>

(* One round of collapseField's loop: the holders of f get the object, and *)
(* the node of f is merged into that of the object.  The guards of the     *)
(* holders stay as they are.                                               *)
holders(f) == {n \in live : f \in pts[n]}

keepFieldPts(f, b) == [n \in Node |-> IF f \in pts[n] THEN pts[n] \cup {b} ELSE pts[n]] \* mutant
replacePts(f, b) ==
  [n \in Node |-> IF f \in pts[n] THEN (pts[n] \ {f}) \cup {b} ELSE pts[n]]

pushAll(S) == {FoldLeft(push, worklist, order) : order \in SetToSeqs(S)}

collapseOneField(f) ==
  /\ f \in collapsing.fields
  /\ collapsing' = [collapsing EXCEPT !.fields = @ \ {f}]
  /\ reanalyze' = (reanalyze \/ holders(f) # {})
  /\ worklist' \in pushAll(holders(f))
  /\ mergeWithFields(rep[f], rep[base[f]], replacePts(f, base[f]))
  /\ UNCHANGED <<prog, pc, todo, subs, cur, nodeStack, reach, resolved, cpySrcNodes,
                 geps, gepTodo, fieldInsensitive, created, nodesToBeCollapsed, ptsToCollapse>>

(* The node of the object may itself be PWC by now.                        *)
endCollapseField ==
  /\ collapsing # notCollapsing
  /\ collapsing.fields = {}
  /\ collapsing' = notCollapsing
  /\ ptsToCollapse' = ptsToCollapse \cup
       UNION {collapsible(pts[rep[b]]) : b \in {x \in collapsing.base : rep[x] \in pwcNodes}}
  /\ UNCHANGED <<vars, geps, gepCG, gepTodo, fieldInsensitive, created, pwcNodes,
                 nodesToBeCollapsed, reanalyze>>

-----------------------------------------------------------------------------
fieldUpdateCallGraph == fieldsDone /\ updateCallGraph /\ UNCHANGED fieldVars
fieldFinish          == fieldsDone /\ ~reanalyze /\ finish /\ UNCHANGED fieldVars

FieldNext ==
  \/ \E a \in todo : fieldProcessAddr(a)
  \/ fieldBeginAttach
  \/ \E s \in todo : fieldAttachStaticEdgeGuard(s)
  \/ \E s \in gepTodo : attachGepGuard(s)
  \/ fieldSCCDetect
  \/ \E r \in todo : fieldBeginSCC(r)
  \/ \E p \in subs : fieldMergeNodeToRep(p[1], p[2])
  \/ \E r \in nodeStack : collapsePWCNode(r)
  \/ processPWCNode
  \/ \E r \in nodeStack : fieldSweepNode(r)
  \/ \E r \in nodeStack : skipMergedNode(r)
  \/ fieldPopFromWorklist
  \/ \E t \in todo : fieldProcessLoad(t[1], t[2])
  \/ \E t \in todo : fieldProcessStore(t[1], t[2])
  \/ fieldHandleCopyGep
  \/ \E e \in todo : fieldProcessCopy(e)
  \/ \E e \in gepTodo : fieldProcessGep(e)
  \/ \E o \in ptsToCollapse \cup nodesToBeCollapsed : beginCollapseField(o)
  \/ \E f \in collapsing.fields : collapseOneField(f)
  \/ endCollapseField
  \/ fieldUpdateCallGraph
  \/ \E c \in todo : fieldConnectCallParams(c)
  \/ \E n \in cpySrcNodes : fieldPushCpySrcNode(n)
  \/ fieldFinish

FieldSpec     == FieldInit /\ [][FieldNext]_allVars
FairFieldSpec == FieldSpec /\ WF_allVars(FieldNext)
=============================================================================
