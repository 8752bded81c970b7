------------------------------ MODULE WaveDiff ------------------------------
(***************************************************************************)
(* The solver of ConditionalAndersenWaveDiff                               *)
(* (SVF/svf/lib/WPA/ConditionalAndersenWaveDiff.cpp on top of              *)
(* AndersenWaveDiff.cpp and Andersen.cpp), the one the benchmarks run.     *)
(* Every round has two phases.  A sweep over the SCC roots in topological  *)
(* order propagates along copies only; the worklist then handles loads and *)
(* stores, and copies again where conditional cycles were left unmerged.   *)
(* A node hands on only what it has not handed on before (propaPts), and   *)
(* only the guards that changed since (condDiffPtsMap).  A new edge asks   *)
(* for another round instead of pushing its source.                        *)
(*                                                                         *)
(* The state and the handlers it shares with ConditionalAndersen are those *)
(* of CondAndersen.  propaPts is updated for the new edges of one call at  *)
(* once, so a call does not return what it binds.  Fields are left out.    *)
(***************************************************************************)
EXTENDS CondAndersen

CONSTANTS
  falseGuard,
  guardOutgrows(_, _),  \* depth mode: the conjunction would exceed kLimit
  orOutgrows(_, _)      \* depth mode: the disjunction replaces no guard

VARIABLES
  propaPts,        \* what each node has handed on along its copies
  diffPts,         \* what cur is handing on now
  condDiffPtsMap,  \* objects whose guard changed since the node was processed
  diffNode,        \* currentDiffNode
  diffObjs,        \* currentDiffObjs: its changed objects
  sccRoots,        \* the roots of the last SCC detection
  visit,           \* nodes of the current unmerged cycle still to be processed
  reanalyze        \* an edge was added: another round is due

diffVars == <<propaPts, diffPts, condDiffPtsMap, diffNode, diffObjs, sccRoots,
              visit, reanalyze>>
waveVars == <<vars, diffVars>>

-----------------------------------------------------------------------------
(* orMergeCondPts on one entry: as in ConditionalAndersen, but a True      *)
(* guard leaves a conditional entry alone, and in depth mode an entry whose *)
(* disjunction has grown too deep is frozen.                               *)
changesEntry(old, guard) ==
  /\ ~guardIsTrue(guard)
  /\ \/ old = NoGuard
     \/ /\ guardOr(old, guard) # old
        /\ ~orOutgrows(old, guardOr(old, guard))
        /\ ~guardIsTrue(guardOr(old, guard))

waveOrMerge(old, guard) ==
  IF changesEntry(old, guard)
  THEN IF old = NoGuard THEN guard
       ELSE IF useDepthLimit THEN guardOr(old, guard)
       ELSE guardLimited(guardOr(old, guard))
  ELSE IF /\ old # NoGuard
          /\ guardIsTrue(old)
          /\ guardIsTrue(guard) \/ (guardOr(old, guard) # old /\ guardIsTrue(guardOr(old, guard)))
       THEN NoGuard
       ELSE old

waveOrCapped(old, guard) ==
  IF guardIsTrue(guard) \/ old = NoGuard \/ guardOr(old, guard) = old THEN {}
  ELSE IF orOutgrows(old, guardOr(old, guard)) THEN {old}
  ELSE IF useDepthLimit \/ guardIsTrue(guardOr(old, guard)) THEN {}
  ELSE guardCapped(guardOr(old, guard))

(* addCopyEdge: the source forgets having handed on whatever the           *)
(* destination has not handed on itself.                                   *)
keepPropagated(propa, new) == propa                        \* mutant
forgetPropagated(propa, new) ==
  [n \in Node |-> {o \in propa[n] : \A e \in new : e.src = n => o \in propa[e.dst]}]

(* handleCopyGep: computeDiffPts, then the outgoing copies, if there is    *)
(* anything to hand on.                                                    *)
handsOnPts(n) == pts[n] \ propaPts[n]

startsAllOutEdges(n) ==                                    \* mutant
  /\ cur' = n
  /\ diffPts' = handsOnPts(n)
  /\ propaPts' = [propaPts EXCEPT ![n] = pts[n]]
  /\ todo' = {e \in DOMAIN consCG : e.src = n /\ diffPts' # {}}

startCopies(n) ==
  /\ cur' = n
  /\ diffPts' = handsOnPts(n)
  /\ propaPts' = [propaPts EXCEPT ![n] = pts[n]]
  /\ todo' = {e \in edges("copy") :
                e.src = n /\ (diffPts' # {} \/ (n = diffNode' /\ diffObjs' # {}))}

(* processNode and postProcessNode take the changed guards of the node.    *)
takeCondDiff(n) ==
  /\ diffNode' = n
  /\ diffObjs' = condDiffPtsMap[n]
  /\ condDiffPtsMap' = [condDiffPtsMap EXCEPT ![n] = {}]

(* The other nodes of an SCC that was not merged: only the root knows them. *)
noSubs(r) == {}                                            \* mutant

unmergedSubs(r) ==
  IF mergeCondSCC \/ r \notin sccRoots THEN {}
  ELSE {n \in scc(r, reach) \ {r} : rep[n] = n}

-----------------------------------------------------------------------------
WaveInit ==
  /\ Init
  /\ propaPts = [n \in Node |-> {}]
  /\ diffPts = {}
  /\ condDiffPtsMap = [n \in Node |-> {}]
  /\ diffNode = cur
  /\ diffObjs = {}
  /\ sccRoots = {}
  /\ visit = {}
  /\ reanalyze = FALSE

waveProcessAddr(a)           == processAddr(a) /\ UNCHANGED diffVars
waveBeginAttach              == beginAttach /\ UNCHANGED diffVars
waveAttachStaticEdgeGuard(s) == attachStaticEdgeGuard(s) /\ UNCHANGED diffVars
waveBeginSCC(r)              == beginSCC(r) /\ UNCHANGED diffVars
wavePushCpySrcNode(n)        == pushCpySrcNode(n) /\ UNCHANGED diffVars

waveSCCDetect ==
  /\ SCCDetect
  /\ sccRoots' = nodeStack'
  /\ UNCHANGED <<propaPts, diffPts, condDiffPtsMap, diffNode, diffObjs, visit,
                 reanalyze>>

(* ConditionalAndersenWaveDiff::mergeSrcToTgt: the guarded facts first,    *)
(* made unconditional by mergeCondSCC; then Andersen::mergeSrcToTgt.  The  *)
(* representative is not pushed.                                           *)
guardToMerge(n, o) == IF mergeCondSCC THEN trueGuard ELSE condPtsMap[n][o]
entriesOf(n)       == {o \in Obj : condPtsMap[n][o] # NoGuard}

entriesMoved(n, r) ==
  [condPtsMap EXCEPT
    ![r] = [o \in Obj |-> IF o \in entriesOf(n)
                          THEN waveOrMerge(@[o], guardToMerge(n, o)) ELSE @[o]],
    ![n] = noEntries]

(* updatePropaPts: handed on by both, or it must be handed on again.       *)
propaMerged(n, r) == [propaPts EXCEPT ![r] = @ \cap propaPts[n]]

waveMergeNodeToRep(n, r) ==
  /\ pc = "merge"
  /\ <<n, r>> \in subs
  /\ subs' = subs \ {<<n, r>>}
  /\ condPtsMap' = entriesMoved(n, r)
  /\ condDiffPtsMap' = [condDiffPtsMap EXCEPT ![r] = @ \cup
       {o \in entriesOf(n) : changesEntry(condPtsMap[r][o], guardToMerge(n, o))}]
  /\ conjCappedGuards' = conjCappedGuards \cup
       UNION {waveOrCapped(condPtsMap[r][o], guardToMerge(n, o)) : o \in entriesOf(n)}
  /\ propaPts' = propaMerged(n, r)
  /\ pts' = [pts EXCEPT ![r] = @ \cup pts[n]]
  /\ consCG' = moveEdgesToRepNode(consCG, n, r)
  /\ rep' = [m \in Node |-> IF rep[m] = n THEN r ELSE rep[m]]
  /\ UNCHANGED <<prog, pc, todo, cur, worklist, nodeStack, reach, resolved,
                 cpySrcNodes, diffPts, diffNode, diffObjs, sccRoots, visit,
                 reanalyze>>

-----------------------------------------------------------------------------
(* Phase 1: the sweep, copies only.                                        *)
waveIdle ==
  /\ todo = {} /\ subs = {} /\ visit = {}
  /\ \/ pc \in {"merge", "sweep", "propagate"}
     \/ pc = "loadstore" /\ mergeCondSCC

waveSweepNode(r) ==
  /\ waveIdle
  /\ r \in nodeStack
  /\ first(r, nodeStack)
  /\ nodeStack' = nodeStack \ {r}
  /\ pc' = "sweep"
  /\ takeCondDiff(r)
  /\ startCopies(r)
  /\ visit' = unmergedSubs(r)
  /\ UNCHANGED <<prog, subs, pts, condPtsMap, consCG, rep, worklist, reach,
                 conjCappedGuards, resolved, cpySrcNodes, sccRoots, reanalyze>>

waveSweepSubNode(n) ==
  /\ pc = "sweep"
  /\ todo = {}
  /\ n \in visit
  /\ visit' = visit \ {n}
  /\ UNCHANGED <<diffNode, diffObjs, condDiffPtsMap>>
  /\ startCopies(n)
  /\ UNCHANGED <<prog, pc, subs, pts, condPtsMap, consCG, rep, worklist, nodeStack,
                 reach, conjCappedGuards, resolved, cpySrcNodes, sccRoots, reanalyze>>

(* Phase 2: the worklist.  Loads and stores of the node, then its copies,  *)
(* then the same for the other nodes of its unmerged cycle; where cycles   *)
(* are always merged (mergeCondSCC), loads and stores only.                *)
wavePopFromWorklist ==
  /\ waveIdle
  /\ nodeStack = {}
  /\ worklist # <<>>
  /\ worklist' = Tail(worklist)
  /\ LET n == rep[Head(worklist)]
     IN  processNode(n) /\ takeCondDiff(n) /\ visit' = unmergedSubs(n)
  /\ UNCHANGED <<prog, subs, pts, condPtsMap, consCG, rep, nodeStack, reach,
                 conjCappedGuards, resolved, cpySrcNodes, propaPts, diffPts,
                 sccRoots, reanalyze>>

waveVisitSubNode(n) ==
  /\ pc = "propagate"
  /\ todo = {}
  /\ n \in visit
  /\ visit' = visit \ {n}
  /\ processNode(n)
  /\ UNCHANGED <<prog, subs, pts, condPtsMap, consCG, rep, worklist, nodeStack,
                 reach, conjCappedGuards, resolved, cpySrcNodes, propaPts, diffPts,
                 condDiffPtsMap, diffNode, diffObjs, sccRoots, reanalyze>>

(* processLoad and processStore: a new edge asks for another round.        *)
waveLoadStore(o, e) ==
  /\ pc = "loadstore"
  /\ <<o, e>> \in todo
  /\ todo' = todo \ {<<o, e>>}
  /\ LET target == derivedEdge(o, e)
         added  == addCopyEdges(consCG, IF o \in ConstObj THEN {} ELSE {target})
         new    == DOMAIN added \ DOMAIN consCG
     IN  /\ consCG' = IF unconditional THEN added
                      ELSE mergeEdgeGuard(added, target, derivedGuard(o, e))
         /\ propaPts' = forgetPropagated(propaPts, new)
         /\ reanalyze' = (reanalyze \/ new # {})
  /\ UNCHANGED <<prog, pc, subs, cur, pts, condPtsMap, rep, worklist, nodeStack,
                 reach, conjCappedGuards, resolved, cpySrcNodes, diffPts,
                 condDiffPtsMap, diffNode, diffObjs, sccRoots, visit>>

waveHandleCopyGep ==
  /\ pc = "loadstore"
  /\ todo = {}
  /\ ~mergeCondSCC
  /\ pc' = "propagate"
  /\ UNCHANGED <<diffNode, diffObjs, condDiffPtsMap>>
  /\ startCopies(cur)
  /\ UNCHANGED <<prog, subs, pts, condPtsMap, consCG, rep, worklist, nodeStack, reach,
                 conjCappedGuards, resolved, cpySrcNodes, sccRoots, visit, reanalyze>>

-----------------------------------------------------------------------------
(* processCopy.  The entries it passes on: those of the changed objects,   *)
(* if this is the node they were taken from, otherwise all of them.        *)
passedEntries(e) ==
  IF e.src = diffNode /\ diffObjs # {} THEN entriesOf(e.src) \cap diffObjs
                                       ELSE entriesOf(e.src)

entryGuard(o, e) ==
  LET cond == condPtsMap[e.src][o]
  IN  IF cond \in conjCappedGuards \/ guardOutgrows(cond, consCG[e]) THEN cond
      ELSE guardLimited(guardAnd(cond, consCG[e]))

(* An entry whose guard is unsatisfiable is passed on as False; an object  *)
(* without an entry gets the guard of a conditional edge, or nothing.      *)
wavePassedGuard(o, e) ==
  IF condPtsMap[e.src][o] = NoGuard THEN guardLimited(consCG[e])
  ELSE IF eagerSat /\ ~guardIsSat(entryGuard(o, e)) THEN falseGuard
  ELSE entryGuard(o, e)

implicitObjs(e) ==
  LET guard == guardLimited(consCG[e])
  IN  {o \in pts[e.src] \ entriesOf(e.src) :
         /\ ~guardIsTrue(consCG[e])
         /\ ~guardIsFalse(guard)
         /\ eagerSat => guardIsSat(guard)}

wavePassedObjs(e) ==
  {o \in passedEntries(e) \cup implicitObjs(e) : ~guardIsTrue(wavePassedGuard(o, e))}

waveCappedByCopy(e) ==
  LET cut(o) == condPtsMap[e.src][o] \notin conjCappedGuards
      outgrown(o) == guardOutgrows(condPtsMap[e.src][o], consCG[e])
  IN UNION ( {IF guardIsTrue(consCG[e]) THEN {} ELSE guardCapped(consCG[e])}
       \cup {IF outgrown(o) THEN {condPtsMap[e.src][o]}
             ELSE guardCapped(guardAnd(condPtsMap[e.src][o], consCG[e])) :
               o \in {q \in passedEntries(e) : cut(q)}}
       \cup {waveOrCapped(condPtsMap[e.dst][o], wavePassedGuard(o, e)) :
               o \in wavePassedObjs(e)} )

waveProcessCopy(e) ==
  /\ pc \in {"sweep", "propagate"}
  /\ e \in todo
  /\ todo' = todo \ {e}
  /\ pts' = [pts EXCEPT ![e.dst] = @ \cup diffPts]
  /\ worklist' = IF diffPts \subseteq pts[e.dst] THEN worklist ELSE push(worklist, e.dst)
  /\ IF unconditional THEN UNCHANGED <<condPtsMap, condDiffPtsMap, conjCappedGuards>>
     ELSE /\ condPtsMap' = [condPtsMap EXCEPT ![e.dst] =
               [o \in Obj |-> IF o \in wavePassedObjs(e)
                              THEN waveOrMerge(@[o], wavePassedGuard(o, e)) ELSE @[o]]]
          /\ condDiffPtsMap' = [condDiffPtsMap EXCEPT ![e.dst] = @ \cup
               {o \in wavePassedObjs(e) :
                  changesEntry(condPtsMap[e.dst][o], wavePassedGuard(o, e))}]
          /\ conjCappedGuards' = conjCappedGuards \cup waveCappedByCopy(e)
  /\ UNCHANGED <<prog, pc, subs, cur, consCG, rep, nodeStack, reach, resolved,
                 cpySrcNodes, propaPts, diffPts, diffNode, diffObjs, sccRoots, visit,
                 reanalyze>>

-----------------------------------------------------------------------------
(* AndersenBase::solveConstraints: another round for new calls or edges.   *)
waveSolved == waveIdle /\ nodeStack = {} /\ worklist = <<>>

waveUpdateCallGraph ==
  /\ waveSolved
  /\ newCalls # {} \/ reanalyze
  /\ pc' = "update"
  /\ todo' = newCalls
  /\ resolved' = resolved \cup newCalls
  /\ reanalyze' = FALSE
  /\ UNCHANGED <<prog, subs, cur, pts, condPtsMap, consCG, rep, worklist, nodeStack,
                 reach, conjCappedGuards, cpySrcNodes, propaPts, diffPts,
                 condDiffPtsMap, diffNode, diffObjs, sccRoots, visit>>

waveConnectCaller2CalleeParams(c) ==
  /\ connectCaller2CalleeParams(c)
  /\ propaPts' = forgetPropagated(propaPts, DOMAIN consCG' \ DOMAIN consCG)
  /\ UNCHANGED <<diffPts, condDiffPtsMap, diffNode, diffObjs, sccRoots, visit,
                 reanalyze>>

waveFinish ==
  /\ waveSolved
  /\ newCalls = {}
  /\ ~reanalyze
  /\ pc' = "done"
  /\ UNCHANGED <<prog, todo, subs, cur, pts, condPtsMap, consCG, rep, worklist,
                 nodeStack, reach, conjCappedGuards, resolved, cpySrcNodes, diffVars>>

WaveNext ==
  \/ \E a \in todo : waveProcessAddr(a)
  \/ waveBeginAttach
  \/ \E s \in todo : waveAttachStaticEdgeGuard(s)
  \/ waveSCCDetect
  \/ \E r \in todo : waveBeginSCC(r)
  \/ \E p \in subs : waveMergeNodeToRep(p[1], p[2])
  \/ \E r \in nodeStack : waveSweepNode(r)
  \/ \E n \in visit : waveSweepSubNode(n)
  \/ wavePopFromWorklist
  \/ \E n \in visit : waveVisitSubNode(n)
  \/ \E t \in todo : waveLoadStore(t[1], t[2])
  \/ waveHandleCopyGep
  \/ \E e \in todo : waveProcessCopy(e)
  \/ waveUpdateCallGraph
  \/ \E c \in todo : waveConnectCaller2CalleeParams(c)
  \/ \E n \in cpySrcNodes : wavePushCpySrcNode(n)
  \/ waveFinish

WaveSpec     == WaveInit /\ [][WaveNext]_waveVars
FairWaveSpec == WaveSpec /\ WF_waveVars(WaveNext)

-----------------------------------------------------------------------------
WaveTypeOK ==
  /\ prog \in Programs
  /\ pc \in {"addr", "attach", "merge", "sweep", "loadstore", "propagate", "update",
             "done"}
  /\ pc = "addr"      => todo \subseteq prog.addr
  /\ pc = "attach"    => todo \subseteq prog.stmts
  /\ pc = "merge"     => todo \subseteq Node
  /\ pc = "loadstore" => todo \subseteq Obj \X (edges("load") \cup edges("store"))
  /\ pc \in {"sweep", "propagate"} => todo \subseteq edges("copy")
  /\ pc = "update"    => todo \subseteq prog.calls
  /\ pc = "done"      => todo = {}
  /\ subs \subseteq Node \X Node
  /\ cur \in Node /\ diffNode \in Node
  /\ pts \in [Node -> SUBSET Obj]
  /\ propaPts \in [Node -> SUBSET Obj]
  /\ condDiffPtsMap \in [Node -> SUBSET Obj]
  /\ diffPts \subseteq Obj /\ diffObjs \subseteq Obj
  /\ DOMAIN condPtsMap = Node
  /\ \A n \in Node : DOMAIN condPtsMap[n] = Obj
  /\ DOMAIN consCG \subseteq Edge
  /\ rep \in [Node -> Node]
  /\ worklist \in Seq(Node)
  /\ nodeStack \subseteq Node /\ sccRoots \subseteq Node /\ visit \subseteq Node
  /\ reach \subseteq Node \X Node
  /\ resolved \subseteq prog.calls
  /\ cpySrcNodes \subseteq Node
  /\ reanalyze \in BOOLEAN

(* HandedOn: difference propagation forgets nothing.  What a node counts   *)
(* as handed on has reached the other end of each of its copies, save      *)
(* what is on its way there now, although edges are added, moved to other  *)
(* nodes and dropped while propaPts is carried along.                      *)
HandedOn ==
  \A e \in edges("copy") :
    propaPts[e.src] \subseteq
      pts[e.dst] \cup (IF pc \in {"sweep", "propagate"} /\ e \in todo THEN diffPts ELSE {})

(* CompleteUnlessMerged: the points-to sets at the end account for all     *)
(* copies and calls, and for every load and store through a node that     *)
(* stands for itself only.                                                 *)
alone(n) == \A m \in Node : rep[m] = n => m = n

CompleteUnlessMerged ==
  pc = "done" =>
    /\ \A e \in edges("copy") : copied(e)
    /\ \A n \in live : alone(n) => \A t \in tasks(n) : derived(t[1], t[2])
    /\ newCalls = {}
=============================================================================
