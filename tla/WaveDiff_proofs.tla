--------------------------- MODULE WaveDiff_proofs ---------------------------
(***************************************************************************)
(* What holds of the wave solver for every program, every set of nodes and *)
(* objects, every guard algebra and every choice of options.  Outside its  *)
(* sweep the wave solver is in a state of CondAndersen, and the handlers   *)
(* it shares do there what has been proved of them, down to the soundness  *)
(* of guards.  The last part is on the queries of SingleTrackCondAndersen, *)
(* which follow this solver.                                               *)
(***************************************************************************)
EXTENDS TrackedFacts, Soundness_proofs

-----------------------------------------------------------------------------
(* Type correctness.                                                       *)

DiffTypeOK ==
  /\ diffNode \in Node
  /\ propaPts \in [Node -> SUBSET Obj]
  /\ condDiffPtsMap \in [Node -> SUBSET Obj]
  /\ diffPts \subseteq Obj /\ diffObjs \subseteq Obj
  /\ sccRoots \subseteq Node /\ visit \subseteq Node
  /\ reanalyze \in BOOLEAN

(* Outside the sweep the state is one of CondAndersen, with the rest.      *)
LEMMA WaveTypeSplits ==
  /\ WaveTypeOK => DiffTypeOK /\ (pc # "sweep" => TypeOK)
  /\ TypeOK' /\ DiffTypeOK' => WaveTypeOK'
BY DEF WaveTypeOK, TypeOK, DiffTypeOK

(* Forgetting takes away, and a new edge starts with nothing that its      *)
(* other end has not handed on.                                            *)
LEMMA ForgetPropagated ==
  ASSUME NEW propa \in [Node -> SUBSET Obj], NEW new
  PROVE  /\ forgetPropagated(propa, new) \in [Node -> SUBSET Obj]
         /\ \A n \in Node : forgetPropagated(propa, new)[n] \subseteq propa[n]
         /\ \A e \in new : e.src \in Node =>
              forgetPropagated(propa, new)[e.src] \subseteq propa[e.dst]
BY DEF forgetPropagated

(* The handlers of CondAndersen that the wave solver takes over as they    *)
(* are, or with an update of its own state added.                          *)
sharedStep ==
  \/ \E a \in todo : processAddr(a)
  \/ beginAttach
  \/ \E s \in todo : attachStaticEdgeGuard(s)
  \/ SCCDetect
  \/ \E r \in todo : beginSCC(r)
  \/ \E c \in todo : connectCaller2CalleeParams(c)
  \/ \E n \in cpySrcNodes : pushCpySrcNode(n)

LEMMA SharedSteps ==
  sharedStep => Next /\ pc # "sweep"
BY DEF sharedStep, Next, processAddr, beginAttach, attachStaticEdgeGuard, SCCDetect,
       beginSCC, connectCaller2CalleeParams, pushCpySrcNode

(* The solver starts well formed.                                          *)
LEMMA WaveTypeInit == WaveInit => WaveTypeOK
<1> SUFFICES ASSUME WaveInit PROVE WaveTypeOK OBVIOUS
<1>1. TypeOK /\ cur \in Node
  BY TypeInit DEF WaveInit, TypeOK
<1>2. DiffTypeOK
  BY <1>1 DEF WaveInit, DiffTypeOK
<1> QED BY <1>1, <1>2 DEF WaveTypeOK, TypeOK, DiffTypeOK

(* Taking up a node for its loads and stores, or for its copies, leaves    *)
(* the loop with edges of the right kind.                                  *)
LEMMA WaveProcessNode ==
  ASSUME NEW n \in Node, processNode(n), UNCHANGED consCG, pts \in [Node -> SUBSET Obj]
  PROVE  /\ pc' = "loadstore" /\ cur' \in Node
         /\ todo' \subseteq (Obj \X (edges("load") \cup edges("store")))'
BY DEF processNode, through, edges

LEMMA WaveStartCopies ==
  ASSUME NEW n \in Node, startCopies(n), UNCHANGED consCG,
         pts \in [Node -> SUBSET Obj], propaPts \in [Node -> SUBSET Obj]
  PROVE  /\ cur' \in Node
         /\ todo' \subseteq edges("copy")'
         /\ diffPts' \subseteq Obj
         /\ propaPts' \in [Node -> SUBSET Obj]
BY DEF startCopies, handsOnPts, edges

LEMMA WaveTakeCondDiff ==
  ASSUME NEW n \in Node, takeCondDiff(n), condDiffPtsMap \in [Node -> SUBSET Obj]
  PROVE  /\ diffNode' \in Node /\ diffObjs' \subseteq Obj
         /\ condDiffPtsMap' \in [Node -> SUBSET Obj]
         /\ unmergedSubs(n) \subseteq Node
BY DEF takeCondDiff, unmergedSubs, scc

(* Every handler keeps the solver well formed.                             *)
LEMMA WaveTypeStep == WaveTypeOK /\ [WaveNext]_waveVars => WaveTypeOK'
<1> SUFFICES ASSUME WaveTypeOK, [WaveNext]_waveVars PROVE WaveTypeOK' OBVIOUS
<1>a. /\ IsProgram(prog) /\ Obj \subseteq Node
      /\ prog \in Programs
  BY ProgramFacts DEF WaveTypeOK
<1>b. DiffTypeOK /\ (pc # "sweep" => TypeOK)
  BY WaveTypeSplits
<1>c. ASSUME sharedStep PROVE TypeOK'
  BY <1>b, <1>c, SharedSteps, TypeStep
<1>d. ASSUME sharedStep, UNCHANGED diffVars PROVE WaveTypeOK'
  <2>1. DiffTypeOK'
    BY <1>b, <1>d DEF DiffTypeOK, diffVars
  <2> QED BY <1>c, <1>d, <2>1, WaveTypeSplits
<1>1. ASSUME NEW a \in todo, waveProcessAddr(a) PROVE WaveTypeOK'
  BY <1>1, <1>d DEF waveProcessAddr, sharedStep
<1>2. CASE waveBeginAttach
  BY <1>2, <1>d DEF waveBeginAttach, sharedStep
<1>3. ASSUME NEW s \in todo, waveAttachStaticEdgeGuard(s) PROVE WaveTypeOK'
  BY <1>3, <1>d DEF waveAttachStaticEdgeGuard, sharedStep
<1>4. CASE waveSCCDetect
  <2>1. TypeOK' /\ nodeStack' \subseteq Node
    BY <1>4, <1>c DEF waveSCCDetect, sharedStep, TypeOK
  <2>2. DiffTypeOK'
    BY <1>4, <1>b, <2>1 DEF waveSCCDetect, DiffTypeOK
  <2> QED BY <2>1, <2>2, WaveTypeSplits
<1>5. ASSUME NEW r \in todo, waveBeginSCC(r) PROVE WaveTypeOK'
  BY <1>5, <1>d DEF waveBeginSCC, sharedStep
<1>6. ASSUME NEW p \in subs, waveMergeNodeToRep(p[1], p[2]) PROVE WaveTypeOK'
  <2> DEFINE n == p[1]
             r == p[2]
  <2>1. n \in Node /\ r \in Node
    BY DEF WaveTypeOK
  <2> HIDE DEF n, r
  <2>2. waveMergeNodeToRep(n, r)
    BY <1>6 DEF n, r
  <2>3. DOMAIN consCG' \subseteq Edge
    BY <2>1, <2>2, ReTargetEdges DEF WaveTypeOK, waveMergeNodeToRep, moveEdgesToRepNode
  <2>4. DOMAIN condPtsMap' = Node /\ \A m \in Node : DOMAIN condPtsMap'[m] = Obj
    BY <2>1, <2>2 DEF WaveTypeOK, waveMergeNodeToRep, entriesMoved, noEntries
  <2>5. /\ pts' \in [Node -> SUBSET Obj] /\ rep' \in [Node -> Node]
        /\ propaPts' \in [Node -> SUBSET Obj]
        /\ subs' \subseteq Node \X Node
    BY <2>1, <2>2 DEF WaveTypeOK, waveMergeNodeToRep, propaMerged
  <2>6. condDiffPtsMap' \in [Node -> SUBSET Obj]
    BY <2>1, <2>2 DEF WaveTypeOK, waveMergeNodeToRep, entriesOf
  <2> QED BY <2>2, <2>3, <2>4, <2>5, <2>6 DEF WaveTypeOK, waveMergeNodeToRep
<1>7. ASSUME NEW r \in nodeStack, waveSweepNode(r) PROVE WaveTypeOK'
  <2>1. r \in Node /\ UNCHANGED consCG /\ startCopies(r) /\ takeCondDiff(r)
    BY <1>7 DEF WaveTypeOK, waveSweepNode
  <2>2. /\ cur' \in Node /\ todo' \subseteq edges("copy")' /\ diffPts' \subseteq Obj
        /\ propaPts' \in [Node -> SUBSET Obj]
    BY <2>1, WaveStartCopies DEF WaveTypeOK
  <2>3. /\ diffNode' \in Node /\ diffObjs' \subseteq Obj
        /\ condDiffPtsMap' \in [Node -> SUBSET Obj]
        /\ visit' \subseteq Node
    BY <1>7, <2>1, WaveTakeCondDiff DEF WaveTypeOK, waveSweepNode
  <2> QED BY <1>7, <2>2, <2>3 DEF WaveTypeOK, waveSweepNode
<1>8. ASSUME NEW n \in visit, waveSweepSubNode(n) PROVE WaveTypeOK'
  <2>1. n \in Node /\ UNCHANGED consCG /\ startCopies(n)
    BY <1>8 DEF WaveTypeOK, waveSweepSubNode
  <2>2. /\ cur' \in Node /\ todo' \subseteq edges("copy")' /\ diffPts' \subseteq Obj
        /\ propaPts' \in [Node -> SUBSET Obj]
    BY <2>1, WaveStartCopies DEF WaveTypeOK
  <2> QED BY <1>8, <2>2 DEF WaveTypeOK, waveSweepSubNode
<1>9. CASE wavePopFromWorklist
  <2> DEFINE n == rep[Head(worklist)]
  <2>1. n \in Node /\ worklist' \in Seq(Node)
    BY <1>9 DEF WaveTypeOK, wavePopFromWorklist
  <2>2. UNCHANGED consCG /\ processNode(n) /\ takeCondDiff(n) /\ visit' = unmergedSubs(n)
    BY <1>9 DEF wavePopFromWorklist
  <2> HIDE DEF n
  <2>3. /\ pc' = "loadstore" /\ cur' \in Node
        /\ todo' \subseteq (Obj \X (edges("load") \cup edges("store")))'
    BY <2>1, <2>2, WaveProcessNode DEF WaveTypeOK
  <2>4. /\ diffNode' \in Node /\ diffObjs' \subseteq Obj
        /\ condDiffPtsMap' \in [Node -> SUBSET Obj]
        /\ visit' \subseteq Node
    BY <2>1, <2>2, WaveTakeCondDiff DEF WaveTypeOK
  <2> QED BY <1>9, <2>1, <2>3, <2>4 DEF WaveTypeOK, wavePopFromWorklist
<1>10. ASSUME NEW n \in visit, waveVisitSubNode(n) PROVE WaveTypeOK'
  <2>1. n \in Node /\ UNCHANGED consCG /\ processNode(n)
    BY <1>10 DEF WaveTypeOK, waveVisitSubNode
  <2>2. /\ pc' = "loadstore" /\ cur' \in Node
        /\ todo' \subseteq (Obj \X (edges("load") \cup edges("store")))'
    BY <2>1, WaveProcessNode DEF WaveTypeOK
  <2> QED BY <1>10, <2>2 DEF WaveTypeOK, waveVisitSubNode
<1>11. ASSUME NEW t \in todo, waveLoadStore(t[1], t[2]) PROVE WaveTypeOK'
  <2> DEFINE o == t[1]
             e == t[2]
             target == derivedEdge(o, e)
             added == addCopyEdges(consCG, IF o \in ConstObj THEN {} ELSE {target})
  <2>1. o \in Obj /\ e \in Edge /\ o \in Node
    BY <1>11, <1>a DEF WaveTypeOK, waveLoadStore, edges
  <2>2. target \in Edge
    BY <2>1 DEF WaveTypeOK, derivedEdge, edge, Edge
  <2>3. DOMAIN added \subseteq Edge /\ DOMAIN consCG \subseteq DOMAIN added
    BY <2>2, AddCopyEdgesDomain DEF WaveTypeOK
  <2>4. DOMAIN consCG' = DOMAIN added
    BY <1>11, MergeEdgeGuardDomain DEF waveLoadStore
  <2>5. propaPts' \in [Node -> SUBSET Obj]
    BY <1>11, ForgetPropagated DEF WaveTypeOK, waveLoadStore
  <2>6. todo' \subseteq Obj \X (edges("load") \cup edges("store"))'
    BY <1>11, <2>3, <2>4 DEF WaveTypeOK, waveLoadStore, edges
  <2>7. reanalyze' \in BOOLEAN
    BY <1>11 DEF waveLoadStore
  <2> QED BY <1>11, <2>3, <2>4, <2>5, <2>6, <2>7 DEF WaveTypeOK, waveLoadStore
<1>12. CASE waveHandleCopyGep
  <2>1. cur \in Node /\ UNCHANGED consCG /\ startCopies(cur)
    BY <1>12 DEF WaveTypeOK, waveHandleCopyGep
  <2>2. /\ cur' \in Node /\ todo' \subseteq edges("copy")' /\ diffPts' \subseteq Obj
        /\ propaPts' \in [Node -> SUBSET Obj]
    BY <2>1, WaveStartCopies DEF WaveTypeOK
  <2> QED BY <1>12, <2>2 DEF WaveTypeOK, waveHandleCopyGep
<1>13. ASSUME NEW e \in todo, waveProcessCopy(e) PROVE WaveTypeOK'
  <2>1. e \in Edge /\ e.src \in Node /\ e.dst \in Node
    BY <1>13 DEF WaveTypeOK, waveProcessCopy, edges, Edge
  <2>2. worklist' \in Seq(Node)
    BY <1>13, <2>1, PushIsSeq DEF WaveTypeOK, waveProcessCopy
  <2>3. pts' \in [Node -> SUBSET Obj]
    BY <1>13, <2>1 DEF WaveTypeOK, waveProcessCopy
  <2>4. DOMAIN condPtsMap' = Node /\ \A n \in Node : DOMAIN condPtsMap'[n] = Obj
    BY <1>13, <2>1 DEF WaveTypeOK, waveProcessCopy
  <2>5. wavePassedObjs(e) \subseteq Obj
    BY <2>1 DEF WaveTypeOK, wavePassedObjs, passedEntries, implicitObjs, entriesOf
  <2>6. condDiffPtsMap' \in [Node -> SUBSET Obj]
    BY <1>13, <2>1, <2>5 DEF WaveTypeOK, waveProcessCopy
  <2> QED BY <1>13, <2>2, <2>3, <2>4, <2>6 DEF WaveTypeOK, waveProcessCopy, edges
<1>14. CASE waveUpdateCallGraph
  BY <1>14 DEF WaveTypeOK, waveUpdateCallGraph, newCalls
<1>15. ASSUME NEW c \in todo, waveConnectCaller2CalleeParams(c) PROVE WaveTypeOK'
  <2>1. TypeOK'
    BY <1>15, <1>c DEF waveConnectCaller2CalleeParams, sharedStep
  <2>2. DiffTypeOK'
    BY <1>15, <1>b, ForgetPropagated DEF waveConnectCaller2CalleeParams, DiffTypeOK
  <2> QED BY <2>1, <2>2, WaveTypeSplits
<1>16. ASSUME NEW n \in cpySrcNodes, wavePushCpySrcNode(n) PROVE WaveTypeOK'
  BY <1>16, <1>d DEF wavePushCpySrcNode, sharedStep
<1>17. CASE waveFinish
  BY <1>17 DEF WaveTypeOK, waveFinish, waveSolved, waveIdle, diffVars
<1>18. CASE UNCHANGED waveVars
  BY <1>18 DEF WaveTypeOK, waveVars, vars, diffVars, edges
<1> QED
  BY <1>1, <1>2, <1>3, <1>4, <1>5, <1>6, <1>7, <1>8, <1>9, <1>10, <1>11, <1>12,
     <1>13, <1>14, <1>15, <1>16, <1>17, <1>18 DEF WaveNext

(* WaveTypeCorrect: whatever the program, the guards and the options,      *)
(* every handler of the wave solver leaves its state well formed; in       *)
(* particular the sweep and the worklist only ever walk copies, and a      *)
(* node's loads and stores are taken from the graph as it is now.          *)
THEOREM WaveTypeCorrect == WaveSpec => []WaveTypeOK
BY WaveTypeInit, WaveTypeStep, PTL DEF WaveSpec
-----------------------------------------------------------------------------
(* Difference propagation.  HandedOn is not inductive by itself: a new     *)
(* edge is compared with what its other end has handed on, which must be   *)
(* within what that end points to.                                         *)
PropaWithin == \A n \in Node : propaPts[n] \subseteq pts[n]

HandsOnInv == WaveTypeOK /\ PropaWithin /\ HandedOn

(* With no copy on its way, what is handed on has arrived.                 *)
LEMMA HandedOnAtRest ==
  ASSUME HandedOn, pc \notin {"sweep", "propagate"} \/ todo = {}
  PROVE  \A e \in edges("copy") : propaPts[e.src] \subseteq pts[e.dst]
BY DEF HandedOn

(* A step that adds no copy, and takes back nothing it has handed on,      *)
(* while nothing is on its way.                                            *)
LEMMA HandsOnKept ==
  ASSUME HandsOnInv,
         pc \notin {"sweep", "propagate"} \/ todo = {},
         edges("copy")' \subseteq edges("copy"), propaPts' = propaPts,
         \A n \in Node : pts[n] \subseteq pts'[n]
  PROVE  PropaWithin' /\ HandedOn'
<1>1. WaveTypeOK /\ PropaWithin /\ HandedOn
  BY DEF HandsOnInv
<1>2. PropaWithin'
  BY <1>1 DEF PropaWithin
<1>3. \A e \in edges("copy") : propaPts[e.src] \subseteq pts[e.dst] /\ e.dst \in Node
  BY <1>1, HandedOnAtRest DEF WaveTypeOK, edges, Edge
<1>4. HandedOn'
  BY <1>3 DEF HandedOn
<1> QED BY <1>2, <1>4

(* A step that adds copies, whose sources forget what their new            *)
(* destinations have not handed on.                                        *)
LEMMA HandsOnNewEdges ==
  ASSUME HandsOnInv, DOMAIN consCG' \subseteq Edge, UNCHANGED pts,
         pc \notin {"sweep", "propagate"} \/ todo = {},
         propaPts' = forgetPropagated(propaPts, DOMAIN consCG' \ DOMAIN consCG)
  PROVE  PropaWithin' /\ HandedOn'
<1>1. WaveTypeOK /\ PropaWithin /\ HandedOn
  BY DEF HandsOnInv
<1> DEFINE new == DOMAIN consCG' \ DOMAIN consCG
<1>2. /\ \A n \in Node : propaPts'[n] \subseteq propaPts[n]
      /\ \A e \in new : e.src \in Node => propaPts'[e.src] \subseteq propaPts[e.dst]
  <2> HIDE DEF new
  <2> QED BY <1>1, ForgetPropagated DEF WaveTypeOK, new
<1>3. PropaWithin'
  BY <1>1, <1>2 DEF PropaWithin
<1>4. ASSUME NEW e \in edges("copy")' PROVE propaPts'[e.src] \subseteq pts[e.dst]
  <2>1. e.src \in Node /\ e.dst \in Node
    BY <1>4 DEF edges, Edge
  <2>2. CASE e \in DOMAIN consCG
    BY <1>1, <1>2, <1>4, <2>1, <2>2, HandedOnAtRest DEF edges
  <2>3. CASE e \notin DOMAIN consCG
    BY <1>1, <1>2, <1>4, <2>1, <2>3 DEF edges, PropaWithin
  <2> QED BY <2>2, <2>3
<1>5. HandedOn'
  BY <1>4 DEF HandedOn
<1> QED BY <1>3, <1>5

(* Starting on the copies of n puts on its way whatever n has that it has  *)
(* not handed on; with nothing new, nothing has to be.                     *)
LEMMA HandsOnStart ==
  ASSUME HandsOnInv, NEW n \in Node, startCopies(n), UNCHANGED <<pts, consCG>>,
         pc \notin {"sweep", "propagate"} \/ todo = {},
         pc' \in {"sweep", "propagate"}
  PROVE  PropaWithin' /\ HandedOn'
<1>1. WaveTypeOK /\ PropaWithin /\ HandedOn
  BY DEF HandsOnInv
<1>2. \A m \in Node : propaPts'[m] = IF m = n THEN pts[n] ELSE propaPts[m]
  BY <1>1 DEF WaveTypeOK, startCopies
<1>3. PropaWithin'
  BY <1>1, <1>2 DEF PropaWithin
<1>4. ASSUME NEW e \in edges("copy")
      PROVE  propaPts'[e.src] \subseteq
               pts[e.dst] \cup (IF e \in todo' THEN diffPts' ELSE {})
  <2>1. e.src \in Node /\ propaPts[e.src] \subseteq pts[e.dst]
    BY <1>1, HandedOnAtRest DEF WaveTypeOK, edges, Edge
  <2>2. CASE e.src # n
    BY <1>2, <2>1, <2>2
  <2>3. CASE e.src = n
    <3>1. pts[n] \subseteq propaPts[n] \cup diffPts'
      BY DEF startCopies, handsOnPts
    <3>2. e \notin todo' => diffPts' = {}
      BY <2>3 DEF startCopies
    <3> QED BY <1>2, <2>1, <2>3, <3>1, <3>2
  <2> QED BY <2>2, <2>3
<1>5. edges("copy")' = edges("copy")
  BY DEF edges
<1>6. HandedOn'
  BY <1>4, <1>5 DEF HandedOn
<1> QED BY <1>3, <1>6

(* Merging n into r: r has handed on what both have, so every edge it      *)
(* inherits from either is covered.                                        *)
LEMMA HandsOnMerge ==
  ASSUME HandsOnInv, NEW p \in subs, waveMergeNodeToRep(p[1], p[2])
  PROVE  PropaWithin' /\ HandedOn'
<1> DEFINE n == p[1]
           r == p[2]
<1>1. WaveTypeOK /\ PropaWithin /\ HandedOn
  BY DEF HandsOnInv
<1>2. n \in Node /\ r \in Node
  BY <1>1 DEF WaveTypeOK
<1>3. /\ pc = "merge" /\ pc' = "merge"
      /\ propaPts' = propaMerged(n, r)
      /\ pts' = [pts EXCEPT ![r] = @ \cup pts[n]]
      /\ consCG' = moveEdgesToRepNode(consCG, n, r)
  BY DEF waveMergeNodeToRep
<1> HIDE DEF n, r
<1>4. \A m \in Node : /\ propaPts'[m] = IF m = r THEN propaPts[r] \cap propaPts[n]
                                                 ELSE propaPts[m]
                      /\ pts'[m] = IF m = r THEN pts[r] \cup pts[n] ELSE pts[m]
  BY <1>1, <1>2, <1>3 DEF WaveTypeOK, propaMerged
<1>5. PropaWithin'
  BY <1>1, <1>2, <1>4 DEF PropaWithin
<1>6. ASSUME NEW e \in edges("copy")' PROVE propaPts'[e.src] \subseteq pts'[e.dst]
  <2> DEFINE h == reTarget(consCG, "dst", n, r)
  <2>1. DOMAIN h \subseteq Edge
    BY <1>1, <1>2, ReTargetEdges DEF WaveTypeOK
  <2> HIDE DEF h
  <2>2. e \in DOMAIN reTarget(h, "src", n, r) /\ e.kind = "copy"
    BY <1>3, <1>6 DEF edges, moveEdgesToRepNode, h
  <2>3. PICK f \in DOMAIN h : e = moved(f, "src", n, r)
    BY <2>2, ReTargetDomain
  <2>4. /\ f \in Edge /\ e.kind = f.kind /\ e.dst = f.dst
        /\ e.src = (IF f.src = n THEN r ELSE f.src)
    BY <2>1, <2>3 DEF moved, Edge
  <2>5. PICK d \in DOMAIN consCG : f = moved(d, "dst", n, r)
    BY ReTargetDomain DEF h
  <2>6. /\ d \in Edge /\ f.kind = d.kind /\ f.src = d.src
        /\ f.dst = (IF d.dst = n THEN r ELSE d.dst)
    BY <1>1, <2>5 DEF moved, Edge, WaveTypeOK
  <2>7. d.src \in Node /\ d.dst \in Node /\ d \in edges("copy")
    BY <2>2, <2>4, <2>6 DEF Edge, edges
  <2>8. propaPts[d.src] \subseteq pts[d.dst]
    BY <1>1, <1>3, <2>7, HandedOnAtRest
  <2>9. propaPts'[e.src] \subseteq propaPts[d.src]
    BY <1>2, <1>4, <2>4, <2>6, <2>7
  <2>10. pts[d.dst] \subseteq pts'[e.dst]
    BY <1>2, <1>4, <2>4, <2>6, <2>7
  <2> QED BY <2>8, <2>9, <2>10
<1>7. HandedOn'
  BY <1>3, <1>6 DEF HandedOn
<1> QED BY <1>5, <1>7

(* A copy delivers what is on its way.                                     *)
LEMMA HandsOnCopy ==
  ASSUME HandsOnInv, NEW e \in todo, waveProcessCopy(e)
  PROVE  PropaWithin' /\ HandedOn'
<1>1. WaveTypeOK /\ PropaWithin /\ HandedOn
  BY DEF HandsOnInv
<1>2. e \in edges("copy") /\ e.dst \in Node
  BY <1>1 DEF WaveTypeOK, waveProcessCopy, edges, Edge
<1>3. /\ propaPts' = propaPts /\ diffPts' = diffPts /\ pc' = pc /\ todo' = todo \ {e}
      /\ pc \in {"sweep", "propagate"}
      /\ edges("copy")' = edges("copy")
      /\ \A m \in Node : pts'[m] = IF m = e.dst THEN pts[m] \cup diffPts ELSE pts[m]
  BY <1>1, <1>2 DEF WaveTypeOK, waveProcessCopy, edges
<1>4. PropaWithin'
  BY <1>1, <1>3 DEF PropaWithin
<1>5. ASSUME NEW f \in edges("copy")
      PROVE  propaPts[f.src] \subseteq
               pts'[f.dst] \cup (IF f \in todo' THEN diffPts ELSE {})
  <2>1. f.dst \in Node
    BY <1>1 DEF WaveTypeOK, edges, Edge
  <2>2. propaPts[f.src] \subseteq pts[f.dst] \cup (IF f \in todo THEN diffPts ELSE {})
    BY <1>1, <1>3 DEF HandedOn
  <2> QED BY <1>2, <1>3, <2>1, <2>2
<1>6. HandedOn'
  BY <1>3, <1>5 DEF HandedOn
<1> QED BY <1>4, <1>6

(* Every handler keeps the account of what was handed on.                  *)
LEMMA HandsOnStep == HandsOnInv /\ [WaveNext]_waveVars => HandsOnInv'
<1> SUFFICES ASSUME HandsOnInv, [WaveNext]_waveVars PROVE HandsOnInv' OBVIOUS
<1>a. WaveTypeOK /\ WaveTypeOK'
  BY WaveTypeStep DEF HandsOnInv
<1> DEFINE Kept == PropaWithin' /\ HandedOn'
<1>1. ASSUME NEW a \in todo, waveProcessAddr(a) PROVE Kept
  <2>1. \A n \in Node : pts[n] \subseteq pts'[n]
    BY <1>1, <1>a DEF WaveTypeOK, waveProcessAddr, processAddr
  <2> QED BY <1>1, <2>1, HandsOnKept DEF waveProcessAddr, processAddr, diffVars, edges
<1>2. ASSUME \/ waveBeginAttach \/ waveSCCDetect
             \/ \E r \in todo : waveBeginSCC(r)
             \/ \E n \in cpySrcNodes : wavePushCpySrcNode(n)
      PROVE  Kept
  <2>1. UNCHANGED <<pts, consCG, propaPts>> /\ pc \notin {"sweep", "propagate"}
    BY <1>2 DEF waveBeginAttach, waveSCCDetect, waveBeginSCC, wavePushCpySrcNode,
                beginAttach, SCCDetect, beginSCC, pushCpySrcNode, diffVars
  <2> QED BY <2>1, HandsOnKept DEF edges
<1>3. ASSUME NEW s \in todo, waveAttachStaticEdgeGuard(s) PROVE Kept
  <2>1. DOMAIN consCG' = DOMAIN consCG
    BY <1>3, MergeEdgeGuardDomain DEF waveAttachStaticEdgeGuard, attachStaticEdgeGuard
  <2> QED BY <1>3, <2>1, HandsOnKept
          DEF waveAttachStaticEdgeGuard, attachStaticEdgeGuard, diffVars, edges
<1>4. ASSUME NEW p \in subs, waveMergeNodeToRep(p[1], p[2]) PROVE Kept
  BY <1>4, HandsOnMerge
<1>5. ASSUME NEW r \in nodeStack, waveSweepNode(r) PROVE Kept
  BY <1>5, <1>a, HandsOnStart DEF WaveTypeOK, waveSweepNode, waveIdle
<1>6. ASSUME NEW n \in visit, waveSweepSubNode(n) PROVE Kept
  BY <1>6, <1>a, HandsOnStart DEF WaveTypeOK, waveSweepSubNode
<1>7. ASSUME \/ wavePopFromWorklist \/ waveUpdateCallGraph \/ waveFinish
             \/ \E n \in visit : waveVisitSubNode(n)
      PROVE  Kept
  <2>1. UNCHANGED <<pts, consCG, propaPts>> /\ todo = {}
    BY <1>7 DEF wavePopFromWorklist, waveUpdateCallGraph, waveFinish, waveVisitSubNode,
                waveSolved, waveIdle, diffVars
  <2> QED BY <2>1, HandsOnKept DEF edges
<1>8. ASSUME NEW t \in todo, waveLoadStore(t[1], t[2]) PROVE Kept
  <2> DEFINE target == derivedEdge(t[1], t[2])
             added == addCopyEdges(consCG, IF t[1] \in ConstObj THEN {} ELSE {target})
  <2>1. DOMAIN consCG' = DOMAIN added
    BY <1>8, MergeEdgeGuardDomain DEF waveLoadStore
  <2>2. /\ propaPts' = forgetPropagated(propaPts, DOMAIN consCG' \ DOMAIN consCG)
        /\ UNCHANGED pts /\ pc = "loadstore"
    BY <1>8, <2>1 DEF waveLoadStore
  <2> QED BY <1>a, <2>2, HandsOnNewEdges DEF WaveTypeOK
<1>9. ASSUME waveHandleCopyGep PROVE Kept
  <2>1. /\ cur \in Node /\ startCopies(cur) /\ UNCHANGED <<pts, consCG>>
        /\ pc = "loadstore" /\ pc' = "propagate"
    BY <1>9, <1>a DEF WaveTypeOK, waveHandleCopyGep
  <2> QED BY <2>1, HandsOnStart
<1>10. ASSUME NEW e \in todo, waveProcessCopy(e) PROVE Kept
  BY <1>10, HandsOnCopy
<1>11. ASSUME NEW c \in todo, waveConnectCaller2CalleeParams(c) PROVE Kept
  BY <1>11, <1>a, HandsOnNewEdges
     DEF WaveTypeOK, waveConnectCaller2CalleeParams, connectCaller2CalleeParams
<1>12. ASSUME UNCHANGED waveVars PROVE Kept
  <2>1. UNCHANGED <<pc, todo, pts, consCG, propaPts, diffPts>>
    BY <1>12 DEF waveVars, vars, diffVars
  <2>2. PropaWithin'
    BY <2>1 DEF HandsOnInv, PropaWithin
  <2>3. HandedOn'
    BY <2>1 DEF HandsOnInv, HandedOn, edges
  <2> QED BY <2>2, <2>3
<1>13. Kept
  BY <1>1, <1>2, <1>3, <1>4, <1>5, <1>6, <1>7, <1>8, <1>9, <1>10, <1>11, <1>12
     DEF WaveNext
<1> QED BY <1>a, <1>13 DEF HandsOnInv

(* WaveHandsOn: difference propagation loses nothing.  What a node counts  *)
(* as handed on has reached the other end of every copy it has now,        *)
(* through every merge, every new edge and every round.                    *)
THEOREM WaveHandsOn == WaveSpec => []HandedOn
<1>1. WaveInit => HandsOnInv
  BY WaveTypeInit DEF WaveInit, HandsOnInv, PropaWithin, HandedOn, WaveTypeOK, edges, Edge
<1>2. HandsOnInv => HandedOn
  BY DEF HandsOnInv
<1> QED BY <1>1, <1>2, HandsOnStep, PTL DEF WaveSpec
-----------------------------------------------------------------------------
(* Precision.  The invariant is that of CondAndersen, with what is on its  *)
(* way along a copy within the solution of the copy's source.              *)
DiffWithin ==
  pc \in {"sweep", "propagate"} => \A e \in todo : diffPts \subseteq Sol[e.src]

WavePreciseInv == WaveTypeOK /\ Within /\ DiffWithin

(* A step that leaves graph, facts and nodes alone and starts no loop over *)
(* roots, loads and stores, or calls stays within the solution.            *)
LEMMA KeptWithin ==
  ASSUME Within, UNCHANGED <<prog, pts, consCG, rep, reach>>,
         subs' = {}, pc' \notin {"merge", "loadstore", "update"}
  PROVE  Within'
<1>1. Sol' = Sol /\ live' = live
  BY DEF Sol, live
<1> QED BY <1>1 DEF Within, FactsWithin, GraphWithin, RepsWithin, SubsWithin,
                    RootsWithin, LoopWithin

(* Starting on the copies of a node puts facts of that node on their way.  *)
LEMMA StartWithin ==
  ASSUME Within, NEW n \in Node, startCopies(n), UNCHANGED prog
  PROVE  DiffWithin'
<1>1. Sol' = Sol
  BY DEF Sol
<1>2. diffPts' \subseteq Sol[n]
  BY DEF Within, FactsWithin, startCopies, handsOnPts
<1>3. \A e \in todo' : e.src = n
  BY DEF startCopies
<1> QED BY <1>1, <1>2, <1>3 DEF DiffWithin

(* The copy e carries facts of its source to its destination.              *)
LEMMA CopyWithin ==
  ASSUME WavePreciseInv, NEW e \in todo, waveProcessCopy(e)
  PROVE  Within' /\ DiffWithin'
<1>a. WaveTypeOK /\ Within /\ DiffWithin
  BY DEF WavePreciseInv
<1>1. /\ UNCHANGED <<prog, pc, subs, consCG, rep, reach, diffPts>>
      /\ todo' = todo \ {e} /\ pc \in {"sweep", "propagate"}
  BY DEF waveProcessCopy
<1>2. Sol' = Sol /\ live' = live
  BY <1>1 DEF Sol, live
<1>3. e \in DOMAIN consCG /\ e.kind = "copy" /\ e.src \in Node /\ e.dst \in Node
  BY <1>a, <1>1 DEF WaveTypeOK, edges, Edge
<1>4. diffPts \subseteq Sol[e.dst]
  BY <1>a, <1>1, <1>3 DEF DiffWithin, Within, GraphWithin, Respects
<1>5. \A n \in Node : pts'[n] = IF n = e.dst THEN pts[n] \cup diffPts ELSE pts[n]
  BY <1>a, <1>3 DEF WaveTypeOK, waveProcessCopy
<1>6. FactsWithin'
  BY <1>a, <1>2, <1>4, <1>5 DEF Within, FactsWithin
<1>7. GraphWithin' /\ RepsWithin'
  BY <1>a, <1>1, <1>2 DEF Within, GraphWithin, RepsWithin
<1>8. SubsWithin' /\ RootsWithin' /\ LoopWithin'
  BY <1>a, <1>1, <1>2 DEF Within, SubsWithin, RootsWithin, LoopWithin
<1>9. DiffWithin'
  BY <1>a, <1>1, <1>2 DEF DiffWithin
<1> QED BY <1>6, <1>7, <1>8, <1>9 DEF Within

(* Every handler stays within the solution.                                *)
LEMMA WavePreciseStep == WavePreciseInv /\ [WaveNext]_waveVars => WavePreciseInv'
<1> SUFFICES ASSUME WavePreciseInv, [WaveNext]_waveVars PROVE WavePreciseInv' OBVIOUS
<1>a. WaveTypeOK /\ Within /\ DiffWithin /\ WaveTypeOK'
  BY WaveTypeStep DEF WavePreciseInv
<1>b. pc # "sweep" => PreciseInv
  BY <1>a, WaveTypeSplits DEF PreciseInv
<1> DEFINE Kept == Within' /\ DiffWithin'
<1>c. ASSUME sharedStep, pc' \notin {"sweep", "propagate"} PROVE Kept
  <2>1. Within'
    BY <1>b, <1>c, SharedSteps, PreciseStep DEF PreciseInv
  <2> QED BY <1>c, <2>1 DEF DiffWithin
<1>1. ASSUME \/ \E a \in todo : waveProcessAddr(a)
             \/ waveBeginAttach
             \/ \E s \in todo : waveAttachStaticEdgeGuard(s)
             \/ waveSCCDetect
             \/ \E r \in todo : waveBeginSCC(r)
             \/ \E c \in todo : waveConnectCaller2CalleeParams(c)
             \/ \E n \in cpySrcNodes : wavePushCpySrcNode(n)
      PROVE  Kept
  <2>1. sharedStep
    BY <1>1 DEF sharedStep, waveProcessAddr, waveBeginAttach, waveAttachStaticEdgeGuard,
                waveSCCDetect, waveBeginSCC, waveConnectCaller2CalleeParams,
                wavePushCpySrcNode
  <2>2. pc' \notin {"sweep", "propagate"}
    BY <2>1 DEF sharedStep, processAddr, beginAttach, attachStaticEdgeGuard, SCCDetect,
                beginSCC, connectCaller2CalleeParams, pushCpySrcNode
  <2> QED BY <1>c, <2>1, <2>2
<1>2. ASSUME NEW p \in subs, waveMergeNodeToRep(p[1], p[2]) PROVE Kept
  <2>1. mergesGraph(p[1], p[2]) /\ pc = "merge"
    BY <1>2 DEF waveMergeNodeToRep, mergesGraph
  <2>2. Within'
    BY <1>b, <2>1, MergeWithin
  <2> QED BY <2>1, <2>2 DEF mergesGraph, DiffWithin
<1>3. ASSUME NEW r \in nodeStack, waveSweepNode(r) PROVE Kept
  <2>1. /\ r \in Node /\ startCopies(r) /\ subs' = {} /\ pc' = "sweep"
        /\ UNCHANGED <<prog, pts, consCG, rep, reach>>
    BY <1>3, <1>a DEF WaveTypeOK, waveSweepNode, waveIdle
  <2> QED BY <1>a, <2>1, KeptWithin, StartWithin
<1>4. ASSUME NEW n \in visit, waveSweepSubNode(n) PROVE Kept
  <2>1. /\ n \in Node /\ startCopies(n) /\ subs' = {} /\ pc' = "sweep"
        /\ UNCHANGED <<prog, pts, consCG, rep, reach>>
    BY <1>4, <1>a DEF WaveTypeOK, waveSweepSubNode, Within, SubsWithin
  <2> QED BY <1>a, <2>1, KeptWithin, StartWithin
<1>5. ASSUME NEW n \in Node, processNode(n), subs = {},
             UNCHANGED <<prog, subs, pts, consCG, rep, reach>>
      PROVE  Kept
  <2>1. Within'
    BY <1>5, <1>a, ProcessNodeWithin
  <2> QED BY <1>5, <2>1 DEF processNode, DiffWithin
<1>6. ASSUME wavePopFromWorklist PROVE Kept
  <2>1. rep[Head(worklist)] \in Node
    BY <1>6, <1>a DEF WaveTypeOK, wavePopFromWorklist
  <2> QED BY <1>5, <1>6, <2>1 DEF wavePopFromWorklist, waveIdle
<1>7. ASSUME NEW n \in visit, waveVisitSubNode(n) PROVE Kept
  BY <1>5, <1>7, <1>a DEF WaveTypeOK, waveVisitSubNode, Within, SubsWithin
<1>8. ASSUME NEW t \in todo, waveLoadStore(t[1], t[2]) PROVE Kept
  <2>1. derivesEdge(t[1], t[2])
    BY <1>8, MergeEdgeGuardDomain DEF waveLoadStore, derivesEdge
  <2>2. pc = "loadstore" /\ pc' = pc
    BY <2>1 DEF derivesEdge
  <2>3. Within'
    BY <1>b, <2>1, <2>2, LoadStoreWithin
  <2> QED BY <2>2, <2>3 DEF DiffWithin
<1>9. ASSUME waveHandleCopyGep PROVE Kept
  <2>1. /\ cur \in Node /\ startCopies(cur) /\ subs' = {} /\ pc' = "propagate"
        /\ UNCHANGED <<prog, pts, consCG, rep, reach>>
    BY <1>9, <1>a DEF WaveTypeOK, waveHandleCopyGep, Within, SubsWithin
  <2> QED BY <1>a, <2>1, KeptWithin, StartWithin
<1>10. ASSUME NEW e \in todo, waveProcessCopy(e) PROVE Kept
  BY <1>10, CopyWithin
<1>11. ASSUME waveUpdateCallGraph PROVE Kept
  <2>1. Sol' = Sol /\ live' = live
    BY <1>11 DEF waveUpdateCallGraph, Sol, live
  <2>2. FactsWithin' /\ GraphWithin' /\ RepsWithin'
    BY <1>a, <1>11, <2>1
       DEF waveUpdateCallGraph, Within, FactsWithin, GraphWithin, RepsWithin
  <2>3. SubsWithin' /\ RootsWithin' /\ DiffWithin'
    BY <1>a, <1>11 DEF waveUpdateCallGraph, waveSolved, waveIdle, Within, SubsWithin,
                       RootsWithin, DiffWithin
  <2>4. \A c \in newCalls : c.fun \in Sol[c.fp]
    <3>1. \A c \in newCalls : c.fp \in Node /\ c.fun \in pts[rep[c.fp]]
      BY <1>a, ProgramFacts DEF WaveTypeOK, newCalls, IsProgram, IsCall
    <3> QED BY <1>a, <3>1 DEF WaveTypeOK, Within, FactsWithin, RepsWithin
  <2>5. LoopWithin'
    BY <1>11, <2>1, <2>4 DEF waveUpdateCallGraph, LoopWithin
  <2> QED BY <2>2, <2>3, <2>5 DEF Within
<1>12. ASSUME waveFinish PROVE Kept
  <2>1. /\ UNCHANGED <<prog, pts, consCG, rep, reach>> /\ subs' = {} /\ pc' = "done"
    BY <1>12 DEF waveFinish, waveSolved, waveIdle
  <2> QED BY <1>a, <2>1, KeptWithin DEF DiffWithin
<1>13. ASSUME UNCHANGED waveVars PROVE Kept
  <2>1. UNCHANGED <<prog, pc, todo, subs, pts, consCG, rep, reach, diffPts>>
    BY <1>13 DEF waveVars, vars, diffVars
  <2>2. Sol' = Sol /\ live' = live
    BY <2>1 DEF Sol, live
  <2>3. FactsWithin' /\ GraphWithin' /\ RepsWithin'
    BY <1>a, <2>1, <2>2 DEF Within, FactsWithin, GraphWithin, RepsWithin
  <2>4. SubsWithin' /\ RootsWithin' /\ LoopWithin' /\ DiffWithin'
    BY <1>a, <2>1, <2>2 DEF Within, SubsWithin, RootsWithin, LoopWithin, DiffWithin
  <2> QED BY <2>3, <2>4 DEF Within
<1>14. Kept
  BY <1>1, <1>2, <1>3, <1>4, <1>6, <1>7, <1>8, <1>9, <1>10, <1>11, <1>12, <1>13
     DEF WaveNext
<1> QED BY <1>a, <1>14 DEF WavePreciseInv

(* WavePrecise: the wave solver, too, never gives a variable an object     *)
(* that the solution of its program's constraints does without, although   *)
(* it hands on differences, merges conditional cycles only when told to,   *)
(* and repeats its rounds.                                                 *)
THEOREM WavePrecise == WaveSpec => []Precise
<1>1. WaveInit => WavePreciseInv
  BY WaveTypeInit, PreciseInit DEF WaveInit, Init, PreciseInv, WavePreciseInv, DiffWithin
<1>2. WavePreciseInv => Precise
  BY DEF WavePreciseInv, WaveTypeOK, Within, FactsWithin, RepsWithin, Precise, answer, Sol
<1> QED BY <1>1, <1>2, WavePreciseStep, PTL DEF WaveSpec

-----------------------------------------------------------------------------
(* The wave solver keeps guards only where they mean something             *)
(* (EntriesWithinPts).  Unlike in CondAndersen this hangs on difference    *)
(* propagation: a copy passes on the guards of all the objects of its      *)
(* source, but only the objects that the source has not handed on before.  *)

(* A guard may only travel along a copy whose other end has the object     *)
(* already, or gets it now.  HandedOn says so of everything the source     *)
(* counts as handed on; so, while its copies are walked, it must count     *)
(* all it points to, which no copy of that walk may add to.                *)
NoLoops == \A e \in edges("copy") : e.src # e.dst

AllCounted ==
  pc \in {"sweep", "propagate"} =>
    \A e \in todo : e.src = cur /\ pts[cur] \subseteq propaPts[cur]

WaveEntriesInv ==
  /\ HandsOnInv
  /\ WavePreciseInv
  /\ NoLoops
  /\ AllCounted
  /\ EntriesWithinPts

(* Graph operations never leave a copy from a node to itself.              *)
LEMMA NoLoopsStep ==
  ASSUME NoLoops, [WaveNext]_waveVars
  PROVE  NoLoops'
<1>1. ASSUME DOMAIN consCG' = DOMAIN consCG PROVE NoLoops'
  BY <1>1 DEF NoLoops, edges
<1>2. ASSUME NEW E, DOMAIN consCG' = DOMAIN addCopyEdges(consCG, E) PROVE NoLoops'
  BY <1>2, AddCopyEdgesDomain DEF NoLoops, edges
<1>3. ASSUME NEW p \in subs, waveMergeNodeToRep(p[1], p[2]) PROVE NoLoops'
  BY <1>3, ReTargetDomain DEF waveMergeNodeToRep, moveEdgesToRepNode, NoLoops, edges
<1>4. ASSUME NEW s \in todo, waveAttachStaticEdgeGuard(s) PROVE NoLoops'
  BY <1>1, <1>4, MergeEdgeGuardDomain
     DEF waveAttachStaticEdgeGuard, attachStaticEdgeGuard
<1>5. ASSUME NEW t \in todo, waveLoadStore(t[1], t[2]) PROVE NoLoops'
  <2>1. derivesEdge(t[1], t[2])
    BY <1>5, MergeEdgeGuardDomain DEF waveLoadStore, derivesEdge
  <2> QED BY <1>2, <2>1 DEF derivesEdge
<1>6. ASSUME NEW c \in todo, waveConnectCaller2CalleeParams(c) PROVE NoLoops'
  <2>1. DOMAIN consCG' = DOMAIN addCopyEdges(consCG, boundEdges(c))
    BY <1>6 DEF waveConnectCaller2CalleeParams, connectCaller2CalleeParams
  <2> QED BY <1>2, <2>1
<1>7. ASSUME \/ \E a \in todo : waveProcessAddr(a)
             \/ waveBeginAttach
             \/ waveSCCDetect
             \/ \E r \in todo : waveBeginSCC(r)
             \/ \E n \in cpySrcNodes : wavePushCpySrcNode(n)
             \/ waveFinish
             \/ UNCHANGED waveVars
      PROVE  NoLoops'
  <2>1. consCG' = consCG
    BY <1>7 DEF waveProcessAddr, waveBeginAttach, waveSCCDetect, waveBeginSCC,
                wavePushCpySrcNode, processAddr, beginAttach, SCCDetect, beginSCC,
                pushCpySrcNode, waveFinish, waveVars, vars
  <2> QED BY <1>1, <2>1
<1>8. ASSUME \/ \E r \in nodeStack : waveSweepNode(r)
             \/ \E n \in visit : waveSweepSubNode(n)
             \/ wavePopFromWorklist
             \/ \E n \in visit : waveVisitSubNode(n)
             \/ waveHandleCopyGep
             \/ \E e \in todo : waveProcessCopy(e)
             \/ waveUpdateCallGraph
      PROVE  NoLoops'
  <2>1. consCG' = consCG
    BY <1>8 DEF waveSweepNode, waveSweepSubNode, wavePopFromWorklist, waveVisitSubNode,
                waveHandleCopyGep, waveProcessCopy, waveUpdateCallGraph
  <2> QED BY <1>1, <2>1
<1> QED BY <1>3, <1>4, <1>5, <1>6, <1>7, <1>8 DEF WaveNext

(* While the copies of a node are walked, all it points to counts as       *)
(* handed on: the walk starts with that, and no copy adds to its source.   *)
LEMMA StartCounted ==
  ASSUME NEW n \in Node, startCopies(n), UNCHANGED pts, propaPts \in [Node -> SUBSET Obj]
  PROVE  AllCounted'
BY DEF AllCounted, startCopies

LEMMA CopyCounted ==
  ASSUME WaveEntriesInv, NEW e \in todo, waveProcessCopy(e)
  PROVE  AllCounted'
<1>1. /\ UNCHANGED <<pc, cur, propaPts>> /\ todo' = todo \ {e}
      /\ pts' = [pts EXCEPT ![e.dst] = @ \cup diffPts]
      /\ pc \in {"sweep", "propagate"}
  BY DEF waveProcessCopy
<1>2. WaveTypeOK /\ NoLoops /\ AllCounted
  BY DEF WaveEntriesInv, HandsOnInv
<1>3. e \in edges("copy") /\ cur \in Node
  BY <1>1, <1>2 DEF WaveTypeOK
<1>4. e.dst # cur
  BY <1>1, <1>2, <1>3 DEF NoLoops, AllCounted
<1>5. pts'[cur] = pts[cur]
  BY <1>1, <1>2, <1>3, <1>4 DEF WaveTypeOK
<1> QED BY <1>1, <1>2, <1>5 DEF AllCounted

LEMMA AllCountedStep ==
  ASSUME WaveEntriesInv, [WaveNext]_waveVars
  PROVE  AllCounted'
<1>a. WaveTypeOK /\ AllCounted
  BY DEF WaveEntriesInv, HandsOnInv
<1>1. ASSUME pc' \notin {"sweep", "propagate"} PROVE AllCounted'
  BY <1>1 DEF AllCounted
<1>2. ASSUME NEW r \in nodeStack, waveSweepNode(r) PROVE AllCounted'
  BY <1>2, <1>a, StartCounted DEF WaveTypeOK, waveSweepNode
<1>3. ASSUME NEW n \in visit, waveSweepSubNode(n) PROVE AllCounted'
  BY <1>3, <1>a, StartCounted DEF WaveTypeOK, waveSweepSubNode
<1>4. ASSUME waveHandleCopyGep PROVE AllCounted'
  <2>1. cur \in Node /\ startCopies(cur) /\ UNCHANGED pts
    BY <1>4, <1>a DEF WaveTypeOK, waveHandleCopyGep
  <2> QED BY <1>a, <2>1, StartCounted DEF WaveTypeOK
<1>5. ASSUME NEW e \in todo, waveProcessCopy(e) PROVE AllCounted'
  BY <1>5, CopyCounted
<1>6. ASSUME \/ \E a \in todo : waveProcessAddr(a)
             \/ waveBeginAttach
             \/ \E s \in todo : waveAttachStaticEdgeGuard(s)
             \/ waveSCCDetect
             \/ \E r \in todo : waveBeginSCC(r)
             \/ \E c \in todo : waveConnectCaller2CalleeParams(c)
             \/ \E n \in cpySrcNodes : wavePushCpySrcNode(n)
      PROVE  AllCounted'
  BY <1>1, <1>6
     DEF waveProcessAddr, waveBeginAttach, waveAttachStaticEdgeGuard, waveSCCDetect,
         waveBeginSCC, waveConnectCaller2CalleeParams, wavePushCpySrcNode, processAddr,
         beginAttach, attachStaticEdgeGuard, SCCDetect, beginSCC,
         connectCaller2CalleeParams, pushCpySrcNode
<1>7. ASSUME \/ \E p \in subs : waveMergeNodeToRep(p[1], p[2])
             \/ wavePopFromWorklist
             \/ \E n \in visit : waveVisitSubNode(n)
             \/ \E t \in todo : waveLoadStore(t[1], t[2])
             \/ waveUpdateCallGraph
             \/ waveFinish
      PROVE  AllCounted'
  BY <1>1, <1>7 DEF waveMergeNodeToRep, wavePopFromWorklist, waveVisitSubNode,
                    processNode, waveLoadStore, waveUpdateCallGraph, waveFinish
<1>8. ASSUME UNCHANGED waveVars PROVE AllCounted'
  BY <1>8, <1>a DEF AllCounted, waveVars, vars, diffVars
<1> QED BY <1>2, <1>3, <1>4, <1>5, <1>6, <1>7, <1>8 DEF WaveNext

-----------------------------------------------------------------------------
(* Merging n into r moves the entries of n along with its points-to set;   *)
(* none is left at n.                                                      *)
LEMMA WaveEntriesMerge ==
  ASSUME WaveEntriesInv, NEW p \in subs, waveMergeNodeToRep(p[1], p[2])
  PROVE  EntriesWithinPts'
<1> DEFINE n == p[1]
           r == p[2]
<1>1. WaveTypeOK /\ EntriesWithinPts
  BY DEF WaveEntriesInv, HandsOnInv
<1>2. n \in Node /\ r \in Node /\ n # r /\ rep[n] = n /\ rep[r] = r
  BY <1>1 DEF WaveEntriesInv, WavePreciseInv, Within, WaveTypeOK, SubsWithin, live
<1>3. /\ pts' = [pts EXCEPT ![r] = @ \cup pts[n]]
      /\ condPtsMap' = entriesMoved(n, r)
      /\ \A m \in Node : rep'[m] = IF rep[m] = n THEN r ELSE rep[m]
  BY DEF waveMergeNodeToRep
<1> HIDE DEF n, r
<1>4. \A m \in Node : pts'[m] = IF m = r THEN pts[r] \cup pts[n] ELSE pts[m]
  BY <1>1, <1>2, <1>3 DEF WaveTypeOK
<1>5. /\ condPtsMap'[n] = noEntries
      /\ \A o \in Obj : o \notin entriesOf(n) => condPtsMap'[r][o] = condPtsMap[r][o]
      /\ \A m \in Node : m # n /\ m # r => condPtsMap'[m] = condPtsMap[m]
  BY <1>1, <1>2, <1>3 DEF WaveTypeOK, entriesMoved
<1>6. SUFFICES ASSUME NEW m \in Node, NEW o \in Obj, condPtsMap'[m][o] # NoGuard
               PROVE  rep'[m] = m /\ o \in pts'[m]
  BY DEF EntriesWithinPts
<1>7. m # n
  BY <1>5, <1>6 DEF noEntries
<1>8. CASE m = r
  <2>1. o \in pts[n] \/ o \in pts[r]
    BY <1>1, <1>2, <1>5, <1>6, <1>8 DEF EntriesWithinPts, entriesOf
  <2> QED BY <1>2, <1>3, <1>4, <1>8, <2>1
<1>9. CASE m # r
  <2>1. rep[m] = m /\ o \in pts[m]
    BY <1>1, <1>5, <1>6, <1>7, <1>9 DEF EntriesWithinPts
  <2> QED BY <1>3, <1>4, <1>7, <1>9, <2>1
<1> QED BY <1>8, <1>9

(* A copy passes on guards of objects its source points to.  All of those  *)
(* count as handed on, so the destination has each, or gets it now.        *)
LEMMA WaveEntriesCopy ==
  ASSUME WaveEntriesInv, NEW e \in todo, waveProcessCopy(e)
  PROVE  EntriesWithinPts'
<1>1. WaveTypeOK /\ EntriesWithinPts /\ HandedOn /\ AllCounted
  BY DEF WaveEntriesInv, HandsOnInv
<1>2. /\ rep' = rep /\ pc \in {"sweep", "propagate"}
      /\ pts' = [pts EXCEPT ![e.dst] = @ \cup diffPts]
  BY DEF waveProcessCopy
<1>3. e \in edges("copy") /\ e \in DOMAIN consCG /\ e.src \in Node /\ e.dst \in Node
  BY <1>1, <1>2 DEF WaveTypeOK, edges, Edge
<1>4. rep[e.dst] = e.dst
  BY <1>3 DEF WaveEntriesInv, WavePreciseInv, Within, GraphWithin, live
<1>5. \A m \in Node : pts'[m] = IF m = e.dst THEN pts[m] \cup diffPts ELSE pts[m]
  BY <1>1, <1>2, <1>3 DEF WaveTypeOK
<1>6. pts[e.src] \subseteq pts'[e.dst]
  <2>1. pts[e.src] \subseteq propaPts[e.src]
    BY <1>1, <1>2 DEF AllCounted
  <2>2. propaPts[e.src] \subseteq pts[e.dst] \cup diffPts
    BY <1>1, <1>2, <1>3 DEF HandedOn
  <2> QED BY <1>3, <1>5, <2>1, <2>2
<1>7. \A o \in wavePassedObjs(e) : o \in pts[e.src]
  <2>1. entriesOf(e.src) \subseteq pts[e.src]
    BY <1>1, <1>3 DEF EntriesWithinPts, entriesOf
  <2> QED BY <2>1 DEF wavePassedObjs, passedEntries, implicitObjs
<1>8. SUFFICES ASSUME NEW m \in Node, NEW o \in Obj, condPtsMap'[m][o] # NoGuard
               PROVE  rep'[m] = m /\ o \in pts'[m]
  BY DEF EntriesWithinPts
<1>9. condPtsMap'[m][o] = condPtsMap[m][o] \/ (m = e.dst /\ o \in wavePassedObjs(e))
  BY <1>1, <1>3 DEF WaveTypeOK, waveProcessCopy
<1>10. CASE condPtsMap'[m][o] = condPtsMap[m][o]
  BY <1>1, <1>2, <1>5, <1>8, <1>10 DEF EntriesWithinPts
<1>11. CASE m = e.dst /\ o \in wavePassedObjs(e)
  BY <1>2, <1>4, <1>6, <1>7, <1>11
<1> QED BY <1>9, <1>10, <1>11

(* Every handler keeps the guards where they belong.                       *)
LEMMA WaveEntriesStep == WaveEntriesInv /\ [WaveNext]_waveVars => WaveEntriesInv'
<1> SUFFICES ASSUME WaveEntriesInv, [WaveNext]_waveVars PROVE WaveEntriesInv' OBVIOUS
<1>1. HandsOnInv' /\ WavePreciseInv' /\ NoLoops' /\ AllCounted'
  BY HandsOnStep, WavePreciseStep, NoLoopsStep, AllCountedStep DEF WaveEntriesInv
<1>2. EntriesWithinPts /\ pts \in [Node -> SUBSET Obj]
  BY DEF WaveEntriesInv, HandsOnInv, WaveTypeOK
<1>3. ASSUME NEW a \in todo, waveProcessAddr(a) PROVE EntriesWithinPts'
  BY <1>2, <1>3, EntriesKept DEF waveProcessAddr, processAddr
<1>4. ASSUME UNCHANGED <<condPtsMap, rep, pts>> PROVE EntriesWithinPts'
  BY <1>2, <1>4 DEF EntriesWithinPts
<1>5. ASSUME \/ waveBeginAttach
             \/ \E s \in todo : waveAttachStaticEdgeGuard(s)
             \/ waveSCCDetect
             \/ \E r \in todo : waveBeginSCC(r)
             \/ \E c \in todo : waveConnectCaller2CalleeParams(c)
             \/ \E n \in cpySrcNodes : wavePushCpySrcNode(n)
      PROVE  EntriesWithinPts'
  BY <1>4, <1>5
     DEF waveBeginAttach, waveAttachStaticEdgeGuard, waveSCCDetect, waveBeginSCC,
         waveConnectCaller2CalleeParams, wavePushCpySrcNode, beginAttach,
         attachStaticEdgeGuard, SCCDetect, beginSCC, connectCaller2CalleeParams,
         pushCpySrcNode
<1>6. ASSUME \/ \E r \in nodeStack : waveSweepNode(r)
             \/ \E n \in visit : waveSweepSubNode(n)
             \/ wavePopFromWorklist
             \/ \E n \in visit : waveVisitSubNode(n)
             \/ \E t \in todo : waveLoadStore(t[1], t[2])
             \/ waveHandleCopyGep
             \/ waveUpdateCallGraph
             \/ waveFinish
             \/ UNCHANGED waveVars
      PROVE  EntriesWithinPts'
  BY <1>4, <1>6
     DEF waveSweepNode, waveSweepSubNode, wavePopFromWorklist, waveVisitSubNode,
         waveLoadStore, waveHandleCopyGep, waveUpdateCallGraph, waveFinish, waveVars,
         vars
<1>7. ASSUME NEW p \in subs, waveMergeNodeToRep(p[1], p[2]) PROVE EntriesWithinPts'
  BY <1>7, WaveEntriesMerge
<1>8. ASSUME NEW e \in todo, waveProcessCopy(e) PROVE EntriesWithinPts'
  BY <1>8, WaveEntriesCopy
<1>9. EntriesWithinPts'
  BY <1>3, <1>5, <1>6, <1>7, <1>8 DEF WaveNext
<1> QED BY <1>1, <1>9 DEF WaveEntriesInv

(* The solver starts without guards.                                       *)
LEMMA WaveEntriesInit == WaveInit => WaveEntriesInv
<1> SUFFICES ASSUME WaveInit PROVE WaveEntriesInv OBVIOUS
<1>1. WaveTypeOK /\ PreciseInv
  BY WaveTypeInit, PreciseInit DEF WaveInit
<1>2. HandsOnInv
  BY <1>1 DEF WaveInit, HandsOnInv, PropaWithin, HandedOn, WaveTypeOK, edges, Edge
<1>3. WavePreciseInv
  BY <1>1 DEF WaveInit, Init, PreciseInv, WavePreciseInv, DiffWithin
<1>4. NoLoops
  BY DEF WaveInit, Init, NoLoops, edges, edge
<1>5. AllCounted /\ EntriesWithinPts
  BY DEF WaveInit, Init, AllCounted, EntriesWithinPts, noEntries
<1> QED BY <1>2, <1>3, <1>4, <1>5 DEF WaveEntriesInv

(* WaveEntries: the wave solver never keeps a guard at a node that was     *)
(* merged away or for an object the node does not point to, although       *)
(* guards and objects travel separately along its copies.                  *)
THEOREM WaveEntries == WaveSpec => []EntriesWithinPts
<1>1. WaveEntriesInv => EntriesWithinPts
  BY DEF WaveEntriesInv
<1> QED BY <1>1, WaveEntriesInit, WaveEntriesStep, PTL DEF WaveSpec
-----------------------------------------------------------------------------
(* Completeness.  Who still takes a node up, for its copies and for its    *)
(* loads and stores, differs between the two phases and between the        *)
(* options, so each gets an invariant of its own.  First, what the stack   *)
(* of roots and the nodes of an unmerged cycle are good for: while nodes   *)
(* are being merged every node is in the SCC of a root on the stack.       *)
CyclesInv ==
  /\ nodeStack \subseteq sccRoots
  /\ pc \notin {"merge", "sweep"} => nodeStack = {}
  /\ pc \notin {"sweep", "loadstore", "propagate"} => visit = {}
  /\ pc # "update" => cpySrcNodes = {}
  /\ mergeCondSCC => visit = {} /\ pc # "propagate"
  /\ pc = "merge" =>
       /\ \A n \in live : \E r \in nodeStack : n \in scc(r, reach)
       /\ \A p \in subs : p[2] \in nodeStack /\ p[1] \in scc(p[2], reach)
       /\ todo \subseteq nodeStack

(* Where every cycle is merged, the worklist phase walks no copies: all    *)
(* depends on the order of the sweep.  A copy never leads from a node that *)
(* is still to be swept, or is being swept, to one that was swept before.  *)
SweepInv ==
  mergeCondSCC =>
    /\ pc \in {"merge", "sweep"} =>
         /\ \A e \in edges("copy") : <<e.src, e.dst>> \in reach
         /\ \A x, y, z : <<x, y>> \in reach /\ <<y, z>> \in reach => <<x, z>> \in reach
    /\ pc = "merge" => \A n \in live, r \in nodeStack :
         n \in scc(r, reach) => n = r \/ r \in todo \/ <<n, r>> \in subs
    /\ pc = "sweep" => \A n \in live \ nodeStack, q \in nodeStack \cup {cur} :
         q # n => <<q, n>> \notin reach

(* A node has handed on all it has, or will be asked to once more.         *)
copiesDue(n) ==
  \/ pc \in {"addr", "attach", "update"} \/ reanalyze
  \/ n \in nodeStack \cup visit
  \/ \E r \in nodeStack : n \in scc(r, reach)
  \/ ~mergeCondSCC /\ (queued(n) \/ (n = cur /\ pc = "loadstore"))

CopiesInv == \A n \in live : pts[n] \subseteq propaPts[n] \/ copiesDue(n)

(* A node nothing was merged into has an edge for each of its loads and    *)
(* stores, or will be taken up by the worklist phase.                      *)
loaded(n) == \A t \in tasks(n) : derived(t[1], t[2])

loadsDue(n) ==
  \/ queued(n)
  \/ n \in visit /\ pc \in {"loadstore", "propagate"}
  \/ n = cur /\ pc = "loadstore" /\ \A t \in tasks(n) : t \in todo \/ derived(t[1], t[2])

LoadsInv == \A n \in live : alone(n) => loaded(n) \/ loadsDue(n)

WaveWorkInv ==
  /\ WaveEntriesInv
  /\ CyclesInv
  /\ SweepInv
  /\ CopiesInv
  /\ LoadsInv

(* What the invariants proved so far say of the state.                     *)
LEMMA WaveFacts ==
  ASSUME WaveEntriesInv
  PROVE  /\ WaveTypeOK /\ Within /\ HandedOn /\ NoLoops /\ AllCounted
         /\ DOMAIN consCG \subseteq Edge
         /\ pc # "merge" => subs = {}
         /\ \A e \in edges("copy") : /\ e.src \in live /\ e.dst \in live
                                     /\ e.src \in Node /\ e.dst \in Node
BY DEF WaveEntriesInv, HandsOnInv, WavePreciseInv, Within, WaveTypeOK, SubsWithin,
       GraphWithin, edges, Edge

-----------------------------------------------------------------------------
(* The roots.                                                              *)
LEMMA CyclesDetect ==
  ASSUME WaveWorkInv, waveSCCDetect
  PROVE  CyclesInv' /\ SweepInv'
<1>1. /\ pc' = "merge" /\ pc \in {"attach", "update"} /\ sccRoots' = nodeStack'
      /\ UNCHANGED <<visit, consCG, rep>> /\ reach' = reachable /\ cpySrcNodes' = {}
      /\ \E roots \in SUBSET live :
           /\ \A n \in live : \E r \in roots : n \in scc(r, reach')
           /\ nodeStack' = roots
           /\ todo' = {r \in roots : scc(r, reach') # {r}}
      /\ UNCHANGED subs
  BY DEF waveSCCDetect, SCCDetect
<1>2. live' = live /\ edges("copy")' = edges("copy") /\ subs = {} /\ visit = {}
  BY <1>1, WaveFacts DEF live, edges, WaveWorkInv, CyclesInv
<1>3. /\ \A n \in live : \E r \in nodeStack' : n \in scc(r, reach')
      /\ todo' = {r \in nodeStack' : scc(r, reach') # {r}}
  BY <1>1
<1>4. CyclesInv'
  <2>1. todo' \subseteq nodeStack' /\ subs' = {}
    BY <1>1, <1>2, <1>3
  <2> QED BY <1>1, <1>2, <1>3, <2>1 DEF CyclesInv, scc
<1>5. \A x, y, z : <<x, y>> \in reach' /\ <<y, z>> \in reach' => <<x, z>> \in reach'
  BY <1>1, ReachTransitive
<1>6. \A e \in edges("copy") : <<e.src, e.dst>> \in reach'
  BY <1>1, WaveFacts DEF WaveWorkInv, reachable, closedSets
<1>7. ASSUME NEW n \in live, NEW r \in nodeStack', n \in scc(r, reach)'
      PROVE  n = r \/ r \in todo'
  BY <1>3, <1>7
<1>8. SweepInv'
  BY <1>1, <1>2, <1>5, <1>6, <1>7 DEF SweepInv
<1> QED BY <1>4, <1>8

LEMMA CyclesBegin ==
  ASSUME WaveWorkInv, NEW r \in todo, waveBeginSCC(r)
  PROVE  CyclesInv' /\ SweepInv'
<1>1. /\ pc = "merge" /\ pc' = "merge" /\ todo' = todo \ {r} /\ subs = {}
      /\ subs' \subseteq {<<n, r>> : n \in scc(r, reach) \ {r}}
      /\ mergeCondSCC => subs' = {<<n, r>> : n \in scc(r, reach) \ {r}}
      /\ UNCHANGED <<visit, consCG, rep, reach, nodeStack, sccRoots, cpySrcNodes>>
  BY DEF waveBeginSCC, beginSCC, diffVars
<1>2. live' = live /\ edges("copy")' = edges("copy")
      /\ \A q : scc(q, reach)' = scc(q, reach)
  BY <1>1 DEF live, edges, scc
<1>3. r \in nodeStack
  BY <1>1 DEF WaveWorkInv, CyclesInv
<1>4. \A p \in subs' : p[2] \in nodeStack /\ p[1] \in scc(p[2], reach)
  BY <1>1, <1>3
<1>5. CyclesInv'
  BY <1>1, <1>2, <1>4 DEF WaveWorkInv, CyclesInv
<1>6. SweepInv'
  BY <1>1, <1>2 DEF WaveWorkInv, SweepInv
<1> QED BY <1>5, <1>6

(* Merging takes a node away that was in the SCC of a root, which reaches  *)
(* what the node reached.                                                  *)
LEMMA CyclesMerge ==
  ASSUME WaveWorkInv, NEW p \in subs, waveMergeNodeToRep(p[1], p[2])
  PROVE  CyclesInv' /\ SweepInv'
<1> DEFINE n == p[1]
           r == p[2]
<1>1. /\ pc = "merge" /\ pc' = "merge" /\ p = <<n, r>> /\ subs' = subs \ {p}
      /\ consCG' = moveEdgesToRepNode(consCG, n, r)
      /\ \A m \in Node : rep'[m] = end(rep[m], n, r)
      /\ UNCHANGED <<visit, todo, reach, nodeStack, sccRoots, cpySrcNodes>>
  BY WaveFacts DEF WaveWorkInv, WaveTypeOK, waveMergeNodeToRep, end
<1>2. /\ n \in Node /\ r \in Node /\ n # r /\ rep[n] = n /\ rep[r] = r
      /\ n \in scc(r, reach)
  BY <1>1, WaveFacts DEF WaveWorkInv, Within, WaveTypeOK, SubsWithin, live, CyclesInv
<1> HIDE DEF n, r
<1>3. live' \subseteq live /\ n \notin live' /\ \A q : scc(q, reach)' = scc(q, reach)
  BY <1>1, <1>2 DEF live, end, scc
<1>4. CyclesInv'
  BY <1>1, <1>3 DEF WaveWorkInv, CyclesInv
<1>5. ASSUME mergeCondSCC, NEW e \in edges("copy")' PROVE <<e.src, e.dst>> \in reach
  <2>1. PICK f \in DOMAIN consCG : e = mergedEdge(f, n, r)
    BY <1>1, <1>2, MoveEdgesDomain, WaveFacts DEF WaveWorkInv, edges
  <2>2. /\ f \in edges("copy")
        /\ e.src = end(f.src, n, r) /\ e.dst = end(f.dst, n, r)
    BY <1>5, <2>1 DEF edges, mergedEdge, edge
  <2>3. /\ <<f.src, f.dst>> \in reach /\ <<n, r>> \in reach /\ <<r, n>> \in reach
        /\ \A x, y, z : <<x, y>> \in reach /\ <<y, z>> \in reach => <<x, z>> \in reach
    BY <1>1, <1>2, <1>5, <2>2 DEF WaveWorkInv, SweepInv, scc
  <2>4. <<e.src, f.dst>> \in reach
    BY <2>2, <2>3 DEF end
  <2> QED BY <2>2, <2>3, <2>4 DEF end
<1>6. SweepInv'
  BY <1>1, <1>3, <1>5 DEF WaveWorkInv, SweepInv
<1> QED BY <1>4, <1>6

(* Taking a root off the stack: nothing left on it reaches the root.       *)
LEMMA CyclesSweep ==
  ASSUME WaveWorkInv, NEW r \in nodeStack, waveSweepNode(r)
  PROVE  CyclesInv' /\ SweepInv'
<1>1. /\ waveIdle /\ first(r, nodeStack) /\ nodeStack' = nodeStack \ {r}
      /\ pc' = "sweep" /\ cur' = r /\ visit' = unmergedSubs(r)
      /\ UNCHANGED <<consCG, rep, reach, sccRoots, subs, cpySrcNodes>>
  BY DEF waveSweepNode, startCopies
<1>2. /\ pc \in {"merge", "sweep"} /\ todo = {} /\ subs = {}
      /\ r \in Node /\ r \in nodeStack
  BY <1>1, WaveFacts DEF WaveWorkInv, CyclesInv, waveIdle, WaveTypeOK
<1>3. live' = live /\ edges("copy")' = edges("copy")
      /\ \A q : scc(q, reach)' = scc(q, reach)
  BY <1>1 DEF live, edges, scc
<1>4. CyclesInv'
  BY <1>1, <1>2, <1>3 DEF WaveWorkInv, CyclesInv, unmergedSubs
<1>5. ASSUME mergeCondSCC, NEW n \in live \ nodeStack', NEW q \in nodeStack' \cup {r}, q # n
      PROVE  <<q, n>> \notin reach
  <2>1. q \in nodeStack
    BY <1>1, <1>5
  <2>2. CASE n = r
    BY <1>1, <1>5, <2>1, <2>2 DEF first
  <2>3. CASE n # r /\ pc = "merge"
    <3>1. PICK s \in nodeStack : n \in scc(s, reach)
      BY <1>5, <2>3 DEF WaveWorkInv, CyclesInv
    <3>2. n = s
      BY <1>2, <1>5, <2>3, <3>1 DEF WaveWorkInv, SweepInv
    <3> QED BY <1>1, <1>5, <2>3, <3>1, <3>2
  <2>4. CASE n # r /\ pc = "sweep"
    <3>1. n \in live \ nodeStack
      BY <1>1, <1>5, <2>4
    <3> QED BY <1>5, <2>1, <2>4, <3>1 DEF WaveWorkInv, SweepInv
  <2> QED BY <1>2, <2>2, <2>3, <2>4
<1>6. SweepInv'
  BY <1>1, <1>2, <1>3, <1>5 DEF WaveWorkInv, SweepInv
<1> QED BY <1>4, <1>6

(* The other handlers leave the stack alone.                               *)
LEMMA CyclesStep ==
  ASSUME WaveWorkInv, [WaveNext]_waveVars
  PROVE  CyclesInv' /\ SweepInv'
<1> DEFINE Kept == CyclesInv' /\ SweepInv'
<1>a. CyclesInv /\ SweepInv
  BY DEF WaveWorkInv
<1>b. ASSUME UNCHANGED <<nodeStack, sccRoots>>, pc' \notin {"merge", "sweep"},
             visit' = {} \/ pc' \in {"loadstore", "propagate"},
             mergeCondSCC => visit' = {} /\ pc' # "propagate",
             pc \in {"merge", "sweep"} => nodeStack = {},
             pc' # "update" => cpySrcNodes' = {}
      PROVE  Kept
  <2>1. CyclesInv'
    BY <1>a, <1>b DEF CyclesInv
  <2>2. SweepInv'
    BY <1>b DEF SweepInv
  <2> QED BY <2>1, <2>2
<1>1. ASSUME \/ \E a \in todo : waveProcessAddr(a)
             \/ waveBeginAttach
             \/ \E s \in todo : waveAttachStaticEdgeGuard(s)
             \/ \E c \in todo : waveConnectCaller2CalleeParams(c)
             \/ \E n \in cpySrcNodes : wavePushCpySrcNode(n)
      PROVE  Kept
  <2>1. /\ UNCHANGED <<nodeStack, sccRoots, visit>>
        /\ pc' # "update" => pc # "update" /\ cpySrcNodes' = cpySrcNodes
        /\ pc \in {"addr", "attach", "update"} /\ pc' \in {"addr", "attach", "update"}
    BY <1>1 DEF waveProcessAddr, waveBeginAttach, waveAttachStaticEdgeGuard,
                waveConnectCaller2CalleeParams, wavePushCpySrcNode, processAddr,
                beginAttach, attachStaticEdgeGuard, connectCaller2CalleeParams,
                pushCpySrcNode, diffVars
  <2> QED BY <1>a, <1>b, <2>1 DEF CyclesInv
<1>2. ASSUME waveSCCDetect PROVE Kept
  BY <1>2, CyclesDetect
<1>3. ASSUME NEW r \in todo, waveBeginSCC(r) PROVE Kept
  BY <1>3, CyclesBegin
<1>4. ASSUME NEW p \in subs, waveMergeNodeToRep(p[1], p[2]) PROVE Kept
  BY <1>4, CyclesMerge
<1>5. ASSUME NEW r \in nodeStack, waveSweepNode(r) PROVE Kept
  BY <1>5, CyclesSweep
<1>6. ASSUME NEW n \in visit, waveSweepSubNode(n) PROVE Kept
  <2>1. ~mergeCondSCC /\ pc = "sweep" /\ pc' = "sweep" /\ visit' \subseteq visit
        /\ UNCHANGED <<nodeStack, sccRoots, cpySrcNodes>>
    BY <1>6, <1>a DEF waveSweepSubNode, CyclesInv
  <2> QED BY <1>a, <2>1 DEF CyclesInv, SweepInv
<1>7. ASSUME wavePopFromWorklist PROVE Kept
  <2>1. /\ UNCHANGED <<nodeStack, sccRoots, cpySrcNodes>> /\ nodeStack = {}
        /\ pc' = "loadstore" /\ pc # "update"
        /\ mergeCondSCC => visit' = {}
    BY <1>7 DEF wavePopFromWorklist, processNode, unmergedSubs, waveIdle
  <2> QED BY <1>a, <1>b, <2>1 DEF CyclesInv
<1>8. ASSUME NEW n \in visit, waveVisitSubNode(n) PROVE Kept
  <2>1. UNCHANGED <<nodeStack, sccRoots, cpySrcNodes>> /\ pc' = "loadstore" /\ pc = "propagate"
        /\ ~mergeCondSCC
    BY <1>8, <1>a DEF waveVisitSubNode, processNode, CyclesInv
  <2> QED BY <1>a, <1>b, <2>1 DEF CyclesInv
<1>9. ASSUME NEW t \in todo, waveLoadStore(t[1], t[2]) PROVE Kept
  <2>1. UNCHANGED <<nodeStack, sccRoots, visit, pc, cpySrcNodes>> /\ pc = "loadstore"
    BY <1>9 DEF waveLoadStore
  <2> QED BY <1>a, <1>b, <2>1 DEF CyclesInv
<1>10. ASSUME waveHandleCopyGep PROVE Kept
  <2>1. UNCHANGED <<nodeStack, sccRoots, cpySrcNodes>> /\ pc = "loadstore" /\ pc' = "propagate"
        /\ ~mergeCondSCC
    BY <1>10 DEF waveHandleCopyGep
  <2> QED BY <1>a, <1>b, <2>1 DEF CyclesInv
<1>11. ASSUME NEW e \in todo, waveProcessCopy(e) PROVE Kept
  <2>1. /\ UNCHANGED <<nodeStack, sccRoots, visit, pc, rep, reach, consCG, cur, cpySrcNodes>>
        /\ pc \in {"sweep", "propagate"}
    BY <1>11 DEF waveProcessCopy
  <2>2. live' = live /\ edges("copy")' = edges("copy")
    BY <2>1 DEF live, edges
  <2> QED BY <1>a, <2>1, <2>2 DEF CyclesInv, SweepInv
<1>12. ASSUME waveUpdateCallGraph \/ waveFinish PROVE Kept
  <2>1. /\ UNCHANGED <<nodeStack, sccRoots, visit, cpySrcNodes>> /\ pc' \in {"update", "done"}
        /\ nodeStack = {} /\ visit = {} /\ pc # "update"
    BY <1>12 DEF waveUpdateCallGraph, waveFinish, waveSolved, waveIdle, diffVars
  <2> QED BY <1>a, <1>b, <2>1 DEF CyclesInv
<1>13. ASSUME UNCHANGED waveVars PROVE Kept
  <2>1. /\ UNCHANGED <<nodeStack, sccRoots, visit, pc, rep, reach, consCG, cur, todo, subs,
                     cpySrcNodes>>
    BY <1>13 DEF waveVars, vars, diffVars
  <2>2. live' = live /\ edges("copy")' = edges("copy")
        /\ \A q : scc(q, reach)' = scc(q, reach)
    BY <2>1 DEF live, edges, scc
  <2> QED BY <1>a, <2>1, <2>2 DEF CyclesInv, SweepInv
<1> QED BY <1>1, <1>2, <1>3, <1>4, <1>5, <1>6, <1>7, <1>8, <1>9, <1>10, <1>11, <1>12,
           <1>13 DEF WaveNext

-----------------------------------------------------------------------------
(* Copies.  Walking the copies of a node settles that node; what it hands  *)
(* on makes the destination due, which is on the worklist or, where the    *)
(* worklist walks no copies, still on the stack.                           *)
LEMMA CopiesStart ==
  ASSUME WaveWorkInv, NEW r \in Node, startCopies(r), UNCHANGED <<pts, rep>>,
         \A n \in live : n # r /\ copiesDue(n) => copiesDue(n)'
  PROVE  CopiesInv'
<1>1. \A n \in Node : propaPts'[n] = IF n = r THEN pts[r] ELSE propaPts[n]
  BY WaveFacts DEF WaveWorkInv, WaveTypeOK, startCopies
<1>2. live' = live
  BY DEF live
<1>3. SUFFICES ASSUME NEW n \in live
               PROVE  pts[n] \subseteq propaPts'[n] \/ copiesDue(n)'
  BY <1>2 DEF CopiesInv
<1>4. n \in Node /\ (pts[n] \subseteq propaPts[n] \/ copiesDue(n))
  BY DEF WaveWorkInv, CopiesInv, live
<1> QED BY <1>1, <1>4

LEMMA CopiesKept ==
  ASSUME WaveWorkInv, UNCHANGED <<pts, rep, propaPts>>,
         \A n \in live : copiesDue(n) => copiesDue(n)'
  PROVE  CopiesInv'
BY DEF WaveWorkInv, CopiesInv, live

LEMMA CopiesSweep ==
  ASSUME WaveWorkInv, NEW r \in nodeStack, waveSweepNode(r)
  PROVE  CopiesInv'
<1>1. /\ nodeStack' = nodeStack \ {r} /\ visit = {} /\ visit' = unmergedSubs(r)
      /\ startCopies(r) /\ pc' = "sweep" /\ waveIdle
      /\ UNCHANGED <<pts, rep, reach, worklist, cpySrcNodes, reanalyze>>
  BY DEF waveSweepNode, waveIdle
<1>2. /\ pc \in {"merge", "sweep"} /\ todo = {} /\ subs = {}
      /\ r \in Node /\ r \in nodeStack /\ r \in sccRoots
  BY <1>1, WaveFacts DEF WaveWorkInv, CyclesInv, waveIdle, WaveTypeOK
<1>3. ASSUME NEW n \in live, n # r, copiesDue(n) PROVE copiesDue(n)'
  <2>1. CASE n \in nodeStack \/ reanalyze \/ (~mergeCondSCC /\ queued(n))
    BY <1>1, <1>3, <2>1 DEF copiesDue, queued
  <2>2. ASSUME NEW q \in nodeStack, n \in scc(q, reach) PROVE copiesDue(n)'
    <3>1. scc(q, reach)' = scc(q, reach)
      BY <1>1 DEF scc
    <3>2. CASE q # r
      BY <1>1, <2>2, <3>1, <3>2 DEF copiesDue
    <3>3. CASE q = r /\ ~mergeCondSCC
      BY <1>1, <1>2, <1>3, <2>2, <3>3 DEF copiesDue, unmergedSubs, live
    <3>4. CASE q = r /\ mergeCondSCC
      <4>1. pc = "sweep"
        BY <1>2, <1>3, <2>2, <3>4 DEF WaveWorkInv, SweepInv
      <4>2. n \in nodeStack
        BY <1>3, <2>2, <3>4, <4>1 DEF WaveWorkInv, SweepInv, scc
      <4> QED BY <1>1, <1>3, <4>2 DEF copiesDue
    <3> QED BY <3>2, <3>3, <3>4
  <2>3. \/ n \in nodeStack \/ reanalyze \/ (~mergeCondSCC /\ queued(n))
        \/ \E q \in nodeStack : n \in scc(q, reach)
    BY <1>1, <1>2, <1>3 DEF copiesDue
  <2> QED BY <2>1, <2>2, <2>3
<1> QED BY <1>1, <1>2, <1>3, CopiesStart

LEMMA CopiesCopy ==
  ASSUME WaveWorkInv, NEW e \in todo, waveProcessCopy(e)
  PROVE  CopiesInv'
<1>1. /\ UNCHANGED <<pc, rep, reach, consCG, cur, propaPts, nodeStack, visit, reanalyze,
                      cpySrcNodes>>
      /\ pc \in {"sweep", "propagate"}
      /\ pts' = [pts EXCEPT ![e.dst] = @ \cup diffPts]
      /\ worklist' = IF diffPts \subseteq pts[e.dst] THEN worklist
                     ELSE push(worklist, e.dst)
  BY DEF waveProcessCopy
<1>2. /\ WaveTypeOK /\ e \in edges("copy") /\ e.src = cur /\ e.src # e.dst
      /\ e.dst \in Node /\ rep[e.dst] = e.dst /\ e.dst \in live
  BY <1>1, WaveFacts DEF WaveWorkInv, WaveTypeOK, AllCounted, NoLoops, live
<1>3. \A n \in Node : pts'[n] = IF n = e.dst THEN pts[n] \cup diffPts ELSE pts[n]
  BY <1>1, <1>2 DEF WaveTypeOK
<1>4. Range(worklist) \subseteq Range(worklist')
  BY <1>1, <1>2, PushRange DEF WaveTypeOK
<1>5. \A n \in live : copiesDue(n) => copiesDue(n)'
  BY <1>1, <1>4 DEF copiesDue, queued, scc
<1>6. CASE diffPts \subseteq pts[e.dst]
  <2>1. \A n \in Node : pts'[n] = pts[n]
    BY <1>3, <1>6
  <2> QED BY <1>1, <1>5, <2>1 DEF WaveWorkInv, CopiesInv, live
<1>7. CASE ~(diffPts \subseteq pts[e.dst])
  <2>1. CASE ~mergeCondSCC
    <3>1. e.dst \in Range(worklist')
      BY <1>1, <1>2, <1>7, PushRange DEF WaveTypeOK
    <3>2. copiesDue(e.dst)'
      BY <1>1, <1>2, <2>1, <3>1 DEF copiesDue, queued
    <3> QED BY <1>1, <1>3, <1>5, <3>2 DEF WaveWorkInv, CopiesInv, live
  <2>2. CASE mergeCondSCC
    <3>1. pc = "sweep" /\ <<cur, e.dst>> \in reach
      BY <1>1, <1>2, <2>2 DEF WaveWorkInv, CyclesInv, SweepInv
    <3>2. e.dst \in nodeStack
      BY <1>2, <2>2, <3>1 DEF WaveWorkInv, SweepInv
    <3>3. copiesDue(e.dst)'
      BY <1>1, <3>2 DEF copiesDue
    <3> QED BY <1>1, <1>3, <1>5, <3>3 DEF WaveWorkInv, CopiesInv, live
  <2> QED BY <2>1, <2>2
<1> QED BY <1>6, <1>7

LEMMA CopiesStep ==
  ASSUME WaveWorkInv, [WaveNext]_waveVars
  PROVE  CopiesInv'
<1>a. CyclesInv /\ CyclesInv' /\ WaveTypeOK
  BY CyclesStep, WaveFacts DEF WaveWorkInv
<1>1. ASSUME pc' \in {"addr", "attach", "update", "merge"} PROVE CopiesInv'
  BY <1>1, <1>a DEF CopiesInv, copiesDue, CyclesInv
<1>2. ASSUME NEW r \in nodeStack, waveSweepNode(r) PROVE CopiesInv'
  BY <1>2, CopiesSweep
<1>3. ASSUME NEW n \in visit, waveSweepSubNode(n) PROVE CopiesInv'
  <2>1. /\ n \in Node /\ startCopies(n) /\ pc = "sweep" /\ pc' = "sweep"
        /\ visit' = visit \ {n}
        /\ UNCHANGED <<pts, rep, reach, worklist, nodeStack, cpySrcNodes, reanalyze>>
    BY <1>3, <1>a DEF waveSweepSubNode, WaveTypeOK
  <2>2. \A m \in live : m # n /\ copiesDue(m) => copiesDue(m)'
    BY <2>1 DEF copiesDue, queued, scc
  <2> QED BY <2>1, <2>2, CopiesStart
<1>4. ASSUME wavePopFromWorklist PROVE CopiesInv'
  <2> DEFINE r == rep[Head(worklist)]
  <2>1. /\ nodeStack = {} /\ visit = {} /\ waveIdle /\ cur' = r /\ pc' = "loadstore"
        /\ worklist' = Tail(worklist) /\ worklist # <<>> /\ worklist \in Seq(Node)
        /\ UNCHANGED <<pts, rep, reach, propaPts, nodeStack, cpySrcNodes, reanalyze>>
    BY <1>4, <1>a DEF wavePopFromWorklist, processNode, waveIdle, WaveTypeOK
  <2>2. ASSUME NEW n \in live, queued(n) PROVE n = r \/ queued(n)'
    <3>1. Range(worklist) \subseteq {Head(worklist)} \cup Range(worklist')
      BY <2>1, TailRange
    <3> QED BY <2>1, <2>2, <3>1 DEF queued
  <2> HIDE DEF r
  <2>3. \A n \in live : copiesDue(n) => copiesDue(n)'
    BY <2>1, <2>2 DEF copiesDue, waveIdle
  <2> QED BY <2>1, <2>3, CopiesKept
<1>5. ASSUME NEW n \in visit, waveVisitSubNode(n) PROVE CopiesInv'
  <2>1. /\ cur' = n /\ pc = "propagate" /\ pc' = "loadstore" /\ ~mergeCondSCC
        /\ visit' = visit \ {n}
        /\ UNCHANGED <<pts, rep, reach, propaPts, worklist, nodeStack, cpySrcNodes, reanalyze>>
    BY <1>5, <1>a DEF waveVisitSubNode, processNode, CyclesInv
  <2>2. \A m \in live : copiesDue(m) => copiesDue(m)'
    BY <2>1 DEF copiesDue, queued, scc
  <2> QED BY <2>1, <2>2, CopiesKept
<1>6. ASSUME NEW t \in todo, waveLoadStore(t[1], t[2]) PROVE CopiesInv'
  <2>1. PICK new : /\ propaPts' = forgetPropagated(propaPts, new)
                   /\ reanalyze' = (reanalyze \/ new # {})
    BY <1>6 DEF waveLoadStore
  <2>2. CASE new # {}
    BY <2>1, <2>2 DEF CopiesInv, copiesDue
  <2>3. CASE new = {}
    <3>1. propaPts' = propaPts
      BY <1>a, <2>1, <2>3 DEF forgetPropagated, WaveTypeOK
    <3>2. UNCHANGED <<pts, rep, reach, pc, cur, visit, worklist, nodeStack, cpySrcNodes>>
          /\ (reanalyze => reanalyze')
      BY <1>6, <2>1 DEF waveLoadStore
    <3>3. \A m \in live : copiesDue(m) => copiesDue(m)'
      BY <3>2 DEF copiesDue, queued, scc
    <3> QED BY <3>1, <3>2, <3>3, CopiesKept
  <2> QED BY <2>2, <2>3
<1>7. ASSUME waveHandleCopyGep PROVE CopiesInv'
  <2>1. /\ cur \in Node /\ startCopies(cur) /\ pc = "loadstore"
        /\ UNCHANGED <<pts, rep, reach, visit, worklist, nodeStack, cpySrcNodes, reanalyze>>
    BY <1>7, <1>a DEF waveHandleCopyGep, WaveTypeOK
  <2>2. \A m \in live : m # cur /\ copiesDue(m) => copiesDue(m)'
    BY <2>1 DEF copiesDue, queued, scc
  <2> QED BY <2>1, <2>2, CopiesStart
<1>8. ASSUME NEW e \in todo, waveProcessCopy(e) PROVE CopiesInv'
  BY <1>8, CopiesCopy
<1>9. ASSUME waveFinish PROVE CopiesInv'
  <2>1. /\ waveSolved /\ ~reanalyze /\ UNCHANGED <<pts, rep, propaPts>>
    BY <1>9 DEF waveFinish, diffVars
  <2>2. Range(worklist) = {} /\ nodeStack = {} /\ visit = {} /\ cpySrcNodes = {}
    BY <1>a, <2>1 DEF waveSolved, waveIdle, Range, CyclesInv
  <2>3. \A n \in live : ~copiesDue(n)
    BY <2>1, <2>2 DEF copiesDue, queued, waveSolved, waveIdle
  <2> QED BY <2>1, <2>3, CopiesKept
<1>10. ASSUME UNCHANGED waveVars PROVE CopiesInv'
  <2>1. UNCHANGED <<pts, rep, propaPts, pc, cur, reach, visit, worklist, nodeStack,
                    cpySrcNodes, reanalyze>>
    BY <1>10 DEF waveVars, vars, diffVars
  <2> QED BY <2>1, CopiesKept DEF copiesDue, queued, scc
<1>11. ASSUME \/ \E a \in todo : waveProcessAddr(a)
              \/ waveBeginAttach
              \/ \E s \in todo : waveAttachStaticEdgeGuard(s)
              \/ waveSCCDetect
              \/ \E r \in todo : waveBeginSCC(r)
              \/ \E p \in subs : waveMergeNodeToRep(p[1], p[2])
              \/ waveUpdateCallGraph
              \/ \E c \in todo : waveConnectCaller2CalleeParams(c)
              \/ \E n \in cpySrcNodes : wavePushCpySrcNode(n)
       PROVE  CopiesInv'
  <2>1. pc' \in {"addr", "attach", "update", "merge"}
    BY <1>11 DEF waveProcessAddr, waveBeginAttach, waveAttachStaticEdgeGuard, waveSCCDetect,
         waveBeginSCC, waveMergeNodeToRep, waveUpdateCallGraph,
         waveConnectCaller2CalleeParams, wavePushCpySrcNode, processAddr, beginAttach,
         attachStaticEdgeGuard, SCCDetect, beginSCC, connectCaller2CalleeParams,
         pushCpySrcNode
  <2> QED BY <1>1, <2>1
<1> QED BY <1>2, <1>3, <1>4, <1>5, <1>6, <1>7, <1>8, <1>9, <1>10, <1>11 DEF WaveNext

-----------------------------------------------------------------------------
(* Loads and stores.  New copies and facts elsewhere leave a node's loads  *)
(* and stores done.                                                        *)
LEMMA LoadedKept ==
  ASSUME NEW n, loaded(n), UNCHANGED rep, pts'[n] = pts[n],
         DOMAIN consCG \subseteq DOMAIN consCG',
         \A e \in DOMAIN consCG' : e \in DOMAIN consCG \/ e.kind = "copy"
  PROVE  loaded(n)'
<1>1. tasks(n)' = tasks(n)
  BY TasksKept
<1>2. \A t \in tasks(n) : derived(t[1], t[2])'
  BY DerivedKept DEF loaded
<1> QED BY <1>1, <1>2 DEF loaded

(* A step between two loops that leaves the facts alone.                   *)
LEMMA LoadsKept ==
  ASSUME LoadsInv, UNCHANGED <<pts, rep>>,
         DOMAIN consCG \subseteq DOMAIN consCG',
         \A e \in DOMAIN consCG' : e \in DOMAIN consCG \/ e.kind = "copy",
         pc # "loadstore" \/ todo = {},
         \A n \in live :
           queued(n) \/ (n \in visit /\ pc \in {"loadstore", "propagate"}) => loadsDue(n)'
  PROVE  LoadsInv'
<1> SUFFICES ASSUME NEW n \in live, alone(n)' PROVE loaded(n)' \/ loadsDue(n)'
  BY DEF LoadsInv, live
<1>1. alone(n)
  BY DEF alone
<1>2. loaded(n) => loaded(n)'
  BY LoadedKept
<1>3. loaded(n) \/ loadsDue(n)
  BY <1>1 DEF LoadsInv
<1>4. loadsDue(n) => loaded(n) \/ loadsDue(n)'
  BY DEF loadsDue, loaded
<1> QED BY <1>2, <1>3, <1>4

LEMMA LoadsAddr ==
  ASSUME WaveWorkInv, NEW a \in todo, waveProcessAddr(a)
  PROVE  LoadsInv'
<1>1. /\ processAddr(a) /\ WaveTypeOK /\ LoadsInv /\ CyclesInv
      /\ a[1] \in Obj /\ a[2] \in Node
  BY WaveFacts, ProgramFacts
     DEF WaveWorkInv, WaveTypeOK, waveProcessAddr, processAddr, IsProgram
<1>2. /\ pc = "addr" /\ visit = {}
      /\ UNCHANGED <<rep, consCG, cpySrcNodes>>
      /\ \A m \in Node : pts'[m] = IF m = a[2] THEN pts[m] \cup {a[1]} ELSE pts[m]
  BY <1>1 DEF processAddr, WaveTypeOK, CyclesInv
<1>3. Range(worklist) \subseteq Range(worklist')
  BY <1>1, PushRange DEF processAddr, WaveTypeOK
<1>4. SUFFICES ASSUME NEW n \in live, alone(n)' PROVE loaded(n)' \/ loadsDue(n)'
  BY <1>2 DEF LoadsInv, live
<1>5. alone(n) /\ n \in Node /\ rep[n] = n
  BY <1>2, <1>4 DEF alone, live
<1>6. CASE pts'[n] = pts[n]
  <2>1. loaded(n) => loaded(n)'
    BY <1>2, <1>6, LoadedKept
  <2>2. queued(n) => loadsDue(n)'
    BY <1>2, <1>3 DEF loadsDue, queued
  <2> QED BY <1>1, <1>2, <1>5, <2>1, <2>2 DEF LoadsInv, loadsDue
<1>7. CASE pts'[n] # pts[n]
  <2>1. n = a[2] /\ worklist' = push(worklist, n)
    BY <1>1, <1>2, <1>5, <1>7 DEF processAddr
  <2>2. n \in Range(worklist')
    BY <1>1, <1>5, <2>1, PushRange DEF WaveTypeOK
  <2> QED BY <1>2, <1>5, <2>2 DEF loadsDue, queued
<1> QED BY <1>6, <1>7

(* Merging: nothing was merged into a node that still stands for itself    *)
(* only, and its loads and stores lead through edges that were moved.      *)
LEMMA LoadsMerge ==
  ASSUME WaveWorkInv, NEW p \in subs, waveMergeNodeToRep(p[1], p[2])
  PROVE  LoadsInv'
<1> DEFINE n == p[1]
           r == p[2]
<1>1. WaveTypeOK /\ LoadsInv /\ CyclesInv /\ pc = "merge" /\ pc' = "merge"
  BY WaveFacts DEF WaveWorkInv, waveMergeNodeToRep
<1>2. n \in Node /\ r \in Node /\ n # r /\ rep[n] = n /\ rep[r] = r
  BY <1>1, WaveFacts DEF WaveWorkInv, Within, WaveTypeOK, SubsWithin, live
<1>3. /\ consCG' = moveEdgesToRepNode(consCG, n, r)
      /\ UNCHANGED <<worklist, cpySrcNodes>>
      /\ \A m \in Node : rep'[m] = end(rep[m], n, r)
      /\ pts' = [pts EXCEPT ![r] = @ \cup pts[n]]
  BY DEF waveMergeNodeToRep, end
<1> HIDE DEF n, r
<1>4. \A m \in Node : pts'[m] = IF m = r THEN pts[r] \cup pts[n] ELSE pts[m]
  BY <1>1, <1>2, <1>3 DEF WaveTypeOK
<1>5. \A e : e \in DOMAIN consCG' <=>
        /\ \E f \in DOMAIN consCG : e = mergedEdge(f, n, r)
        /\ e.kind = "copy" => e.src # e.dst
  <2>1. DOMAIN consCG \subseteq Edge
    BY <1>1 DEF WaveTypeOK
  <2> QED BY <1>2, <1>3, <2>1, MoveEdgesDomain
<1>6. SUFFICES ASSUME NEW m \in Node, rep'[m] = m, alone(m)' PROVE loaded(m)' \/ loadsDue(m)'
  BY DEF LoadsInv, live
<1>7. m # r /\ m # n /\ rep[m] = m /\ alone(m)
  BY <1>1, <1>2, <1>3, <1>6 DEF alone, end, WaveTypeOK
<1>8. ASSUME queued(m) PROVE loadsDue(m)'
  <2>1. PICK w \in Range(worklist) \cup cpySrcNodes : rep[w] = m
    BY <1>8 DEF queued
  <2>2. w \in Node
    BY <1>1 DEF WaveTypeOK, Range
  <2>3. rep'[w] = m
    BY <1>3, <1>7, <2>1, <2>2 DEF end
  <2> QED BY <1>3, <2>3 DEF loadsDue, queued
<1>9. ASSUME loaded(m) PROVE loaded(m)'
  <2>1. ASSUME NEW o \in pts[m] \ ConstObj, NEW e \in through(m)'
        PROVE  derived(o, e)'
    <3>1. PICK f \in DOMAIN consCG : e = mergedEdge(f, n, r)
      BY <1>5, <2>1 DEF through
    <3>2. f \in through(m) /\ e.kind = f.kind /\ f.kind \in {"load", "store"} /\ f \in Edge
      <4>1. f \in Edge
        BY <1>1 DEF WaveTypeOK
      <4>2. /\ e.kind = f.kind
            /\ e.src = end(f.src, n, r) /\ e.dst = end(f.dst, n, r)
        BY <3>1 DEF mergedEdge, edge
      <4>3. \/ e.kind = "load" /\ e.src = m
            \/ e.kind = "store" /\ e.dst = m
        BY <2>1 DEF through
      <4> QED BY <1>7, <4>1, <4>2, <4>3 DEF through, end
    <3>3. o \in Node /\ derived(o, f)
      <4>1. o \in Node /\ <<o, f>> \in tasks(m)
        BY <1>1, <3>2, ConstraintsAssumption DEF tasks, WaveTypeOK
      <4>2. \A t \in tasks(m) : derived(t[1], t[2])
        BY <1>9 DEF loaded
      <4> QED BY <4>1, <4>2
    <3>4. derivedEdge(o, e)' = mergedEdge(derivedEdge(o, f), n, r)
      BY <1>3, <3>1, <3>2, <3>3 DEF derivedEdge, mergedEdge, edge, Edge
    <3>5. derivedEdge(o, f).kind = "copy"
      BY DEF derivedEdge, edge
    <3> QED BY <1>5, <3>3, <3>4, <3>5 DEF derived, mergedEdge, edge
  <2> QED BY <1>4, <1>7, <2>1 DEF loaded, tasks
<1>10. loaded(m) \/ loadsDue(m)
  BY <1>1, <1>7 DEF LoadsInv, live
<1>11. loadsDue(m) => queued(m)
  BY <1>1 DEF loadsDue, CyclesInv
<1> QED BY <1>8, <1>9, <1>10, <1>11

(* A load or store that is processed has its edge.                         *)
LEMMA LoadsProcess ==
  ASSUME WaveWorkInv, NEW t \in todo, waveLoadStore(t[1], t[2])
  PROVE  LoadsInv'
<1> DEFINE o == t[1]
           e == t[2]
           target == derivedEdge(o, e)
           added == addCopyEdges(consCG, IF o \in ConstObj THEN {} ELSE {target})
<1>1. /\ WaveTypeOK /\ LoadsInv /\ pc = "loadstore" /\ pc' = "loadstore" /\ t = <<o, e>>
      /\ todo' = todo \ {t}
      /\ UNCHANGED <<cur, pts, rep, worklist, cpySrcNodes, visit>>
  BY WaveFacts DEF WaveWorkInv, WaveTypeOK, waveLoadStore
<1>2. DOMAIN consCG' = DOMAIN added
  BY MergeEdgeGuardDomain DEF waveLoadStore
<1>3. \A f : f \in DOMAIN consCG' <=> f \in DOMAIN consCG
                \/ (o \notin ConstObj /\ f = target /\ target.src # target.dst)
  BY <1>2, AddCopyEdgesDomain
<1>4. target.kind = "copy"
  BY DEF derivedEdge, edge
<1>5. DOMAIN consCG \subseteq DOMAIN consCG'
      /\ \A f \in DOMAIN consCG' : f \in DOMAIN consCG \/ f.kind = "copy"
  BY <1>3, <1>4
<1>6. o \notin ConstObj => derived(o, e)'
  <2>1. derivedEdge(o, e)' = target
    BY <1>1 DEF derivedEdge
  <2> QED BY <1>3, <2>1 DEF derived
<1> HIDE DEF o, e, target, added
<1>7. SUFFICES ASSUME NEW n \in live, alone(n)' PROVE loaded(n)' \/ loadsDue(n)'
  BY <1>1 DEF LoadsInv, live
<1>8. alone(n)
  BY <1>1, <1>7 DEF alone
<1>9. loaded(n) => loaded(n)'
  BY <1>1, <1>5, LoadedKept
<1>10. queued(n) \/ n \in visit => loadsDue(n)'
  BY <1>1 DEF loadsDue, queued
<1>11. ASSUME n = cur, \A u \in tasks(n) : u \in todo \/ derived(u[1], u[2])
       PROVE  loadsDue(n)'
  <2>1. tasks(n)' = tasks(n)
    BY <1>1, <1>5, TasksKept
  <2>2. ASSUME NEW u \in tasks(n) PROVE u \in todo' \/ derived(u[1], u[2])'
    <3>1. CASE u = t
      <4>1. o \notin ConstObj
        BY <1>1, <2>2, <3>1 DEF tasks
      <4> QED BY <1>6, <3>1, <4>1 DEF o, e
    <3>2. CASE u # t /\ u \in todo
      BY <1>1, <3>2
    <3>3. CASE derived(u[1], u[2])
      BY <1>1, <1>5, <3>3, DerivedKept
    <3> QED BY <1>11, <3>1, <3>2, <3>3
  <2> QED BY <1>1, <1>11, <2>1, <2>2 DEF loadsDue
<1>12. loaded(n) \/ loadsDue(n)
  BY <1>1, <1>8 DEF LoadsInv
<1> QED BY <1>9, <1>10, <1>11, <1>12 DEF loadsDue

(* A copy that brings something new puts its destination on the worklist.  *)
LEMMA LoadsCopy ==
  ASSUME WaveWorkInv, NEW e \in todo, waveProcessCopy(e)
  PROVE  LoadsInv'
<1>1. /\ UNCHANGED <<pc, rep, consCG, cur, visit, cpySrcNodes>>
      /\ pc \in {"sweep", "propagate"}
      /\ pts' = [pts EXCEPT ![e.dst] = @ \cup diffPts]
      /\ worklist' = IF diffPts \subseteq pts[e.dst] THEN worklist
                     ELSE push(worklist, e.dst)
  BY DEF waveProcessCopy
<1>2. WaveTypeOK /\ LoadsInv /\ e.dst \in Node
  BY <1>1, WaveFacts DEF WaveWorkInv, WaveTypeOK
<1>3. \A n \in Node : pts'[n] = IF n = e.dst THEN pts[n] \cup diffPts ELSE pts[n]
  BY <1>1, <1>2 DEF WaveTypeOK
<1>4. Range(worklist) \subseteq Range(worklist')
  BY <1>1, <1>2, PushRange DEF WaveTypeOK
<1>5. SUFFICES ASSUME NEW n \in live, alone(n)' PROVE loaded(n)' \/ loadsDue(n)'
  BY <1>1 DEF LoadsInv, live
<1>6. alone(n) /\ n \in Node /\ rep[n] = n
  BY <1>1, <1>5 DEF alone, live
<1>7. CASE pts'[n] = pts[n]
  <2>1. loaded(n) => loaded(n)'
    BY <1>1, <1>7, LoadedKept
  <2>2. loadsDue(n) => loadsDue(n)'
    BY <1>1, <1>4 DEF loadsDue, queued
  <2> QED BY <1>2, <1>6, <2>1, <2>2 DEF LoadsInv
<1>8. CASE pts'[n] # pts[n]
  <2>1. n = e.dst /\ worklist' = push(worklist, n)
    BY <1>1, <1>3, <1>6, <1>8
  <2>2. n \in Range(worklist')
    BY <1>2, <1>6, <2>1, PushRange DEF WaveTypeOK
  <2> QED BY <1>1, <1>6, <2>2 DEF loadsDue, queued
<1> QED BY <1>7, <1>8

LEMMA LoadsStep ==
  ASSUME WaveWorkInv, [WaveNext]_waveVars
  PROVE  LoadsInv'
<1>a. LoadsInv /\ CyclesInv /\ WaveTypeOK
  BY WaveFacts DEF WaveWorkInv
<1>b. ASSUME UNCHANGED <<pts, rep>>, DOMAIN consCG' = DOMAIN consCG,
             pc # "loadstore" \/ todo = {}, visit = {} \/ pc = "sweep",
             Range(worklist) \cup cpySrcNodes \subseteq Range(worklist') \cup cpySrcNodes'
      PROVE  LoadsInv'
  <2>1. \A n \in live : queued(n) => loadsDue(n)'
    BY <1>b DEF loadsDue, queued
  <2> QED BY <1>a, <1>b, <2>1, LoadsKept
<1>1. ASSUME NEW a \in todo, waveProcessAddr(a) PROVE LoadsInv'
  BY <1>1, LoadsAddr
<1>2. ASSUME \/ waveBeginAttach
             \/ waveSCCDetect
             \/ \E r \in todo : waveBeginSCC(r)
      PROVE  LoadsInv'
  <2>1. /\ UNCHANGED <<pts, rep, consCG, worklist, cpySrcNodes>>
        /\ pc \notin {"loadstore", "propagate", "sweep"}
    BY <1>2 DEF waveBeginAttach, waveSCCDetect, waveBeginSCC, beginAttach, SCCDetect,
                beginSCC
  <2> QED BY <1>a, <1>b, <2>1 DEF CyclesInv
<1>3. ASSUME NEW s \in todo, waveAttachStaticEdgeGuard(s) PROVE LoadsInv'
  <2>1. /\ UNCHANGED <<pts, rep, worklist, cpySrcNodes>> /\ pc = "attach"
        /\ DOMAIN consCG' = DOMAIN consCG
    BY <1>3, MergeEdgeGuardDomain DEF waveAttachStaticEdgeGuard, attachStaticEdgeGuard
  <2> QED BY <1>a, <1>b, <2>1 DEF CyclesInv
<1>4. ASSUME NEW p \in subs, waveMergeNodeToRep(p[1], p[2]) PROVE LoadsInv'
  BY <1>4, LoadsMerge
<1>5. ASSUME \/ \E r \in nodeStack : waveSweepNode(r)
             \/ \E n \in visit : waveSweepSubNode(n)
             \/ waveUpdateCallGraph
             \/ waveFinish
      PROVE  LoadsInv'
  <2>1. /\ UNCHANGED <<pts, rep, consCG, worklist, cpySrcNodes>>
        /\ todo = {} /\ (visit = {} \/ pc = "sweep")
    BY <1>5 DEF waveSweepNode, waveSweepSubNode, waveUpdateCallGraph, waveFinish,
                waveSolved, waveIdle
  <2> QED BY <1>b, <2>1
<1>6. ASSUME wavePopFromWorklist PROVE LoadsInv'
  <2>0. PICK r : r = rep[Head(worklist)]
    OBVIOUS
  <2>1. /\ visit = {} /\ todo = {} /\ cur' = r /\ pc' = "loadstore"
        /\ todo' = pts[r] \X through(r)
        /\ worklist' = Tail(worklist) /\ worklist # <<>> /\ worklist \in Seq(Node)
        /\ UNCHANGED <<pts, rep, consCG, cpySrcNodes>>
    BY <1>6, <1>a, <2>0 DEF wavePopFromWorklist, processNode, waveIdle, WaveTypeOK
  <2>2. ASSUME NEW n \in live, queued(n) PROVE n = r \/ queued(n)'
    <3>1. Range(worklist) \subseteq {Head(worklist)} \cup Range(worklist')
      BY <2>1, TailRange
    <3> QED BY <2>0, <2>1, <2>2, <3>1 DEF queued
  <2>3. \A u \in tasks(r)' : u \in todo'
    BY <2>1 DEF tasks, through
  <2>4. \A n \in live : queued(n) => loadsDue(n)'
    BY <2>1, <2>2, <2>3 DEF loadsDue
  <2> QED BY <1>a, <2>1, <2>4, LoadsKept
<1>7. ASSUME NEW r \in visit, waveVisitSubNode(r) PROVE LoadsInv'
  <2>1. /\ todo = {} /\ cur' = r /\ pc' = "loadstore" /\ visit' = visit \ {r}
        /\ todo' = pts[r] \X through(r)
        /\ UNCHANGED <<pts, rep, consCG, worklist, cpySrcNodes>>
    BY <1>7 DEF waveVisitSubNode, processNode
  <2>2. \A u \in tasks(r)' : u \in todo'
    BY <2>1 DEF tasks, through
  <2>3. \A n \in live : queued(n) \/ n \in visit => loadsDue(n)'
    BY <2>1, <2>2 DEF loadsDue, queued
  <2> QED BY <1>a, <2>1, <2>3, LoadsKept
<1>8. ASSUME NEW t \in todo, waveLoadStore(t[1], t[2]) PROVE LoadsInv'
  BY <1>8, LoadsProcess
<1>9. ASSUME waveHandleCopyGep PROVE LoadsInv'
  <2>1. /\ todo = {} /\ pc' = "propagate"
        /\ UNCHANGED <<pts, rep, consCG, worklist, cpySrcNodes, visit>>
    BY <1>9 DEF waveHandleCopyGep
  <2>2. \A n \in live : queued(n) \/ n \in visit => loadsDue(n)'
    BY <2>1 DEF loadsDue, queued
  <2> QED BY <1>a, <2>1, <2>2, LoadsKept
<1>10. ASSUME NEW e \in todo, waveProcessCopy(e) PROVE LoadsInv'
  BY <1>10, LoadsCopy
<1>11. ASSUME NEW c \in todo, waveConnectCaller2CalleeParams(c) PROVE LoadsInv'
  <2> DEFINE added == addCopyEdges(consCG, boundEdges(c))
  <2>1. /\ pc = "update" /\ DOMAIN consCG' = DOMAIN added
        /\ cpySrcNodes \subseteq cpySrcNodes'
        /\ UNCHANGED <<pts, rep, worklist>>
    BY <1>11 DEF waveConnectCaller2CalleeParams, connectCaller2CalleeParams
  <2>2. \A f : f \in DOMAIN added <=>
                 f \in DOMAIN consCG \/ (f \in boundEdges(c) /\ f.src # f.dst)
    BY AddCopyEdgesDomain
  <2>3. \A f \in boundEdges(c) : f.kind = "copy"
    BY DEF boundEdges, edge
  <2> HIDE DEF added
  <2>4. \A n \in live : queued(n) => loadsDue(n)'
    BY <2>1 DEF loadsDue, queued
  <2>5. visit = {}
    BY <1>a, <2>1 DEF CyclesInv
  <2> QED BY <1>a, <2>1, <2>2, <2>3, <2>4, <2>5, LoadsKept
<1>12. ASSUME NEW n \in cpySrcNodes, wavePushCpySrcNode(n) PROVE LoadsInv'
  <2>1. /\ UNCHANGED <<pts, rep, consCG>> /\ pc = "update"
        /\ cpySrcNodes' = cpySrcNodes \ {n} /\ worklist' = push(worklist, n)
    BY <1>12 DEF wavePushCpySrcNode, pushCpySrcNode
  <2>2. Range(worklist') = Range(worklist) \cup {rep[n]} /\ rep[rep[n]] = rep[n]
    BY <1>12, <1>a, <2>1, PushRange, WaveFacts DEF WaveTypeOK, WaveWorkInv, Within, RepsWithin
  <2>3. \A m \in live : queued(m) => loadsDue(m)'
    BY <2>1, <2>2 DEF loadsDue, queued
  <2> QED BY <1>a, <2>1, <2>3, LoadsKept
<1>13. ASSUME UNCHANGED waveVars PROVE LoadsInv'
  BY <1>13, <1>a DEF LoadsInv, live, alone, loaded, loadsDue, queued, derived, derivedEdge,
       tasks, through, waveVars, vars, diffVars
<1> QED BY <1>1, <1>2, <1>3, <1>4, <1>5, <1>6, <1>7, <1>8, <1>9, <1>10, <1>11, <1>12,
           <1>13 DEF WaveNext

(* At the end nobody is due any more.                                      *)
DoneInv == pc = "done" => newCalls = {} /\ ~reanalyze /\ worklist = <<>>

LEMMA DoneStep ==
  ASSUME DoneInv, [WaveNext]_waveVars
  PROVE  DoneInv'
<1>1. CASE waveFinish
  BY <1>1 DEF waveFinish, waveSolved, DoneInv, newCalls, diffVars
<1>2. CASE UNCHANGED waveVars
  BY <1>2 DEF DoneInv, newCalls, waveVars, vars, diffVars
<1>3. ASSUME \/ \E a \in todo : waveProcessAddr(a)
             \/ waveBeginAttach
             \/ \E s \in todo : waveAttachStaticEdgeGuard(s)
             \/ waveSCCDetect
             \/ \E r \in todo : waveBeginSCC(r)
             \/ \E c \in todo : waveConnectCaller2CalleeParams(c)
             \/ \E n \in cpySrcNodes : wavePushCpySrcNode(n)
      PROVE  pc' # "done"
  BY <1>3 DEF waveProcessAddr, waveBeginAttach, waveAttachStaticEdgeGuard, waveSCCDetect,
       waveBeginSCC, waveConnectCaller2CalleeParams, wavePushCpySrcNode, processAddr,
       beginAttach, attachStaticEdgeGuard, SCCDetect, beginSCC,
       connectCaller2CalleeParams, pushCpySrcNode
<1>4. ASSUME \/ \E p \in subs : waveMergeNodeToRep(p[1], p[2])
             \/ \E r \in nodeStack : waveSweepNode(r)
             \/ \E n \in visit : waveSweepSubNode(n)
             \/ wavePopFromWorklist
             \/ \E n \in visit : waveVisitSubNode(n)
             \/ \E t \in todo : waveLoadStore(t[1], t[2])
             \/ waveHandleCopyGep
             \/ \E e \in todo : waveProcessCopy(e)
             \/ waveUpdateCallGraph
      PROVE  pc' # "done"
  BY <1>4 DEF waveMergeNodeToRep, waveSweepNode, waveSweepSubNode, wavePopFromWorklist,
       waveVisitSubNode, processNode, waveLoadStore, waveHandleCopyGep, waveProcessCopy,
       waveUpdateCallGraph
<1> QED BY <1>1, <1>2, <1>3, <1>4 DEF WaveNext, DoneInv

(* Every node that is not due has handed on what it has and has the edges  *)
(* of its loads and stores.                                                *)
LEMMA WaveDone ==
  ASSUME WaveWorkInv, DoneInv
  PROVE  CompleteUnlessMerged
<1> SUFFICES ASSUME pc = "done"
             PROVE  /\ \A e \in edges("copy") : copied(e)
                    /\ \A n \in live : alone(n) => loaded(n)
                    /\ newCalls = {}
  BY DEF CompleteUnlessMerged, loaded
<1>1. /\ nodeStack = {} /\ visit = {} /\ cpySrcNodes = {} /\ Range(worklist) = {}
      /\ ~reanalyze /\ newCalls = {}
  BY DEF WaveWorkInv, CyclesInv, DoneInv, Range
<1>2. \A n : ~queued(n) /\ ~copiesDue(n) /\ ~loadsDue(n)
  BY <1>1 DEF queued, copiesDue, loadsDue
<1>3. ASSUME NEW e \in edges("copy") PROVE copied(e)
  <2>1. pts[e.src] \subseteq propaPts[e.src]
    BY <1>2, <1>3, WaveFacts DEF WaveWorkInv, CopiesInv
  <2>2. propaPts[e.src] \subseteq pts[e.dst]
    BY <1>3, WaveFacts DEF WaveWorkInv, HandedOn
  <2> QED BY <2>1, <2>2 DEF copied
<1> QED BY <1>1, <1>2, <1>3 DEF WaveWorkInv, LoadsInv

LEMMA WaveWorkInit == WaveInit => WaveWorkInv /\ DoneInv
<1> SUFFICES ASSUME WaveInit PROVE WaveWorkInv /\ DoneInv OBVIOUS
<1>1. WaveEntriesInv
  BY WaveEntriesInit
<1>2. /\ pc = "addr" /\ nodeStack = {} /\ visit = {} /\ cpySrcNodes = {}
      /\ \A n \in Node : pts[n] = {}
  BY DEF WaveInit, Init
<1>3. CyclesInv /\ SweepInv /\ DoneInv
  BY <1>2 DEF CyclesInv, SweepInv, DoneInv, WaveInit
<1>4. CopiesInv
  BY <1>2 DEF CopiesInv, copiesDue
<1>5. \A n \in live : loaded(n)
  BY <1>2 DEF loaded, tasks, live
<1> QED BY <1>1, <1>3, <1>4, <1>5 DEF WaveWorkInv, LoadsInv

(* WaveComplete: when the wave solver stops it has forgotten nothing but   *)
(* what the merging of pointers costs it.  Every copy has been made and    *)
(* every call bound, and every load and store through a node that stands   *)
(* for itself only has its edge, although nodes hand on differences, new   *)
(* edges wait for another round, cycles left unmerged are known to their   *)
(* root alone, and with all cycles merged the worklist walks no copies.    *)
THEOREM WaveComplete == WaveSpec => []CompleteUnlessMerged
<1>1. WaveWorkInv /\ DoneInv /\ [WaveNext]_waveVars => WaveWorkInv' /\ DoneInv'
  BY WaveEntriesStep, CyclesStep, CopiesStep, LoadsStep, DoneStep DEF WaveWorkInv
<1>2. WaveWorkInv /\ DoneInv => CompleteUnlessMerged
  BY WaveDone
<1> QED BY <1>1, <1>2, WaveWorkInit, PTL DEF WaveSpec
-----------------------------------------------------------------------------
(* Guards never claim too little (GuardsSound), under the hypotheses that  *)
(* Soundness_proofs states: the algebra only widens, and every fact arrives *)
(* one way.  Where nothing is merged, the wave solver accounts for the     *)
(* whole program, and its entries stay wide whichever of them a copy       *)
(* passes on: one that is missing stands for every path.                   *)

(* The guard False, which stands for an unsatisfiable one, is a guard, and *)
(* one that is recognised as False admits no path.                         *)
FalseGuards ==
  /\ falseGuard \in Guards
  /\ \A g \in Guards : guardIsFalse(g) => Admits(g) \cap Path = {}

WaveSoundInv ==
  /\ WaveWorkInv /\ DoneInv
  /\ AddrIn /\ StmtsIn /\ CallsIn
  /\ Wide

(* The invariant gives a handler of the wave solver what it needs.         *)
LEMMA WaveWideGraph ==
  ASSUME WaveSoundInv
  PROVE  /\ WaveEntriesInv /\ WaveTypeOK /\ Within /\ LoopWithin
         /\ AddrIn /\ StmtsIn /\ CallsIn /\ Wide /\ NoMerges /\ WideGraph
         /\ prog \in Programs /\ rep \in [Node -> Node]
         /\ pts \in [Node -> SUBSET Obj]
<1>1. WaveEntriesInv /\ AddrIn /\ StmtsIn /\ CallsIn /\ Wide /\ NoMerges
  BY DEF WaveSoundInv, WaveWorkInv, Wide
<1>2. /\ WaveTypeOK /\ Within /\ LoopWithin /\ DOMAIN consCG \subseteq Edge
      /\ prog \in Programs /\ rep \in [Node -> Node] /\ pts \in [Node -> SUBSET Obj]
  BY <1>1, WaveFacts DEF Within, WaveTypeOK
<1> QED BY <1>1, <1>2, ProgramFacts DEF WideGraph

(* orMergeCondPts keeps an entry wide; frozen or not, it keeps the old one *)
(* or one that the old one and the arriving guard admit.                   *)
LEMMA WaveOrMergeWide ==
  ASSUME WideGuards, NEW old \in Guards \cup {NoGuard}, NEW guard \in Guards
  PROVE  /\ waveOrMerge(old, guard) \in Guards \cup {NoGuard}
         /\ \A path \in Path : entryAdmits(path, old) /\ path \in Admits(guard)
                                 => entryAdmits(path, waveOrMerge(old, guard))
<1> DEFINE new == waveOrMerge(old, guard)
<1>1. \/ new = NoGuard \/ new = guard \/ new = old
      \/ /\ old # NoGuard
         /\ new = guardOr(old, guard) \/ new = guardLimited(guardOr(old, guard))
  BY DEF waveOrMerge
<1> HIDE DEF new
<1> QED BY <1>1, EntryWide DEF new

(* The guard a copy passes on: False takes its place only where the edge   *)
(* and the fact admit no common path.                                      *)
LEMMA WavePassedWide ==
  ASSUME WideGuards, FindsPaths, FalseGuards, WidelyTyped,
         NEW e \in DOMAIN consCG, e.src \in Node, NEW o \in Obj
  PROVE  /\ wavePassedGuard(o, e) \in Guards
         /\ \A path \in Path : path \in Admits(consCG[e]) /\ path \in Admits(guardOf(e.src, o))
                                 => path \in Admits(wavePassedGuard(o, e))
<1> DEFINE cond == condPtsMap[e.src][o]
           conj == guardAnd(cond, consCG[e])
           g    == entryGuard(o, e)
<1>1. consCG[e] \in Guards /\ cond \in Guards \cup {NoGuard}
  BY DEF WidelyTyped
<1>2. /\ wavePassedGuard(o, e) = IF cond = NoGuard THEN guardLimited(consCG[e])
                                 ELSE IF eagerSat /\ ~guardIsSat(g) THEN falseGuard ELSE g
      /\ g = cond \/ g = guardLimited(conj)
      /\ guardOf(e.src, o) = IF cond = NoGuard THEN trueGuard ELSE cond
  BY DEF wavePassedGuard, entryGuard, guardOf
<1>3. cond # NoGuard => /\ conj \in Guards /\ guardLimited(conj) \in Guards
                        /\ Admits(cond) \cap Admits(consCG[e]) \subseteq Admits(conj)
                        /\ Admits(conj) \subseteq Admits(guardLimited(conj))
  BY <1>1 DEF WideGuards
<1> HIDE DEF cond, conj, g
<1>4. CASE cond = NoGuard
  BY <1>1, <1>2, <1>4 DEF WideGuards
<1>5. CASE cond # NoGuard
  <2>1. g \in Guards
    BY <1>1, <1>2, <1>3, <1>5
  <2>2. \A path \in Path : path \in Admits(consCG[e]) /\ path \in Admits(cond)
                             => path \in Admits(g) /\ guardIsSat(g)
    BY <1>2, <1>3, <1>5, <2>1 DEF FindsPaths
  <2> QED BY <1>2, <1>5, <2>1, <2>2 DEF FalseGuards
<1> QED BY <1>4, <1>5

(* processCopy.                                                            *)
LEMMA WaveCopyWide ==
  ASSUME WaveSoundInv, WideGuards, OneWay, LeastOnPaths, FindsPaths, FalseGuards,
         NEW e \in todo, waveProcessCopy(e)
  PROVE  Wide'
<1>1. WideGraph /\ WidelyTyped /\ WaveTypeOK /\ FactsWithin /\ EntriesWithinPts
  BY WaveWideGraph DEF WaveEntriesInv, Within, Wide
<1>2. /\ e \in edges("copy") /\ e \in DOMAIN consCG /\ e.src \in Node /\ e.dst \in Node
      /\ DOMAIN condPtsMap = Node /\ DOMAIN condPtsMap[e.dst] = Obj
  BY <1>1 DEF WaveTypeOK, waveProcessCopy, edges, Edge
<1>3. UNCHANGED <<prog, consCG, rep, subs>> /\ pc' # "merge"
  BY DEF waveProcessCopy
<1>4. \A n \in Node, o \in Obj :
        \/ condPtsMap'[n][o] = condPtsMap[n][o]
        \/ /\ n = e.dst /\ o \in wavePassedObjs(e)
           /\ condPtsMap'[n][o] = waveOrMerge(condPtsMap[n][o], wavePassedGuard(o, e))
  BY <1>2 DEF waveProcessCopy
<1>5. \A o \in wavePassedObjs(e) : o \in Sol[e.src]
  <2>1. entriesOf(e.src) \subseteq pts[e.src]
    BY <1>1, <1>2 DEF EntriesWithinPts, entriesOf
  <2>2. wavePassedObjs(e) \subseteq pts[e.src]
    BY <2>1 DEF wavePassedObjs, passedEntries, implicitObjs
  <2> QED BY <1>1, <1>2, <2>2 DEF FactsWithin
<1>6. ASSUME NEW n \in Node, NEW o \in Obj
      PROVE  mergesWidely(e, o, condPtsMap[n][o],
                          waveOrMerge(condPtsMap[n][o], wavePassedGuard(o, e)))
  <2>1. condPtsMap[n][o] \in Guards \cup {NoGuard}
    BY <1>1 DEF WidelyTyped
  <2>2. /\ wavePassedGuard(o, e) \in Guards
        /\ \A path \in Path : path \in Admits(consCG[e]) /\ path \in Admits(guardOf(e.src, o))
                               => path \in Admits(wavePassedGuard(o, e))
    BY <1>1, <1>2, WavePassedWide
  <2> QED BY <2>1, <2>2, WaveOrMergeWide DEF mergesWidely
<1>7. \A n \in Node, o \in Obj :
        \/ condPtsMap'[n][o] = condPtsMap[n][o]
        \/ /\ n = e.dst /\ o \in Sol[e.src]
           /\ mergesWidely(e, o, condPtsMap[n][o], condPtsMap'[n][o])
  BY <1>4, <1>5, <1>6
<1> QED BY <1>1, <1>2, <1>3, <1>7, ArriveWide

(* Every handler leaves the guards wide.                                   *)
LEMMA WaveWideStep ==
  ASSUME WaveSoundInv, WideGuards, OneWay, LeastOnPaths, FindsPaths, FalseGuards,
         [WaveNext]_waveVars
  PROVE  Wide'
<1>1. WideGraph /\ Wide /\ NoMerges /\ WaveTypeOK /\ LoopWithin
  BY WaveWideGraph
<1>2. ASSUME \/ \E a \in todo : waveProcessAddr(a)
             \/ waveBeginAttach
             \/ \E n \in cpySrcNodes : wavePushCpySrcNode(n)
             \/ waveFinish
             \/ waveUpdateCallGraph
             \/ waveHandleCopyGep
             \/ UNCHANGED waveVars
      PROVE  Wide'
  <2>1. UNCHANGED <<prog, condPtsMap, consCG, rep, subs>> /\ (pc' = "merge" => todo' = {})
    BY <1>1, <1>2 DEF waveProcessAddr, processAddr, waveBeginAttach, beginAttach,
         wavePushCpySrcNode, pushCpySrcNode, waveFinish, waveUpdateCallGraph,
         waveHandleCopyGep, waveVars, vars, NoMerges
  <2> QED BY <1>1, <2>1, WideKept
<1>3. ASSUME NEW s \in todo, waveAttachStaticEdgeGuard(s) PROVE Wide'
  BY <1>1, <1>3, AttachWide DEF WaveTypeOK, waveAttachStaticEdgeGuard, attachStaticEdgeGuard
<1>4. CASE waveSCCDetect
  BY <1>1, <1>4, WideKept, NothingToMerge DEF waveSCCDetect, SCCDetect
<1>5. ASSUME NEW r \in todo, waveBeginSCC(r) PROVE Wide'
  BY <1>1, <1>5 DEF NoMerges, waveBeginSCC, beginSCC
<1>6. ASSUME NEW p \in subs, waveMergeNodeToRep(p[1], p[2]) PROVE Wide'
  BY <1>1, <1>6 DEF NoMerges
<1>7. ASSUME \/ \E r \in nodeStack : waveSweepNode(r)
             \/ \E n \in visit : waveSweepSubNode(n)
             \/ wavePopFromWorklist
             \/ \E n \in visit : waveVisitSubNode(n)
      PROVE  Wide'
  <2>1. UNCHANGED <<prog, condPtsMap, consCG, rep, subs>> /\ pc' # "merge"
    BY <1>7 DEF waveSweepNode, waveSweepSubNode, wavePopFromWorklist, waveVisitSubNode,
         processNode
  <2> QED BY <1>1, <2>1, WideKept
<1>8. ASSUME NEW t \in todo, waveLoadStore(t[1], t[2]) PROVE Wide'
  <2>1. /\ t[1] \in Obj /\ t[2] \in edges("load") \cup edges("store")
        /\ t[1] \in Sol[pointer(t[2])]
    BY <1>1, <1>8 DEF WaveTypeOK, LoopWithin, waveLoadStore
  <2>2. /\ derivesWithGuard(t[1], t[2])
        /\ UNCHANGED <<prog, condPtsMap, rep, subs>> /\ pc' # "merge"
    BY <1>8 DEF waveLoadStore, derivesWithGuard
  <2> QED BY <1>1, <2>1, <2>2, DeriveWide
<1>9. ASSUME NEW e \in todo, waveProcessCopy(e) PROVE Wide'
  BY <1>9, WaveCopyWide
<1>10. ASSUME NEW c \in todo, waveConnectCaller2CalleeParams(c) PROVE Wide'
  BY <1>1, <1>10, ConnectWide
     DEF WaveTypeOK, LoopWithin, waveConnectCaller2CalleeParams, connectCaller2CalleeParams
<1> QED BY <1>2, <1>3, <1>4, <1>5, <1>6, <1>7, <1>8, <1>9, <1>10 DEF WaveNext

(* Where nothing is merged, every constraint keeps its edge, its call or   *)
(* its place in the loop.                                                  *)
LEMMA WaveAccountStep ==
  ASSUME WaveSoundInv, [WaveNext]_waveVars
  PROVE  AddrIn' /\ StmtsIn' /\ CallsIn'
<1>1. /\ AddrIn /\ StmtsIn /\ CallsIn /\ NoMerges /\ WaveTypeOK
      /\ prog \in Programs /\ rep \in [Node -> Node] /\ pts \in [Node -> SUBSET Obj]
  BY WaveWideGraph
<1>2. IsProgram(prog)
  BY <1>1, ProgramFacts
<1> DEFINE Kept == AddrIn' /\ StmtsIn' /\ CallsIn'
<1>3. ASSUME NEW a \in todo, waveProcessAddr(a) PROVE Kept
  <2>1. /\ pc = "addr" /\ pc' = "addr" /\ todo' = todo \ {a}
        /\ UNCHANGED <<prog, rep, consCG, resolved>>
        /\ pts' = [pts EXCEPT ![a[2]] = @ \cup {a[1]}]
    BY <1>3 DEF waveProcessAddr, processAddr
  <2>2. \A b \in prog.addr : b[2] \in Node /\ rep[b[2]] = b[2]
    BY <1>1, <1>2 DEF IsProgram, NoMerges
  <2>3. a \in prog.addr
    BY <1>1, <2>1 DEF WaveTypeOK
  <2>4. AddrIn'
    BY <1>1, <2>1, <2>2, <2>3 DEF AddrIn
  <2>5. StmtsIn' /\ CallsIn'
    BY <1>1, <2>1 DEF StmtsIn, CallsIn, constraintIn
  <2> QED BY <2>4, <2>5
<1>4. ASSUME UNCHANGED <<prog, rep, resolved, pts>>, DOMAIN consCG \subseteq DOMAIN consCG',
             pc = "addr" => (pc' = "addr" /\ todo' = todo) \/ todo = {},
             pc = "update" => (pc' = "update" /\ todo' = todo) \/ todo = {}
      PROVE  Kept
  BY <1>1, <1>4, AccountKept
<1>5. ASSUME \/ waveBeginAttach
             \/ \E s \in todo : waveAttachStaticEdgeGuard(s)
             \/ waveSCCDetect
             \/ \E r \in todo : waveBeginSCC(r)
             \/ \E n \in cpySrcNodes : wavePushCpySrcNode(n)
             \/ waveFinish
             \/ UNCHANGED waveVars
      PROVE  Kept
  BY <1>4, <1>5, MergeEdgeGuardDomain
     DEF waveBeginAttach, beginAttach, waveAttachStaticEdgeGuard, attachStaticEdgeGuard,
         waveSCCDetect, SCCDetect, waveBeginSCC, beginSCC, wavePushCpySrcNode,
         pushCpySrcNode, waveFinish, waveSolved, waveIdle, waveVars, vars
<1>6. ASSUME \/ \E r \in nodeStack : waveSweepNode(r)
             \/ \E n \in visit : waveSweepSubNode(n)
             \/ wavePopFromWorklist
             \/ \E n \in visit : waveVisitSubNode(n)
             \/ waveHandleCopyGep
      PROVE  Kept
  <2>1. UNCHANGED <<prog, rep, resolved, pts, consCG>> /\ pc \notin {"addr", "update"}
    BY <1>6 DEF waveSweepNode, waveSweepSubNode, wavePopFromWorklist, waveVisitSubNode,
         waveHandleCopyGep, waveIdle
  <2> QED BY <1>4, <2>1
<1>7. ASSUME NEW t \in todo, waveLoadStore(t[1], t[2]) PROVE Kept
  <2>1. UNCHANGED <<prog, rep, resolved, pts>> /\ pc = "loadstore"
    BY <1>7 DEF waveLoadStore
  <2>2. DOMAIN consCG \subseteq DOMAIN consCG'
    BY <1>7, MergeEdgeGuardDomain, AddCopyEdgesDomain DEF waveLoadStore
  <2> QED BY <1>4, <2>1, <2>2
<1>8. ASSUME NEW e \in todo, waveProcessCopy(e) PROVE Kept
  <2>1. /\ UNCHANGED <<prog, rep, resolved, consCG>> /\ pc \in {"sweep", "propagate"}
        /\ pts' = [pts EXCEPT ![e.dst] = @ \cup diffPts]
    BY <1>8 DEF waveProcessCopy
  <2>2. \A n \in Node : pts[n] \subseteq pts'[n]
    BY <1>1, <2>1
  <2> QED BY <1>1, <2>1, <2>2, AccountKept
<1>9. CASE waveUpdateCallGraph
  <2>1. /\ pc \notin {"addr", "update"} /\ pc' = "update" /\ todo' = newCalls
        /\ resolved' = resolved \cup newCalls
        /\ UNCHANGED <<prog, pts, rep, consCG>>
    BY <1>9 DEF waveUpdateCallGraph, waveSolved, waveIdle
  <2>2. AddrIn' /\ StmtsIn'
    BY <1>1, <2>1 DEF AddrIn, StmtsIn, constraintIn
  <2>3. CallsIn'
    BY <1>1, <2>1 DEF CallsIn, constraintIn
  <2> QED BY <2>2, <2>3
<1>10. ASSUME NEW c \in todo, waveConnectCaller2CalleeParams(c) PROVE Kept
  BY <1>1, <1>10, AccountConnect DEF waveConnectCaller2CalleeParams
<1>11. ASSUME NEW p \in subs, waveMergeNodeToRep(p[1], p[2]) PROVE Kept
  BY <1>1 DEF NoMerges
<1> QED BY <1>3, <1>5, <1>6, <1>7, <1>8, <1>9, <1>10, <1>11 DEF WaveNext

(* Every step keeps the invariant: what is forgotten is as proved above,   *)
(* and no handler loses a constraint or narrows a guard.                   *)
LEMMA WaveSoundStep ==
  ASSUME WaveSoundInv, WideGuards, OneWay, LeastOnPaths, FindsPaths, FalseGuards,
         [WaveNext]_waveVars
  PROVE  WaveSoundInv'
<1>1. WaveWorkInv' /\ DoneInv'
  BY WaveEntriesStep, CyclesStep, CopiesStep, LoadsStep, DoneStep DEF WaveSoundInv, WaveWorkInv
<1> QED BY <1>1, WaveAccountStep, WaveWideStep DEF WaveSoundInv

(* At the start the entries are wide: there are none.                      *)
LEMMA WaveSoundInit ==
  ASSUME WideGuards, WaveInit
  PROVE  WaveSoundInv
<1>1. SoundInv
  BY SoundInit DEF WaveInit
<1> QED BY <1>1, WaveWorkInit DEF SoundInv, AccountInv, WaveSoundInv

(* At the end the points-to sets account for the whole program.            *)
LEMMA WaveAnswer ==
  ASSUME WaveSoundInv, pc = "done"
  PROVE  answer \in [Node -> SUBSET Obj] /\ IsSolution(prog, answer)
<1>1. /\ AddrIn /\ StmtsIn /\ CallsIn /\ pts \in [Node -> SUBSET Obj]
      /\ \A n \in Node : rep[n] = n
      /\ IsProgram(prog) /\ Obj \subseteq Node
  BY WaveWideGraph, ProgramFacts DEF NoMerges
<1>2. CompleteUnlessMerged
  BY WaveDone DEF WaveSoundInv
<1>3. /\ \A e \in edges("copy") : pts[e.src] \subseteq pts[e.dst]
      /\ \A n \in Node : \A t \in tasks(n) : derived(t[1], t[2])
      /\ newCalls = {}
  BY <1>1, <1>2 DEF CompleteUnlessMerged, copied, alone, live
<1>4. answer = pts
  BY <1>1 DEF answer
<1>5. \A x, y \in Node : constraintIn("copy", x, y) => pts[x] \subseteq pts[y]
  BY <1>1, <1>3 DEF constraintIn, edges, edge
<1>6. ASSUME NEW e \in DOMAIN consCG, e.src \in Node, e.dst \in Node,
             NEW o \in pts[pointer(e)] \ ConstObj
      PROVE  /\ e.kind = "load"  => pts[o] \subseteq pts[e.dst]
             /\ e.kind = "store" => pts[e.src] \subseteq pts[o]
  <2>1. pointer(e) \in Node /\ o \in Node
    BY <1>1, <1>6 DEF pointer
  <2>2. e.kind \in {"load", "store"} => e \in through(pointer(e))
    BY DEF through, pointer
  <2>3. ASSUME e.kind \in {"load", "store"} PROVE derived(o, e)
    <3>1. <<o, e>> \in tasks(pointer(e))
      BY <2>2, <2>3 DEF tasks
    <3>2. \A t \in tasks(pointer(e)) : derived(t[1], t[2])
      BY <1>3, <2>1
    <3> QED BY <3>1, <3>2
  <2>4. CASE e.kind = "load"
    BY <1>1, <1>3, <1>6, <2>1, <2>3, <2>4 DEF derived, derivedEdge, edges, edge
  <2>5. CASE e.kind = "store"
    BY <1>1, <1>3, <1>6, <2>1, <2>3, <2>5 DEF derived, derivedEdge, edges, edge
  <2> QED BY <2>4, <2>5
<1>7. ASSUME NEW s \in prog.stmts PROVE Respects(pts, s)
  <2>1. s.src \in Node /\ s.dst \in Node /\ constraintIn(s.kind, s.src, s.dst)
    BY <1>1 DEF IsProgram, IsStmt, edge, Edge, StmtsIn
  <2>2. s.kind = "copy" => pts[s.src] \subseteq pts[s.dst]
    BY <1>5, <2>1
  <2>3. s.kind \in {"load", "store"} =>
          /\ stmtEdge(s) \in DOMAIN consCG
          /\ stmtEdge(s).src = s.src /\ stmtEdge(s).dst = s.dst /\ stmtEdge(s).kind = s.kind
    BY <1>1, <2>1 DEF constraintIn, stmtEdge, edge
  <2>4. s.kind = "load" => \A o \in pts[s.src] \ ConstObj : pts[o] \subseteq pts[s.dst]
    BY <1>6, <2>1, <2>3 DEF pointer
  <2>5. s.kind = "store" => \A o \in pts[s.dst] \ ConstObj : pts[s.src] \subseteq pts[o]
    BY <1>6, <2>1, <2>3 DEF pointer
  <2> QED BY <2>2, <2>4, <2>5 DEF Respects
<1>8. ASSUME NEW c \in prog.calls, c.fun \in pts[c.fp], NEW arg \in c.args
      PROVE  pts[arg[1]] \subseteq pts[arg[2]]
  <2>1. c.fp \in Node /\ arg[1] \in Node /\ arg[2] \in Node
    BY <1>1 DEF IsProgram, IsCall
  <2>2. c \in resolved
    BY <1>1, <1>3, <1>8, <2>1 DEF newCalls
  <2> QED BY <1>1, <1>5, <2>1, <2>2 DEF CallsIn
<1>9. \A a \in prog.addr : a[1] \in pts[a[2]]
  BY <1>1 DEF AddrIn, IsProgram
<1> QED BY <1>1, <1>4, <1>7, <1>8, <1>9 DEF IsSolution

(* When the solver stops, what holds on a path is in the answer.           *)
LEMMA WaveIsSound ==
  ASSUME WaveSoundInv, LeastOnPaths
  PROVE  GuardsSound
<1>1. FactsWide /\ (\A n \in Node : rep[n] = n) /\ prog \in Programs
  BY WaveWideGraph DEF Wide, NoMerges
<1>2. SUFFICES ASSUME pc = "done", NEW path \in Path, NEW n \in Node, NEW o \in SolOn(path)[n]
               PROVE  o \in answer[n] /\ path \in Admits(guardOf(rep[n], o))
  BY DEF GuardsSound, SolOn
<1>3. answer \in [Node -> SUBSET Obj] /\ IsSolution(onPath(prog, path), answer)
  BY <1>1, <1>2, SolvesOnPath, WaveAnswer
<1>4. o \in answer[n] /\ o \in Obj
  BY <1>1, <1>3, OnPathProgram DEF LeastOnPaths, SolOn
<1>5. path \in Admits(guardOf(n, o))
  BY <1>1, <1>4 DEF FactsWide
<1> QED BY <1>1, <1>4, <1>5

(* WaveGuardsSound: where every fact arrives one way, the wave solver      *)
(* claims every fact that holds on a path, under a guard that admits the   *)
(* path, although it passes on only the guards that changed, freezes those *)
(* that grow too deep, and enters False for those it finds unsatisfiable.  *)
THEOREM WaveGuardsSound ==
  ASSUME WideGuards, OneWay, LeastOnPaths, FindsPaths, FalseGuards
  PROVE  WaveSpec => []GuardsSound
<1>1. WaveInit => WaveSoundInv
  BY WaveSoundInit
<1>2. WaveSoundInv /\ [WaveNext]_waveVars => WaveSoundInv'
  BY WaveSoundStep
<1>3. WaveSoundInv => GuardsSound
  BY WaveIsSound
<1> QED BY <1>1, <1>2, <1>3, PTL DEF WaveSpec
-----------------------------------------------------------------------------
(* The queries of SingleTrackCondAndersen.  They write to the guarded      *)
(* facts and to the cache while the client reads the answers.              *)

(* What the facts left by the solver say of a variable: the objects it     *)
(* points to under a guard that is not False.                              *)
factsOf(n) == {o \in answer[n] : ~guardIsFalse(guardOf(rep[n], o))}

(* Two variables that share such an object, if the guards allow it.        *)
factsMeet(v, w) ==
  \/ rep[v] = rep[w]
  \/ \E o \in factsOf(v) \cap factsOf(w) :
       LET g == guardOf(rep[v], o)
           h == guardOf(rep[w], o)
       IN  (guardIsTrue(g) /\ guardIsTrue(h)) \/ ~aliasUseSat \/ guardIsSat(guardAnd(g, h))

(* AnswersAreFacts: whatever was asked before, alias() answers what the    *)
(* solver found, and so does getPts, except for the objects that have no   *)
(* entry yet when a const getPts has left a line of the cache: these, and  *)
(* no others, it leaves out.                                               *)
AnswersAreFacts ==
  analysisComplete =>
    /\ \A n \in Node : getPtsAnswer(n) = {o \in factsOf(n) : ~missing(n, o)}
    /\ \A v, w \in Node : aliasAnswer(v, w) <=> factsMeet(v, w)

(* The invariant.  Once finalize has dropped the entries of objects that   *)
(* are not pointed to, an entry that is missing is True, and so is the one *)
(* that synchronising makes; a line of the cache is what the entries there *)
(* are give, synced or not.                                                *)
CacheRight ==
  \A n \in Node : ptsCache[n] # NotCached => ptsCache[n] = pointees(condPtsMap[n])

Queried ==
  /\ pc = "done"
  /\ pts \in [Node -> SUBSET Obj] /\ rep \in [Node -> Node]
  /\ \A n \in Node : rep[rep[n]] = rep[n]
  /\ \A n \in Node, o \in Obj : condPtsMap[rep[n]][o] # NoGuard => o \in pts[rep[n]]
  /\ DOMAIN ptsCache = Node
  /\ CacheRight

TrackInv == IF analysisComplete THEN Queried ELSE WavePreciseInv

(* The solver is at its end.                                               *)
LEMMA SolverStopped == pc = "done" => ~WaveNext
BY DEF WaveNext, waveProcessAddr, processAddr, waveBeginAttach, beginAttach,
       waveAttachStaticEdgeGuard, attachStaticEdgeGuard, waveSCCDetect, SCCDetect,
       waveBeginSCC, beginSCC, waveMergeNodeToRep, waveSweepNode, waveIdle, waveSweepSubNode,
       wavePopFromWorklist, waveVisitSubNode, waveLoadStore, waveHandleCopyGep,
       waveProcessCopy, waveUpdateCallGraph, waveSolved, waveConnectCaller2CalleeParams,
       connectCaller2CalleeParams, wavePushCpySrcNode, pushCpySrcNode, waveFinish

(* Synchronising keeps the guard of every object pointed to, and what the  *)
(* entries will give once synced.                                          *)
LEMMA SyncKeeps ==
  ASSUME NEW nodes, NEW n \in Node
  PROVE  /\ \A o \in pts[n] \cap Obj :
              (IF afterSync(nodes)[n][o] = NoGuard THEN trueGuard ELSE afterSync(nodes)[n][o])
                = guardOf(n, o)
         /\ \A o \in Obj : afterSync(nodes)[n][o] # NoGuard => condPtsMap[n][o] # NoGuard \/ o \in pts[n]
         /\ pointees(synced(n, afterSync(nodes)[n])) = pointees(synced(n, condPtsMap[n]))
         /\ n \in nodes => pointees(afterSync(nodes)[n]) = pointees(synced(n, condPtsMap[n]))
<1> DEFINE m == afterSync(nodes)[n]
<1>1. m = (IF n \in nodes THEN synced(n, condPtsMap[n]) ELSE condPtsMap[n])
  BY DEF afterSync
<1>2. \A o \in Obj : synced(n, condPtsMap[n])[o] =
        (IF condPtsMap[n][o] = NoGuard /\ o \in pts[n] THEN trueGuard ELSE condPtsMap[n][o])
  BY DEF synced
<1> HIDE DEF m
<1>3. \A o \in Obj : synced(n, m)[o] = (IF m[o] = NoGuard /\ o \in pts[n] THEN trueGuard ELSE m[o])
  BY DEF synced
<1>4. \A o \in Obj : synced(n, m)[o] = synced(n, condPtsMap[n])[o]
  BY <1>1, <1>2, <1>3
<1>5. pointees(synced(n, m)) = pointees(synced(n, condPtsMap[n]))
  BY <1>4 DEF pointees
<1>6. \A o \in pts[n] \cap Obj : (IF m[o] = NoGuard THEN trueGuard ELSE m[o]) = guardOf(n, o)
  BY <1>1, <1>2 DEF guardOf
<1>7. \A o \in Obj : m[o] # NoGuard => condPtsMap[n][o] # NoGuard \/ o \in pts[n]
  BY <1>1, <1>2
<1> QED BY <1>1, <1>5, <1>6, <1>7 DEF m

LEMMA TrackInvInit == TrackInit => TrackInv
BY WaveTypeInit, PreciseInit
   DEF TrackInit, TrackInv, WaveInit, Init, PreciseInv, WavePreciseInv, DiffWithin

(* finalize leaves what the queries start from.                            *)
LEMMA FinalizeQueried == TrackInv /\ finalize => Queried'
<1> SUFFICES ASSUME TrackInv, finalize PROVE Queried' OBVIOUS
<1>1. WavePreciseInv /\ pc = "done"
  BY DEF TrackInv, finalize
<1>2. /\ pts \in [Node -> SUBSET Obj] /\ rep \in [Node -> Node]
      /\ \A n \in Node : rep[rep[n]] = rep[n]
  BY <1>1 DEF WavePreciseInv, WaveTypeOK, Within, RepsWithin
<1>3. UNCHANGED <<pc, pts, rep>> /\ ptsCache' = [n \in Node |-> NotCached]
  BY DEF finalize
<1>4. \A n \in Node, o \in Obj : condPtsMap'[rep[n]][o] # NoGuard => o \in pts[rep[n]]
  <2>1. \A n \in Node, o \in Obj :
          condPtsMap'[n][o] = IF o \in answer[n] THEN condPtsMap[n][o] ELSE NoGuard
    BY DEF finalize
  <2> QED BY <1>2, <2>1 DEF answer
<1>5. CacheRight'
  BY <1>3 DEF CacheRight
<1> QED BY <1>1, <1>2, <1>3, <1>4, <1>5 DEF Queried

(* A query leaves the answers' facts alone.                                *)
querySync ==
  /\ UNCHANGED <<pc, pts, rep, analysisComplete>>
  /\ \/ condPtsMap' = condPtsMap
     \/ \E nodes \in SUBSET Node : condPtsMap' = afterSync(nodes)

LEMMA QueryKeepsFacts ==
  ASSUME Queried, querySync
  PROVE  /\ \A n \in Node, o \in Obj : condPtsMap'[rep[n]][o] # NoGuard => o \in pts[rep[n]]
         /\ \A n \in Node, o \in Obj : o \in pts[n] => guardOf(n, o)' = guardOf(n, o)
         /\ \A n \in Node : pointees(synced(n, condPtsMap[n]))' = pointees(synced(n, condPtsMap[n]))
         /\ answer' = answer
<1>1. answer' = answer
  BY DEF querySync, answer
<1>2. CASE condPtsMap' = condPtsMap
  BY <1>1, <1>2 DEF querySync, Queried, guardOf, pointees, synced
<1>3. ASSUME NEW nodes \in SUBSET Node, condPtsMap' = afterSync(nodes)
      PROVE  /\ \A n \in Node, o \in Obj : condPtsMap'[rep[n]][o] # NoGuard => o \in pts[rep[n]]
             /\ \A n \in Node, o \in Obj : o \in pts[n] => guardOf(n, o)' = guardOf(n, o)
             /\ \A n \in Node :
                  pointees(synced(n, condPtsMap[n]))' = pointees(synced(n, condPtsMap[n]))
  <2>1. \A n \in Node, o \in Obj : condPtsMap'[rep[n]][o] # NoGuard => o \in pts[rep[n]]
    BY <1>3, SyncKeeps DEF Queried
  <2>2. \A n \in Node, o \in Obj : o \in pts[n] => guardOf(n, o)' = guardOf(n, o)
    BY <1>3, SyncKeeps DEF guardOf
  <2>3. \A n \in Node : pointees(synced(n, condPtsMap[n]))' = pointees(synced(n, condPtsMap'[n]))
    BY DEF querySync, pointees, synced
  <2>4. \A n \in Node :
          pointees(synced(n, condPtsMap[n]))' = pointees(synced(n, condPtsMap[n]))
    BY <1>3, <2>3, SyncKeeps
  <2> QED BY <2>1, <2>2, <2>4
<1> QED BY <1>1, <1>2, <1>3 DEF querySync
LEMMA TrackInvStep == TrackInv /\ [TrackNext]_trackVars => TrackInv'
<1> SUFFICES ASSUME TrackInv, [TrackNext]_trackVars PROVE TrackInv' OBVIOUS
<1>1. CASE Solve
  <2>1. ~analysisComplete /\ WavePreciseInv /\ WaveNext /\ ~analysisComplete'
    BY <1>1, SolverStopped DEF TrackInv, Queried, Solve
  <2> QED BY <2>1, WavePreciseStep DEF TrackInv
<1>2. CASE finalize
  BY <1>2, FinalizeQueried DEF TrackInv, finalize
<1>3. ASSUME Queried, analysisComplete, querySync, DOMAIN ptsCache' = Node, CacheRight' PROVE TrackInv'
  BY <1>3, QueryKeepsFacts DEF Queried, TrackInv, querySync
<1>4. ASSUME NEW n \in Node, getPts(n) PROVE TrackInv'
  <2>1. Queried /\ analysisComplete /\ rep[n] \in Node
    BY <1>4 DEF TrackInv, getPts, Queried
  <2>2. querySync /\ condPtsMap' = afterSync({rep[n]})
    BY <1>4, <2>1 DEF getPts, querySync
  <2>3. ptsCache'[rep[n]] = pointees(condPtsMap'[rep[n]]) /\ DOMAIN ptsCache' = Node
    BY <1>4, <2>1 DEF getPts, Queried
  <2>4. \A m \in Node \ {rep[n]} : ptsCache'[m] = ptsCache[m] /\ condPtsMap'[m] = condPtsMap[m]
    BY <1>4, <2>1, <2>2 DEF getPts, Queried, afterSync
  <2>5. CacheRight'
    BY <2>1, <2>3, <2>4 DEF Queried, CacheRight, pointees
  <2> QED BY <1>3, <2>1, <2>2, <2>3, <2>5
<1>8. ASSUME NEW n \in Node, constGetPts(n) PROVE TrackInv'
  <2>1. Queried /\ analysisComplete /\ rep[n] \in Node
    BY <1>8 DEF TrackInv, constGetPts, Queried
  <2>2. querySync /\ condPtsMap' = condPtsMap
    BY <1>8, <2>1 DEF constGetPts, waveVars, vars, querySync
  <2>3. /\ ptsCache'[rep[n]] = pointees(condPtsMap[rep[n]]) /\ DOMAIN ptsCache' = Node
        /\ \A m \in Node \ {rep[n]} : ptsCache'[m] = ptsCache[m]
    BY <1>8, <2>1 DEF constGetPts, Queried
  <2>4. CacheRight'
    BY <2>1, <2>2, <2>3 DEF Queried, CacheRight, pointees
  <2> QED BY <1>3, <2>1, <2>2, <2>3, <2>4
<1>5. ASSUME NEW v \in Node, NEW w \in Node, alias(v, w) PROVE TrackInv'
  <2>1. Queried /\ analysisComplete /\ rep[v] \in Node /\ rep[w] \in Node
    BY <1>5 DEF TrackInv, alias, Queried
  <2>2. querySync /\ condPtsMap' = afterSync({rep[v], rep[w]})
    BY <1>5, <2>1 DEF alias, querySync
  <2>3. \A m \in Node : ptsCache'[m] # NotCached =>
          condPtsMap'[m] = condPtsMap[m] /\ ptsCache'[m] = ptsCache[m]
    BY <1>5, <2>2 DEF alias, cacheAfterSync
  <2>4. CacheRight'
    BY <2>1, <2>3 DEF Queried, CacheRight, pointees
  <2>5. DOMAIN ptsCache' = Node
    BY <1>5 DEF alias, cacheAfterSync
  <2> QED BY <1>3, <2>1, <2>2, <2>4, <2>5
<1>6. CASE clearCache
  <2>1. Queried /\ analysisComplete /\ querySync
    BY <1>6 DEF TrackInv, clearCache, waveVars, vars, querySync
  <2>2. CacheRight' /\ DOMAIN ptsCache' = Node
    BY <1>6 DEF clearCache, CacheRight
  <2> QED BY <1>3, <2>1, <2>2
<1>7. CASE UNCHANGED trackVars
  <2>1. UNCHANGED waveVars /\ UNCHANGED <<analysisComplete, ptsCache>>
    BY <1>7 DEF trackVars
  <2>2. WavePreciseInv => WavePreciseInv'
    BY <2>1, WavePreciseStep
  <2>3. Queried => Queried'
    BY <2>1 DEF waveVars, vars, Queried, CacheRight, pointees, synced
  <2> QED BY <2>1, <2>2, <2>3 DEF TrackInv
<1> QED BY <1>1, <1>2, <1>4, <1>5, <1>6, <1>7, <1>8 DEF TrackNext

(* What the two queries answer, from the invariant.                        *)
LEMMA AnswersFromFacts == TrackInv => AnswersAreFacts
<1> SUFFICES ASSUME TrackInv, analysisComplete PROVE AnswersAreFacts
  BY DEF AnswersAreFacts
<1>1. Queried
  BY DEF TrackInv
<1>2. ASSUME NEW n \in Node
      PROVE  pointees(synced(rep[n], condPtsMap[rep[n]])) = factsOf(n)
  <2>1. /\ rep[n] \in Node /\ answer[n] = pts[rep[n]] /\ pts[rep[n]] \subseteq Obj
        /\ \A o \in Obj : condPtsMap[rep[n]][o] # NoGuard => o \in pts[rep[n]]
    BY <1>1 DEF Queried, answer
  <2>2. \A o \in Obj :
          synced(rep[n], condPtsMap[rep[n]])[o] =
            IF condPtsMap[rep[n]][o] = NoGuard /\ o \in pts[rep[n]]
            THEN trueGuard ELSE condPtsMap[rep[n]][o]
    BY DEF synced
  <2>3. \A o \in Obj :
          /\ synced(rep[n], condPtsMap[rep[n]])[o] # NoGuard <=> o \in pts[rep[n]]
          /\ o \in pts[rep[n]] => synced(rep[n], condPtsMap[rep[n]])[o] = guardOf(rep[n], o)
    BY <2>1, <2>2, QueryAssumption DEF guardOf
  <2> QED BY <2>1, <2>3 DEF pointees, factsOf
<1>3. ASSUME NEW n \in Node PROVE getPtsAnswer(n) = {o \in factsOf(n) : ~missing(n, o)}
  <2>1. CASE ptsCache[rep[n]] = NotCached
    BY <1>2, <2>1 DEF getPtsAnswer, missing
  <2>2. CASE ptsCache[rep[n]] # NotCached
    <3>1. /\ rep[n] \in Node /\ answer[n] = pts[rep[n]] /\ pts[rep[n]] \subseteq Obj
          /\ \A o \in Obj : condPtsMap[rep[n]][o] # NoGuard => o \in pts[rep[n]]
      BY <1>1 DEF Queried, answer
    <3>2. getPtsAnswer(n) = pointees(condPtsMap[rep[n]])
      BY <1>1, <2>2, <3>1 DEF Queried, CacheRight, getPtsAnswer
    <3>3. \A o \in Obj : condPtsMap[rep[n]][o] # NoGuard => condPtsMap[rep[n]][o] = guardOf(rep[n], o)
      BY DEF guardOf
    <3> QED BY <2>2, <3>1, <3>2, <3>3 DEF pointees, factsOf, missing
  <2> QED BY <2>1, <2>2
<1>4. ASSUME NEW v \in Node, NEW w \in Node PROVE aliasAnswer(v, w) <=> factsMeet(v, w)
  <2> DEFINE m == afterSync({rep[v], rep[w]})
  <2>1. /\ rep[v] \in Node /\ rep[w] \in Node
        /\ answer[v] = pts[rep[v]] /\ answer[w] = pts[rep[w]]
        /\ pts[rep[v]] \subseteq Obj /\ pts[rep[w]] \subseteq Obj
    BY <1>1 DEF Queried, answer
  <2>2. pointees(m[rep[v]]) = factsOf(v) /\ pointees(m[rep[w]]) = factsOf(w)
    BY <1>2, <2>1, SyncKeeps
  <2>3. /\ \A o \in pointees(m[rep[v]]) : m[rep[v]][o] = guardOf(rep[v], o)
        /\ \A o \in pointees(m[rep[w]]) : m[rep[w]][o] = guardOf(rep[w], o)
    <3>1. /\ \A o \in pts[rep[v]] : (IF m[rep[v]][o] = NoGuard THEN trueGuard ELSE m[rep[v]][o])
                                   = guardOf(rep[v], o)
          /\ \A o \in pts[rep[w]] : (IF m[rep[w]][o] = NoGuard THEN trueGuard ELSE m[rep[w]][o])
                                   = guardOf(rep[w], o)
      <4>1. ASSUME NEW n \in Node
            PROVE  \A o \in pts[n] \cap Obj :
                     (IF m[n][o] = NoGuard THEN trueGuard ELSE m[n][o]) = guardOf(n, o)
        BY SyncKeeps
      <4> HIDE DEF m
      <4> QED BY <2>1, <4>1
    <3>2. /\ \A o \in pointees(m[rep[v]]) : m[rep[v]][o] # NoGuard /\ o \in pts[rep[v]]
          /\ \A o \in pointees(m[rep[w]]) : m[rep[w]][o] # NoGuard /\ o \in pts[rep[w]]
      <4>1. pointees(m[rep[v]]) \subseteq pts[rep[v]] /\ pointees(m[rep[w]]) \subseteq pts[rep[w]]
        BY <2>1, <2>2 DEF factsOf
      <4> HIDE DEF m
      <4> QED BY <4>1 DEF pointees
    <3> QED BY <3>1, <3>2
  <2> HIDE DEF m
  <2>4. mayAliasOn(m, rep[v], rep[w]) <=>
          \E o \in factsOf(v) \cap factsOf(w) :
            LET g == guardOf(rep[v], o)
                h == guardOf(rep[w], o)
            IN  (guardIsTrue(g) /\ guardIsTrue(h)) \/ ~aliasUseSat \/ guardIsSat(guardAnd(g, h))
    BY <2>2, <2>3 DEF mayAliasOn
  <2> QED BY <2>4 DEF aliasAnswer, factsMeet, m
<1> QED BY <1>3, <1>4 DEF AnswersAreFacts

(* TrackedAnswers: in every state that any sequence of queries leads to,   *)
(* alias() answers what the solver found, and getPts does, but for objects *)
(* without an entry in a line that a const getPts left (AnswersAreFacts).  *)
THEOREM TrackedAnswers == TrackSpec => []AnswersAreFacts
BY TrackInvInit, TrackInvStep, AnswersFromFacts, PTL DEF TrackSpec

(* What the solver found does not change once it is final.                 *)
LEMMA FactsFixed ==
  ASSUME TrackInv, [TrackNext]_trackVars, analysisComplete
  PROVE  /\ analysisComplete' /\ prog' = prog /\ rep' = rep /\ answer' = answer
         /\ \A n \in Node : \A o \in answer[n] : guardOf(rep[n], o)' = guardOf(rep[n], o)
         /\ \A n \in Node : factsOf(n)' = factsOf(n)
         /\ \A v, w \in Node : factsMeet(v, w)' <=> factsMeet(v, w)
<1>1. Queried /\ ~WaveNext
  BY SolverStopped DEF TrackInv, Queried
<1>2. querySync /\ prog' = prog /\ analysisComplete'
  <2>1. CASE \E n \in Node : getPts(n)
    BY <1>1, <2>1 DEF getPts, querySync, Queried
  <2>2. CASE \E v, w \in Node : alias(v, w)
    BY <1>1, <2>2 DEF alias, querySync, Queried
  <2>3. CASE clearCache \/ UNCHANGED trackVars \/ \E n \in Node : constGetPts(n)
    BY <2>3 DEF clearCache, constGetPts, trackVars, waveVars, vars, querySync
  <2> QED BY <1>1, <2>1, <2>2, <2>3 DEF TrackNext, Solve, finalize
<1>3. /\ rep' = rep /\ answer' = answer
      /\ \A n \in Node : rep[n] \in Node /\ answer[n] = pts[rep[n]] /\ pts[rep[n]] \subseteq Obj
  BY <1>1, <1>2, QueryKeepsFacts DEF querySync, Queried, answer
<1>4. \A n \in Node : \A o \in answer[n] : guardOf(rep[n], o)' = guardOf(rep[n], o)
  <2>1. \A n \in Node, o \in Obj : o \in pts[n] => guardOf(n, o)' = guardOf(n, o)
    BY <1>1, <1>2, QueryKeepsFacts
  <2> QED BY <1>3, <2>1 DEF guardOf
<1>5. \A n \in Node : factsOf(n)' = factsOf(n)
  BY <1>3, <1>4 DEF factsOf
<1>6. \A v, w \in Node : factsMeet(v, w)' <=> factsMeet(v, w)
  <2>1. \A v, w \in Node : \A o \in factsOf(v) \cap factsOf(w) :
          guardOf(rep[v], o)' = guardOf(rep[v], o) /\ guardOf(rep[w], o)' = guardOf(rep[w], o)
    BY <1>4 DEF factsOf
  <2> QED BY <1>3, <1>5, <2>1 DEF factsMeet
<1> QED BY <1>2, <1>3, <1>4, <1>5, <1>6

(* Only a const getPts makes a line of the cache lack anything.            *)
LEMMA MissingByConst ==
  ASSUME TrackInv, [TrackNext]_trackVars, analysisComplete, NEW n \in Node, NEW o \in pts[rep[n]],
         missing(n, o)'
  PROVE  missing(n, o) \/ \E m \in Node : constGetPts(m) /\ rep[m] = rep[n]
<1>1. Queried /\ ~WaveNext /\ rep[n] \in Node /\ o \in Obj
  BY SolverStopped DEF TrackInv, Queried
<1>2. rep' = rep /\ ptsCache'[rep[n]] # NotCached /\ condPtsMap'[rep[n]][o] = NoGuard
  <2>1. rep' = rep
    BY FactsFixed
  <2> QED BY <2>1 DEF missing
<1>3. CASE \E m \in Node : getPts(m)
  <2>1. PICK m \in Node : getPts(m)
    BY <1>3
  <2>2. condPtsMap' = afterSync({rep[m]}) /\ rep[m] \in Node
    BY <1>1, <2>1 DEF getPts, Queried
  <2>3. rep[m] # rep[n]
    BY <1>1, <1>2, <2>2, QueryAssumption DEF afterSync, synced
  <2>4. ptsCache'[rep[n]] = ptsCache[rep[n]] /\ condPtsMap'[rep[n]] = condPtsMap[rep[n]]
    BY <1>1, <2>1, <2>2, <2>3 DEF getPts, Queried, afterSync
  <2> QED BY <1>2, <2>4 DEF missing
<1>4. CASE \E m \in Node : constGetPts(m)
  <2>1. PICK m \in Node : constGetPts(m)
    BY <1>4
  <2>2. condPtsMap' = condPtsMap
    BY <2>1 DEF constGetPts, waveVars, vars
  <2>3. CASE rep[m] # rep[n]
    <3>1. ptsCache'[rep[n]] = ptsCache[rep[n]]
      BY <1>1, <2>1, <2>3 DEF constGetPts, Queried
    <3> QED BY <1>2, <2>2, <3>1 DEF missing
  <2> QED BY <2>1, <2>3
<1>5. CASE \E v, w \in Node : alias(v, w)
  <2>1. PICK v \in Node, w \in Node : alias(v, w)
    BY <1>5
  <2>2. ptsCache'[rep[n]] = ptsCache[rep[n]] /\ condPtsMap'[rep[n]] = condPtsMap[rep[n]]
    BY <1>1, <1>2, <2>1 DEF alias, cacheAfterSync
  <2> QED BY <1>2, <2>2 DEF missing
<1>6. CASE clearCache \/ UNCHANGED trackVars
  BY <1>1, <1>2, <1>6 DEF clearCache, trackVars, waveVars, vars, missing
<1> QED BY <1>1, <1>3, <1>4, <1>5, <1>6 DEF TrackNext, Solve, finalize

(* Without cache and synchronisation the answers are exact.                *)
FactsExact == \A n \in Node, o \in Obj : o \in factsOf(n) <=> holdsOnSomePath(n, o)

(* OnlyConstGetPtsDenies: once the solver is done, no query changes an     *)
(* answer of alias(), and none but a const getPts of the variable makes    *)
(* getPts name fewer objects; so an exact alias() (TrackedAliasExact)      *)
(* stays so for good, and facts that are exact, which PtsExact says while  *)
(* nothing is cached, keep getPts exact (PtsExact) for good.               *)
THEOREM OnlyConstGetPtsDenies ==
  TrackSpec =>
    [][analysisComplete =>
         /\ \A n \in Node :
              \/ getPtsAnswer(n) \subseteq getPtsAnswer(n)'
              \/ \E m \in Node : constGetPts(m) /\ rep[m] = rep[n]
         /\ \A v, w \in Node : aliasAnswer(v, w)' <=> aliasAnswer(v, w)
         /\ FactsExact => FactsExact' /\ PtsExact'
         /\ TrackedAliasExact => TrackedAliasExact']_trackVars
<1> DEFINE Kept ==
      analysisComplete =>
         /\ \A n \in Node :
              \/ getPtsAnswer(n) \subseteq getPtsAnswer(n)'
              \/ \E m \in Node : constGetPts(m) /\ rep[m] = rep[n]
         /\ \A v, w \in Node : aliasAnswer(v, w)' <=> aliasAnswer(v, w)
         /\ FactsExact => FactsExact' /\ PtsExact'
         /\ TrackedAliasExact => TrackedAliasExact'
<1>1. ASSUME TrackInv, [TrackNext]_trackVars PROVE Kept
  <2> SUFFICES ASSUME analysisComplete PROVE Kept
    OBVIOUS
  <2>1. Queried /\ AnswersAreFacts /\ AnswersAreFacts'
    <3>1. TrackInv'
      BY <1>1, TrackInvStep
    <3>2. TrackInv' => AnswersAreFacts'
      BY AnswersFromFacts, PTL
    <3> QED BY <1>1, <3>1, <3>2, AnswersFromFacts DEF TrackInv
  <2>2. /\ analysisComplete' /\ prog' = prog /\ rep' = rep
        /\ \A n \in Node : factsOf(n)' = factsOf(n)
        /\ \A v, w \in Node : factsMeet(v, w)' <=> factsMeet(v, w)
    BY <1>1, FactsFixed
  <2>3. \A n \in Node :
          /\ getPtsAnswer(n) = {o \in factsOf(n) : ~missing(n, o)}
          /\ getPtsAnswer(n)' = {o \in factsOf(n) : ~missing(n, o)'}
    <3>1. \A n \in Node : getPtsAnswer(n)' = {o \in factsOf(n)' : ~missing(n, o)'}
      BY <2>1, <2>2 DEF AnswersAreFacts
    <3> QED BY <2>1, <2>2, <3>1 DEF AnswersAreFacts
  <2>4. \A v, w \in Node : aliasAnswer(v, w)' <=> aliasAnswer(v, w)
    BY <2>1, <2>2 DEF AnswersAreFacts
  <2>5. ASSUME NEW n \in Node, ~(\E m \in Node : constGetPts(m) /\ rep[m] = rep[n])
        PROVE  getPtsAnswer(n) \subseteq getPtsAnswer(n)'
    <3>1. factsOf(n) \subseteq pts[rep[n]]
      BY DEF factsOf, answer
    <3>2. \A o \in factsOf(n) : missing(n, o)' => missing(n, o)
      BY <1>1, <2>5, <3>1, MissingByConst
    <3> QED BY <2>3, <3>2
  <2>6. FactsExact => FactsExact' /\ PtsExact'
    <3>1. \A n \in Node, o \in Obj : holdsOnSomePath(n, o)' <=> holdsOnSomePath(n, o)
      BY <2>2 DEF holdsOnSomePath
    <3> QED BY <2>2, <2>3, <3>1 DEF FactsExact, PtsExact
  <2>7. TrackedAliasExact => TrackedAliasExact'
    BY <2>2, <2>4 DEF TrackedAliasExact, someObjectOnPath
  <2> QED BY <2>4, <2>5, <2>6, <2>7
<1>2. TrackInv /\ [TrackNext]_trackVars => [Kept]_trackVars
  BY <1>1
<1> QED BY <1>2, TrackInvInit, TrackInvStep, PTL DEF TrackSpec
-----------------------------------------------------------------------------
(* What the answers mean: but for the objects missing from a line that a   *)
(* const getPts left, they are the facts the wave solver leaves behind,    *)
(* and as sound as those (WaveGuardsSound).                                *)
NothingDenied ==
  analysisComplete =>
    /\ \A n \in Node, o \in Obj : holdsOnSomePath(n, o) => o \in getPtsAnswer(n) \/ missing(n, o)
    /\ \A v, w \in Node : (\E path \in Path : someObjectOnPath(v, w, path)) => aliasAnswer(v, w)

FactsFinal ==
  /\ \A n \in Node : \A o \in answer[n] : guardOf(rep[n], o) \in Guards
  /\ \A path \in Path, n \in Node : \A o \in SolOn(path)[n] :
       o \in answer[n] /\ path \in Admits(guardOf(rep[n], o))

TrackSoundInv ==
  /\ TrackInv
  /\ IF analysisComplete THEN FactsFinal ELSE WaveSoundInv

(* finalize drops no entry of an object that is pointed to.                *)
LEMMA FinalizeSound ==
  ASSUME WaveSoundInv, WideGuards, LeastOnPaths, finalize
  PROVE  FactsFinal'
<1>1. GuardsSound /\ pc = "done" /\ prog \in Programs /\ pts \in [Node -> SUBSET Obj]
  BY WaveIsSound, WaveWideGraph DEF finalize
<1>2. /\ \A n \in Node : rep[n] = n
      /\ \A n \in Node, o \in Obj : guardOf(n, o) \in Guards
  BY WaveWideGraph DEF NoMerges, Wide, WidelyTyped, guardOf, WideGuards
<1>3. /\ UNCHANGED <<prog, pts, rep>> /\ answer' = answer
      /\ \A n \in Node : answer[n] = pts[n]
  BY <1>2 DEF finalize, answer
<1>4. ASSUME NEW n \in Node, NEW o \in answer[n]
      PROVE  guardOf(rep[n], o)' = guardOf(rep[n], o) /\ guardOf(rep[n], o) \in Guards
  <2>1. o \in Obj /\ condPtsMap'[n][o] = condPtsMap[n][o]
    BY <1>1, <1>3, <1>4 DEF finalize
  <2> QED BY <1>2, <1>3, <2>1 DEF guardOf
<1>5. \A path \in Path, n \in Node : \A o \in SolOn(path)[n] :
        o \in answer[n] /\ path \in Admits(guardOf(rep[n], o))
  BY <1>1 DEF GuardsSound, SolOn
<1> QED BY <1>3, <1>4, <1>5 DEF FactsFinal, SolOn

(* finalize and the queries leave what is claimed as sound as it was.      *)
LEMMA TrackSoundStep ==
  ASSUME WideGuards, OneWay, LeastOnPaths, FindsPaths, FalseGuards,
         TrackSoundInv, [TrackNext]_trackVars
  PROVE  TrackSoundInv'
<1>1. TrackInv /\ TrackInv'
  BY TrackInvStep DEF TrackSoundInv
<1>2. CASE analysisComplete
  <2>1. /\ analysisComplete' /\ prog' = prog /\ rep' = rep /\ answer' = answer
        /\ \A n \in Node : \A o \in answer[n] : guardOf(rep[n], o)' = guardOf(rep[n], o)
    BY <1>1, <1>2, FactsFixed
  <2>2. FactsFinal
    BY <1>2 DEF TrackSoundInv
  <2>3. FactsFinal'
    BY <2>1, <2>2 DEF FactsFinal, SolOn
  <2> QED BY <1>1, <2>1, <2>3 DEF TrackSoundInv
<1>3. CASE ~analysisComplete
  <2>1. WaveSoundInv
    BY <1>3 DEF TrackSoundInv
  <2>2. CASE finalize
    <3>1. FactsFinal' /\ analysisComplete'
      BY <2>1, <2>2, FinalizeSound DEF finalize
    <3> QED BY <1>1, <3>1 DEF TrackSoundInv
  <2>3. CASE Solve \/ UNCHANGED trackVars
    <3>1. [WaveNext]_waveVars /\ analysisComplete' = analysisComplete
      BY <2>3 DEF Solve, trackVars
    <3>2. WaveSoundInv'
      BY <2>1, <3>1, WaveSoundStep
    <3> QED BY <1>1, <1>3, <3>1, <3>2 DEF TrackSoundInv
  <2> QED BY <1>3, <2>2, <2>3 DEF TrackNext, getPts, constGetPts, alias, clearCache
<1> QED BY <1>2, <1>3

(* What the final facts say of two variables with a common object.         *)
LEMMA SharedObject ==
  ASSUME WideGuards, FalseGuards, FactsFinal, NEW v \in Node, NEW w \in Node,
         NEW path \in Path, someObjectOnPath(v, w, path)
  PROVE  \E o \in factsOf(v) \cap factsOf(w) :
           /\ guardAnd(guardOf(rep[v], o), guardOf(rep[w], o)) \in Guards
           /\ path \in Admits(guardAnd(guardOf(rep[v], o), guardOf(rep[w], o)))
<1>1. PICK o : o \in SolOn(path)[v] /\ o \in SolOn(path)[w]
  BY DEF someObjectOnPath, SolOn
<1> DEFINE g == guardOf(rep[v], o)
           h == guardOf(rep[w], o)
<1>2. /\ o \in answer[v] /\ g \in Guards /\ path \in Admits(g)
      /\ o \in answer[w] /\ h \in Guards /\ path \in Admits(h)
  BY <1>1 DEF FactsFinal
<1>3. o \in factsOf(v) \cap factsOf(w)
  BY <1>2 DEF factsOf, FalseGuards
<1> HIDE DEF g, h
<1>4. guardAnd(g, h) \in Guards /\ path \in Admits(guardAnd(g, h))
  BY <1>2 DEF WideGuards
<1> QED BY <1>3, <1>4 DEF g, h

(* So no query denies what some path produces.                             *)
LEMMA FinalDeniesNothing ==
  ASSUME TrackSoundInv, WideGuards, FindsPaths, FalseGuards
  PROVE  NothingDenied
<1> SUFFICES ASSUME analysisComplete PROVE NothingDenied
  BY DEF NothingDenied
<1>1. FactsFinal /\ AnswersAreFacts
  BY AnswersFromFacts DEF TrackSoundInv
<1>2. ASSUME NEW n \in Node, NEW o \in Obj, holdsOnSomePath(n, o)
      PROVE  o \in getPtsAnswer(n) \/ missing(n, o)
  <2>1. PICK path \in Path : o \in SolOn(path)[n]
    BY <1>2 DEF holdsOnSomePath, SolOn
  <2>2. o \in factsOf(n)
    BY <1>1, <2>1 DEF FactsFinal, factsOf, FalseGuards
  <2> QED BY <1>1, <2>2 DEF AnswersAreFacts
<1>3. ASSUME NEW v \in Node, NEW w \in Node, NEW path \in Path, someObjectOnPath(v, w, path)
      PROVE  aliasAnswer(v, w)
  <2>1. factsMeet(v, w)
    BY <1>1, <1>3, SharedObject DEF factsMeet, FindsPaths
  <2> QED BY <1>1, <2>1 DEF AnswersAreFacts
<1> QED BY <1>2, <1>3 DEF NothingDenied

(* TrackedSound: no query denies what some path produces.  getPts names    *)
(* every object that the variable holds on some path, although it filters  *)
(* those entered as False, unless a const getPts left a line and the       *)
(* object has no entry yet; and alias() reports every alias of some path,  *)
(* in every state that any sequence of queries leads to.                   *)
THEOREM TrackedSound ==
  ASSUME WideGuards, OneWay, LeastOnPaths, FindsPaths, FalseGuards
  PROVE  TrackSpec => []NothingDenied
<1>1. TrackInit => TrackSoundInv
  BY TrackInvInit, WaveSoundInit DEF TrackInit, TrackSoundInv
<1>2. TrackSoundInv /\ [TrackNext]_trackVars => TrackSoundInv'
  BY TrackSoundStep
<1>3. TrackSoundInv => NothingDenied
  BY FinalDeniesNothing
<1> QED BY <1>1, <1>2, <1>3, PTL DEF TrackSpec

(* Paths are told apart: two guards that are satisfiable together admit a  *)
(* path together, and the program has a path.                              *)
PathsDecided ==
  /\ Path # {}
  /\ \A g, h \in Guards :
       guardIsSat(guardAnd(g, h)) => \E path \in Path : path \in Admits(g) /\ path \in Admits(h)

(* TrackedAliasIsExact: alias() is exact (TrackedAliasExact) whenever the  *)
(* facts it reads claim nothing too much (FactsJustified): syncing, the    *)
(* filter for False and the shortcut for two guards that are True cost it  *)
(* no precision.                                                           *)
THEOREM TrackedAliasIsExact ==
  ASSUME WideGuards, OneWay, LeastOnPaths, FindsPaths, FalseGuards, PathsDecided, aliasUseSat
  PROVE  TrackSpec => [](FactsJustified => TrackedAliasExact)
<1>1. ASSUME TrackSoundInv, FactsJustified, analysisComplete,
             NEW v \in Node, NEW w \in Node, rep[v] # rep[w], aliasAnswer(v, w)
      PROVE  \E path \in Path : someObjectOnPath(v, w, path)
  <2>1. FactsFinal /\ AnswersAreFacts
    BY <1>1, AnswersFromFacts DEF TrackSoundInv
  <2>2. factsMeet(v, w)
    BY <1>1, <2>1 DEF AnswersAreFacts
  <2>3. PICK o \in factsOf(v) \cap factsOf(w) :
          \/ guardIsTrue(guardOf(rep[v], o)) /\ guardIsTrue(guardOf(rep[w], o))
          \/ guardIsSat(guardAnd(guardOf(rep[v], o), guardOf(rep[w], o)))
    BY <1>1, <2>2 DEF factsMeet
  <2> DEFINE g == guardOf(rep[v], o)
             h == guardOf(rep[w], o)
  <2>4. o \in answer[v] /\ o \in answer[w] /\ g \in Guards /\ h \in Guards
    BY <2>1 DEF factsOf, FactsFinal
  <2>5. PICK path \in Path : path \in Admits(g) /\ path \in Admits(h)
    BY <2>3, <2>4 DEF PathsDecided, WideGuards
  <2>6. o \in PathSolution(prog, path)[v] /\ o \in PathSolution(prog, path)[w]
    BY <1>1, <2>4, <2>5 DEF FactsJustified
  <2> QED BY <2>6 DEF someObjectOnPath
<1>2. TrackSoundInv => (FactsJustified => TrackedAliasExact)
  BY <1>1, FinalDeniesNothing DEF TrackedAliasExact, NothingDenied
<1>3. TrackInit => TrackSoundInv
  BY TrackInvInit, WaveSoundInit DEF TrackInit, TrackSoundInv
<1>4. TrackSoundInv /\ [TrackNext]_trackVars => TrackSoundInv'
  BY TrackSoundStep
<1> QED BY <1>2, <1>3, <1>4, PTL DEF TrackSpec
=============================================================================
