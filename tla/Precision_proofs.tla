-------------------------- MODULE Precision_proofs --------------------------
(***************************************************************************)
(* What holds of the solver for every program, every set of nodes and      *)
(* objects, every guard algebra and every choice of options: it is type    *)
(* correct (TypeOK), it never leaves the bounds of a solution of the       *)
(* constraints (Precise), whatever it merges, resolves and derives and in  *)
(* whatever order, and it keeps guards only where they mean something      *)
(* (EntriesWithinPts).                                                     *)
(***************************************************************************)
EXTENDS CondAndersen, TLAPS

-----------------------------------------------------------------------------
(* What the graph operations leave in the constraint graph.                *)

(* Moving one end of an edge to another node gives an edge.                *)
LEMMA MovedIsEdge ==
  ASSUME NEW e \in Edge, NEW n \in Node, NEW r \in Node, NEW end \in {"src", "dst"}
  PROVE  moved(e, end, n, r) \in Edge
BY DEF moved, Edge

(* addCopyCGEdge adds the edges asked for, except loops, and keeps the     *)
(* rest.                                                                   *)
LEMMA AddCopyEdgesDomain ==
  ASSUME NEW g, NEW E
  PROVE  \A e : e \in DOMAIN addCopyEdges(g, E)
                <=> e \in DOMAIN g \/ (e \in E /\ e.src # e.dst)
BY DEF addCopyEdges

(* Merging a guard neither adds nor drops an edge.                         *)
LEMMA MergeEdgeGuardDomain ==
  ASSUME NEW g, NEW e, NEW guard
  PROVE  DOMAIN mergeEdgeGuard(g, e, guard) = DOMAIN g
BY DEF mergeEdgeGuard

(* Every edge after retargeting is an edge from before, perhaps moved,     *)
(* and no copy from a node to itself is left.                              *)
LEMMA ReTargetDomain ==
  ASSUME NEW g, NEW end, NEW n, NEW r
  PROVE  \A e \in DOMAIN reTarget(g, end, n, r) :
           /\ \E f \in DOMAIN g : e = moved(f, end, n, r)
           /\ e.kind = "copy" => e.src # e.dst
BY DEF reTarget

(* Retargeting keeps a graph of edges a graph of edges.                    *)
LEMMA ReTargetEdges ==
  ASSUME NEW g, DOMAIN g \subseteq Edge,
         NEW n \in Node, NEW r \in Node, NEW end \in {"src", "dst"}
  PROVE  DOMAIN reTarget(g, end, n, r) \subseteq Edge
BY ReTargetDomain, MovedIsEdge

(* The worklist stays a sequence of nodes.                                 *)
LEMMA PushIsSeq ==
  ASSUME NEW w \in Seq(Node), NEW n \in Node, rep \in [Node -> Node]
  PROVE  push(w, n) \in Seq(Node)
BY DEF push

(* What the assumptions say of the program under analysis.                 *)
LEMMA ProgramFacts ==
  ASSUME prog \in Programs
  PROVE  /\ IsProgram(prog)
         /\ Solution(prog) \in [Node -> SUBSET Obj]
         /\ IsSolution(prog, Solution(prog))
         /\ Obj \subseteq Node
BY ConstraintsAssumption

-----------------------------------------------------------------------------
(* Type correctness.                                                       *)

(* The solver starts well formed.                                          *)
LEMMA TypeInit == Init => TypeOK
<1> SUFFICES ASSUME Init PROVE TypeOK OBVIOUS
<1>1. Node # {} BY ConstraintsAssumption
<1>2. cur \in Node BY <1>1 DEF Init
<1>3. DOMAIN consCG \subseteq Edge
  <2>1. DOMAIN consCG = {edge(s.kind, s.src, s.dst) :
          s \in {t \in prog.stmts : t.kind = "copy" => t.src # t.dst}}
    BY DEF Init
  <2>2. \A s \in prog.stmts : edge(s.kind, s.src, s.dst) \in Edge
    BY ProgramFacts DEF Init, IsProgram, IsStmt
  <2> QED BY <2>1, <2>2
<1> QED BY <1>2, <1>3 DEF Init, TypeOK, noEntries

(* Every handler keeps the solver well formed.                             *)
LEMMA TypeStep == TypeOK /\ [Next]_vars => TypeOK'
<1> SUFFICES ASSUME TypeOK, [Next]_vars PROVE TypeOK' OBVIOUS
<1>a. /\ IsProgram(prog) /\ Obj \subseteq Node
      /\ prog \in Programs
  BY ProgramFacts DEF TypeOK
<1>1. ASSUME NEW a \in todo, processAddr(a) PROVE TypeOK'
  <2>1. a[1] \in Obj /\ a[2] \in Node
    BY <1>1, <1>a DEF TypeOK, processAddr, IsProgram
  <2> QED BY <1>1, <2>1, PushIsSeq DEF TypeOK, processAddr, edges
<1>2. CASE beginAttach
  BY <1>2 DEF TypeOK, beginAttach
<1>3. ASSUME NEW s \in todo, attachStaticEdgeGuard(s) PROVE TypeOK'
  BY <1>3, MergeEdgeGuardDomain DEF TypeOK, attachStaticEdgeGuard
<1>4. CASE SCCDetect
  BY <1>4 DEF TypeOK, SCCDetect, reachable, live
<1>5. ASSUME NEW r \in todo, beginSCC(r) PROVE TypeOK'
  <2>1. r \in Node /\ scc(r, reach) \subseteq Node
    BY <1>5 DEF TypeOK, beginSCC, scc
  <2>2. subs' \subseteq Node \X Node
    BY <1>5, <2>1 DEF beginSCC
  <2> QED BY <1>5, <2>2 DEF TypeOK, beginSCC
<1>6. ASSUME NEW p \in subs, mergeNodeToRep(p[1], p[2]) PROVE TypeOK'
  <2>1. p[1] \in Node /\ p[2] \in Node
    BY DEF TypeOK
  <2>2. DOMAIN consCG' \subseteq Edge
    BY <1>6, <2>1, ReTargetEdges DEF TypeOK, mergeNodeToRep, moveEdgesToRepNode
  <2> QED BY <1>6, <2>1, <2>2 DEF TypeOK, mergeNodeToRep, noEntries
<1>7. ASSUME NEW r \in nodeStack, sweepNode(r) PROVE TypeOK'
  BY <1>7 DEF TypeOK, sweepNode, processNode, through, edges
<1>8. CASE popFromWorklist
  <2>1. Head(worklist) \in Node /\ worklist' \in Seq(Node)
    BY <1>8 DEF TypeOK, popFromWorklist
  <2> QED BY <1>8, <2>1 DEF TypeOK, popFromWorklist, processNode, through, edges
<1>9. ASSUME NEW t \in todo, processLoadStore(t[1], t[2]), pc = "loadstore"
      PROVE  TypeOK'
  <2> DEFINE o == t[1]
             e == t[2]
             new == derivedEdge(o, e)
             added == addCopyEdges(consCG, IF o \in ConstObj THEN {} ELSE {new})
  <2>1. o \in Obj /\ e \in Edge /\ o \in Node
    BY <1>9, <1>a DEF TypeOK, edges
  <2>2. new \in Edge /\ new.src \in Node
    BY <2>1 DEF TypeOK, derivedEdge, edge, Edge
  <2>3. DOMAIN added \subseteq Edge /\ DOMAIN consCG \subseteq DOMAIN added
    BY <2>2, AddCopyEdgesDomain DEF TypeOK
  <2>4. DOMAIN consCG' = DOMAIN added
    BY <1>9, MergeEdgeGuardDomain DEF processLoadStore
  <2>5. worklist' \in Seq(Node)
    BY <1>9, <2>2, PushIsSeq DEF TypeOK, processLoadStore
  <2>6. todo' \subseteq Obj \X (edges("load") \cup edges("store"))'
    BY <1>9, <2>3, <2>4 DEF TypeOK, processLoadStore, edges
  <2> QED BY <1>9, <2>3, <2>4, <2>5, <2>6 DEF TypeOK, processLoadStore
<1>10. CASE handleCopyGep
  BY <1>10 DEF TypeOK, handleCopyGep, edges
<1>11. ASSUME NEW e \in todo, processCopy(e) PROVE TypeOK'
  <2>1. e \in Edge /\ e.src \in Node /\ e.dst \in Node
    BY <1>11 DEF TypeOK, processCopy, edges, Edge
  <2>2. worklist' \in Seq(Node)
    BY <1>11, <2>1, PushIsSeq DEF TypeOK, processCopy
  <2>3. pts' \in [Node -> SUBSET Obj]
    BY <1>11, <2>1 DEF TypeOK, processCopy
  <2>4. DOMAIN condPtsMap' = Node /\ \A n \in Node : DOMAIN condPtsMap'[n] = Obj
    BY <1>11, <2>1 DEF TypeOK, processCopy
  <2> QED BY <1>11, <2>2, <2>3, <2>4 DEF TypeOK, processCopy, edges
<1>12. CASE updateCallGraph
  BY <1>12 DEF TypeOK, updateCallGraph, newCalls
<1>13. ASSUME NEW c \in todo, connectCaller2CalleeParams(c) PROVE TypeOK'
  <2> DEFINE added == addCopyEdges(consCG, boundEdges(c))
  <2>1. boundEdges(c) \subseteq Edge
    BY <1>13, <1>a DEF TypeOK, connectCaller2CalleeParams, boundEdges, edge, Edge,
                       IsProgram, IsCall
  <2>2. DOMAIN added \subseteq Edge
    BY <2>1, AddCopyEdgesDomain DEF TypeOK
  <2>3. DOMAIN consCG' = DOMAIN added
    BY <1>13 DEF connectCaller2CalleeParams
  <2>4. cpySrcNodes' \subseteq Node
    BY <1>13, <2>2 DEF TypeOK, connectCaller2CalleeParams, Edge
  <2> QED BY <1>13, <2>2, <2>3, <2>4 DEF TypeOK, connectCaller2CalleeParams
<1>14. ASSUME NEW n \in cpySrcNodes, pushCpySrcNode(n) PROVE TypeOK'
  BY <1>14, PushIsSeq DEF TypeOK, pushCpySrcNode
<1>15. CASE finish
  BY <1>15 DEF TypeOK, finish, solved, idle
<1>16. CASE UNCHANGED vars
  BY <1>16 DEF TypeOK, vars, edges
<1> QED
  BY <1>1, <1>2, <1>3, <1>4, <1>5, <1>6, <1>7, <1>8, <1>9, <1>10, <1>11, <1>12,
     <1>13, <1>14, <1>15, <1>16 DEF Next, processLoad, processStore

(* TypeCorrect: whatever the program, the guards and the options, every    *)
(* handler leaves the solver's state well formed; in particular each loop  *)
(* is only ever left with edges, statements or calls of the kind it visits. *)
THEOREM TypeCorrect == Spec => []TypeOK
BY TypeInit, TypeStep, PTL DEF Spec

-----------------------------------------------------------------------------
(* Precise is not inductive.  A fact moves along an edge, so every edge of *)
(* the graph must be one the solution respects; a merged node answers with *)
(* its representative's facts, so merging must join nodes the solution     *)
(* does not tell apart; and the running loop must hold facts of the        *)
(* solution.                                                               *)
Sol == Solution(prog)

FactsWithin == \A n \in Node : pts[n] \subseteq Sol[n]

GraphWithin ==
  \A e \in DOMAIN consCG : Respects(Sol, e) /\ e.src \in live /\ e.dst \in live

RepsWithin ==
  /\ \A n \in Node : rep[rep[n]] = rep[n] /\ Sol[rep[n]] = Sol[n]
  /\ \A p \in reach : Sol[p[1]] \subseteq Sol[p[2]]

(* The nodes about to be merged into the root of their SCC.                *)
SubsWithin ==
  /\ pc # "merge" => subs = {}
  /\ \A p \in subs : /\ p[1] \in live /\ p[2] \in live
                     /\ p[1] # p[2]
                     /\ Sol[p[1]] = Sol[p[2]]
  /\ \A p, q \in subs : p[2] = q[2]

(* The SCCs still to be merged: disjoint, of nodes that are still there.   *)
RootsWithin ==
  pc = "merge" =>
    /\ \A r \in todo : r \in scc(r, reach) /\ scc(r, reach) \subseteq live
    /\ \A r \in todo, p \in subs : p[1] \notin scc(r, reach)
    /\ \A r, q \in todo : r # q => scc(r, reach) \cap scc(q, reach) = {}

pointer(e) == IF e.kind = "load" THEN e.src ELSE e.dst

LoopWithin ==
  /\ pc = "loadstore" => \A t \in todo : t[1] \in Sol[pointer(t[2])]
  /\ pc = "update"    => \A c \in todo : c.fun \in Sol[c.fp]

Within ==
  /\ FactsWithin
  /\ GraphWithin
  /\ RepsWithin
  /\ SubsWithin
  /\ RootsWithin
  /\ LoopWithin

PreciseInv == TypeOK /\ Within

-----------------------------------------------------------------------------
(* What the solution says of the program's statements and calls.           *)
LEMMA SolutionFacts ==
  ASSUME prog \in Programs
  PROVE  /\ Sol \in [Node -> SUBSET Obj]
         /\ \A a \in prog.addr : a[1] \in Sol[a[2]]
         /\ \A s \in prog.stmts : Respects(Sol, edge(s.kind, s.src, s.dst))
         /\ \A c \in prog.calls : c.fun \in Sol[c.fp] =>
              \A arg \in c.args : Sol[arg[1]] \subseteq Sol[arg[2]]
BY ProgramFacts DEF IsSolution, Sol, Respects, edge

(* A closed set is closed under reachability: if m reaches n, the solution *)
(* gives n everything it gives m.                                          *)
LEMMA ReachWithin ==
  ASSUME GraphWithin
  PROVE  \A p \in reachable : Sol[p[1]] \subseteq Sol[p[2]]
<1> SUFFICES ASSUME NEW p \in reachable PROVE Sol[p[1]] \subseteq Sol[p[2]]
  OBVIOUS
<1> DEFINE above == {x \in live : Sol[p[1]] \subseteq Sol[x]}
<1>1. p[1] \in live
  BY DEF reachable
<1>2. above \in closedSets
  BY DEF closedSets, GraphWithin, Respects, edges
<1> HIDE DEF above
<1>3. p[1] \in above => p[2] \in above
  BY <1>2 DEF reachable
<1> QED BY <1>1, <1>3 DEF above

(* Reachability is reflexive and transitive, so SCCs are disjoint.         *)
LEMMA ReachTransitive ==
  /\ reachable \subseteq live \X live
  /\ \A n \in live : <<n, n>> \in reachable
  /\ \A x, y, z : <<x, y>> \in reachable /\ <<y, z>> \in reachable
                    => <<x, z>> \in reachable
BY DEF reachable

(* Moving edges from n to r, where the solution does not tell them apart,  *)
(* gives edges the solution respects, and none at n.                       *)
LEMMA MovedWithin ==
  ASSUME NEW S, NEW e \in Edge, NEW n \in Node, NEW r \in Node,
         S[n] = S[r], Respects(S, e), NEW end \in {"src", "dst"}
  PROVE  Respects(S, moved(e, end, n, r))
<1>1. CASE e[end] # n
  BY <1>1 DEF moved
<1>2. CASE e[end] = n /\ end = "src"
  <2>1. moved(e, end, n, r) = [kind |-> e.kind, src |-> r, dst |-> e.dst]
    BY <1>2 DEF moved, Edge
  <2> QED BY <1>2, <2>1 DEF Respects
<1>3. CASE e[end] = n /\ end = "dst"
  <2>1. moved(e, end, n, r) = [kind |-> e.kind, src |-> e.src, dst |-> r]
    BY <1>3 DEF moved, Edge
  <2> QED BY <1>3, <2>1 DEF Respects
<1> QED BY <1>1, <1>2, <1>3

(* The same for all the edges of a graph: merging n into r leaves a graph  *)
(* the solution respects, without n and with no node but r that is new.    *)
LEMMA MoveEdgesWithin ==
  ASSUME NEW S, NEW g, DOMAIN g \subseteq Edge, NEW n \in Node, NEW r \in Node,
         n # r, S[n] = S[r], \A e \in DOMAIN g : Respects(S, e)
  PROVE  \A e \in DOMAIN moveEdgesToRepNode(g, n, r) :
           /\ Respects(S, e)
           /\ e.src # n /\ e.dst # n
           /\ e.src = r \/ \E f \in DOMAIN g : e.src = f.src
           /\ e.dst = r \/ \E f \in DOMAIN g : e.dst = f.dst
<1> DEFINE h == reTarget(g, "dst", n, r)
<1>1. DOMAIN h \subseteq Edge
  BY ReTargetEdges
<1>2. ASSUME NEW e \in DOMAIN h
      PROVE  /\ Respects(S, e)
             /\ e.dst # n
             /\ e.dst = r \/ \E f \in DOMAIN g : e.dst = f.dst
             /\ \E f \in DOMAIN g : e.src = f.src
  <2>1. PICK f \in DOMAIN g : e = moved(f, "dst", n, r)
    BY ReTargetDomain
  <2>2. f \in Edge /\ Respects(S, e)
    BY <2>1, MovedWithin
  <2>3. e.src = f.src /\ e.dst = (IF f.dst = n THEN r ELSE f.dst)
    BY <2>1, <2>2 DEF moved, Edge
  <2> QED BY <2>2, <2>3
<1>3. ASSUME NEW e \in DOMAIN reTarget(h, "src", n, r)
      PROVE  /\ Respects(S, e)
             /\ e.src # n /\ e.dst # n
             /\ e.src = r \/ \E f \in DOMAIN g : e.src = f.src
             /\ e.dst = r \/ \E f \in DOMAIN g : e.dst = f.dst
  <2> HIDE DEF h
  <2>1. PICK f \in DOMAIN h : e = moved(f, "src", n, r)
    BY ReTargetDomain
  <2>2. f \in Edge /\ Respects(S, e)
    BY <1>1, <1>2, <2>1, MovedWithin
  <2>3. e.dst = f.dst /\ e.src = (IF f.src = n THEN r ELSE f.src)
    BY <2>1, <2>2 DEF moved, Edge
  <2> QED BY <1>2, <2>2, <2>3
<1> QED BY <1>3 DEF moveEdgesToRepNode

-----------------------------------------------------------------------------
(* The steps that both solvers take on the graph and the facts.            *)

mergesGraph(n, r) ==
  /\ pc = "merge"
  /\ <<n, r>> \in subs
  /\ subs' = subs \ {<<n, r>>}
  /\ pts' = [pts EXCEPT ![r] = @ \cup pts[n]]
  /\ consCG' = moveEdgesToRepNode(consCG, n, r)
  /\ rep' = [m \in Node |-> IF rep[m] = n THEN r ELSE rep[m]]
  /\ UNCHANGED <<prog, pc, todo, reach>>

derivesEdge(o, e) ==
  /\ pc = "loadstore"
  /\ todo' = todo \ {<<o, e>>}
  /\ DOMAIN consCG' = DOMAIN addCopyEdges(consCG, IF o \in ConstObj THEN {}
                                                  ELSE {derivedEdge(o, e)})
  /\ UNCHANGED <<prog, pc, subs, pts, rep, reach>>

(* Merging joins nodes the solution does not tell apart.                   *)
LEMMA MergeWithin ==
  ASSUME PreciseInv, NEW p \in subs, mergesGraph(p[1], p[2])
  PROVE  Within'
<1>a. /\ TypeOK /\ FactsWithin /\ GraphWithin /\ RepsWithin
      /\ SubsWithin /\ RootsWithin /\ LoopWithin
  BY DEF PreciseInv, Within
<1> DEFINE n == p[1]
           r == p[2]
<1>1. /\ n \in Node /\ r \in Node /\ n # r
      /\ n \in live /\ r \in live /\ Sol[n] = Sol[r]
      /\ pc = "merge"
  BY <1>a DEF TypeOK, SubsWithin, mergesGraph
<1>2. Sol' = Sol
  BY DEF mergesGraph, Sol
<1>3. live' = live \ {n}
  BY <1>a, <1>1 DEF TypeOK, mergesGraph, live
<1>4. FactsWithin'
  BY <1>a, <1>1, <1>2 DEF TypeOK, mergesGraph, FactsWithin
<1>5. GraphWithin'
  <2>1. consCG' = moveEdgesToRepNode(consCG, n, r)
    BY DEF mergesGraph
  <2>2. \A e \in DOMAIN consCG' :
           /\ Respects(Sol, e)
           /\ e.src # n /\ e.dst # n
           /\ e.src = r \/ \E f \in DOMAIN consCG : e.src = f.src
           /\ e.dst = r \/ \E f \in DOMAIN consCG : e.dst = f.dst
    <3>1. DOMAIN consCG \subseteq Edge
      BY <1>a DEF TypeOK
    <3>2. \A e \in DOMAIN consCG : Respects(Sol, e)
      BY <1>a DEF GraphWithin
    <3> HIDE DEF n, r
    <3> QED BY <1>1, <2>1, <3>1, <3>2, MoveEdgesWithin
  <2> QED BY <1>a, <1>1, <1>2, <1>3, <2>2 DEF GraphWithin
<1>6. RepsWithin'
  <2>1. \A m \in Node : rep'[m] = IF rep[m] = n THEN r ELSE rep[m]
    BY DEF mergesGraph
  <2>2. reach' = reach
    BY DEF mergesGraph
  <2>3. rep[n] = n /\ rep[r] = r
    BY <1>1 DEF live
  <2>4. ASSUME NEW m \in Node
        PROVE  rep'[rep'[m]] = rep'[m] /\ Sol[rep'[m]] = Sol[m]
    <3>1. rep[m] \in Node /\ rep[rep[m]] = rep[m] /\ Sol[rep[m]] = Sol[m]
      BY <1>a DEF TypeOK, RepsWithin
    <3> QED BY <1>1, <2>1, <2>3, <3>1
  <2> QED BY <1>a, <1>2, <2>2, <2>4 DEF RepsWithin
<1>7. SubsWithin'
  <2>1. subs' = subs \ {<<n, r>>} /\ pc' = pc
    BY DEF mergesGraph
  <2>2. ASSUME NEW q \in subs' PROVE q[1] # n /\ q[2] = r
    <3>1. q \in subs /\ q # <<n, r>> /\ q \in Node \X Node /\ q[2] = r
      BY <1>a, <2>1 DEF TypeOK, SubsWithin
    <3> QED BY <3>1
  <2> QED BY <1>a, <1>1, <1>2, <1>3, <2>1, <2>2 DEF SubsWithin
<1>8. RootsWithin'
  <2>1. todo' = todo /\ reach' = reach /\ pc' = pc /\ subs' \subseteq subs
    BY DEF mergesGraph
  <2>2. \A q \in todo : scc(q, reach) \subseteq live'
    BY <1>a, <1>1, <1>3 DEF RootsWithin
  <2> QED BY <1>a, <1>1, <2>1, <2>2 DEF RootsWithin, scc
<1>9. LoopWithin'
  BY <1>a, <1>1 DEF mergesGraph, LoopWithin
<1> QED BY <1>4, <1>5, <1>6, <1>7, <1>8, <1>9 DEF Within

(* A load or store through a pointer that holds o derives an edge the      *)
(* solution respects.                                                      *)
LEMMA LoadStoreWithin ==
  ASSUME PreciseInv, NEW t \in todo, derivesEdge(t[1], t[2])
  PROVE  Within'
<1>a. /\ TypeOK /\ FactsWithin /\ GraphWithin /\ RepsWithin
      /\ SubsWithin /\ RootsWithin /\ LoopWithin
      /\ Obj \subseteq Node
  BY ProgramFacts DEF PreciseInv, Within, TypeOK
<1> DEFINE o == t[1]
           e == t[2]
           new == derivedEdge(o, e)
           added == addCopyEdges(consCG, IF o \in ConstObj THEN {} ELSE {new})
<1>1. /\ o \in Obj /\ o \in Node /\ e \in DOMAIN consCG
      /\ e.kind \in {"load", "store"} /\ o \in Sol[pointer(e)]
  BY <1>a DEF TypeOK, LoopWithin, derivesEdge, edges
<1>2. Sol' = Sol /\ live' = live
  BY DEF derivesEdge, Sol, live
<1>3. rep[o] \in live /\ Sol[rep[o]] = Sol[o]
  BY <1>a, <1>1 DEF TypeOK, RepsWithin, live
<1>4. Respects(Sol, e) /\ e.src \in live /\ e.dst \in live
  BY <1>a, <1>1 DEF GraphWithin
<1>5. o \notin ConstObj =>
         Respects(Sol, new) /\ new.src \in live /\ new.dst \in live
  BY <1>1, <1>3, <1>4 DEF derivedEdge, edge, Respects, pointer
<1>6. DOMAIN consCG' = DOMAIN added
  BY DEF derivesEdge
<1>7. \A f \in DOMAIN consCG' : f \in DOMAIN consCG \/ (o \notin ConstObj /\ f = new)
  BY <1>6, AddCopyEdgesDomain
<1>8. GraphWithin'
  BY <1>a, <1>2, <1>5, <1>7 DEF GraphWithin
<1>9. FactsWithin' /\ RepsWithin'
  BY <1>a, <1>2 DEF derivesEdge, FactsWithin, RepsWithin
<1>10. SubsWithin' /\ RootsWithin' /\ LoopWithin'
  BY <1>a, <1>2 DEF derivesEdge, SubsWithin, RootsWithin, LoopWithin
<1> QED BY <1>8, <1>9, <1>10 DEF Within

(* A node taken up for its loads and stores comes with objects of the      *)
(* solution.                                                               *)
LEMMA ProcessNodeWithin ==
  ASSUME Within, subs = {}, NEW n \in Node, processNode(n),
         UNCHANGED <<prog, subs, pts, consCG, rep, reach>>
  PROVE  Within'
<1>a. /\ FactsWithin /\ GraphWithin /\ RepsWithin
      /\ SubsWithin /\ RootsWithin /\ LoopWithin
  BY DEF Within
<1>1. Sol' = Sol /\ live' = live
  BY DEF Sol, live
<1>2. FactsWithin' /\ GraphWithin' /\ RepsWithin'
  BY <1>a, <1>1 DEF FactsWithin, GraphWithin, RepsWithin
<1>3. SubsWithin' /\ RootsWithin'
  BY <1>a DEF processNode, SubsWithin, RootsWithin
<1>4. \A t \in todo' : t[1] \in pts[n] /\ pointer(t[2]) = n
  BY DEF processNode, through, pointer
<1>5. LoopWithin'
  BY <1>a, <1>1, <1>4 DEF processNode, LoopWithin, FactsWithin, pointer
<1> QED BY <1>2, <1>3, <1>5 DEF Within

-----------------------------------------------------------------------------
(* The solver starts within the solution.                                  *)
LEMMA PreciseInit == Init => PreciseInv
<1> SUFFICES ASSUME Init PROVE PreciseInv OBVIOUS
<1>1. TypeOK
  BY TypeInit
<1>2. Sol \in [Node -> SUBSET Obj]
  BY SolutionFacts DEF Init
<1>3. FactsWithin
  BY <1>2 DEF Init, FactsWithin
<1>4. live = Node
  BY DEF Init, live
<1>5. GraphWithin
  <2>1. DOMAIN consCG = {edge(s.kind, s.src, s.dst) :
          s \in {t \in prog.stmts : t.kind = "copy" => t.src # t.dst}}
    BY DEF Init
  <2>2. \A e \in DOMAIN consCG : Respects(Sol, e)
    BY <2>1, SolutionFacts DEF Init
  <2>3. \A e \in DOMAIN consCG : e.src \in Node /\ e.dst \in Node
    BY <1>1 DEF TypeOK, Edge
  <2> QED BY <1>4, <2>2, <2>3 DEF GraphWithin
<1>6. RepsWithin
  BY DEF Init, RepsWithin
<1>7. SubsWithin /\ RootsWithin /\ LoopWithin
  BY DEF Init, SubsWithin, RootsWithin, LoopWithin
<1> QED BY <1>1, <1>3, <1>5, <1>6, <1>7 DEF PreciseInv, Within

(* Every handler stays within the solution.                                *)
LEMMA PreciseStep == PreciseInv /\ [Next]_vars => PreciseInv'
<1> SUFFICES ASSUME PreciseInv, [Next]_vars PROVE PreciseInv' OBVIOUS
<1>a. TypeOK /\ TypeOK'
  BY TypeStep DEF PreciseInv
<1>b. /\ Within
      /\ FactsWithin /\ GraphWithin /\ RepsWithin
      /\ SubsWithin /\ RootsWithin /\ LoopWithin
  BY DEF PreciseInv, Within
<1>c. /\ IsProgram(prog) /\ Obj \subseteq Node
      /\ Sol \in [Node -> SUBSET Obj]
      /\ \A a \in prog.addr : a[1] \in Sol[a[2]]
      /\ \A c \in prog.calls : c.fun \in Sol[c.fp] =>
           \A arg \in c.args : Sol[arg[1]] \subseteq Sol[arg[2]]
  BY <1>a, ProgramFacts, SolutionFacts DEF TypeOK
<1>d. ASSUME NEW a \in todo, processAddr(a) PROVE Within'
  <2>1. a \in prog.addr /\ a[1] \in Obj /\ a[2] \in Node
    BY <1>a, <1>c, <1>d DEF TypeOK, processAddr, IsProgram
  <2>2. Sol' = Sol /\ live' = live
    BY <1>d DEF processAddr, Sol, live
  <2>3. FactsWithin'
    BY <1>a, <1>b, <1>c, <1>d, <2>1, <2>2 DEF TypeOK, processAddr, FactsWithin
  <2>4. GraphWithin' /\ RepsWithin'
    BY <1>b, <1>d, <2>2 DEF processAddr, GraphWithin, RepsWithin
  <2>5. SubsWithin' /\ RootsWithin' /\ LoopWithin'
    BY <1>b, <1>d, <2>2 DEF processAddr, SubsWithin, RootsWithin, LoopWithin
  <2> QED BY <2>3, <2>4, <2>5 DEF Within
<1>e. ASSUME beginAttach PROVE Within'
  <2>1. Sol' = Sol /\ live' = live
    BY <1>e DEF beginAttach, Sol, live
  <2>2. FactsWithin' /\ GraphWithin' /\ RepsWithin'
    BY <1>b, <1>e, <2>1 DEF beginAttach, FactsWithin, GraphWithin, RepsWithin
  <2>3. SubsWithin' /\ RootsWithin' /\ LoopWithin'
    BY <1>b, <1>e, <2>1 DEF beginAttach, SubsWithin, RootsWithin, LoopWithin
  <2> QED BY <2>2, <2>3 DEF Within
<1>f. ASSUME NEW s \in todo, attachStaticEdgeGuard(s) PROVE Within'
  <2>1. Sol' = Sol /\ live' = live
    BY <1>f DEF attachStaticEdgeGuard, Sol, live
  <2>2. DOMAIN consCG' = DOMAIN consCG
    BY <1>f, MergeEdgeGuardDomain DEF attachStaticEdgeGuard
  <2>3. FactsWithin' /\ GraphWithin' /\ RepsWithin'
    BY <1>b, <1>f, <2>1, <2>2
       DEF attachStaticEdgeGuard, FactsWithin, GraphWithin, RepsWithin
  <2>4. SubsWithin' /\ RootsWithin' /\ LoopWithin'
    BY <1>b, <1>f, <2>1 DEF attachStaticEdgeGuard, SubsWithin, RootsWithin, LoopWithin
  <2> QED BY <2>3, <2>4 DEF Within
<1>g. ASSUME SCCDetect PROVE Within'
  <2>1. Sol' = Sol /\ live' = live /\ reach' = reachable
    BY <1>g DEF SCCDetect, Sol, live
  <2>2. FactsWithin' /\ GraphWithin'
    BY <1>b, <1>g, <2>1 DEF SCCDetect, FactsWithin, GraphWithin
  <2>3. RepsWithin'
    BY <1>a, <1>b, <1>g, <2>1, ReachWithin DEF SCCDetect, RepsWithin
  <2>4. SubsWithin' /\ LoopWithin' /\ subs' = {}
    BY <1>b, <1>g DEF SCCDetect, SubsWithin, LoopWithin
  <2>5. PICK roots \in SUBSET live :
          /\ \A r, q \in roots : q \in scc(r, reach') => q = r
          /\ todo' = {r \in roots : scc(r, reach') # {r}}
    BY <1>g DEF SCCDetect
  <2>6. \A r \in todo' : r \in scc(r, reach') /\ scc(r, reach') \subseteq live
    BY <2>1, <2>5, ReachTransitive DEF scc, live
  <2>7. ASSUME NEW r \in todo', NEW q \in todo', NEW x \in scc(r, reach'),
               x \in scc(q, reach')
        PROVE  r = q
    <3>1. r \in roots /\ q \in roots /\ q \in Node
      BY <2>5 DEF live
    <3>2. q \in scc(r, reach')
      BY <2>1, <2>7, <3>1, ReachTransitive DEF scc
    <3> QED BY <2>5, <3>1, <3>2
  <2>8. RootsWithin'
    BY <2>1, <2>4, <2>6, <2>7 DEF RootsWithin, scc
  <2> QED BY <2>2, <2>3, <2>4, <2>8 DEF Within
<1>h. ASSUME NEW r \in todo, beginSCC(r) PROVE Within'
  <2>1. Sol' = Sol /\ live' = live
    BY <1>h DEF beginSCC, Sol, live
  <2>2. FactsWithin' /\ GraphWithin' /\ RepsWithin' /\ LoopWithin'
    BY <1>b, <1>h, <2>1
       DEF beginSCC, FactsWithin, GraphWithin, RepsWithin, LoopWithin
  <2>3. pc = "merge" /\ r \in scc(r, reach) /\ scc(r, reach) \subseteq live
    BY <1>b, <1>h DEF beginSCC, RootsWithin
  <2>4. \A n \in scc(r, reach) : Sol[n] = Sol[r]
    BY <1>b DEF RepsWithin, scc
  <2>5. \A p \in subs' : \E n \in scc(r, reach) \ {r} : p = <<n, r>>
    BY <1>h DEF beginSCC
  <2>6. SubsWithin'
    BY <1>h, <2>1, <2>3, <2>4, <2>5 DEF beginSCC, SubsWithin
  <2>7. RootsWithin'
    <3>1. reach' = reach /\ todo' = todo \ {r}
      BY <1>h DEF beginSCC
    <3>2. \A q \in todo', p \in subs' : p[1] \notin scc(q, reach)
      BY <1>b, <2>3, <2>5, <3>1 DEF RootsWithin
    <3> QED BY <1>b, <2>1, <2>3, <3>1, <3>2 DEF RootsWithin, scc
  <2> QED BY <2>2, <2>6, <2>7 DEF Within
<1>i. ASSUME NEW p \in subs, mergeNodeToRep(p[1], p[2]) PROVE Within'
  <2>1. mergesGraph(p[1], p[2])
    BY <1>i DEF mergeNodeToRep, mergesGraph
  <2> QED BY <2>1, MergeWithin
<1>k. ASSUME NEW t \in todo, processLoadStore(t[1], t[2]), pc = "loadstore"
      PROVE  Within'
  <2>1. derivesEdge(t[1], t[2])
    BY <1>k, MergeEdgeGuardDomain DEF processLoadStore, derivesEdge
  <2> QED BY <2>1, LoadStoreWithin
<1>l. ASSUME handleCopyGep PROVE Within'
  <2>1. Sol' = Sol /\ live' = live
    BY <1>l DEF handleCopyGep, Sol, live
  <2>2. FactsWithin' /\ GraphWithin' /\ RepsWithin'
    BY <1>b, <1>l, <2>1 DEF handleCopyGep, FactsWithin, GraphWithin, RepsWithin
  <2>3. SubsWithin' /\ RootsWithin' /\ LoopWithin'
    BY <1>b, <1>l, <2>1 DEF handleCopyGep, SubsWithin, RootsWithin, LoopWithin
  <2> QED BY <2>2, <2>3 DEF Within
<1>m. ASSUME NEW e \in todo, processCopy(e) PROVE Within'
  <2>1. Sol' = Sol /\ live' = live
    BY <1>m DEF processCopy, Sol, live
  <2>2. e \in DOMAIN consCG /\ e.kind = "copy" /\ e.src \in Node /\ e.dst \in Node
    BY <1>a, <1>m DEF TypeOK, processCopy, edges, Edge
  <2>3. Sol[e.src] \subseteq Sol[e.dst]
    BY <1>b, <2>2 DEF GraphWithin, Respects
  <2>4. FactsWithin'
    BY <1>a, <1>b, <1>m, <2>1, <2>2, <2>3 DEF TypeOK, processCopy, FactsWithin
  <2>5. GraphWithin' /\ RepsWithin'
    BY <1>b, <1>m, <2>1 DEF processCopy, GraphWithin, RepsWithin
  <2>6. SubsWithin' /\ RootsWithin' /\ LoopWithin'
    BY <1>b, <1>m, <2>1 DEF processCopy, SubsWithin, RootsWithin, LoopWithin
  <2> QED BY <2>4, <2>5, <2>6 DEF Within
<1>n. ASSUME updateCallGraph PROVE Within'
  <2>1. Sol' = Sol /\ live' = live
    BY <1>n DEF updateCallGraph, Sol, live
  <2>2. FactsWithin' /\ GraphWithin' /\ RepsWithin'
    BY <1>b, <1>n, <2>1 DEF updateCallGraph, FactsWithin, GraphWithin, RepsWithin
  <2>3. SubsWithin' /\ RootsWithin'
    BY <1>b, <1>n DEF updateCallGraph, solved, idle, SubsWithin, RootsWithin
  <2>4. \A c \in newCalls : c.fun \in Sol[c.fp]
    <3>1. \A c \in newCalls : c.fp \in Node /\ c.fun \in pts[rep[c.fp]]
      BY <1>c DEF newCalls, IsProgram, IsCall
    <3> QED BY <1>a, <1>b, <3>1 DEF TypeOK, FactsWithin, RepsWithin
  <2>5. LoopWithin'
    BY <1>n, <2>1, <2>4 DEF updateCallGraph, LoopWithin
  <2> QED BY <2>2, <2>3, <2>5 DEF Within
<1>o. ASSUME NEW c \in todo, connectCaller2CalleeParams(c) PROVE Within'
  <2>1. Sol' = Sol /\ live' = live
    BY <1>o DEF connectCaller2CalleeParams, Sol, live
  <2>2. /\ c.args \subseteq Node \X Node
        /\ \A arg \in c.args : Sol[arg[1]] \subseteq Sol[arg[2]]
    BY <1>a, <1>b, <1>c, <1>o
       DEF TypeOK, connectCaller2CalleeParams, LoopWithin, IsProgram, IsCall
  <2>3. \A m \in Node : rep[m] \in live /\ Sol[rep[m]] = Sol[m]
    BY <1>a, <1>b DEF TypeOK, RepsWithin, live
  <2>4. \A e \in boundEdges(c) : Respects(Sol, e) /\ e.src \in live /\ e.dst \in live
    BY <2>2, <2>3 DEF boundEdges, edge, Respects
  <2>5. \A e \in DOMAIN consCG' : e \in DOMAIN consCG \/ e \in boundEdges(c)
    BY <1>o, AddCopyEdgesDomain DEF connectCaller2CalleeParams
  <2>6. GraphWithin'
    BY <1>b, <2>1, <2>4, <2>5 DEF GraphWithin
  <2>7. FactsWithin' /\ RepsWithin'
    BY <1>b, <1>o, <2>1 DEF connectCaller2CalleeParams, FactsWithin, RepsWithin
  <2>8. SubsWithin' /\ RootsWithin' /\ LoopWithin'
    BY <1>b, <1>o, <2>1
       DEF connectCaller2CalleeParams, SubsWithin, RootsWithin, LoopWithin
  <2> QED BY <2>6, <2>7, <2>8 DEF Within
<1>p. ASSUME NEW n \in cpySrcNodes, pushCpySrcNode(n) PROVE Within'
  <2>1. Sol' = Sol /\ live' = live
    BY <1>p DEF pushCpySrcNode, Sol, live
  <2>2. FactsWithin' /\ GraphWithin' /\ RepsWithin'
    BY <1>b, <1>p, <2>1 DEF pushCpySrcNode, FactsWithin, GraphWithin, RepsWithin
  <2>3. SubsWithin' /\ RootsWithin' /\ LoopWithin'
    BY <1>b, <1>p, <2>1 DEF pushCpySrcNode, SubsWithin, RootsWithin, LoopWithin
  <2> QED BY <2>2, <2>3 DEF Within
<1>q. ASSUME finish PROVE Within'
  <2>1. Sol' = Sol /\ live' = live
    BY <1>q DEF finish, Sol, live
  <2>2. FactsWithin' /\ GraphWithin' /\ RepsWithin'
    BY <1>b, <1>q, <2>1 DEF finish, FactsWithin, GraphWithin, RepsWithin
  <2>3. SubsWithin' /\ RootsWithin' /\ LoopWithin'
    BY <1>b, <1>q, <2>1 DEF finish, solved, idle, SubsWithin, RootsWithin, LoopWithin
  <2> QED BY <2>2, <2>3 DEF Within
<1>r. ASSUME UNCHANGED vars PROVE Within'
  <2>1. Sol' = Sol /\ live' = live
    BY <1>r DEF vars, Sol, live
  <2>2. FactsWithin' /\ GraphWithin' /\ RepsWithin'
    BY <1>b, <1>r, <2>1 DEF vars, FactsWithin, GraphWithin, RepsWithin
  <2>3. SubsWithin' /\ RootsWithin' /\ LoopWithin'
    BY <1>b, <1>r, <2>1 DEF vars, SubsWithin, RootsWithin, LoopWithin
  <2> QED BY <2>2, <2>3 DEF Within
<1>s. ASSUME NEW r \in nodeStack, sweepNode(r) PROVE Within'
  <2>1. r \in Node
    BY <1>a DEF TypeOK
  <2> QED BY <1>b, <1>s, <2>1, ProcessNodeWithin DEF sweepNode, idle
<1>t. ASSUME popFromWorklist PROVE Within'
  <2>1. rep[Head(worklist)] \in Node
    BY <1>a, <1>t DEF TypeOK, popFromWorklist
  <2> QED BY <1>b, <1>t, <2>1, ProcessNodeWithin DEF popFromWorklist, idle
<1>u. Within'
  BY <1>d, <1>e, <1>f, <1>g, <1>h, <1>i, <1>k, <1>l, <1>m, <1>n, <1>o, <1>p,
     <1>q, <1>r, <1>s, <1>t DEF Next, processLoad, processStore
<1> QED BY <1>a, <1>u DEF PreciseInv

(* SolverPrecise: the solver never gives a variable an object that the     *)
(* solution of its program's constraints does without.  The answer for a   *)
(* merged variable is that of its representative, whose facts lie in a     *)
(* solution that does not tell the two apart.                              *)
THEOREM SolverPrecise == Spec => []Precise
<1>1. PreciseInv => Precise
  BY DEF PreciseInv, Within, TypeOK, FactsWithin, RepsWithin, Precise, answer, Sol
<1> QED BY <1>1, PreciseInit, PreciseStep, PTL DEF Spec
-----------------------------------------------------------------------------
(* Guards are only kept where they mean something (EntriesWithinPts): a    *)
(* stale entry would turn an unconditional fact that arrives later into a  *)
(* conditional one.                                                        *)

(* An entry arises where a fact arrives along an edge or a node is merged, *)
(* so it needs that edges end, and merging ends, at nodes in the graph:    *)
(* part of PreciseInv.                                                     *)
EntriesInv == PreciseInv /\ EntriesWithinPts

(* The handlers other than mergeNodeToRep and processCopy leave the        *)
(* entries and the nodes alone, and facts only grow.                       *)
LEMMA EntriesKept ==
  ASSUME EntriesWithinPts, UNCHANGED <<condPtsMap, rep>>,
         \A n \in Node : pts[n] \subseteq pts'[n]
  PROVE  EntriesWithinPts'
BY DEF EntriesWithinPts

(* Merging n into r moves the entries of n along with its points-to set;   *)
(* none is left at n.                                                      *)
LEMMA EntriesMerge ==
  ASSUME EntriesInv, NEW p \in subs, mergeNodeToRep(p[1], p[2])
  PROVE  EntriesWithinPts'
<1> DEFINE n == p[1]
           r == p[2]
<1>1. n \in Node /\ r \in Node /\ n # r /\ rep[n] = n /\ rep[r] = r
  BY DEF EntriesInv, PreciseInv, Within, TypeOK, SubsWithin, live
<1>2. TypeOK /\ EntriesWithinPts
  BY DEF EntriesInv, PreciseInv
<1>3. \A m \in Node : rep'[m] = IF rep[m] = n THEN r ELSE rep[m]
  BY DEF mergeNodeToRep
<1>4. \A m \in Node : pts'[m] = IF m = r THEN pts[r] \cup pts[n] ELSE pts[m]
  BY <1>1, <1>2 DEF TypeOK, mergeNodeToRep
<1>5. \A m \in Node : condPtsMap'[m] = IF m = n THEN noEntries
                        ELSE IF m = r THEN [o \in Obj |-> mergedEntry(n, r, o)]
                        ELSE condPtsMap[m]
  BY <1>1, <1>2 DEF TypeOK, mergeNodeToRep
<1> HIDE DEF n, r
<1>6. SUFFICES ASSUME NEW m \in Node, NEW o \in Obj, condPtsMap'[m][o] # NoGuard
               PROVE  rep'[m] = m /\ o \in pts'[m]
  BY DEF EntriesWithinPts
<1>7. m # n
  BY <1>5, <1>6 DEF noEntries
<1>8. CASE m = r
  <2>1. mergedEntry(n, r, o) # NoGuard
    BY <1>1, <1>5, <1>6, <1>8
  <2>2. condPtsMap[n][o] # NoGuard \/ condPtsMap[r][o] # NoGuard
    BY <2>1 DEF mergedEntry
  <2> QED BY <1>1, <1>2, <1>3, <1>4, <1>8, <2>2 DEF EntriesWithinPts
<1>9. CASE m # r
  <2>1. condPtsMap[m][o] # NoGuard
    BY <1>5, <1>6, <1>7, <1>9
  <2> QED BY <1>2, <1>3, <1>4, <1>7, <1>9, <2>1 DEF EntriesWithinPts
<1> QED BY <1>8, <1>9

(* A copy passes on guards of objects its source points to, which the      *)
(* destination then points to as well.                                     *)
LEMMA EntriesCopy ==
  ASSUME EntriesInv, NEW e \in todo, processCopy(e)
  PROVE  EntriesWithinPts'
<1>1. TypeOK /\ EntriesWithinPts
  BY DEF EntriesInv, PreciseInv
<1>2. e \in DOMAIN consCG /\ e.src \in Node /\ e.dst \in Node
  BY <1>1 DEF TypeOK, processCopy, edges, Edge
<1>3. rep[e.dst] = e.dst
  BY <1>2 DEF EntriesInv, PreciseInv, Within, GraphWithin, live
<1>4. /\ rep' = rep
      /\ \A m \in Node : pts'[m] = IF m = e.dst THEN pts[m] \cup pts[e.src] ELSE pts[m]
  BY <1>1, <1>2 DEF TypeOK, processCopy
<1>5. \A o \in passedObjs(e) : o \in pts[e.src]
  BY <1>1, <1>2 DEF EntriesWithinPts, passedObjs
<1>6. SUFFICES ASSUME NEW m \in Node, NEW o \in Obj, condPtsMap'[m][o] # NoGuard
               PROVE  rep'[m] = m /\ o \in pts'[m]
  BY DEF EntriesWithinPts
<1>7. condPtsMap'[m][o] = condPtsMap[m][o] \/ (m = e.dst /\ o \in passedObjs(e))
  BY <1>1, <1>2 DEF TypeOK, processCopy
<1> QED BY <1>1, <1>2, <1>3, <1>4, <1>5, <1>6, <1>7 DEF EntriesWithinPts

(* Every handler keeps the guards where they belong.                       *)
LEMMA EntriesStep == EntriesInv /\ [Next]_vars => EntriesInv'
<1> SUFFICES ASSUME EntriesInv, [Next]_vars PROVE EntriesInv' OBVIOUS
<1>1. PreciseInv' /\ EntriesWithinPts
  BY PreciseStep DEF EntriesInv
<1>2. pts \in [Node -> SUBSET Obj]
  BY DEF EntriesInv, PreciseInv, TypeOK
<1>3. ASSUME NEW a \in todo, processAddr(a) PROVE EntriesWithinPts'
  BY <1>1, <1>2, <1>3, EntriesKept DEF processAddr
<1>4. ASSUME condPtsMap' = condPtsMap, rep' = rep, pts' = pts
      PROVE  EntriesWithinPts'
  BY <1>1, <1>4 DEF EntriesWithinPts
<1>5. ASSUME \/ beginAttach \/ SCCDetect \/ popFromWorklist \/ handleCopyGep
             \/ updateCallGraph \/ finish \/ UNCHANGED vars
      PROVE  EntriesWithinPts'
  BY <1>4, <1>5 DEF beginAttach, SCCDetect, popFromWorklist, handleCopyGep,
                    updateCallGraph, finish, vars
<1>6. ASSUME \/ \E s \in todo : attachStaticEdgeGuard(s)
             \/ \E r \in todo : beginSCC(r)
             \/ \E r \in nodeStack : sweepNode(r)
             \/ \E c \in todo : connectCaller2CalleeParams(c)
             \/ \E n \in cpySrcNodes : pushCpySrcNode(n)
      PROVE  EntriesWithinPts'
  BY <1>4, <1>6 DEF attachStaticEdgeGuard, beginSCC, sweepNode,
                    connectCaller2CalleeParams, pushCpySrcNode
<1>7. ASSUME \E t \in todo : processLoad(t[1], t[2]) \/ processStore(t[1], t[2])
      PROVE  EntriesWithinPts'
  BY <1>4, <1>7 DEF processLoad, processStore, processLoadStore
<1>8. ASSUME NEW p \in subs, mergeNodeToRep(p[1], p[2]) PROVE EntriesWithinPts'
  BY <1>8, EntriesMerge
<1>9. ASSUME NEW e \in todo, processCopy(e) PROVE EntriesWithinPts'
  BY <1>9, EntriesCopy
<1>10. EntriesWithinPts'
  BY <1>3, <1>5, <1>6, <1>7, <1>8, <1>9 DEF Next
<1> QED BY <1>1, <1>10 DEF EntriesInv

(* SolverEntries: no handler leaves a guard at a node that was merged away *)
(* or for an object the node does not point to.                            *)
THEOREM SolverEntries == Spec => []EntriesWithinPts
<1>1. Init => EntriesInv
  BY PreciseInit DEF Init, EntriesInv, EntriesWithinPts, noEntries
<1>2. EntriesInv => EntriesWithinPts
  BY DEF EntriesInv
<1> QED BY <1>1, <1>2, EntriesStep, PTL DEF Spec
=============================================================================
