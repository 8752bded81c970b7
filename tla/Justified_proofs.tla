-------------------------- MODULE Justified_proofs --------------------------
(***************************************************************************)
(* Guards never claim too much (GuardsJustified): whatever the solver      *)
(* conjoins, merges and moves, a guarded fact and a guarded edge hold on   *)
(* every path their guard admits.  This is so for every guard algebra      *)
(* whose operations do not widen, that is without limits (the depth at     *)
(* which getAnd and getOr collapse is one of them), and for the programs   *)
(* without calls: a call binds its parameters under the guard of the call  *)
(* site alone, whatever the guard under which the function pointer holds   *)
(* the function.                                                           *)
(***************************************************************************)
EXTENDS Soundness_proofs

(* No operation of the algebra admits more paths than its operands allow,  *)
(* no limit cuts a guard, and no guard collapses to False.                 *)
NarrowGuards ==
  /\ NoGuard \notin Guards /\ trueGuard \in Guards
  /\ \A g \in Guards :
       /\ Admits(g) \subseteq Path
       /\ guardIsTrue(g) => Admits(g) = Path
       /\ ~guardIsFalse(g)
       /\ guardLimited(g) \in Guards /\ Admits(guardLimited(g)) \subseteq Admits(g)
       /\ guardCapped(g) = {}
  /\ \A g, h \in Guards :
       /\ guardAnd(g, h) \in Guards /\ Admits(guardAnd(g, h)) \subseteq Admits(g) \cap Admits(h)
       /\ guardOr(g, h) \in Guards  /\ Admits(guardOr(g, h)) \subseteq Admits(g) \cup Admits(h)
       /\ ~guardKept(g, h)

(* The options that keep guards, and the programs this is about: constant  *)
(* objects are pointed to, but not operands of statements.                 *)
PlainAnalysis ==
  /\ NarrowGuards
  /\ ~unconditional /\ ~eagerSat /\ ~mergeCondSCC
  /\ \A p \in Programs :
       /\ p.calls = {}
       /\ \A s \in p.stmts : s.guard \in Guards /\ s.src \notin ConstObj /\ s.dst \notin ConstObj

-----------------------------------------------------------------------------
(* The invariant.                                                          *)
GuardsTyped ==
  /\ \A e \in DOMAIN consCG : consCG[e] \in Guards
  /\ \A n \in Node, o \in Obj : condPtsMap[n][o] \in Guards \cup {NoGuard}
  /\ conjCappedGuards = {}

edgeJustified(e)    == \A path \in Admits(consCG[e]) : Respects(SolOn(path), e)
factJustified(n, o) == \A path \in Admits(guardOf(n, o)) : o \in SolOn(path)[n]

(* While the guards are attached, an edge counts from its first statement. *)
attached(e) == \E s \in prog.stmts \ todo : stmtEdge(s) = e

EdgesHold ==
  /\ pc \in {"addr", "attach"} =>
       \A e \in DOMAIN consCG : \E s \in prog.stmts : stmtEdge(s) = e
  /\ pc = "addr"   => \A e \in DOMAIN consCG : guardIsTrue(consCG[e])
  /\ pc = "attach" => \A e \in DOMAIN consCG :
       IF attached(e) THEN edgeJustified(e) ELSE guardIsTrue(consCG[e])
  /\ pc \notin {"addr", "attach"} => \A e \in DOMAIN consCG : edgeJustified(e)

FactsHold == \A n \in live : \A o \in pts[n] : factJustified(n, o)

(* Merged nodes are not told apart on any path.                            *)
MergedAlike ==
  /\ \A n \in Node, path \in Path : SolOn(path)[rep[n]] = SolOn(path)[n]
  /\ \A p \in subs, path \in Path : SolOn(path)[p[1]] = SolOn(path)[p[2]]

(* The nodes of an SCC still to be merged are linked by copies between     *)
(* them, which merging other SCCs leaves alone.                            *)
closedIn(C, X) ==
  \A e \in edges("copy") : e.src \in X /\ e.src \in C /\ e.dst \in C => e.dst \in X

RootsLinked ==
  pc = "merge" =>
    \A r \in todo : \A a, b \in scc(r, reach) : \A X \in SUBSET Node :
      a \in X /\ closedIn(scc(r, reach), X) => b \in X

LoopHolds == pc = "loadstore" => \A t \in todo : t[1] \in pts[pointer(t[2])]

(* Constant objects have no edges, so nothing is merged with them.         *)
ConstantsApart ==
  /\ \A e \in DOMAIN consCG : e.src \notin ConstObj /\ e.dst \notin ConstObj
  /\ \A n \in Node : n \in ConstObj \/ rep[n] \in ConstObj => rep[n] = n
  /\ \A p \in reach : p[1] # p[2] => p[1] \notin ConstObj /\ p[2] \notin ConstObj
  /\ \A p \in subs : p[1] \notin ConstObj /\ p[2] \notin ConstObj

Justified ==
  /\ GuardsTyped
  /\ EdgesHold
  /\ FactsHold
  /\ MergedAlike
  /\ RootsLinked
  /\ LoopHolds
  /\ ConstantsApart

JustifiedInv == EntriesInv /\ Justified

-----------------------------------------------------------------------------
(* What the solutions of the paths say of the program.                     *)
LEMMA OnPathFacts ==
  ASSUME prog \in Programs, PlainAnalysis, NEW path \in Path
  PROVE  /\ SolOn(path) \in [Node -> SUBSET Obj]
         /\ \A a \in prog.addr : a[1] \in SolOn(path)[a[2]]
         /\ \A s \in prog.stmts : path \in Admits(s.guard) => Respects(SolOn(path), stmtEdge(s))
<1>1. /\ SolOn(path) \in [Node -> SUBSET Obj]
      /\ IsSolution(onPath(prog, path), SolOn(path))
  BY PathAssumption DEF SolOn
<1>2. DOMAIN prog = {"addr", "stmts", "calls"}
  BY ProgramFacts DEF IsProgram
<1>3. /\ onPath(prog, path).addr = prog.addr
      /\ onPath(prog, path).stmts = {s \in prog.stmts : path \in Admits(s.guard)}
  BY <1>2 DEF onPath
<1>4. \A s \in prog.stmts : path \in Admits(s.guard) => Respects(SolOn(path), s)
  BY <1>1, <1>3 DEF IsSolution
<1> QED BY <1>1, <1>3, <1>4 DEF IsSolution, Respects, stmtEdge, edge

(* orMergeCondPts keeps an entry within what the old one and the new guard *)
(* admit, and never drops to True unless one of them was True.             *)
LEMMA OrMergeNarrow ==
  ASSUME PlainAnalysis, NEW old \in Guards \cup {NoGuard}, NEW g \in Guards
  PROVE  LET new == orMergeCondPts(old, g)
         IN  /\ new \in Guards \cup {NoGuard}
             /\ new = NoGuard => guardIsTrue(g) \/ (old # NoGuard /\ guardIsTrue(old))
             /\ new # NoGuard => Admits(new) \subseteq
                                   Admits(g) \cup (IF old = NoGuard THEN {} ELSE Admits(old))
             /\ orMergeCapped(old, g) = {}
<1>1. NarrowGuards
  BY DEF PlainAnalysis
<1>2. CASE old = NoGuard
  BY <1>1, <1>2 DEF orMergeCondPts, orMergeCapped, NarrowGuards
<1>3. CASE old \in Guards
  <2>1. /\ guardOr(old, g) \in Guards /\ guardLimited(guardOr(old, g)) \in Guards
        /\ Admits(guardOr(old, g)) \subseteq Admits(old) \cup Admits(g)
        /\ Admits(guardLimited(guardOr(old, g))) \subseteq Admits(guardOr(old, g))
        /\ guardCapped(guardOr(old, g)) = {}
    BY <1>1, <1>3 DEF NarrowGuards
  <2>2. old # NoGuard
    BY <1>1, <1>3 DEF NarrowGuards
  <2> DEFINE merged == guardOr(old, g)
             new    == orMergeCondPts(old, g)
  <2>3. \/ new = NoGuard /\ (guardIsTrue(g) \/ guardIsTrue(old))
        \/ new = old
        \/ new = merged
        \/ new = guardLimited(merged)
    BY <2>2 DEF orMergeCondPts
  <2>4. orMergeCapped(old, g) = {}
    BY <2>1 DEF orMergeCapped
  <2>5. merged # NoGuard /\ guardLimited(merged) # NoGuard
    BY <1>1, <2>1 DEF NarrowGuards
  <2> HIDE DEF new, merged
  <2>6. /\ new \in Guards \cup {NoGuard}
        /\ new = NoGuard => guardIsTrue(g) \/ guardIsTrue(old)
        /\ new # NoGuard => Admits(new) \subseteq Admits(g) \cup Admits(old)
    BY <1>3, <2>1, <2>2, <2>3, <2>5 DEF merged
  <2> QED BY <2>2, <2>4, <2>6 DEF new
<1> QED BY <1>2, <1>3

(* Every edge after retargeting carries the guard of the edge it was.      *)
LEMMA ReTargetGuard ==
  ASSUME NEW g, DOMAIN g \subseteq Edge, NEW n \in Node, NEW r \in Node, n # r,
         NEW side \in {"src", "dst"}
  PROVE  \A e \in DOMAIN reTarget(g, side, n, r) :
           \E f \in DOMAIN g : e = moved(f, side, n, r) /\ reTarget(g, side, n, r)[e] = g[f]
<1> SUFFICES ASSUME NEW e \in DOMAIN reTarget(g, side, n, r)
             PROVE  \E f \in DOMAIN g : e = moved(f, side, n, r) /\ reTarget(g, side, n, r)[e] = g[f]
  OBVIOUS
<1>1. PICK f \in DOMAIN g : e = moved(f, side, n, r)
  BY ReTargetDomain
<1>2. f \in Edge
  OBVIOUS
<1>3. reTarget(g, side, n, r)[e] = IF e \in DOMAIN g THEN g[e] ELSE g[[e EXCEPT ![side] = n]]
  BY DEF reTarget
<1>4. CASE e \in DOMAIN g
  <2>1. e[side] # n
    BY <1>1, <1>2 DEF moved, Edge
  <2>2. e = moved(e, side, n, r)
    BY <2>1 DEF moved
  <2> QED BY <1>3, <1>4, <2>2
<1>5. CASE e \notin DOMAIN g
  <2>1. [e EXCEPT ![side] = n] = f
    BY <1>1, <1>2, <1>5 DEF moved, Edge
  <2> QED BY <1>1, <1>3, <1>5, <2>1
<1> QED BY <1>4, <1>5

(* So merging nodes that no path tells apart keeps the edges justified;    *)
(* and it leaves the copies between other nodes alone.                     *)
LEMMA MoveEdgesJustified ==
  ASSUME NEW g, DOMAIN g \subseteq Edge, NEW n \in Node, NEW r \in Node, n # r,
         \A e \in DOMAIN g : g[e] \in Guards,
         \A e \in DOMAIN g : Admits(g[e]) \subseteq Path,
         \A path \in Path : SolOn(path)[n] = SolOn(path)[r],
         \A e \in DOMAIN g : \A path \in Admits(g[e]) : Respects(SolOn(path), e)
  PROVE  LET h == moveEdgesToRepNode(g, n, r)
         IN  /\ \A e \in DOMAIN h : h[e] \in Guards
             /\ \A e \in DOMAIN h : \A path \in Admits(h[e]) : Respects(SolOn(path), e)
             /\ \A e \in DOMAIN g : e.src # n /\ e.dst # n /\ e.src # e.dst => e \in DOMAIN h
<1> DEFINE k == reTarget(g, "dst", n, r)
           h == reTarget(k, "src", n, r)
<1>1. DOMAIN k \subseteq Edge
  BY ReTargetEdges
<1>2. ASSUME NEW e \in DOMAIN k
      PROVE  /\ k[e] \in Guards /\ Admits(k[e]) \subseteq Path
             /\ \A path \in Admits(k[e]) : Respects(SolOn(path), e)
  <2>1. PICK f \in DOMAIN g : e = moved(f, "dst", n, r) /\ k[e] = g[f]
    BY <1>2, ReTargetGuard
  <2> HIDE DEF k
  <2> QED BY <2>1, MovedWithin
<1>3. ASSUME NEW e \in DOMAIN h
      PROVE  /\ h[e] \in Guards
             /\ \A path \in Admits(h[e]) : Respects(SolOn(path), e)
  <2>1. PICK f \in DOMAIN k : e = moved(f, "src", n, r) /\ h[e] = k[f]
    <3> HIDE DEF k
    <3> QED BY <1>1, <1>3, ReTargetGuard
  <2> HIDE DEF k, h
  <2> QED BY <1>1, <1>2, <2>1, MovedWithin
<1>4. ASSUME NEW e \in DOMAIN g, e.src # n, e.dst # n, e.src # e.dst
      PROVE  e \in DOMAIN h
  <2>1. moved(e, "dst", n, r) = e /\ moved(e, "src", n, r) = e
    BY <1>4 DEF moved
  <2>2. e \in DOMAIN k
    BY <1>4, <2>1 DEF reTarget
  <2> HIDE DEF k
  <2> QED BY <1>4, <2>1, <2>2 DEF reTarget
<1> QED BY <1>3, <1>4 DEF moveEdgesToRepNode

-----------------------------------------------------------------------------
(* The solver starts with nothing claimed.                                 *)
LEMMA JustifiedInit == PlainAnalysis /\ Init => JustifiedInv
<1> SUFFICES ASSUME PlainAnalysis, Init PROVE JustifiedInv OBVIOUS
<1>1. EntriesInv
  BY PreciseInit DEF Init, EntriesInv, EntriesWithinPts, noEntries
<1>2. DOMAIN consCG = {stmtEdge(s) : s \in {t \in prog.stmts : t.kind = "copy" => t.src # t.dst}}
  BY DEF Init, stmtEdge
<1>3. NarrowGuards /\ \A s \in prog.stmts : s.src \notin ConstObj /\ s.dst \notin ConstObj
  BY DEF PlainAnalysis, Init
<1>4. \A e \in DOMAIN consCG : consCG[e] = trueGuard
  BY DEF Init
<1>5. GuardsTyped
  BY <1>3, <1>4 DEF GuardsTyped, NarrowGuards, Init, noEntries
<1>6. EdgesHold
  BY <1>2, <1>4, GuardAssumption DEF EdgesHold, Init
<1>7. FactsHold /\ MergedAlike /\ RootsLinked /\ LoopHolds
  BY DEF Init, FactsHold, MergedAlike, RootsLinked, LoopHolds, live
<1>8. ConstantsApart
  <2>1. \A e \in DOMAIN consCG : e.src \notin ConstObj /\ e.dst \notin ConstObj
    BY <1>2, <1>3 DEF stmtEdge, edge
  <2> QED BY <2>1 DEF ConstantsApart, Init
<1> QED BY <1>1, <1>5, <1>6, <1>7, <1>8 DEF JustifiedInv, Justified

(* Handlers that only move on to the next node, call or phase.             *)
LEMMA JustifiedKept ==
  ASSUME Justified, pc \notin {"addr", "attach"},
         UNCHANGED <<prog, pts, condPtsMap, consCG, rep, reach, conjCappedGuards, subs>>,
         pc' \in {"loadstore", "propagate", "update", "done"} \/ (pc' = pc /\ todo' \subseteq todo),
         LoopHolds'
  PROVE  Justified'
<1>1. live' = live
  BY DEF live
<1>2. \A path : SolOn(path)' = SolOn(path)
  BY DEF SolOn
<1>3. GuardsTyped' /\ ConstantsApart'
  BY DEF Justified, GuardsTyped, ConstantsApart
<1>4. EdgesHold'
  <2>1. \A e : edgeJustified(e)' <=> edgeJustified(e)
    BY <1>2 DEF edgeJustified
  <2>2. pc' \notin {"addr", "attach"}
    OBVIOUS
  <2> QED BY <2>1, <2>2 DEF Justified, EdgesHold
<1>5. FactsHold'
  <2>1. \A n, o : factJustified(n, o)' <=> factJustified(n, o)
    BY <1>2 DEF factJustified, guardOf
  <2> QED BY <1>1, <2>1 DEF Justified, FactsHold
<1>6. MergedAlike'
  BY <1>2 DEF Justified, MergedAlike
<1>7. RootsLinked'
  BY DEF Justified, RootsLinked, scc, closedIn, edges
<1> QED BY <1>3, <1>4, <1>5, <1>6, <1>7 DEF Justified

(* A node is taken up with the objects it holds.                           *)
LEMMA ProcessNodeHolds ==
  ASSUME NEW n, processNode(n), pts' = pts
  PROVE  LoopHolds'
<1>1. \A t \in todo' : t[1] \in pts[n] /\ pointer(t[2]) = n
  BY DEF processNode, through, pointer
<1> QED BY <1>1 DEF LoopHolds, pointer

(* An address holds on every path.                                         *)
LEMMA AddrJustified ==
  ASSUME PlainAnalysis, JustifiedInv, NEW a \in todo, processAddr(a)
  PROVE  Justified'
<1>1. TypeOK /\ EntriesWithinPts /\ Justified
  BY DEF JustifiedInv, EntriesInv, PreciseInv
<1>2. a \in prog.addr /\ a[1] \in Obj /\ a[2] \in Node
  BY <1>1, ProgramFacts DEF TypeOK, processAddr, IsProgram
<1>3. NarrowGuards
  BY DEF PlainAnalysis
<1>4. /\ UNCHANGED <<prog, pc, condPtsMap, consCG, rep, reach, conjCappedGuards, subs>>
      /\ pc = "addr" /\ live' = live
  BY DEF processAddr, live
<1>5. \A path : SolOn(path)' = SolOn(path)
  BY <1>4 DEF SolOn
<1>6. GuardsTyped' /\ ConstantsApart' /\ MergedAlike' /\ EdgesHold'
  BY <1>1, <1>4, <1>5 DEF Justified, GuardsTyped, ConstantsApart, MergedAlike, EdgesHold
<1>7. RootsLinked' /\ LoopHolds'
  BY <1>4 DEF RootsLinked, LoopHolds
<1>8. FactsHold'
  <2>1. SUFFICES ASSUME NEW n \in live, NEW o \in pts'[n],
                        NEW path \in Admits(guardOf(n, o))
                 PROVE  o \in SolOn(path)[n]
    BY <1>4, <1>5 DEF FactsHold, factJustified, guardOf
  <2>2. n \in Node /\ o \in Obj
    BY <1>1, <1>2, <2>1 DEF live, TypeOK, processAddr
  <2>3. guardOf(n, o) \in Guards
    BY <1>1, <1>3, <2>2 DEF Justified, GuardsTyped, guardOf, NarrowGuards
  <2>4. path \in Path
    BY <1>3, <2>1, <2>3 DEF NarrowGuards
  <2>5. o \in pts[n] \/ (n = a[2] /\ o = a[1])
    BY <1>1, <1>2, <2>1, <2>2 DEF TypeOK, processAddr
  <2>6. CASE o \in pts[n]
    BY <1>1, <2>1, <2>6 DEF Justified, FactsHold, factJustified
  <2>7. CASE n = a[2] /\ o = a[1]
    BY <1>1, <1>2, <2>4, <2>7, OnPathFacts DEF TypeOK
  <2> QED BY <2>5, <2>6, <2>7
<1> QED BY <1>6, <1>7, <1>8 DEF Justified

(* A statement's guard admits the paths on which the statement counts.     *)
LEMMA AttachJustified ==
  ASSUME PlainAnalysis, JustifiedInv, NEW s \in todo, attachStaticEdgeGuard(s)
  PROVE  Justified'
<1>1. TypeOK /\ Justified /\ NarrowGuards
  BY DEF JustifiedInv, EntriesInv, PreciseInv, PlainAnalysis
<1>2. /\ pc = "attach" /\ todo' = todo \ {s} /\ s \in prog.stmts /\ s.guard \in Guards
      /\ consCG' = mergeEdgeGuard(consCG, stmtEdge(s), s.guard)
      /\ UNCHANGED <<prog, pc, pts, condPtsMap, rep, reach, conjCappedGuards, subs>>
      /\ live' = live
  BY <1>1 DEF attachStaticEdgeGuard, TypeOK, PlainAnalysis, stmtEdge, live
<1>3. \A path : SolOn(path)' = SolOn(path)
  BY <1>2 DEF SolOn
<1>4. DOMAIN consCG' = DOMAIN consCG
  BY <1>2, MergeEdgeGuardDomain
<1>5. \A e \in DOMAIN consCG : e # stmtEdge(s) => consCG'[e] = consCG[e]
  BY <1>2 DEF mergeEdgeGuard
<1>6. ASSUME stmtEdge(s) \in DOMAIN consCG
      PROVE  LET old == consCG[stmtEdge(s)]
                 new == consCG'[stmtEdge(s)]
             IN  /\ new \in Guards
                 /\ \/ guardIsTrue(s.guard) /\ new = old
                    \/ guardIsTrue(old) /\ new = s.guard
                    \/ ~guardIsTrue(old) /\ Admits(new) \subseteq Admits(old) \cup Admits(s.guard)
  <2>1. consCG[stmtEdge(s)] \in Guards
    BY <1>1, <1>6 DEF Justified, GuardsTyped
  <2>2. consCG'[stmtEdge(s)] =
          IF guardIsTrue(s.guard) THEN consCG[stmtEdge(s)]
          ELSE IF guardIsTrue(consCG[stmtEdge(s)]) THEN s.guard
          ELSE guardOr(consCG[stmtEdge(s)], s.guard)
    BY <1>2, <1>6 DEF mergeEdgeGuard
  <2>3. guardOr(consCG[stmtEdge(s)], s.guard) \in Guards
    BY <1>1, <1>2, <2>1 DEF NarrowGuards
  <2>4. Admits(guardOr(consCG[stmtEdge(s)], s.guard))
          \subseteq Admits(consCG[stmtEdge(s)]) \cup Admits(s.guard)
    BY <1>1, <1>2, <2>1 DEF NarrowGuards
  <2> QED BY <1>2, <2>1, <2>2, <2>3, <2>4
<1>7. GuardsTyped'
  BY <1>1, <1>2, <1>4, <1>5, <1>6 DEF Justified, GuardsTyped
<1>8. \A path \in Admits(s.guard) : Respects(SolOn(path), stmtEdge(s))
  BY <1>1, <1>2, OnPathFacts DEF TypeOK, NarrowGuards
<1>9. EdgesHold'
  <2>1. \A e \in DOMAIN consCG :
          IF attached(e) THEN edgeJustified(e) ELSE guardIsTrue(consCG[e])
    BY <1>1, <1>2 DEF Justified, EdgesHold
  <2>2. \A e : attached(e)' <=> attached(e) \/ e = stmtEdge(s)
    BY <1>2 DEF attached, stmtEdge
  <2>3. ASSUME NEW e \in DOMAIN consCG, e # stmtEdge(s)
        PROVE  IF attached(e)' THEN edgeJustified(e)' ELSE guardIsTrue(consCG'[e])
    BY <1>3, <1>5, <2>1, <2>2, <2>3 DEF edgeJustified
  <2>4. ASSUME stmtEdge(s) \in DOMAIN consCG
        PROVE  edgeJustified(stmtEdge(s))'
    <3>1. SUFFICES ASSUME NEW path \in Admits(consCG'[stmtEdge(s)])
                   PROVE  Respects(SolOn(path), stmtEdge(s))
      BY <1>3 DEF edgeJustified, stmtEdge
    <3>2. CASE guardIsTrue(s.guard)
      <4>1. path \in Admits(s.guard)
        BY <1>1, <1>2, <1>6, <2>4, <3>1, <3>2 DEF NarrowGuards
      <4> QED BY <1>8, <4>1
    <3>3. CASE consCG'[stmtEdge(s)] = s.guard
      BY <1>8, <3>1, <3>3
    <3>4. CASE /\ ~guardIsTrue(consCG[stmtEdge(s)])
               /\ Admits(consCG'[stmtEdge(s)]) \subseteq
                    Admits(consCG[stmtEdge(s)]) \cup Admits(s.guard)
      <4>1. edgeJustified(stmtEdge(s))
        BY <2>1, <2>4, <3>4
      <4> QED BY <1>8, <3>1, <3>4, <4>1 DEF edgeJustified
    <3> QED BY <1>6, <2>4, <3>2, <3>3, <3>4
  <2>5. \A e \in DOMAIN consCG :
          IF attached(e)' THEN edgeJustified(e)' ELSE guardIsTrue(consCG'[e])
    BY <2>2, <2>3, <2>4
  <2>6. \A e \in DOMAIN consCG : \E t \in prog.stmts : stmtEdge(t) = e
    BY <1>1, <1>2 DEF Justified, EdgesHold
  <2>7. pc' = "attach" /\ \A e \in DOMAIN consCG' : \E t \in prog'.stmts : stmtEdge(t)' = e
    BY <1>2, <1>4, <2>6 DEF stmtEdge
  <2> QED BY <1>2, <1>4, <2>5, <2>7 DEF EdgesHold
<1>10. FactsHold' /\ MergedAlike'
  BY <1>1, <1>2, <1>3 DEF Justified, FactsHold, factJustified, guardOf, MergedAlike
<1>11. RootsLinked' /\ LoopHolds' /\ ConstantsApart'
  BY <1>1, <1>2, <1>4 DEF Justified, RootsLinked, LoopHolds, ConstantsApart
<1> QED BY <1>7, <1>9, <1>10, <1>11 DEF Justified

-----------------------------------------------------------------------------
(* Two nodes that reach each other are linked by copies between nodes of   *)
(* their SCC: a way out of the SCC does not come back.                     *)
LEMMA SCCLinked ==
  ASSUME NEW r \in live, NEW a \in scc(r, reachable), NEW b \in scc(r, reachable),
         NEW X \in SUBSET Node, a \in X, closedIn(scc(r, reachable), X),
         \A e \in edges("copy") : e.src \in live /\ e.dst \in live
  PROVE  b \in X
<1> DEFINE C == scc(r, reachable)
           Y == {x \in live : <<a, x>> \in reachable /\ (x \in C => x \in X)}
<1>1. /\ \A x, y, z : <<x, y>> \in reachable /\ <<y, z>> \in reachable => <<x, z>> \in reachable
      /\ \A x \in live : <<x, x>> \in reachable
      /\ reachable \subseteq live \X live
  BY ReachTransitive
<1>2. a \in live /\ b \in live /\ <<a, b>> \in reachable
  BY <1>1 DEF scc
<1>3. ASSUME NEW e \in edges("copy") PROVE <<e.src, e.dst>> \in reachable
  <2>1. \A Z \in closedSets : e.src \in Z => e.dst \in Z
    BY <1>3 DEF closedSets
  <2>2. <<e.src, e.dst>> \in live \X live
    BY <1>3
  <2> QED BY <2>1, <2>2 DEF reachable
<1>4. ASSUME NEW e \in edges("copy"), e.src \in Y PROVE e.dst \in Y
  <2>1. e.dst \in live /\ <<a, e.dst>> \in reachable
    BY <1>1, <1>3, <1>4
  <2>2. ASSUME e.dst \in C PROVE e.dst \in X
    <3>1. <<e.src, r>> \in reachable /\ <<r, e.src>> \in reachable
      BY <1>1, <1>3, <1>4, <2>2 DEF scc
    <3>2. e.src \in C
      BY <1>4, <3>1 DEF scc, live
    <3> QED BY <1>4, <2>2, <3>2 DEF closedIn
  <2> QED BY <2>1, <2>2
<1>5. Y \in closedSets
  BY <1>4 DEF closedSets
<1>6. a \in Y
  BY <1>1, <1>2
<1> HIDE DEF Y
<1>7. b \in Y
  BY <1>2, <1>5, <1>6 DEF reachable
<1> QED BY <1>7 DEF Y

(* SCC detection finds components that are linked, and none with a         *)
(* constant object in it.                                                  *)
LEMMA DetectJustified ==
  ASSUME PlainAnalysis, JustifiedInv, SCCDetect
  PROVE  Justified'
<1>1. TypeOK /\ Justified /\ GraphWithin /\ subs = {}
  BY DEF JustifiedInv, EntriesInv, PreciseInv, Within, SubsWithin, SCCDetect
<1>2. /\ pc \in {"attach", "update"} /\ todo = {} /\ pc' = "merge" /\ reach' = reachable
      /\ UNCHANGED <<prog, subs, pts, condPtsMap, consCG, rep, conjCappedGuards>>
      /\ live' = live
  BY DEF SCCDetect, live
<1>3. \A path : SolOn(path)' = SolOn(path)
  BY <1>2 DEF SolOn
<1>4. PICK roots \in SUBSET live : todo' = {r \in roots : scc(r, reach') # {r}}
  BY DEF SCCDetect
<1>5. GuardsTyped' /\ MergedAlike' /\ LoopHolds'
  BY <1>1, <1>2, <1>3 DEF Justified, GuardsTyped, MergedAlike, LoopHolds
<1>6. FactsHold'
  BY <1>1, <1>2, <1>3 DEF Justified, FactsHold, factJustified, guardOf
<1>7. EdgesHold'
  <2>1. \A e \in DOMAIN consCG : edgeJustified(e)
    BY <1>1, <1>2 DEF Justified, EdgesHold, attached
  <2>2. \A e : edgeJustified(e)' <=> edgeJustified(e)
    BY <1>2, <1>3 DEF edgeJustified
  <2> QED BY <1>2, <2>1, <2>2 DEF EdgesHold
<1>8. RootsLinked'
  <2>1. \A e \in edges("copy") : e.src \in live /\ e.dst \in live
    BY <1>1 DEF GraphWithin, edges
  <2>2. \A C, X : closedIn(C, X)' <=> closedIn(C, X)
    BY <1>2 DEF closedIn, edges
  <2>3. SUFFICES ASSUME NEW r \in todo', NEW a \in scc(r, reachable), NEW b \in scc(r, reachable),
                        NEW X \in SUBSET Node, a \in X, closedIn(scc(r, reachable), X)
                 PROVE  b \in X
    BY <1>2, <2>2 DEF RootsLinked, scc
  <2>4. r \in live
    BY <1>4
  <2> QED BY <2>1, <2>3, <2>4, SCCLinked
<1>9. ConstantsApart'
  <2>1. SUFFICES ASSUME NEW p \in reachable, p[1] # p[2]
                 PROVE  p[1] \notin ConstObj /\ p[2] \notin ConstObj
    BY <1>1, <1>2 DEF Justified, ConstantsApart
  <2>2. p[1] \in live /\ p[2] \in live /\ \A X \in closedSets : p[1] \in X => p[2] \in X
    BY <2>1 DEF reachable
  <2>3. \A e \in edges("copy") : e.src \notin ConstObj /\ e.dst \notin ConstObj
    BY <1>1 DEF Justified, ConstantsApart, edges
  <2>4. p[1] \notin ConstObj
    <3>1. p[1] \in ConstObj => {p[1]} \in closedSets
      BY <2>2, <2>3 DEF closedSets
    <3> QED BY <2>1, <2>2, <3>1
  <2>5. p[2] \notin ConstObj
    <3>1. p[2] \in ConstObj => live \ {p[2]} \in closedSets
      BY <1>1, <2>3 DEF closedSets, GraphWithin, edges
    <3> QED BY <2>1, <2>2, <3>1
  <2> QED BY <2>4, <2>5
<1> QED BY <1>5, <1>6, <1>7, <1>8, <1>9 DEF Justified

(* An SCC is merged only when no edge at it is conditional: then no path   *)
(* tells its nodes apart.                                                  *)
LEMMA BeginSCCJustified ==
  ASSUME PlainAnalysis, JustifiedInv, NEW r \in todo, beginSCC(r)
  PROVE  Justified'
<1>1. /\ TypeOK /\ Justified /\ NarrowGuards /\ RootsWithin /\ GraphWithin
      /\ ~mergeCondSCC
  BY DEF JustifiedInv, EntriesInv, PreciseInv, Within, PlainAnalysis
<1>2. /\ pc = "merge" /\ pc' = pc /\ todo' = todo \ {r}
      /\ UNCHANGED <<prog, pts, condPtsMap, consCG, rep, reach, conjCappedGuards>>
      /\ live' = live /\ r \in scc(r, reach) /\ scc(r, reach) \subseteq Node
  BY <1>1 DEF beginSCC, live, RootsWithin, scc
<1>3. \A path : SolOn(path)' = SolOn(path)
  BY <1>2 DEF SolOn
<1>4. \A p \in subs' : /\ ~sccHasConditionalEdge(r)
                       /\ \E n \in scc(r, reach) \ {r} : p = <<n, r>>
  BY <1>1 DEF beginSCC
<1>5. ASSUME ~sccHasConditionalEdge(r), NEW a \in scc(r, reach), NEW b \in scc(r, reach),
             NEW path \in Path
      PROVE  SolOn(path)[a] \subseteq SolOn(path)[b]
  <2> DEFINE X == {x \in Node : SolOn(path)[a] \subseteq SolOn(path)[x]}
  <2>1. ASSUME NEW e \in edges("copy"), e.src \in X, e.src \in scc(r, reach)
        PROVE  e.dst \in X
    <3>1. e \in DOMAIN consCG /\ e.kind = "copy" /\ guardIsTrue(consCG[e])
      BY <1>5, <2>1 DEF sccHasConditionalEdge, edges
    <3>2. consCG[e] \in Guards /\ edgeJustified(e)
      BY <1>1, <1>2, <3>1 DEF Justified, GuardsTyped, EdgesHold
    <3>3. path \in Admits(consCG[e])
      BY <1>1, <3>1, <3>2 DEF NarrowGuards
    <3>4. SolOn(path)[e.src] \subseteq SolOn(path)[e.dst]
      BY <3>1, <3>2, <3>3 DEF edgeJustified, Respects
    <3>5. e.dst \in Node
      BY <1>1, <3>1 DEF TypeOK, Edge
    <3> QED BY <2>1, <3>4, <3>5
  <2>2. closedIn(scc(r, reach), X) /\ a \in X
    BY <1>2, <2>1 DEF closedIn
  <2> HIDE DEF X
  <2>3. X \in SUBSET Node
    BY DEF X
  <2>4. b \in X
    BY <1>1, <1>2, <2>2, <2>3 DEF Justified, RootsLinked
  <2> QED BY <2>4 DEF X
<1>6. MergedAlike'
  <2>1. ASSUME NEW p \in subs', NEW path \in Path
        PROVE  SolOn(path)[p[1]] = SolOn(path)[p[2]]
    <3>1. PICK n \in scc(r, reach) : p = <<n, r>>
      BY <1>4
    <3>2. SolOn(path)[n] \subseteq SolOn(path)[r] /\ SolOn(path)[r] \subseteq SolOn(path)[n]
      BY <1>2, <1>4, <1>5
    <3>3. p[1] = n /\ p[2] = r
      BY <3>1
    <3>4. SolOn(path)[n] = SolOn(path)[r]
      BY <3>2
    <3> QED BY <3>3, <3>4
  <2> QED BY <1>1, <1>2, <1>3, <2>1 DEF Justified, MergedAlike
<1>7. ConstantsApart'
  <2>1. \A p \in subs' : p[1] \notin ConstObj /\ p[2] \notin ConstObj
    <3>1. SUFFICES ASSUME NEW n \in scc(r, reach), n # r
                   PROVE  n \notin ConstObj /\ r \notin ConstObj
      BY <1>4
    <3>2. <<r, n>> \in reach
      BY DEF scc
    <3> QED BY <1>1, <3>1, <3>2 DEF Justified, ConstantsApart
  <2> QED BY <1>1, <1>2, <2>1 DEF Justified, ConstantsApart
<1>8. GuardsTyped' /\ LoopHolds' /\ RootsLinked'
  BY <1>1, <1>2
     DEF Justified, GuardsTyped, LoopHolds, RootsLinked, scc, closedIn, edges
<1>9. EdgesHold'
  BY <1>1, <1>2, <1>3 DEF Justified, EdgesHold, edgeJustified
<1>10. FactsHold'
  BY <1>1, <1>2, <1>3 DEF Justified, FactsHold, factJustified, guardOf
<1> QED BY <1>6, <1>7, <1>8, <1>9, <1>10 DEF Justified

-----------------------------------------------------------------------------
(* Merging a guard that is justified into an entry that is: the fact stays *)
(* justified, also when the entry is erased.                               *)
LEMMA MergedFactJustified ==
  ASSUME PlainAnalysis, NEW n, NEW o,
         NEW old \in Guards \cup {NoGuard}, NEW g \in Guards,
         old # NoGuard => \A path \in Admits(old) : o \in SolOn(path)[n],
         \A path \in Admits(g) : o \in SolOn(path)[n]
  PROVE  LET new == orMergeCondPts(old, g)
         IN  \A path \in Path : path \in Admits(IF new = NoGuard THEN trueGuard ELSE new)
                                  => o \in SolOn(path)[n]
<1> DEFINE new == orMergeCondPts(old, g)
<1>1. /\ new = NoGuard => guardIsTrue(g) \/ (old # NoGuard /\ guardIsTrue(old))
      /\ new # NoGuard => Admits(new) \subseteq
                            Admits(g) \cup (IF old = NoGuard THEN {} ELSE Admits(old))
  BY OrMergeNarrow
<1>2. NarrowGuards
  BY DEF PlainAnalysis
<1> HIDE DEF new
<1>3. SUFFICES ASSUME NEW path \in Path,
                      path \in Admits(IF new = NoGuard THEN trueGuard ELSE new)
               PROVE  o \in SolOn(path)[n]
  BY DEF new
<1>4. CASE new = NoGuard
  <2>1. guardIsTrue(g) => path \in Admits(g)
    BY <1>2 DEF NarrowGuards
  <2>2. old # NoGuard /\ guardIsTrue(old) => path \in Admits(old)
    BY <1>2 DEF NarrowGuards
  <2> QED BY <1>1, <1>4, <2>1, <2>2
<1>5. CASE new # NoGuard
  <2>1. path \in Admits(g) \/ (old # NoGuard /\ path \in Admits(old))
    BY <1>1, <1>3, <1>5
  <2> QED BY <2>1
<1> QED BY <1>4, <1>5

(* The facts of merged nodes: no path tells the two nodes apart.           *)
LEMMA MergeFactsHold ==
  ASSUME PlainAnalysis, JustifiedInv, NEW p \in subs, mergeNodeToRep(p[1], p[2])
  PROVE  FactsHold' /\ GuardsTyped'
<1> DEFINE n == p[1]
           r == p[2]
<1>1. /\ TypeOK /\ Justified /\ NarrowGuards /\ EntriesWithinPts /\ GuardsTyped
      /\ n \in live /\ r \in live /\ n \in Node /\ r \in Node /\ n # r
  BY DEF JustifiedInv, EntriesInv, PreciseInv, Within, SubsWithin, PlainAnalysis, live, Justified
<1>2. \A path \in Path : SolOn(path)[n] = SolOn(path)[r]
  BY <1>1 DEF Justified, MergedAlike
<1>3. /\ prog' = prog /\ live' = live \ {n} /\ ~mergeCondSCC
      /\ \A m \in Node : pts'[m] = IF m = r THEN pts[r] \cup pts[n] ELSE pts[m]
      /\ \A m \in Node : condPtsMap'[m] = IF m = n THEN noEntries
                           ELSE IF m = r THEN [o \in Obj |-> mergedEntry(n, r, o)]
                           ELSE condPtsMap[m]
  BY <1>1 DEF TypeOK, mergeNodeToRep, live, PlainAnalysis
<1>4. \A path : SolOn(path)' = SolOn(path)
  BY <1>3 DEF SolOn
<1>5. \A m \in Node, o \in Obj : condPtsMap[m][o] \in Guards \cup {NoGuard}
  BY <1>1 DEF GuardsTyped
<1>6. \A o \in Obj : mergedEntry(n, r, o) \in Guards \cup {NoGuard}
  BY <1>1, <1>3, <1>5, OrMergeNarrow DEF mergedEntry
<1>7. \A e \in DOMAIN consCG : Admits(consCG[e]) \subseteq Path
  BY <1>1 DEF GuardsTyped, NarrowGuards
<1>8. GuardsTyped'
  <2>1. \A e \in DOMAIN consCG' : consCG'[e] \in Guards
    <3>1. consCG' = moveEdgesToRepNode(consCG, n, r) /\ DOMAIN consCG \subseteq Edge
      BY <1>1 DEF mergeNodeToRep, TypeOK
    <3>2. \A e \in DOMAIN consCG : \A path \in Admits(consCG[e]) : Respects(SolOn(path), e)
      BY <1>1 DEF mergeNodeToRep, Justified, EdgesHold, edgeJustified
    <3>3. \A e \in DOMAIN consCG : consCG[e] \in Guards
      BY <1>1 DEF GuardsTyped
    <3> HIDE DEF n, r
    <3> QED BY <1>1, <1>2, <1>7, <3>1, <3>2, <3>3, MoveEdgesJustified
  <2>2. ASSUME NEW m \in Node, NEW o \in Obj
        PROVE  condPtsMap'[m][o] \in Guards \cup {NoGuard}
    <3> HIDE DEF n, r
    <3>1. CASE m = n
      BY <1>3, <3>1 DEF noEntries
    <3>2. CASE m = r
      BY <1>1, <1>3, <1>6, <3>2
    <3>3. CASE m # n /\ m # r
      BY <1>3, <1>5, <3>3
    <3> QED BY <3>1, <3>2, <3>3
  <2>3. conjCappedGuards' = {}
    <3>1. \A o \in Obj : condPtsMap[n][o] # NoGuard =>
                           orMergeCapped(condPtsMap[r][o], condPtsMap[n][o]) = {}
      BY <1>1, <1>5, OrMergeNarrow
    <3>2. conjCappedGuards = {}
      BY <1>1 DEF GuardsTyped
    <3> QED BY <3>1, <3>2 DEF mergeNodeToRep
  <2> QED BY <2>1, <2>2, <2>3 DEF GuardsTyped
<1> HIDE DEF n, r
<1>9. SUFFICES ASSUME NEW m \in live', NEW o \in pts'[m], NEW path \in Admits(guardOf(m, o)')
               PROVE  o \in SolOn(path)[m]
  BY <1>4, <1>8 DEF FactsHold, factJustified
<1>10. m \in live /\ m \in Node /\ m # n /\ o \in Obj
  BY <1>1, <1>3, <1>9 DEF live, TypeOK
<1>11. CASE m # r
  BY <1>1, <1>3, <1>9, <1>10, <1>11 DEF Justified, FactsHold, factJustified, guardOf
<1>12. CASE m = r
  <2> DEFINE old == condPtsMap[r][o]
             new == mergedEntry(n, r, o)
  <2>1. condPtsMap'[r][o] = new
    BY <1>1, <1>3, <1>10
  <2>2. path \in Admits(IF new = NoGuard THEN trueGuard ELSE new) /\ path \in Path
    BY <1>1, <1>6, <1>9, <1>10, <1>12, <2>1 DEF guardOf, NarrowGuards
  <2>3. /\ o \in pts[r] => \A q \in Admits(guardOf(r, o)) : o \in SolOn(q)[r]
        /\ o \in pts[n] => \A q \in Admits(guardOf(n, o)) : o \in SolOn(q)[n]
    BY <1>1 DEF Justified, FactsHold, factJustified
  <2>4. CASE condPtsMap[n][o] = NoGuard
    <3>1. new = old
      BY <2>4 DEF mergedEntry
    <3>2. CASE o \in pts[r]
      BY <2>2, <2>3, <3>1, <3>2, <1>12 DEF guardOf
    <3>3. CASE o \notin pts[r]
      <4>1. o \in pts[n] /\ old = NoGuard
        BY <1>1, <1>3, <1>9, <1>10, <1>12, <3>3 DEF EntriesWithinPts
      <4>2. path \in Admits(guardOf(n, o))
        BY <2>2, <2>4, <3>1, <4>1 DEF guardOf
      <4> QED BY <1>2, <1>12, <2>2, <2>3, <4>1, <4>2
    <3> QED BY <3>2, <3>3
  <2>5. CASE condPtsMap[n][o] # NoGuard
    <3> DEFINE g == condPtsMap[n][o]
    <3>1. new = orMergeCondPts(old, g)
      BY <1>3, <2>5 DEF mergedEntry
    <3>2. g \in Guards /\ old \in Guards \cup {NoGuard} /\ o \in pts[n]
      BY <1>1, <1>5, <1>10, <2>5 DEF EntriesWithinPts
    <3>3. old # NoGuard => o \in pts[r]
      BY <1>1, <1>10 DEF EntriesWithinPts
    <3>4. \A q \in Admits(g) : o \in SolOn(q)[r]
      BY <1>1, <1>2, <2>3, <2>5, <3>2 DEF guardOf, NarrowGuards
    <3>5. old # NoGuard => \A q \in Admits(old) : o \in SolOn(q)[r]
      BY <2>3, <3>3 DEF guardOf
    <3> HIDE DEF g, old, new
    <3> QED BY <1>12, <2>2, <3>1, <3>2, <3>4, <3>5, MergedFactJustified
  <2> QED BY <2>4, <2>5
<1> QED BY <1>11, <1>12

(* Merging keeps the guards justified.                                     *)
LEMMA MergeJustified ==
  ASSUME PlainAnalysis, JustifiedInv, NEW p \in subs, mergeNodeToRep(p[1], p[2])
  PROVE  Justified'
<1> DEFINE n == p[1]
           r == p[2]
<1>1. /\ TypeOK /\ Justified /\ NarrowGuards /\ SubsWithin /\ RootsWithin
      /\ n \in live /\ r \in live /\ n \in Node /\ r \in Node /\ n # r /\ p = <<n, r>>
  BY DEF JustifiedInv, EntriesInv, PreciseInv, Within, SubsWithin, PlainAnalysis, live, TypeOK
<1>2. \A path \in Path : SolOn(path)[n] = SolOn(path)[r]
  BY <1>1 DEF Justified, MergedAlike
<1>3. /\ pc = "merge" /\ UNCHANGED <<prog, pc, todo, reach>>
      /\ subs' = subs \ {p}
      /\ consCG' = moveEdgesToRepNode(consCG, n, r) /\ DOMAIN consCG \subseteq Edge
      /\ \A m \in Node : rep'[m] = IF rep[m] = n THEN r ELSE rep[m]
  BY <1>1 DEF mergeNodeToRep, TypeOK
<1>4. \A path : SolOn(path)' = SolOn(path)
  BY <1>3 DEF SolOn
<1>5. /\ \A e \in DOMAIN consCG : consCG[e] \in Guards
      /\ \A e \in DOMAIN consCG : Admits(consCG[e]) \subseteq Path
      /\ \A e \in DOMAIN consCG : \A path \in Admits(consCG[e]) : Respects(SolOn(path), e)
  BY <1>1, <1>3 DEF Justified, GuardsTyped, NarrowGuards, EdgesHold, edgeJustified
<1>6. /\ \A e \in DOMAIN consCG' : \A path \in Admits(consCG'[e]) : Respects(SolOn(path), e)
      /\ \A e \in DOMAIN consCG : e.src # n /\ e.dst # n /\ e.src # e.dst => e \in DOMAIN consCG'
  <2> HIDE DEF n, r
  <2> QED BY <1>1, <1>2, <1>3, <1>5, MoveEdgesJustified
<1>7. EdgesHold'
  BY <1>3, <1>4, <1>6 DEF EdgesHold, edgeJustified
<1>8. MergedAlike'
  <2>1. ASSUME NEW m \in Node, NEW path \in Path PROVE SolOn(path)[rep'[m]] = SolOn(path)[m]
    <3>1. SolOn(path)[rep[m]] = SolOn(path)[m]
      BY <1>1 DEF Justified, MergedAlike
    <3> QED BY <1>2, <1>3, <3>1
  <2> QED BY <1>1, <1>3, <1>4, <2>1 DEF Justified, MergedAlike
<1>9. RootsLinked'
  <2>1. SUFFICES ASSUME NEW q \in todo, NEW a \in scc(q, reach), NEW b \in scc(q, reach),
                        NEW X \in SUBSET Node, a \in X, closedIn(scc(q, reach), X)'
                 PROVE  b \in X
    BY <1>3 DEF RootsLinked, scc
  <2>2. n \notin scc(q, reach)
    BY <1>1, <1>3 DEF RootsWithin
  <2>3. closedIn(scc(q, reach), X)
    <3>1. SUFFICES ASSUME NEW e \in edges("copy"), e.src \in X,
                          e.src \in scc(q, reach), e.dst \in scc(q, reach)
                   PROVE  e.dst \in X
      BY DEF closedIn
    <3>2. e.src # e.dst => e \in DOMAIN consCG' /\ e.kind = "copy"
      BY <1>6, <2>2, <3>1 DEF edges
    <3>3. scc(q, reach)' = scc(q, reach)
      BY <1>3 DEF scc
    <3> QED BY <2>1, <3>1, <3>2, <3>3 DEF closedIn, edges
  <2> QED BY <1>1, <1>3, <2>1, <2>3 DEF Justified, RootsLinked
<1>10. LoopHolds'
  BY <1>3 DEF LoopHolds
<1>11. ConstantsApart'
  <2>1. n \notin ConstObj /\ r \notin ConstObj
    BY <1>1 DEF Justified, ConstantsApart
  <2>2. \A e \in DOMAIN consCG' : e.src \notin ConstObj /\ e.dst \notin ConstObj
    <3>1. \A e \in DOMAIN consCG : e.src \notin ConstObj /\ e.dst \notin ConstObj
      BY <1>1 DEF Justified, ConstantsApart
    <3>2. GraphWithin
      BY DEF JustifiedInv, EntriesInv, PreciseInv, Within
    <3>3. Sol[n] = Sol[r] /\ \A e \in DOMAIN consCG : Respects(Sol, e)
      BY <1>1, <3>2 DEF SubsWithin, GraphWithin
    <3>4. \A e \in DOMAIN consCG' :
            /\ e.src = r \/ \E f \in DOMAIN consCG : e.src = f.src
            /\ e.dst = r \/ \E f \in DOMAIN consCG : e.dst = f.dst
      <4> HIDE DEF n, r
      <4> QED BY <1>1, <1>3, <3>3, MoveEdgesWithin
    <3> QED BY <2>1, <3>1, <3>4
  <2>3. ASSUME NEW m \in Node, m \in ConstObj \/ rep'[m] \in ConstObj PROVE rep'[m] = m
    <3>1. m \in ConstObj \/ rep[m] \in ConstObj
      BY <1>3, <2>1, <2>3
    <3>2. rep[m] = m
      BY <1>1, <3>1 DEF Justified, ConstantsApart
    <3> QED BY <1>3, <2>1, <3>1, <3>2
  <2> QED BY <1>1, <1>3, <2>2, <2>3 DEF Justified, ConstantsApart
<1> QED BY <1>7, <1>8, <1>9, <1>10, <1>11, MergeFactsHold DEF Justified

-----------------------------------------------------------------------------
(* A derived copy holds where the statement does and the pointer holds the *)
(* object; constant objects get none.                                      *)
LEMMA LoadStoreJustified ==
  ASSUME PlainAnalysis, JustifiedInv, NEW t \in todo, pc = "loadstore",
         processLoadStore(t[1], t[2])
  PROVE  Justified'
<1> DEFINE o   == t[1]
           e   == t[2]
           d   == derivedEdge(o, e)
           dg  == derivedGuard(o, e)
           add == addCopyEdges(consCG, IF o \in ConstObj THEN {} ELSE {d})
<1>1. TypeOK /\ Justified /\ NarrowGuards /\ Obj \subseteq Node /\ GraphWithin
  BY ProgramFacts DEF JustifiedInv, EntriesInv, PreciseInv, Within, PlainAnalysis, TypeOK
<1>2. /\ o \in Obj /\ e \in DOMAIN consCG /\ e \in Edge /\ e.kind \in {"load", "store"}
      /\ o \in pts[pointer(e)] /\ pointer(e) \in live /\ pointer(e) \in Node
  BY <1>1 DEF TypeOK, edges, GraphWithin, Justified, LoopHolds, pointer, live
<1>3. /\ UNCHANGED <<prog, pc, pts, condPtsMap, rep, reach, conjCappedGuards, subs>>
      /\ todo' \subseteq todo /\ live' = live
      /\ consCG' = mergeEdgeGuard(add, d, dg)
  BY DEF processLoadStore, live, PlainAnalysis
<1>4. \A path : SolOn(path)' = SolOn(path)
  BY <1>3 DEF SolOn
<1>5. /\ consCG[e] \in Guards /\ guardOf(pointer(e), o) \in Guards
      /\ edgeJustified(e) /\ factJustified(pointer(e), o)
  BY <1>1, <1>2 DEF Justified, GuardsTyped, EdgesHold, FactsHold, guardOf, NarrowGuards
<1>6. dg \in Guards /\ Admits(dg) \subseteq Admits(consCG[e]) \cap Admits(guardOf(pointer(e), o))
  <2>1. guardOf(IF e.kind = "load" THEN e.src ELSE e.dst, o) = guardOf(pointer(e), o)
    BY DEF pointer
  <2>2. \/ guardIsTrue(consCG[e]) /\ dg = guardOf(pointer(e), o)
        \/ guardIsTrue(guardOf(pointer(e), o)) /\ dg = consCG[e]
        \/ dg = guardAnd(consCG[e], guardOf(pointer(e), o))
    BY <2>1 DEF derivedGuard
  <2> DEFINE sg == consCG[e]
             pg == guardOf(pointer(e), o)
  <2>3. sg \in Guards /\ pg \in Guards
    BY <1>5
  <2> HIDE DEF dg, sg, pg
  <2>4. /\ Admits(sg) \subseteq Path /\ Admits(pg) \subseteq Path
        /\ guardIsTrue(sg) => Admits(sg) = Path
        /\ guardIsTrue(pg) => Admits(pg) = Path
        /\ guardAnd(sg, pg) \in Guards
        /\ Admits(guardAnd(sg, pg)) \subseteq Admits(sg) \cap Admits(pg)
    BY <1>1, <2>3 DEF NarrowGuards
  <2>5. \/ guardIsTrue(sg) /\ dg = pg
        \/ guardIsTrue(pg) /\ dg = sg
        \/ dg = guardAnd(sg, pg)
    BY <2>2 DEF sg, pg
  <2>6. dg \in Guards /\ Admits(dg) \subseteq Admits(sg) \cap Admits(pg)
    BY <2>3, <2>4, <2>5
  <2> QED BY <2>6 DEF sg, pg
<1>7. ASSUME o \notin ConstObj, NEW path \in Admits(dg) PROVE Respects(SolOn(path), d)
  <2>1. path \in Path
    BY <1>1, <1>6, <1>7 DEF NarrowGuards
  <2>2. SolOn(path)[rep[o]] = SolOn(path)[o]
    BY <1>1, <1>2, <2>1 DEF Justified, MergedAlike
  <2>3. Respects(SolOn(path), e) /\ o \in SolOn(path)[pointer(e)]
    BY <1>5, <1>6, <1>7 DEF edgeJustified, factJustified
  <2> QED BY <1>2, <1>7, <2>2, <2>3 DEF Respects, derivedEdge, edge, pointer
<1>8. o \notin ConstObj => d.src \notin ConstObj /\ d.dst \notin ConstObj
  <2>1. e.src \notin ConstObj /\ e.dst \notin ConstObj
    BY <1>1, <1>2 DEF Justified, ConstantsApart
  <2>2. o \notin ConstObj => rep[o] \notin ConstObj
    BY <1>1, <1>2 DEF Justified, ConstantsApart
  <2> QED BY <2>1, <2>2 DEF derivedEdge, edge
<1>9. o \in ConstObj => d \notin DOMAIN consCG
  <2>1. o \in ConstObj => rep[o] = o
    BY <1>1, <1>2 DEF Justified, ConstantsApart
  <2>2. d.src = rep[o] \/ d.dst = rep[o]
    BY DEF derivedEdge, edge
  <2> QED BY <1>1, <2>1, <2>2 DEF Justified, ConstantsApart
<1>10. /\ DOMAIN consCG' = DOMAIN add
       /\ \A f \in DOMAIN add : f \in DOMAIN consCG \/ (f = d /\ o \notin ConstObj)
       /\ \A f \in DOMAIN consCG : add[f] = consCG[f]
       /\ d \in DOMAIN add \ DOMAIN consCG => add[d] = trueGuard
  BY <1>3, MergeEdgeGuardDomain DEF addCopyEdges
<1> HIDE DEF d, dg
<1>11. \A f \in DOMAIN consCG' : f # d => f \in DOMAIN consCG /\ consCG'[f] = consCG[f]
  <2> HIDE DEF add
  <2> QED BY <1>3, <1>10 DEF mergeEdgeGuard
<1>12. ASSUME d \in DOMAIN consCG'
       PROVE  /\ o \notin ConstObj /\ consCG'[d] \in Guards
              /\ \A path \in Admits(consCG'[d]) : Respects(SolOn(path), d)
  <2> HIDE DEF add, o, e
  <2>1. o \notin ConstObj
    BY <1>9, <1>10, <1>12
  <2>2. consCG'[d] = IF guardIsTrue(dg) THEN add[d]
                     ELSE IF guardIsTrue(add[d]) THEN dg ELSE guardOr(add[d], dg)
    BY <1>3, <1>10, <1>12 DEF mergeEdgeGuard
  <2>3. CASE d \in DOMAIN consCG
    <3>1. /\ add[d] \in Guards
          /\ \A path \in Admits(add[d]) : Respects(SolOn(path), d)
      BY <1>1, <1>3, <1>10, <2>3 DEF Justified, GuardsTyped, EdgesHold, edgeJustified,
            processLoadStore
    <3>2. /\ guardOr(add[d], dg) \in Guards
          /\ Admits(guardOr(add[d], dg)) \subseteq Admits(add[d]) \cup Admits(dg)
      BY <1>1, <1>6, <3>1 DEF NarrowGuards
    <3> QED BY <1>6, <1>7, <2>1, <2>2, <3>1, <3>2
  <2>4. CASE d \notin DOMAIN consCG
    <3>1. add[d] = trueGuard /\ guardIsTrue(trueGuard)
      BY <1>10, <1>12, <2>4, GuardAssumption
    <3>2. CASE guardIsTrue(dg)
      <4>1. consCG'[d] = trueGuard /\ Admits(trueGuard) = Admits(dg) /\ trueGuard \in Guards
        BY <1>1, <1>6, <2>2, <3>1, <3>2 DEF NarrowGuards
      <4> QED BY <1>7, <2>1, <4>1
    <3>3. CASE ~guardIsTrue(dg)
      BY <1>6, <1>7, <2>1, <2>2, <3>1, <3>3
    <3> QED BY <3>2, <3>3
  <2> QED BY <2>1, <2>3, <2>4
<1>13. GuardsTyped'
  BY <1>1, <1>3, <1>11, <1>12 DEF Justified, GuardsTyped
<1>14. EdgesHold'
  <2>1. \A f \in DOMAIN consCG' : edgeJustified(f)'
    BY <1>1, <1>4, <1>11, <1>12 DEF Justified, EdgesHold, edgeJustified
  <2>2. pc' = "loadstore"
    BY <1>3
  <2> QED BY <2>1, <2>2 DEF EdgesHold
<1>15. ConstantsApart'
  <2>1. \A f \in DOMAIN consCG' : f.src \notin ConstObj /\ f.dst \notin ConstObj
    BY <1>1, <1>8, <1>11, <1>12 DEF Justified, ConstantsApart
  <2> QED BY <1>1, <1>3, <2>1 DEF Justified, ConstantsApart
<1>16. FactsHold' /\ MergedAlike'
  BY <1>1, <1>3, <1>4 DEF Justified, FactsHold, factJustified, guardOf, MergedAlike
<1>17. RootsLinked' /\ LoopHolds'
  BY <1>1, <1>3 DEF Justified, RootsLinked, LoopHolds
<1> QED BY <1>13, <1>14, <1>15, <1>16, <1>17 DEF Justified

(* A copy passes an object on under a guard on whose paths the edge and    *)
(* the fact at its source hold.                                            *)
LEMMA PassedNarrow ==
  ASSUME PlainAnalysis, JustifiedInv, pc = "propagate",
         NEW e \in edges("copy"), NEW o \in Obj
  PROVE  /\ passedGuard(o, e) \in Guards
         /\ Admits(passedGuard(o, e)) \subseteq Admits(consCG[e]) \cap Admits(guardOf(e.src, o))
         /\ condPtsMap[e.src][o] # NoGuard => ~ignoresAnd(condPtsMap[e.src][o], consCG[e])
<1> DEFINE cond == condPtsMap[e.src][o]
<1>1. NarrowGuards /\ GuardsTyped /\ TypeOK
  BY DEF PlainAnalysis, JustifiedInv, Justified, EntriesInv, PreciseInv
<1>2. /\ e \in DOMAIN consCG /\ e.src \in Node /\ consCG[e] \in Guards
      /\ cond \in Guards \cup {NoGuard} /\ conjCappedGuards = {}
  BY <1>1 DEF edges, TypeOK, Edge, GuardsTyped
<1>3. CASE cond = NoGuard
  <2>1. passedGuard(o, e) = guardLimited(consCG[e]) /\ guardOf(e.src, o) = trueGuard
    BY <1>3 DEF passedGuard, guardOf
  <2>2. Admits(trueGuard) = Path
    BY <1>1, GuardAssumption DEF NarrowGuards
  <2> QED BY <1>1, <1>2, <1>3, <2>1, <2>2 DEF NarrowGuards
<1>4. CASE cond # NoGuard
  <2>1. cond \in Guards /\ guardOf(e.src, o) = cond
    BY <1>2, <1>4 DEF guardOf
  <2>2. ~ignoresAnd(cond, consCG[e])
    BY <1>1, <1>2, <2>1 DEF ignoresAnd, NarrowGuards
  <2>3. passedGuard(o, e) = guardLimited(guardAnd(cond, consCG[e]))
    BY <1>4, <2>2 DEF passedGuard
  <2> HIDE DEF cond
  <2>4. /\ guardAnd(cond, consCG[e]) \in Guards
        /\ Admits(guardAnd(cond, consCG[e])) \subseteq Admits(cond) \cap Admits(consCG[e])
    BY <1>1, <1>2, <2>1 DEF NarrowGuards
  <2>5. /\ guardLimited(guardAnd(cond, consCG[e])) \in Guards
        /\ Admits(guardLimited(guardAnd(cond, consCG[e])))
             \subseteq Admits(guardAnd(cond, consCG[e]))
    BY <1>1, <2>4 DEF NarrowGuards
  <2> QED BY <2>1, <2>2, <2>3, <2>4, <2>5 DEF cond
<1> QED BY <1>3, <1>4

(* Nothing is truncated on the way, so no guard becomes conj-capped.       *)
LEMMA NothingCapped ==
  ASSUME PlainAnalysis, JustifiedInv, pc = "propagate", NEW e \in edges("copy")
  PROVE  cappedByCopy(e) = {}
<1>1. NarrowGuards /\ GuardsTyped /\ TypeOK
  BY DEF PlainAnalysis, JustifiedInv, Justified, EntriesInv, PreciseInv
<1>2. e.src \in Node /\ e.dst \in Node /\ consCG[e] \in Guards
  BY <1>1 DEF edges, TypeOK, Edge, GuardsTyped
<1>3. guardCapped(consCG[e]) = {}
  BY <1>1, <1>2 DEF NarrowGuards
<1>4. \A o \in Obj : condPtsMap[e.src][o] # NoGuard =>
                       guardCapped(guardAnd(condPtsMap[e.src][o], consCG[e])) = {}
  <2>1. SUFFICES ASSUME NEW o \in Obj, condPtsMap[e.src][o] # NoGuard
                 PROVE  guardCapped(guardAnd(condPtsMap[e.src][o], consCG[e])) = {}
    OBVIOUS
  <2>2. condPtsMap[e.src][o] \in Guards
    BY <1>1, <1>2, <2>1 DEF GuardsTyped
  <2> QED BY <1>1, <1>2, <2>2 DEF NarrowGuards
<1>5. \A o \in passedObjs(e) : orMergeCapped(condPtsMap[e.dst][o], passedGuard(o, e)) = {}
  <2>1. SUFFICES ASSUME NEW o \in passedObjs(e)
                 PROVE  orMergeCapped(condPtsMap[e.dst][o], passedGuard(o, e)) = {}
    OBVIOUS
  <2>2. o \in Obj /\ passedGuard(o, e) \in Guards
    BY PassedNarrow DEF passedObjs
  <2>3. condPtsMap[e.dst][o] \in Guards \cup {NoGuard}
    BY <1>1, <1>2, <2>2 DEF GuardsTyped
  <2> QED BY <2>2, <2>3, OrMergeNarrow
<1> QED BY <1>3, <1>4, <1>5 DEF cappedByCopy

LEMMA CopyJustified ==
  ASSUME PlainAnalysis, JustifiedInv, NEW e \in todo, processCopy(e)
  PROVE  Justified'
<1>1. TypeOK /\ Justified /\ NarrowGuards /\ EntriesWithinPts /\ GuardsTyped
  BY DEF JustifiedInv, EntriesInv, PreciseInv, PlainAnalysis, Justified
<1>2. /\ pc = "propagate" /\ e \in edges("copy") /\ e \in DOMAIN consCG /\ e.kind = "copy"
      /\ e.src \in Node /\ e.dst \in Node /\ consCG[e] \in Guards
      /\ e.src \in live /\ e.dst \in live
  BY <1>1 DEF processCopy, TypeOK, edges, Edge, GuardsTyped,
              JustifiedInv, EntriesInv, PreciseInv, Within, GraphWithin
<1>3. /\ UNCHANGED <<prog, pc, consCG, rep, reach, subs>>
      /\ live' = live
      /\ conjCappedGuards' = conjCappedGuards \cup cappedByCopy(e)
      /\ \A m \in Node : pts'[m] = IF m = e.dst THEN pts[e.dst] \cup pts[e.src] ELSE pts[m]
      /\ \A m \in Node : m # e.dst => condPtsMap'[m] = condPtsMap[m]
      /\ \A o \in Obj : condPtsMap'[e.dst][o] =
           IF o \in passedObjs(e)
           THEN orMergeCondPts(condPtsMap[e.dst][o], passedGuard(o, e))
           ELSE condPtsMap[e.dst][o]
  BY <1>1, <1>2 DEF processCopy, TypeOK, live, PlainAnalysis
<1>4. \A path : SolOn(path)' = SolOn(path)
  BY <1>3 DEF SolOn
<1>5. edgeJustified(e) /\ \A o \in pts[e.src] : factJustified(e.src, o)
  BY <1>1, <1>2 DEF Justified, EdgesHold, FactsHold
<1>6. GuardsTyped'
  <2>1. ASSUME NEW o \in Obj PROVE condPtsMap'[e.dst][o] \in Guards \cup {NoGuard}
    BY <1>1, <1>2, <1>3, PassedNarrow, OrMergeNarrow DEF GuardsTyped
  <2>2. conjCappedGuards' = {}
    BY <1>1, <1>2, <1>3, NothingCapped DEF GuardsTyped
  <2> QED BY <1>1, <1>3, <2>1, <2>2 DEF GuardsTyped
<1>7. EdgesHold' /\ MergedAlike' /\ ConstantsApart' /\ RootsLinked' /\ LoopHolds'
  BY <1>1, <1>2, <1>3, <1>4 DEF Justified, EdgesHold, edgeJustified, MergedAlike,
       ConstantsApart, RootsLinked, LoopHolds
<1>8. FactsHold'
  <2>1. SUFFICES ASSUME NEW m \in live, NEW o \in pts'[m], NEW path \in Admits(guardOf(m, o)')
                 PROVE  o \in SolOn(path)[m]
    BY <1>3, <1>4 DEF FactsHold, factJustified
  <2>2. m \in Node /\ o \in Obj
    BY <1>1, <1>2, <1>3, <2>1 DEF live, TypeOK
  <2>3. CASE m # e.dst
    BY <1>1, <1>3, <2>1, <2>2, <2>3 DEF Justified, FactsHold, factJustified, guardOf
  <2>4. CASE m = e.dst
    <3> DEFINE old == condPtsMap[e.dst][o]
               new == condPtsMap'[e.dst][o]
               g   == passedGuard(o, e)
    <3>1. path \in Admits(IF new = NoGuard THEN trueGuard ELSE new)
      BY <2>1, <2>4 DEF guardOf
    <3>2. path \in Path
      <4>1. new \in Guards \cup {NoGuard}
        BY <1>2, <1>6, <2>2 DEF GuardsTyped
      <4> HIDE DEF new
      <4> QED BY <1>1, <3>1, <4>1 DEF NarrowGuards
    <3>3. o \in pts[e.dst] => \A q \in Admits(guardOf(e.dst, o)) : o \in SolOn(q)[e.dst]
      BY <1>1, <1>2 DEF Justified, FactsHold, factJustified
    <3>4. old # NoGuard => o \in pts[e.dst] /\ guardOf(e.dst, o) = old
      BY <1>1, <1>2, <2>2 DEF EntriesWithinPts, guardOf
    <3>5. CASE o \in passedObjs(e)
      <4>1. o \in pts[e.src]
        BY <1>1, <1>2, <2>2, <3>5 DEF passedObjs, EntriesWithinPts
      <4>2. g \in Guards /\ Admits(g) \subseteq Admits(consCG[e]) \cap Admits(guardOf(e.src, o))
        BY <1>2, <2>2, PassedNarrow
      <4>3. \A q \in Admits(g) : o \in SolOn(q)[e.dst]
        BY <1>2, <1>5, <4>1, <4>2 DEF edgeJustified, factJustified, Respects
      <4>4. old # NoGuard => \A q \in Admits(old) : o \in SolOn(q)[e.dst]
        BY <3>3, <3>4
      <4>5. old \in Guards \cup {NoGuard}
        BY <1>1, <1>2, <2>2 DEF GuardsTyped
      <4>6. new = orMergeCondPts(old, g)
        BY <1>3, <2>2, <3>5
      <4> HIDE DEF old, g, new
      <4> QED BY <2>4, <3>1, <3>2, <4>2, <4>3, <4>4, <4>5, <4>6, MergedFactJustified
    <3>6. CASE o \notin passedObjs(e)
      <4>1. new = old
        BY <1>3, <2>2, <3>6
      <4>2. CASE o \in pts[e.dst]
        BY <2>4, <3>1, <3>3, <4>1, <4>2 DEF guardOf
      <4>3. CASE o \notin pts[e.dst]
        <5>1. o \in pts[e.src]
          BY <1>2, <1>3, <2>1, <2>4, <4>3
        <5>2. condPtsMap[e.src][o] = NoGuard /\ guardIsTrue(consCG[e])
          <6>1. ~guardIsFalse(guardLimited(consCG[e]))
            BY <1>1, <1>2 DEF NarrowGuards
          <6> QED BY <2>2, <3>6, <5>1, <6>1 DEF passedObjs, PlainAnalysis
        <5>3. path \in Admits(consCG[e]) /\ path \in Admits(guardOf(e.src, o))
          BY <1>1, <1>2, <3>2, <5>2, GuardAssumption DEF NarrowGuards, guardOf
        <5> QED BY <1>2, <1>5, <2>4, <5>1, <5>3 DEF edgeJustified, factJustified, Respects
      <4> QED BY <4>2, <4>3
    <3> QED BY <3>5, <3>6
  <2> QED BY <2>3, <2>4
<1> QED BY <1>6, <1>7, <1>8 DEF Justified

-----------------------------------------------------------------------------
LEMMA JustifiedStep ==
  ASSUME PlainAnalysis, JustifiedInv, [Next]_vars
  PROVE  JustifiedInv'
<1>1. /\ Justified /\ TypeOK /\ EntriesInv'
      /\ prog \in Programs /\ prog.calls = {}
  BY EntriesStep DEF JustifiedInv, EntriesInv, PreciseInv, TypeOK, PlainAnalysis
<1>2. ASSUME beginAttach PROVE Justified'
  <2>1. /\ UNCHANGED <<prog, pts, condPtsMap, consCG, rep, reach, conjCappedGuards, subs>>
        /\ pc = "addr" /\ pc' = "attach" /\ todo' = prog.stmts /\ live' = live
    BY <1>2 DEF beginAttach, live
  <2>2. \A path : SolOn(path)' = SolOn(path)
    BY <2>1 DEF SolOn
  <2>3. \A e : ~attached(e)'
    BY <2>1 DEF attached
  <2>4. EdgesHold'
    <3>1. /\ \A e \in DOMAIN consCG : \E s \in prog.stmts : stmtEdge(s) = e
          /\ \A e \in DOMAIN consCG : guardIsTrue(consCG[e])
      BY <1>1, <2>1 DEF Justified, EdgesHold
    <3>2. \A e \in DOMAIN consCG' : \E s \in prog'.stmts : stmtEdge(s)' = e
      BY <2>1, <3>1 DEF stmtEdge
    <3> QED BY <2>1, <2>3, <3>1, <3>2 DEF EdgesHold
  <2>5. GuardsTyped' /\ FactsHold' /\ MergedAlike' /\ ConstantsApart'
    BY <1>1, <2>1, <2>2
       DEF Justified, GuardsTyped, FactsHold, factJustified, guardOf, MergedAlike, ConstantsApart
  <2>6. RootsLinked' /\ LoopHolds'
    BY <2>1 DEF RootsLinked, LoopHolds
  <2> QED BY <2>4, <2>5, <2>6 DEF Justified
<1>3. ASSUME \/ \E r \in nodeStack : sweepNode(r)
             \/ popFromWorklist
      PROVE  Justified'
  <2>1. \E n : processNode(n)
    BY <1>3 DEF sweepNode, popFromWorklist
  <2>2. /\ UNCHANGED <<prog, pts, condPtsMap, consCG, rep, reach, conjCappedGuards, subs>>
        /\ pc \notin {"addr", "attach"}
    BY <1>3 DEF sweepNode, popFromWorklist, idle
  <2>3. pc' = "loadstore"
    BY <2>1 DEF processNode
  <2>4. LoopHolds'
    BY <2>1, <2>2, ProcessNodeHolds
  <2> QED BY <1>1, <2>2, <2>3, <2>4, JustifiedKept
<1>4. ASSUME \/ handleCopyGep \/ updateCallGraph \/ finish
             \/ \E n \in cpySrcNodes : pushCpySrcNode(n)
      PROVE  Justified'
  <2>1. /\ UNCHANGED <<prog, pts, condPtsMap, consCG, rep, reach, conjCappedGuards, subs>>
        /\ pc \notin {"addr", "attach"}
        /\ pc' \in {"propagate", "update", "done"}
    BY <1>4 DEF handleCopyGep, updateCallGraph, finish, pushCpySrcNode, solved, idle
  <2>2. LoopHolds'
    BY <2>1 DEF LoopHolds
  <2> QED BY <1>1, <2>1, <2>2, JustifiedKept
<1>5. ASSUME \E c \in todo : connectCaller2CalleeParams(c) PROVE Justified'
  BY <1>1, <1>5 DEF connectCaller2CalleeParams, TypeOK
<1>6. ASSUME \E t \in todo : processLoad(t[1], t[2]) \/ processStore(t[1], t[2])
      PROVE  Justified'
  BY <1>6, LoadStoreJustified DEF processLoad, processStore
<1>7. ASSUME UNCHANGED vars PROVE Justified'
  <2>1. UNCHANGED <<prog, pc, todo, pts, condPtsMap, consCG, rep, reach,
                    conjCappedGuards, subs>>
    BY <1>7 DEF vars
  <2>2. live' = live /\ \A path : SolOn(path)' = SolOn(path)
    BY <2>1 DEF live, SolOn
  <2>3. EdgesHold'
    BY <1>1, <2>1, <2>2 DEF Justified, EdgesHold, edgeJustified, attached, stmtEdge
  <2>4. GuardsTyped' /\ FactsHold' /\ MergedAlike' /\ ConstantsApart'
    BY <1>1, <2>1, <2>2
       DEF Justified, GuardsTyped, FactsHold, factJustified, guardOf, MergedAlike, ConstantsApart
  <2>5. RootsLinked' /\ LoopHolds'
    BY <1>1, <2>1 DEF Justified, RootsLinked, scc, closedIn, edges, LoopHolds
  <2> QED BY <2>3, <2>4, <2>5 DEF Justified
<1>8. Justified'
  BY <1>2, <1>3, <1>4, <1>5, <1>6, <1>7, AddrJustified, AttachJustified, DetectJustified,
     BeginSCCJustified, MergeJustified, CopyJustified DEF Next
<1> QED BY <1>1, <1>8 DEF JustifiedInv

(* SolverJustified: however often the solver conjoins, merges, moves and   *)
(* drops guards, a guarded points-to fact is claimed only for paths on     *)
(* which it can arise, and so is a guarded copy edge: for every guard      *)
(* algebra that does not widen, and for the programs without calls.        *)
THEOREM SolverJustified ==
  ASSUME PlainAnalysis
  PROVE  Spec => []GuardsJustified
<1>1. ASSUME JustifiedInv PROVE GuardsJustified
  <2>1. TypeOK /\ Justified /\ RepsWithin /\ NarrowGuards
    BY <1>1 DEF JustifiedInv, EntriesInv, PreciseInv, Within, PlainAnalysis
  <2>2. ASSUME NEW n \in Node, NEW o \in answer[n], NEW path \in Admits(guardOf(rep[n], o))
        PROVE  o \in PathSolution(prog, path)[n]
    <3>1. rep[n] \in live /\ o \in pts[rep[n]] /\ o \in Obj /\ rep[n] \in Node
      BY <2>1, <2>2 DEF answer, live, RepsWithin, TypeOK
    <3>2. o \in SolOn(path)[rep[n]]
      BY <2>1, <2>2, <3>1 DEF Justified, FactsHold, factJustified
    <3>3. guardOf(rep[n], o) \in Guards
      BY <2>1, <3>1 DEF Justified, GuardsTyped, guardOf, NarrowGuards
    <3>4. path \in Path
      BY <2>1, <2>2, <3>3 DEF NarrowGuards
    <3> QED BY <2>1, <3>2, <3>4 DEF Justified, MergedAlike, SolOn
  <2>3. pc \notin {"addr", "attach"} => EdgesJustified
    BY <2>1 DEF Justified, EdgesHold, edgeJustified, EdgesJustified, SolOn
  <2> QED BY <2>2, <2>3 DEF GuardsJustified, FactsJustified
<1> QED BY <1>1, JustifiedInit, JustifiedStep, PTL DEF Spec

(* Guards that decide: guardAnd admits what both operands admit, as the    *)
(* limits leave it, and the satisfiability test finds a path if there is   *)
(* one.                                                                    *)
DecidedGuards ==
  \A g, h \in Guards :
    /\ Admits(g) \cap Admits(h) \subseteq Admits(guardAnd(g, h))
    /\ guardIsSat(guardAnd(g, h)) <=> Admits(guardAnd(g, h)) # {}

(* No alias is reported that no path produces.                             *)
NoneInvented ==
  pc = "done" => \A v, w \in Node :
    v # w /\ mayAlias(v, w) => \E path \in Path : someObjectOnPath(v, w, path)

(* SolverAliasExact: when the solver stops, alias() reports two nodes only *)
(* if they point to a common object on some path, although it asks nothing *)
(* but whether two guards, built apart and moved with merged nodes, are    *)
(* satisfiable together; and if no fact was lost on its way (GuardsSound)  *)
(* it reports them exactly then.                                           *)
THEOREM SolverAliasExact ==
  ASSUME PlainAnalysis, DecidedGuards
  PROVE  Spec => [](NoneInvented /\ (GuardsSound => AliasSound /\ AliasExact))
<1>1. ASSUME JustifiedInv
      PROVE  \A n \in Node : \A o \in answer[n] : guardOf(rep[n], o) \in Guards
  <2>1. TypeOK /\ Justified /\ NarrowGuards
    BY <1>1 DEF JustifiedInv, EntriesInv, PreciseInv, Within, PlainAnalysis
  <2>2. ASSUME NEW n \in Node, NEW o \in answer[n] PROVE guardOf(rep[n], o) \in Guards
    <3>1. rep[n] \in Node /\ o \in Obj
      BY <2>1, <2>2 DEF TypeOK, answer
    <3> QED BY <2>1, <3>1 DEF Justified, GuardsTyped, guardOf, NarrowGuards
  <2> QED BY <2>2
<1>2. ASSUME JustifiedInv, GuardsJustified, pc = "done", NEW v \in Node, NEW w \in Node,
             v # w, mayAlias(v, w)
      PROVE  \E path \in Path : someObjectOnPath(v, w, path)
  <2>1. PICK o \in answer[v] \cap answer[w] : guardIsSat(guardAnd(guardOf(rep[v], o), guardOf(rep[w], o)))
    BY <1>2 DEF mayAlias, PlainAnalysis
  <2> DEFINE g == guardOf(rep[v], o)
             h == guardOf(rep[w], o)
  <2>2. g \in Guards /\ h \in Guards
    BY <1>1, <1>2
  <2> HIDE DEF g, h
  <2>3. PICK path \in Admits(guardAnd(g, h)) : TRUE
    BY <2>1, <2>2 DEF DecidedGuards, g, h
  <2>4. path \in Admits(g) /\ path \in Admits(h) /\ path \in Path
    BY <2>2, <2>3 DEF PlainAnalysis, NarrowGuards
  <2>5. FactsJustified
    BY <1>2 DEF GuardsJustified
  <2>6. o \in PathSolution(prog, path)[v] /\ o \in PathSolution(prog, path)[w]
    BY <2>4, <2>5 DEF FactsJustified, g, h
  <2> QED BY <2>4, <2>6 DEF someObjectOnPath
<1>3. ASSUME JustifiedInv, GuardsSound, pc = "done", NEW v \in Node, NEW w \in Node,
             NEW path \in Path, someObjectOnPath(v, w, path)
      PROVE  mayAlias(v, w)
  <2>1. PICK o : o \in PathSolution(prog, path)[v] /\ o \in PathSolution(prog, path)[w]
    BY <1>3 DEF someObjectOnPath
  <2>2. /\ o \in answer[v] /\ path \in Admits(guardOf(rep[v], o))
        /\ o \in answer[w] /\ path \in Admits(guardOf(rep[w], o))
    BY <1>3, <2>1 DEF GuardsSound
  <2> DEFINE g == guardOf(rep[v], o)
             h == guardOf(rep[w], o)
  <2>3. g \in Guards /\ h \in Guards
    BY <1>1, <1>3, <2>2
  <2> HIDE DEF g, h
  <2>4. path \in Admits(g) /\ path \in Admits(h)
    BY <2>2 DEF g, h
  <2>5. guardIsSat(guardAnd(g, h))
    BY <2>3, <2>4 DEF DecidedGuards
  <2> QED BY <2>2, <2>5 DEF mayAlias, g, h
<1>4. JustifiedInv /\ GuardsJustified => NoneInvented /\ (GuardsSound => AliasSound /\ AliasExact)
  <2>1. JustifiedInv /\ GuardsJustified => NoneInvented
    BY <1>2 DEF NoneInvented
  <2>2. JustifiedInv /\ GuardsSound => AliasSound
    BY <1>3 DEF AliasSound
  <2>3. JustifiedInv /\ GuardsJustified /\ GuardsSound => AliasExact
    BY <1>2, <1>3 DEF AliasExact
  <2> QED BY <2>1, <2>2, <2>3
<1>5. Spec => []GuardsJustified
  BY SolverJustified
<1>6. Spec => []JustifiedInv
  BY JustifiedInit, JustifiedStep, PTL DEF Spec
<1> QED BY <1>4, <1>5, <1>6, PTL

(* OneWayAliasExact: where every fact arrives one way no fact is lost, so  *)
(* then alias() is exact outright: it reports two nodes if and only if     *)
(* some path gives them a common object, which is what guards are for.     *)
THEOREM OneWayAliasExact ==
  ASSUME PlainAnalysis, DecidedGuards, WideGuards, OneWay, LeastOnPaths
  PROVE  Spec => []AliasExact
BY SolverAliasExact, SolverGuardsSound, PTL
=============================================================================
