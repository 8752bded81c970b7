-------------------------- MODULE Soundness_proofs --------------------------
(***************************************************************************)
(* Guards never claim too little (GuardsSound): whatever holds on a path   *)
(* is claimed under a guard that admits the path.  In general the code     *)
(* does not keep this promise: where a fact arrives twice, getOr may drop  *)
(* paths and an unconditional arrival may be forgotten.  It is proved here *)
(* for the programs in which every fact arrives one way, and there for     *)
(* every guard algebra that only ever widens (limits, the depth at which   *)
(* guards collapse and getOr included), for calls and for all options.     *)
(***************************************************************************)
EXTENDS GuardedFacts, Completeness_proofs

CONSTANT Guards   \* the guards that arise: any set the algebra does not leave

(* No operation of the algebra cuts a path that its operands all admit.    *)
WideGuards ==
  /\ NoGuard \notin Guards /\ trueGuard \in Guards
  /\ \A g \in Guards :
       /\ guardIsTrue(g) => Path \subseteq Admits(g)
       /\ guardLimited(g) \in Guards /\ Admits(g) \subseteq Admits(guardLimited(g))
  /\ \A g, h \in Guards :
       /\ guardAnd(g, h) \in Guards /\ Admits(g) \cap Admits(h) \subseteq Admits(guardAnd(g, h))
       /\ guardOr(g, h) \in Guards  /\ Admits(g) \cap Admits(h) \subseteq Admits(guardOr(g, h))
  /\ \A p \in Programs : \A s \in p.stmts \cup p.calls : s.guard \in Guards

(* Every fact arrives one way.                                             *)
OneWay == \A p \in Programs : oneWay(p)

(* The solution of each path is the least: a fact of it has a reason.      *)
LeastOnPaths ==
  \A p \in Programs, path \in Path : \A S \in [Node -> SUBSET Obj] :
    IsSolution(onPath(p, path), S) => \A n \in Node : PathSolution(p, path)[n] \subseteq S[n]

-----------------------------------------------------------------------------
(* The invariant.                                                          *)
SolOn(path) == PathSolution(prog, path)

by == prog.stmts \cup prog.calls

stmtEdge(s) == edge(s.kind, s.src, s.dst)

flowsOnPath(path, s, x, y) == flows(onPath(prog, path), SolOn(path), s, x, y)

(* Where nothing flows in a circle there is nothing to merge.              *)
NoMerges ==
  /\ \A n \in Node : rep[n] = n
  /\ subs = {}
  /\ pc = "merge" => todo = {}

(* Every edge has its reason in the program.                               *)
GraphFlows ==
  \A e \in DOMAIN consCG :
    IF e.kind = "copy" THEN \E s \in by : flows(prog, Sol, s, e.src, e.dst)
                       ELSE \E s \in prog.stmts : stmtEdge(s) = e

WidelyTyped ==
  /\ \A e \in DOMAIN consCG : consCG[e] \in Guards
  /\ \A n \in Node, o \in Obj : condPtsMap[n][o] \in Guards \cup {NoGuard}

(* An edge over which something can flow admits the paths on which it      *)
(* does; a load or store that makes something flow admits its own paths.   *)
CopiesWide ==
  \A s \in by, x, y \in Node, path \in Path :
    /\ Sol[x] # {}
    /\ flowsOnPath(path, s, x, y)
    /\ edge("copy", x, y) \in DOMAIN consCG
    => path \in Admits(consCG[edge("copy", x, y)])

needed(s) == \E x, y \in Node : flows(prog, Sol, s, x, y) /\ Sol[x] # {}

StmtsWide ==
  \A s \in prog.stmts, path \in Path :
    s.kind # "copy" /\ needed(s) /\ path \in Admits(s.guard)
      => path \in Admits(consCG[stmtEdge(s)])

(* The guard of a fact admits every path on which the fact holds.          *)
FactsWide ==
  \A n \in Node, o \in Obj, path \in Path :
    o \in SolOn(path)[n] => path \in Admits(guardOf(n, o))

Wide ==
  /\ NoMerges
  /\ GraphFlows
  /\ WidelyTyped
  /\ CopiesWide
  /\ StmtsWide
  /\ FactsWide

SoundInv == AccountInv /\ EntriesWithinPts /\ Wide

(* What a handler needs of it to leave the guards wide.                    *)
WideGraph ==
  /\ prog \in Programs /\ IsProgram(prog)
  /\ DOMAIN consCG \subseteq Edge
  /\ StmtsIn
  /\ Wide

(* The invariant gives a handler what it needs.                            *)
LEMMA SoundWideGraph == SoundInv => WideGraph
BY ProgramFacts DEF SoundInv, AccountInv, WorkInv, PreciseInv, TypeOK, WideGraph

-----------------------------------------------------------------------------
(* What the solutions of the paths say of the program.                     *)
LEMMA OnPathProgram ==
  ASSUME prog \in Programs, NEW path \in Path
  PROVE  /\ onPath(prog, path).addr  = prog.addr
         /\ onPath(prog, path).stmts = {s \in prog.stmts : path \in Admits(s.guard)}
         /\ onPath(prog, path).calls = {c \in prog.calls : path \in Admits(c.guard)}
         /\ SolOn(path) \in [Node -> SUBSET Obj]
         /\ IsSolution(onPath(prog, path), SolOn(path))
<1>1. DOMAIN prog = {"addr", "stmts", "calls"}
  BY ProgramFacts DEF IsProgram
<1> QED BY <1>1, PathAssumption DEF onPath, SolOn

(* A path has fewer constraints than the program.                          *)
LEMMA SolvesOnPath ==
  ASSUME prog \in Programs, NEW path \in Path, NEW S, IsSolution(prog, S)
  PROVE  IsSolution(onPath(prog, path), S)
BY OnPathProgram DEF IsSolution

(* So whatever flows on a path flows in the program, and the path is one   *)
(* the statement or call is on.                                            *)
LEMMA PathFlows ==
  ASSUME prog \in Programs, LeastOnPaths, NEW path \in Path
  PROVE  /\ \A n \in Node : SolOn(path)[n] \subseteq Sol[n]
         /\ \A s, x, y : flowsOnPath(path, s, x, y) =>
              s \in by /\ flows(prog, Sol, s, x, y) /\ path \in Admits(s.guard)
<1>1. Sol \in [Node -> SUBSET Obj] /\ IsSolution(prog, Sol) /\ IsProgram(prog)
  BY ProgramFacts DEF Sol
<1>2. \A n \in Node : SolOn(path)[n] \subseteq Sol[n]
  BY <1>1, SolvesOnPath DEF LeastOnPaths, SolOn
<1>3. ASSUME NEW s, NEW x, NEW y, flowsOnPath(path, s, x, y)
      PROVE  s \in by /\ flows(prog, Sol, s, x, y) /\ path \in Admits(s.guard)
  <2>1. CASE s \in onPath(prog, path).stmts
    <3>1. s \in prog.stmts /\ path \in Admits(s.guard) /\ s.src \in Node /\ s.dst \in Node
      BY <1>1, <2>1, OnPathProgram DEF IsProgram, IsStmt, edge, Edge
    <3>2. s \in onPath(prog, path).calls => s.fp \in Node /\ s \in prog.calls
      BY <1>1, OnPathProgram DEF IsProgram, IsCall
    <3> QED BY <1>2, <1>3, <3>1, <3>2 DEF flowsOnPath, flows, by
  <2>2. CASE s \in onPath(prog, path).calls /\ s \notin onPath(prog, path).stmts
    <3>1. s \in prog.calls /\ path \in Admits(s.guard) /\ s.fp \in Node
      BY <1>1, <2>2, OnPathProgram DEF IsProgram, IsCall
    <3> QED BY <1>2, <1>3, <2>2, <3>1 DEF flowsOnPath, flows, by
  <2> QED BY <1>3, <2>1, <2>2 DEF flowsOnPath, flows
<1> QED BY <1>2, <1>3

(* A fact without a reason could be left out of the least solution.        *)
LEMMA Supported ==
  ASSUME prog \in Programs, LeastOnPaths, NEW path \in Path,
         NEW n \in Node, NEW o \in SolOn(path)[n]
  PROVE  \/ <<o, n>> \in prog.addr
         \/ \E s \in by, x \in Node : flowsOnPath(path, s, x, n) /\ o \in SolOn(path)[x]
<1> DEFINE P == SolOn(path)
           p == onPath(prog, path)
           S == [m \in Node |-> IF m = n THEN P[n] \ {o} ELSE P[m]]
<1> SUFFICES ASSUME <<o, n>> \notin prog.addr,
                    \A s \in by, x \in Node : flowsOnPath(path, s, x, n) => o \notin P[x]
             PROVE  FALSE
  OBVIOUS
<1>1. /\ P \in [Node -> SUBSET Obj] /\ IsSolution(p, P) /\ p.addr = prog.addr
      /\ p.stmts \subseteq prog.stmts /\ p.calls \subseteq prog.calls
      /\ IsProgram(prog) /\ Obj \subseteq Node
  BY OnPathProgram, ProgramFacts
<1>2. S \in [Node -> SUBSET Obj] /\ \A m \in Node : S[m] \subseteq P[m]
  BY <1>1
<1>3. ASSUME NEW s \in by, NEW x \in Node, NEW y \in Node, flowsOnPath(path, s, x, y),
             P[x] \subseteq P[y]
      PROVE  S[x] \subseteq S[y]
  <2>1. CASE y = n
    <3>1. o \notin P[x]
      BY <1>3, <2>1
    <3> QED BY <1>1, <1>2, <1>3, <2>1, <3>1
  <2>2. CASE y # n
    BY <1>2, <1>3, <2>2
  <2> QED BY <2>1, <2>2
<1>4. \A a \in p.addr : a[1] \in S[a[2]]
  <2>1. ASSUME NEW a \in p.addr PROVE a[1] \in S[a[2]]
    <3>1. a \in Obj \X Node /\ a[1] \in P[a[2]] /\ a # <<o, n>>
      BY <1>1 DEF IsProgram, IsSolution
    <3>2. a[1] # o \/ a[2] # n
      BY <3>1
    <3> QED BY <1>1, <3>1, <3>2
  <2> QED BY <2>1
<1> HIDE DEF S
<1>5. ASSUME NEW s \in p.stmts PROVE Respects(S, s)
  <2>1. s.src \in Node /\ s.dst \in Node /\ s \in by /\ Respects(P, s)
    BY <1>1 DEF IsProgram, IsStmt, edge, Edge, IsSolution, by
  <2>2. s.kind = "copy" => S[s.src] \subseteq S[s.dst]
    BY <1>3, <2>1 DEF flowsOnPath, flows, Respects
  <2>3. ASSUME s.kind = "load", NEW q \in S[s.src] \ ConstObj PROVE S[q] \subseteq S[s.dst]
    <3>1. q \in P[s.src] \ ConstObj /\ q \in Node
      BY <1>1, <1>2, <2>1, <2>3
    <3> QED BY <1>3, <2>1, <2>3, <3>1 DEF flowsOnPath, flows, Respects
  <2>4. ASSUME s.kind = "store", NEW q \in S[s.dst] \ ConstObj PROVE S[s.src] \subseteq S[q]
    <3>1. q \in P[s.dst] \ ConstObj /\ q \in Node
      BY <1>1, <1>2, <2>1, <2>4
    <3> QED BY <1>3, <2>1, <2>4, <3>1 DEF flowsOnPath, flows, Respects
  <2> QED BY <2>2, <2>3, <2>4 DEF Respects
<1>6. ASSUME NEW c \in p.calls, c.fun \in S[c.fp], NEW arg \in c.args
      PROVE  S[arg[1]] \subseteq S[arg[2]]
  <2>1. c.fp \in Node /\ arg \in Node \X Node /\ c \in by
    BY <1>1 DEF IsProgram, IsCall, by
  <2>2. c.fun \in P[c.fp] /\ P[arg[1]] \subseteq P[arg[2]]
    BY <1>1, <1>2, <1>6, <2>1 DEF IsSolution
  <2>3. flowsOnPath(path, c, arg[1], arg[2])
    BY <1>6, <2>1, <2>2 DEF flowsOnPath, flows
  <2> QED BY <1>3, <2>1, <2>2, <2>3
<1>7. IsSolution(p, S)
  BY <1>4, <1>5, <1>6 DEF IsSolution
<1>8. P[n] \subseteq S[n]
  BY <1>2, <1>7 DEF LeastOnPaths, SolOn
<1> QED BY <1>8 DEF S

(* What OneWay says of the program under analysis.                         *)
LEMMA OneWayFacts ==
  ASSUME prog \in Programs, OneWay
  PROVE  /\ \A s, t \in by, x, z, y \in Node :
              /\ flows(prog, Sol, s, x, y)
              /\ flows(prog, Sol, t, z, y)
              /\ Sol[x] \cap Sol[z] # {}
              => s = t /\ x = z
         /\ \A a \in prog.addr, s \in by, x \in Node :
              flows(prog, Sol, s, x, a[2]) => a[1] \notin Sol[x]
         /\ \A N \in SUBSET Node : N # {} =>
              \E y \in N : \A s \in by, x \in N : ~flows(prog, Sol, s, x, y)
         /\ \A s \in by, x, y \in Node :
              flows(prog, Sol, s, x, y) => x \notin ConstObj /\ y \notin ConstObj
BY DEF OneWay, oneWay, Sol, by

-----------------------------------------------------------------------------
(* What merging guards does to the paths they admit.                       *)

(* Merging a guard into an edge keeps the paths both admit.                *)
LEMMA MergeEdgeWide ==
  ASSUME WideGuards, NEW g, NEW e, NEW guard \in Guards,
         \A f \in DOMAIN g : g[f] \in Guards
  PROVE  LET h == mergeEdgeGuard(g, e, guard)
         IN  \A f \in DOMAIN g :
               /\ h[f] \in Guards
               /\ f # e => h[f] = g[f]
               /\ \A path \in Path : path \in Admits(g[f]) /\ path \in Admits(guard)
                                       => path \in Admits(h[f])
<1>1. CASE guardIsTrue(guard) \/ e \notin DOMAIN g
  BY <1>1 DEF mergeEdgeGuard
<1>2. CASE ~guardIsTrue(guard) /\ e \in DOMAIN g
  <2> DEFINE new == IF guardIsTrue(g[e]) THEN guard ELSE guardOr(g[e], guard)
  <2>1. new \in Guards /\ Admits(g[e]) \cap Admits(guard) \subseteq Admits(new)
    BY <1>2 DEF WideGuards
  <2>2. mergeEdgeGuard(g, e, guard) = [g EXCEPT ![e] = new]
    BY <1>2 DEF mergeEdgeGuard
  <2> HIDE DEF new
  <2> QED BY <1>2, <2>1, <2>2
<1> QED BY <1>1, <1>2

(* No entry stands for every path.                                         *)
entryAdmits(path, entry) == path \in Admits(IF entry = NoGuard THEN trueGuard ELSE entry)

(* An entry that is kept, dropped, replaced by the arriving guard or       *)
(* disjoined with it keeps the paths it and that guard admit.              *)
LEMMA EntryWide ==
  ASSUME WideGuards, NEW old \in Guards \cup {NoGuard}, NEW guard \in Guards, NEW new,
         \/ new = NoGuard \/ new = guard \/ new = old
         \/ /\ old # NoGuard
            /\ new = guardOr(old, guard) \/ new = guardLimited(guardOr(old, guard))
  PROVE  /\ new \in Guards \cup {NoGuard}
         /\ \A path \in Path : entryAdmits(path, old) /\ path \in Admits(guard)
                                 => entryAdmits(path, new)
<1> DEFINE merged == guardOr(old, guard)
<1>1. \A path \in Path : entryAdmits(path, NoGuard)
  BY GuardAssumption DEF entryAdmits, WideGuards
<1>2. old # NoGuard => /\ merged \in Guards /\ guardLimited(merged) \in Guards
                       /\ Admits(old) \cap Admits(guard) \subseteq Admits(merged)
                       /\ Admits(merged) \subseteq Admits(guardLimited(merged))
  BY DEF WideGuards
<1>3. \A g \in Guards : g # NoGuard
  BY DEF WideGuards
<1> HIDE DEF merged
<1>4. new \in Guards \cup {NoGuard}
  BY <1>2 DEF merged
<1>5. ASSUME NEW path \in Path, entryAdmits(path, old), path \in Admits(guard)
      PROVE  entryAdmits(path, new)
  <2>1. CASE new = NoGuard \/ new = old
    BY <1>1, <1>5, <2>1
  <2>2. CASE new = guard
    BY <1>3, <1>5, <2>2 DEF entryAdmits
  <2>3. CASE old # NoGuard /\ (new = merged \/ new = guardLimited(merged))
    BY <1>2, <1>3, <1>5, <2>3 DEF entryAdmits
  <2> QED BY <2>1, <2>2, <2>3 DEF merged
<1> QED BY <1>4, <1>5

(* Every outcome of orMergeCondPts is one of these.                        *)
LEMMA OrMergeWide ==
  ASSUME WideGuards, NEW old \in Guards \cup {NoGuard}, NEW guard \in Guards
  PROVE  /\ orMergeCondPts(old, guard) \in Guards \cup {NoGuard}
         /\ \A path \in Path : entryAdmits(path, old) /\ path \in Admits(guard)
                                 => entryAdmits(path, orMergeCondPts(old, guard))
<1> DEFINE new == orMergeCondPts(old, guard)
<1>1. \/ new = NoGuard \/ new = guard \/ new = old
      \/ /\ old # NoGuard
         /\ new = guardOr(old, guard) \/ new = guardLimited(guardOr(old, guard))
  BY DEF orMergeCondPts
<1> HIDE DEF new
<1> QED BY <1>1, EntryWide DEF new

-----------------------------------------------------------------------------
(* Nothing is merged: into some node of a component nothing flows from its *)
(* others, so they cannot reach it and there are none.                     *)
LEMMA NothingToMerge ==
  ASSUME WideGraph, OneWay, SCCDetect
  PROVE  todo' = {}
<1>1. prog \in Programs /\ DOMAIN consCG \subseteq Edge /\ NoMerges /\ GraphFlows
  BY DEF WideGraph, Wide
<1>2. ASSUME NEW r \in live, NEW n \in scc(r, reachable), n # r PROVE FALSE
  <2> DEFINE N == scc(r, reachable)
  <2>1. N \subseteq Node /\ r \in N /\ n \in N
    BY <1>2, ReachTransitive DEF scc, live
  <2>2. PICK y \in N : \A s \in by, x \in N : ~flows(prog, Sol, s, x, y)
    <3> HIDE DEF N
    <3>1. \A M \in SUBSET Node : M # {} =>
            \E y \in M : \A s \in by, x \in M : ~flows(prog, Sol, s, x, y)
      BY <1>1, OneWayFacts
    <3>2. N \in SUBSET Node /\ N # {}
      BY <2>1
    <3> QED BY <3>1, <3>2
  <2>3. PICK z \in N : z # y
    BY <1>2, <2>1
  <2>4. <<z, y>> \in reachable /\ <<r, z>> \in reachable /\ <<y, r>> \in reachable
    BY <2>2, <2>3, ReachTransitive DEF scc
  <2> DEFINE others == {x \in live : <<z, x>> \in reachable /\ x # y}
  <2>5. ASSUME NEW e \in edges("copy"), e.src \in others PROVE e.dst \in others
    <3>1. e \in Edge /\ e \in DOMAIN consCG /\ e.kind = "copy"
      BY <1>1 DEF edges
    <3>2. e.src \in live /\ e.dst \in live /\ <<e.src, e.dst>> \in reachable
      BY <1>1, <2>5, <3>1 DEF Edge, NoMerges, live, reachable, closedSets
    <3>3. <<z, e.dst>> \in reachable
      BY <2>5, <3>2, ReachTransitive
    <3>4. ASSUME e.dst = y PROVE FALSE
      <4>1. e.src \in N
        BY <2>4, <2>5, <3>2, <3>4, ReachTransitive DEF scc, live
      <4> QED BY <1>1, <2>2, <3>1, <3>4, <4>1 DEF GraphFlows
    <3> QED BY <3>2, <3>3, <3>4
  <2>6. others \in closedSets
    BY <2>5 DEF closedSets
  <2>7. z \in others
    BY <2>3, <2>4, ReachTransitive
  <2> HIDE DEF others
  <2>8. y \in others
    BY <2>4, <2>6, <2>7 DEF reachable
  <2> QED BY <2>8 DEF others
<1>3. ASSUME NEW r \in live PROVE scc(r, reachable) = {r}
  BY <1>2, <1>3, ReachTransitive DEF scc, live
<1>4. reach' = reachable
  BY DEF SCCDetect
<1> QED BY <1>3, <1>4 DEF SCCDetect

(* The program stays, and with it what flows in it.                        *)
LEMMA FlowsKept ==
  ASSUME UNCHANGED prog
  PROVE  /\ Sol' = Sol /\ by' = by
         /\ \A path \in Path : SolOn(path)' = SolOn(path)
         /\ \A path \in Path : \A s, x, y :
              flowsOnPath(path, s, x, y)' <=> flowsOnPath(path, s, x, y)
         /\ \A s : needed(s)' <=> needed(s)
BY DEF Sol, by, SolOn, flowsOnPath, needed

(* Facts stay wide while no entry changes.                                 *)
LEMMA FactsKept ==
  ASSUME FactsWide, UNCHANGED <<prog, condPtsMap>>
  PROVE  FactsWide'
BY DEF FactsWide, SolOn, guardOf

(* Handlers that touch neither a guard nor the graph.                      *)
LEMMA WideKept ==
  ASSUME Wide, UNCHANGED <<prog, condPtsMap, consCG, rep, subs>>,
         pc' = "merge" => todo' = {}
  PROVE  Wide'
<1>1. NoMerges'
  BY DEF Wide, NoMerges
<1>2. FactsWide' /\ WidelyTyped'
  BY FactsKept DEF Wide, WidelyTyped
<1>3. GraphFlows'
  BY DEF Wide, GraphFlows, Sol, by
<1>4. CopiesWide'
  BY DEF Wide, CopiesWide, Sol, by, SolOn, flowsOnPath
<1>5. StmtsWide'
  BY DEF Wide, StmtsWide, Sol, needed
<1> QED BY <1>1, <1>2, <1>3, <1>4, <1>5 DEF Wide

(* A statement that is needed has its edge to itself.                      *)
LEMMA EdgeAlone ==
  ASSUME prog \in Programs, OneWay, NEW s \in prog.stmts, NEW t \in prog.stmts,
         stmtEdge(s) = stmtEdge(t), needed(s)
  PROVE  s = t
<1>1. s.kind = t.kind /\ s.src = t.src /\ s.dst = t.dst
  BY DEF stmtEdge, edge
<1>2. PICK x, y \in Node : flows(prog, Sol, s, x, y) /\ Sol[x] # {}
  BY DEF needed
<1>3. s \notin prog.calls
  BY ProgramFacts DEF IsProgram, IsStmt, IsCall
<1>4. flows(prog, Sol, t, x, y)
  BY <1>1, <1>2, <1>3 DEF flows
<1>5. s \in by /\ t \in by /\ Sol[x] \cap Sol[x] # {}
  BY <1>2 DEF by
<1> QED BY <1>2, <1>4, <1>5, OneWayFacts

(* attachStaticEdgeGuards gives each edge the guard of its statement.      *)
LEMMA AttachWide ==
  ASSUME WideGraph, WideGuards, OneWay, LeastOnPaths,
         NEW s \in prog.stmts, attachStaticEdgeGuard(s)
  PROVE  Wide'
<1>1. /\ prog \in Programs /\ s \in by /\ s.guard \in Guards
      /\ NoMerges /\ GraphFlows /\ WidelyTyped /\ CopiesWide /\ StmtsWide /\ FactsWide
  BY DEF WideGraph, Wide, WideGuards, by
<1> DEFINE e == stmtEdge(s)
<1>2. /\ UNCHANGED <<prog, condPtsMap, rep, subs>> /\ pc' = "attach"
      /\ consCG' = mergeEdgeGuard(consCG, e, s.guard)
  BY DEF attachStaticEdgeGuard, stmtEdge
<1> HIDE DEF e
<1>3. DOMAIN consCG' = DOMAIN consCG
  BY <1>2, MergeEdgeGuardDomain
<1>4. \A f \in DOMAIN consCG :
        /\ consCG'[f] \in Guards
        /\ f # e => consCG'[f] = consCG[f]
        /\ \A path \in Path : path \in Admits(consCG[f]) /\ path \in Admits(s.guard)
                                => path \in Admits(consCG'[f])
  BY <1>1, <1>2, MergeEdgeWide DEF WidelyTyped
<1>5. NoMerges'
  BY <1>1, <1>2 DEF NoMerges
<1>6. FactsWide' /\ WidelyTyped'
  BY <1>1, <1>2, <1>3, <1>4, FactsKept DEF WidelyTyped
<1>7. GraphFlows'
  BY <1>1, <1>2, <1>3 DEF GraphFlows, Sol, by
<1>8. CopiesWide'
  <2> SUFFICES ASSUME NEW t \in by, NEW x \in Node, NEW y \in Node, NEW path \in Path,
                      Sol[x] # {}, flowsOnPath(path, t, x, y),
                      edge("copy", x, y) \in DOMAIN consCG
               PROVE  path \in Admits(consCG'[edge("copy", x, y)])
    BY <1>2, <1>3, FlowsKept DEF CopiesWide
  <2>1. path \in Admits(consCG[edge("copy", x, y)])
    BY <1>1 DEF CopiesWide
  <2>2. CASE edge("copy", x, y) = e
    <3>1. flows(prog, Sol, s, x, y)
      BY <1>1, <2>2 DEF e, stmtEdge, edge, flows
    <3>2. flows(prog, Sol, t, x, y) /\ path \in Admits(t.guard)
      BY <1>1, PathFlows
    <3>3. t = s
      BY <1>1, <3>1, <3>2, OneWayFacts
    <3> QED BY <1>4, <2>1, <3>2, <3>3
  <2> QED BY <1>4, <2>1, <2>2
<1>9. StmtsWide'
  <2> SUFFICES ASSUME NEW t \in prog.stmts, NEW path \in Path,
                      t.kind # "copy", needed(t), path \in Admits(t.guard)
               PROVE  path \in Admits(consCG'[stmtEdge(t)])
    BY <1>2, FlowsKept DEF StmtsWide
  <2>1. path \in Admits(consCG[stmtEdge(t)])
    BY <1>1 DEF StmtsWide
  <2>2. stmtEdge(t) \in DOMAIN consCG
    <3>1. t.src \in Node /\ t.dst \in Node /\ constraintIn(t.kind, t.src, t.dst)
      BY DEF WideGraph, IsProgram, IsStmt, edge, Edge, StmtsIn
    <3> QED BY <1>1, <3>1 DEF constraintIn, NoMerges, stmtEdge
  <2>3. stmtEdge(t) = e => t = s
    BY <1>1, EdgeAlone DEF e
  <2> QED BY <1>4, <2>1, <2>2, <2>3
<1> QED BY <1>5, <1>6, <1>7, <1>8, <1>9 DEF Wide

-----------------------------------------------------------------------------
(* Steps that extend the graph in the ways the statements and calls ask    *)
(* for, keeping or widening what their own flows need, keep it wide.       *)
LEMMA GraphWide ==
  ASSUME WideGraph, UNCHANGED <<prog, condPtsMap, rep, subs>>, pc' # "merge",
         DOMAIN consCG \subseteq DOMAIN consCG',
         \A e \in DOMAIN consCG' : consCG'[e] \in Guards,
         \A e \in DOMAIN consCG' \ DOMAIN consCG :
           e.kind = "copy" /\ \E s \in by : flows(prog, Sol, s, e.src, e.dst),
         \A e \in DOMAIN consCG : e.kind # "copy" => consCG'[e] = consCG[e],
         \A s \in by, x, y \in Node, path \in Path :
           /\ Sol[x] # {} /\ flowsOnPath(path, s, x, y)
           /\ edge("copy", x, y) \in DOMAIN consCG'
           /\ edge("copy", x, y) \in DOMAIN consCG
                => path \in Admits(consCG[edge("copy", x, y)])
           => path \in Admits(consCG'[edge("copy", x, y)])
  PROVE  Wide'
<1>1. /\ NoMerges /\ GraphFlows /\ WidelyTyped /\ CopiesWide /\ StmtsWide /\ FactsWide
      /\ StmtsIn /\ IsProgram(prog)
  BY DEF WideGraph, Wide
<1>2. NoMerges'
  BY <1>1 DEF NoMerges
<1>3. FactsWide' /\ WidelyTyped'
  BY <1>1, FactsKept DEF WidelyTyped
<1>4. GraphFlows'
  BY <1>1 DEF GraphFlows, Sol, by
<1>5. CopiesWide'
  <2> SUFFICES ASSUME NEW s \in by, NEW x \in Node, NEW y \in Node, NEW path \in Path,
                      Sol[x] # {}, flowsOnPath(path, s, x, y),
                      edge("copy", x, y) \in DOMAIN consCG'
               PROVE  path \in Admits(consCG'[edge("copy", x, y)])
    BY FlowsKept DEF CopiesWide
  <2>1. edge("copy", x, y) \in DOMAIN consCG => path \in Admits(consCG[edge("copy", x, y)])
    BY <1>1 DEF CopiesWide
  <2> QED BY <2>1
<1>6. StmtsWide'
  <2> SUFFICES ASSUME NEW t \in prog.stmts, NEW path \in Path,
                      t.kind # "copy", needed(t), path \in Admits(t.guard)
               PROVE  path \in Admits(consCG'[stmtEdge(t)])
    BY FlowsKept DEF StmtsWide
  <2>1. path \in Admits(consCG[stmtEdge(t)])
    BY <1>1 DEF StmtsWide
  <2>2. stmtEdge(t) \in DOMAIN consCG /\ stmtEdge(t).kind # "copy"
    BY <1>1 DEF IsProgram, IsStmt, edge, Edge, StmtsIn, constraintIn, NoMerges, stmtEdge
  <2> QED BY <2>1, <2>2
<1> QED BY <1>2, <1>3, <1>4, <1>5, <1>6 DEF Wide

(* The guard of a derived edge admits the paths on which the statement     *)
(* makes its flow: they admit the statement, and the pointer's fact holds  *)
(* on them.                                                                *)
LEMMA DerivedGuardWide ==
  ASSUME WideGuards, WidelyTyped, NEW e \in DOMAIN consCG, pointer(e) \in Node, NEW o \in Obj
  PROVE  /\ derivedGuard(o, e) \in Guards
         /\ \A path \in Path : path \in Admits(consCG[e]) /\ path \in Admits(guardOf(pointer(e), o))
                                 => path \in Admits(derivedGuard(o, e))
<1> DEFINE stmtG == consCG[e]
           ptsG  == guardOf(pointer(e), o)
<1>1. stmtG \in Guards /\ ptsG \in Guards
  BY DEF WidelyTyped, guardOf, WideGuards
<1>2. derivedGuard(o, e) = IF guardIsTrue(stmtG) THEN ptsG
                           ELSE IF guardIsTrue(ptsG) THEN stmtG ELSE guardAnd(stmtG, ptsG)
  BY DEF derivedGuard, pointer
<1> HIDE DEF stmtG, ptsG
<1>3. guardAnd(stmtG, ptsG) \in Guards
      /\ Admits(stmtG) \cap Admits(ptsG) \subseteq Admits(guardAnd(stmtG, ptsG))
  BY <1>1 DEF WideGuards
<1> QED BY <1>1, <1>2, <1>3 DEF stmtG, ptsG

(* processLoad and processStore: a constant object has no edge that the    *)
(* guard could be merged into, any other the edge of this one flow.        *)
derivesWithGuard(o, e) ==
  LET new   == derivedEdge(o, e)
      added == addCopyEdges(consCG, IF o \in ConstObj THEN {} ELSE {new})
  IN  consCG' = IF unconditional THEN added ELSE mergeEdgeGuard(added, new, derivedGuard(o, e))

(* Loads and stores derive copies as wide as what flows over them.         *)
LEMMA DeriveWide ==
  ASSUME WideGraph, WideGuards, OneWay, LeastOnPaths,
         NEW e \in edges("load") \cup edges("store"), NEW o \in Obj, o \in Sol[pointer(e)],
         derivesWithGuard(o, e), UNCHANGED <<prog, condPtsMap, rep, subs>>, pc' # "merge"
  PROVE  Wide'
<1>1. /\ StmtsIn /\ prog \in Programs /\ IsProgram(prog)
      /\ NoMerges /\ GraphFlows /\ WidelyTyped /\ CopiesWide /\ StmtsWide /\ FactsWide
  BY DEF WideGraph, Wide
<1>2. /\ o \in Obj /\ o \in Node /\ o \in Sol[pointer(e)]
      /\ e \in DOMAIN consCG /\ e.kind \in {"load", "store"}
      /\ e \in Edge
  BY ConstraintsAssumption DEF WideGraph, edges
<1>3. PICK s \in prog.stmts : stmtEdge(s) = e
  BY <1>1, <1>2 DEF GraphFlows
<1>4. /\ s.kind = e.kind /\ s.src = e.src /\ s.dst = e.dst /\ s \in by
      /\ e.src \in Node /\ e.dst \in Node /\ pointer(e) \in Node
  BY <1>2, <1>3 DEF stmtEdge, edge, by, Edge, pointer
<1>5. PICK x, y \in Node : /\ derivedEdge(o, e) = edge("copy", x, y)
                           /\ e.kind = "load" => x = o /\ y = e.dst
                           /\ e.kind = "store" => x = e.src /\ y = o
  BY <1>1, <1>2, <1>4 DEF derivedEdge, NoMerges
<1> DEFINE new == edge("copy", x, y)
           added == addCopyEdges(consCG, IF o \in ConstObj THEN {} ELSE {new})
           guard == derivedGuard(o, e)
<1>6. consCG' = IF unconditional THEN added ELSE mergeEdgeGuard(added, new, guard)
  BY <1>5 DEF derivesWithGuard
<1>7. DOMAIN consCG' = DOMAIN added
  BY <1>6, MergeEdgeGuardDomain
<1>8. /\ DOMAIN added \subseteq DOMAIN consCG \cup {new} /\ DOMAIN consCG \subseteq DOMAIN added
      /\ o \in ConstObj => DOMAIN added = DOMAIN consCG
      /\ \A f \in DOMAIN added : added[f] = IF f \in DOMAIN consCG THEN consCG[f] ELSE trueGuard
      /\ \A f \in DOMAIN added : added[f] \in Guards
  BY <1>1 DEF addCopyEdges, WidelyTyped, WideGuards
<1>9. new.kind = "copy" /\ new.src = x /\ new.dst = y
  BY DEF edge
<1>10. guard \in Guards
  BY <1>1, <1>2, <1>4, DerivedGuardWide
<1>11. o \notin ConstObj => flows(prog, Sol, s, x, y)
  BY <1>2, <1>3, <1>4, <1>5 DEF flows, pointer
<1>12. o \in ConstObj => new \notin DOMAIN consCG
  BY <1>1, <1>2, <1>5, <1>9, OneWayFacts DEF GraphFlows
<1> HIDE DEF new, added, guard
<1>13. \A f \in DOMAIN added :
         /\ consCG'[f] \in Guards
         /\ f # new => consCG'[f] = added[f]
         /\ \A path \in Path : path \in Admits(added[f]) /\ path \in Admits(guard)
                                 => path \in Admits(consCG'[f])
  BY <1>6, <1>8, <1>10, MergeEdgeWide
<1>14. \A f \in DOMAIN consCG' \ DOMAIN consCG :
         f.kind = "copy" /\ \E t \in by : flows(prog, Sol, t, f.src, f.dst)
  BY <1>4, <1>7, <1>8, <1>9, <1>11
<1>15. ASSUME NEW t \in by, NEW v \in Node, NEW w \in Node, NEW path \in Path,
              Sol[v] # {}, flowsOnPath(path, t, v, w),
              edge("copy", v, w) \in DOMAIN consCG',
              edge("copy", v, w) \in DOMAIN consCG => path \in Admits(consCG[edge("copy", v, w)])
       PROVE  path \in Admits(consCG'[edge("copy", v, w)])
  <2> DEFINE f == edge("copy", v, w)
  <2>1. f \in DOMAIN added /\ path \in Admits(added[f])
    BY <1>7, <1>8, <1>15, GuardAssumption DEF WideGuards
  <2>2. CASE f = new
    <3>1. v = x /\ w = y /\ o \notin ConstObj
      BY <1>7, <1>8, <1>9, <1>12, <1>15, <2>2 DEF edge
    <3>2. flows(prog, Sol, t, x, y) /\ path \in Admits(t.guard)
      BY <1>1, <1>15, <3>1, PathFlows
    <3>3. t = s
      BY <1>1, <1>4, <1>11, <1>15, <3>1, <3>2, OneWayFacts
    <3>4. needed(s)
      BY <1>15, <3>1, <3>2, <3>3 DEF needed
    <3>5. path \in Admits(consCG[e])
      BY <1>1, <1>2, <1>3, <1>4, <3>2, <3>3, <3>4 DEF StmtsWide
    <3>6. o \in SolOn(path)[pointer(e)]
      <4>1. s \notin onPath(prog, path).calls
        BY <1>1, <1>3, OnPathProgram DEF IsProgram, IsStmt, IsCall
      <4> QED BY <1>2, <1>4, <1>5, <1>15, <3>1, <3>3, <4>1 DEF flowsOnPath, flows, pointer
    <3>7. path \in Admits(guardOf(pointer(e), o))
      BY <1>1, <1>2, <1>4, <3>6 DEF FactsWide
    <3>8. path \in Admits(guard)
      BY <1>1, <1>2, <1>4, <3>5, <3>7, DerivedGuardWide DEF guard
    <3> QED BY <1>13, <2>1, <3>8
  <2> QED BY <1>13, <2>1, <2>2
<1>16. \A f \in DOMAIN consCG : f.kind # "copy" => consCG'[f] = consCG[f]
  BY <1>8, <1>9, <1>13
<1>17. \A f \in DOMAIN consCG' : consCG'[f] \in Guards
  BY <1>7, <1>13
<1>18. DOMAIN consCG \subseteq DOMAIN consCG'
  BY <1>7, <1>8
<1> QED BY <1>14, <1>15, <1>16, <1>17, <1>18, GraphWide

(* A call binds its arguments under the guard of its call site, over edges *)
(* that no other flow uses.                                                *)
LEMMA ConnectWide ==
  ASSUME WideGraph, WideGuards, OneWay, LeastOnPaths,
         NEW c \in prog.calls, c.fun \in Sol[c.fp], connectCaller2CalleeParams(c)
  PROVE  Wide'
<1>1. /\ prog \in Programs /\ IsProgram(prog)
      /\ NoMerges /\ GraphFlows /\ WidelyTyped /\ CopiesWide /\ StmtsWide /\ FactsWide
  BY DEF WideGraph, Wide
<1>2. c \in by /\ c.args \subseteq Node \X Node /\ c.guard \in Guards
  BY <1>1 DEF by, IsProgram, IsCall, WideGuards
<1> DEFINE added == addCopyEdges(consCG, boundEdges(c))
           fresh == DOMAIN added \ DOMAIN consCG
<1>3. /\ UNCHANGED <<prog, condPtsMap, rep, subs>> /\ pc' = "update"
      /\ consCG' = [e \in DOMAIN added |->
                      IF e \in fresh /\ ~guardIsTrue(c.guard) THEN c.guard ELSE added[e]]
  BY DEF connectCaller2CalleeParams
<1>4. /\ DOMAIN consCG \subseteq DOMAIN added
      /\ \A f \in DOMAIN consCG : added[f] = consCG[f]
      /\ \A f \in fresh : f \in boundEdges(c) /\ added[f] = trueGuard
  BY DEF addCopyEdges
<1>5. ASSUME NEW f \in boundEdges(c)
      PROVE  f.kind = "copy" /\ f.src \in Node /\ f.dst \in Node
             /\ flows(prog, Sol, c, f.src, f.dst)
  <2>1. PICK arg \in c.args : f = edge("copy", rep[arg[1]], rep[arg[2]])
    BY <1>5 DEF boundEdges
  <2>2. f = edge("copy", arg[1], arg[2]) /\ arg = <<arg[1], arg[2]>>
        /\ arg[1] \in Node /\ arg[2] \in Node
    BY <1>1, <1>2, <2>1 DEF NoMerges
  <2> QED BY <1>2, <2>2 DEF flows, edge
<1> HIDE DEF added
<1>6. \A f \in DOMAIN consCG' : consCG'[f] \in Guards
  BY <1>1, <1>2, <1>3, <1>4 DEF WidelyTyped, WideGuards
<1>7. \A f \in DOMAIN consCG' \ DOMAIN consCG :
        f.kind = "copy" /\ \E t \in by : flows(prog, Sol, t, f.src, f.dst)
  BY <1>2, <1>3, <1>4, <1>5
<1>8. \A f \in DOMAIN consCG : consCG'[f] = consCG[f]
  BY <1>3, <1>4
<1>9. ASSUME NEW t \in by, NEW x \in Node, NEW y \in Node, NEW path \in Path,
             Sol[x] # {}, flowsOnPath(path, t, x, y),
             edge("copy", x, y) \in DOMAIN consCG',
             edge("copy", x, y) \in DOMAIN consCG => path \in Admits(consCG[edge("copy", x, y)])
      PROVE  path \in Admits(consCG'[edge("copy", x, y)])
  <2>1. CASE edge("copy", x, y) \in DOMAIN consCG
    BY <1>8, <1>9, <2>1
  <2>2. CASE edge("copy", x, y) \notin DOMAIN consCG
    <3>1. edge("copy", x, y) \in fresh
      BY <1>3, <1>9, <2>2
    <3>2. flows(prog, Sol, c, x, y)
      BY <1>4, <1>5, <3>1 DEF edge
    <3>3. flows(prog, Sol, t, x, y) /\ path \in Admits(t.guard)
      BY <1>1, <1>9, PathFlows
    <3>4. t = c
      BY <1>1, <1>2, <1>9, <3>2, <3>3, OneWayFacts
    <3>5. path \in Admits(trueGuard)
      BY GuardAssumption DEF WideGuards
    <3> QED BY <1>3, <1>4, <1>9, <3>1, <3>3, <3>4, <3>5
  <2> QED BY <2>1, <2>2
<1>10. DOMAIN consCG \subseteq DOMAIN consCG' /\ pc' # "merge"
  BY <1>3, <1>4
<1> QED BY <1>3, <1>6, <1>7, <1>8, <1>9, <1>10, GraphWide

-----------------------------------------------------------------------------
(* The guard a fact is passed on with admits the paths that its old guard  *)
(* and the edge admit.                                                     *)
LEMMA PassedWide ==
  ASSUME WideGuards, WidelyTyped, NEW e \in DOMAIN consCG, e.src \in Node, NEW o \in Obj
  PROVE  /\ passedGuard(o, e) \in Guards
         /\ \A path \in Path : path \in Admits(consCG[e]) /\ path \in Admits(guardOf(e.src, o))
                                 => path \in Admits(passedGuard(o, e))
<1> DEFINE cond == condPtsMap[e.src][o]
<1>1. consCG[e] \in Guards /\ cond \in Guards \cup {NoGuard}
  BY DEF WidelyTyped
<1>2. passedGuard(o, e) = IF cond = NoGuard THEN guardLimited(consCG[e])
                          ELSE IF ignoresAnd(cond, consCG[e]) THEN cond
                          ELSE guardLimited(guardAnd(cond, consCG[e]))
  BY DEF passedGuard
<1>3. guardOf(e.src, o) = IF cond = NoGuard THEN trueGuard ELSE cond
  BY DEF guardOf
<1> HIDE DEF cond
<1>4. CASE cond = NoGuard
  BY <1>1, <1>2, <1>4 DEF WideGuards
<1>5. CASE cond # NoGuard
  <2>1. /\ guardAnd(cond, consCG[e]) \in Guards
        /\ Admits(cond) \cap Admits(consCG[e]) \subseteq Admits(guardAnd(cond, consCG[e]))
    BY <1>1, <1>5 DEF WideGuards
  <2>2. /\ guardLimited(guardAnd(cond, consCG[e])) \in Guards
        /\ Admits(guardAnd(cond, consCG[e])) \subseteq Admits(guardLimited(guardAnd(cond, consCG[e])))
    BY <2>1 DEF WideGuards
  <2> QED BY <1>1, <1>2, <1>3, <1>5, <2>1, <2>2
<1> QED BY <1>4, <1>5

(* A fact that a copy hands on at all arrives by this copy only: on every  *)
(* path on which the destination holds it, it came over this edge.         *)
LEMMA ArrivesHere ==
  ASSUME prog \in Programs, OneWay, LeastOnPaths, GraphFlows, DOMAIN consCG \subseteq Edge,
         NEW e \in edges("copy"), NEW o \in Sol[e.src], NEW path \in Path,
         o \in SolOn(path)[e.dst]
  PROVE  /\ o \in SolOn(path)[e.src]
         /\ \E s \in by : flowsOnPath(path, s, e.src, e.dst)
<1>1. e \in DOMAIN consCG /\ e.kind = "copy" /\ e.src \in Node /\ e.dst \in Node
  BY DEF edges, Edge
<1>2. PICK s \in by : flows(prog, Sol, s, e.src, e.dst)
  BY <1>1 DEF GraphFlows
<1>3. <<o, e.dst>> \notin prog.addr
  BY <1>1, <1>2, OneWayFacts
<1>4. PICK t \in by, z \in Node : flowsOnPath(path, t, z, e.dst) /\ o \in SolOn(path)[z]
  BY <1>1, <1>3, Supported
<1>5. flows(prog, Sol, t, z, e.dst) /\ o \in Sol[z]
  BY <1>4, PathFlows
<1>6. z = e.src
  BY <1>1, <1>2, <1>5, OneWayFacts
<1> QED BY <1>4, <1>6

(* So a copy may merge into the entries of its destination any guards that *)
(* admit what the edge and the entries of its source admit.                *)
mergesWidely(e, o, old, new) ==
  /\ new \in Guards \cup {NoGuard}
  /\ \A path \in Path : /\ path \in Admits(consCG[e])
                        /\ path \in Admits(guardOf(e.src, o))
                        /\ entryAdmits(path, old)
                        => entryAdmits(path, new)

(* Entries of which each merges what a copy passes on stay wide.           *)
LEMMA ArriveWide ==
  ASSUME WideGraph, OneWay, LeastOnPaths, NEW e \in edges("copy"),
         UNCHANGED <<prog, consCG, rep, subs>>, pc' # "merge",
         \A n \in Node, o \in Obj :
           \/ condPtsMap'[n][o] = condPtsMap[n][o]
           \/ /\ n = e.dst /\ o \in Sol[e.src]
              /\ mergesWidely(e, o, condPtsMap[n][o], condPtsMap'[n][o])
  PROVE  Wide'
<1>1. /\ prog \in Programs /\ DOMAIN consCG \subseteq Edge
      /\ NoMerges /\ GraphFlows /\ WidelyTyped /\ CopiesWide /\ StmtsWide /\ FactsWide
  BY DEF WideGraph, Wide
<1>2. /\ e \in DOMAIN consCG /\ e = edge("copy", e.src, e.dst)
      /\ e.src \in Node /\ e.dst \in Node
  BY <1>1 DEF edges, Edge, edge
<1>3. WidelyTyped'
  BY <1>1 DEF WidelyTyped, mergesWidely
<1>4. ASSUME NEW n \in Node, NEW o \in Obj, NEW path \in Path, o \in SolOn(path)[n]
      PROVE  entryAdmits(path, condPtsMap'[n][o])
  <2>1. entryAdmits(path, condPtsMap[n][o])
    BY <1>1, <1>4 DEF FactsWide, guardOf, entryAdmits
  <2>2. CASE /\ n = e.dst /\ o \in Sol[e.src]
             /\ mergesWidely(e, o, condPtsMap[n][o], condPtsMap'[n][o])
    <3>1. /\ o \in SolOn(path)[e.src]
          /\ \E s \in by : flowsOnPath(path, s, e.src, e.dst)
      BY <1>1, <1>4, <2>2, ArrivesHere
    <3>2. path \in Admits(guardOf(e.src, o))
      BY <1>1, <1>2, <3>1 DEF FactsWide
    <3>3. path \in Admits(consCG[e])
      BY <1>1, <1>2, <2>2, <3>1 DEF CopiesWide
    <3> QED BY <2>1, <2>2, <3>2, <3>3 DEF mergesWidely
  <2> QED BY <2>1, <2>2
<1>5. FactsWide'
  BY <1>4 DEF FactsWide, SolOn, guardOf, entryAdmits
<1>6. NoMerges'
  BY <1>1 DEF NoMerges
<1>7. GraphFlows'
  BY <1>1 DEF GraphFlows, Sol, by
<1>8. CopiesWide'
  BY <1>1 DEF CopiesWide, Sol, by, SolOn, flowsOnPath
<1>9. StmtsWide'
  BY <1>1 DEF StmtsWide, Sol, needed
<1> QED BY <1>3, <1>5, <1>6, <1>7, <1>8, <1>9 DEF Wide

(* processCopy.                                                            *)
LEMMA CopyFactsWide ==
  ASSUME SoundInv, WideGuards, OneWay, LeastOnPaths, NEW e \in todo, processCopy(e)
  PROVE  Wide'
<1>1. TypeOK /\ FactsWithin /\ EntriesWithinPts /\ WidelyTyped
  BY DEF SoundInv, AccountInv, WorkInv, PreciseInv, Within, Wide
<1>2. /\ e \in edges("copy") /\ e \in DOMAIN consCG /\ e.src \in Node /\ e.dst \in Node
      /\ DOMAIN condPtsMap = Node /\ DOMAIN condPtsMap[e.dst] = Obj
  BY <1>1 DEF TypeOK, processCopy, edges, Edge
<1>3. UNCHANGED <<prog, consCG, rep, subs>> /\ pc' = "propagate"
  BY DEF processCopy
<1>4. \A n \in Node, o \in Obj :
        \/ condPtsMap'[n][o] = condPtsMap[n][o]
        \/ /\ n = e.dst /\ o \in passedObjs(e)
           /\ condPtsMap'[n][o] = orMergeCondPts(condPtsMap[n][o], passedGuard(o, e))
  BY <1>2 DEF processCopy
<1>5. \A o \in passedObjs(e) : o \in Sol[e.src]
  BY <1>1, <1>2 DEF passedObjs, EntriesWithinPts, FactsWithin
<1>6. ASSUME NEW n \in Node, NEW o \in Obj
      PROVE  mergesWidely(e, o, condPtsMap[n][o],
                          orMergeCondPts(condPtsMap[n][o], passedGuard(o, e)))
  <2>1. condPtsMap[n][o] \in Guards \cup {NoGuard}
    BY <1>1 DEF WidelyTyped
  <2>2. /\ passedGuard(o, e) \in Guards
        /\ \A path \in Path : path \in Admits(consCG[e]) /\ path \in Admits(guardOf(e.src, o))
                               => path \in Admits(passedGuard(o, e))
    BY <1>1, <1>2, PassedWide
  <2> QED BY <2>1, <2>2, OrMergeWide DEF mergesWidely
<1>7. \A n \in Node, o \in Obj :
        \/ condPtsMap'[n][o] = condPtsMap[n][o]
        \/ /\ n = e.dst /\ o \in Sol[e.src]
           /\ mergesWidely(e, o, condPtsMap[n][o], condPtsMap'[n][o])
  BY <1>4, <1>5, <1>6
<1> QED BY <1>2, <1>3, <1>7, ArriveWide, SoundWideGraph

-----------------------------------------------------------------------------
(* At the start the entries are wide: there are none.                      *)
LEMMA SoundInit ==
  ASSUME WideGuards, Init
  PROVE  SoundInv
<1>1. AccountInv
  BY AccountInit
<1>2. EntriesWithinPts /\ NoMerges
  BY DEF Init, EntriesWithinPts, noEntries, NoMerges
<1>3. /\ prog \in Programs /\ IsProgram(prog)
      /\ DOMAIN consCG = {stmtEdge(s) : s \in {t \in prog.stmts : t.kind = "copy" => t.src # t.dst}}
      /\ \A e \in DOMAIN consCG : consCG[e] = trueGuard
  BY ProgramFacts DEF Init, stmtEdge
<1>4. \A path \in Path : path \in Admits(trueGuard)
  BY GuardAssumption DEF WideGuards
<1>5. GraphFlows
  <2> SUFFICES ASSUME NEW e \in DOMAIN consCG
               PROVE  IF e.kind = "copy" THEN \E s \in by : flows(prog, Sol, s, e.src, e.dst)
                                         ELSE \E s \in prog.stmts : stmtEdge(s) = e
    BY DEF GraphFlows
  <2>1. PICK s \in prog.stmts : stmtEdge(s) = e
    BY <1>3
  <2> QED BY <2>1 DEF stmtEdge, edge, flows, by
<1>6. WidelyTyped
  BY <1>3 DEF WidelyTyped, WideGuards, Init, noEntries
<1>7. CopiesWide
  BY <1>3, <1>4 DEF CopiesWide
<1>8. StmtsWide
  BY <1>3, <1>4 DEF StmtsWide
<1>9. FactsWide
  BY <1>4 DEF FactsWide, guardOf, Init, noEntries
<1> QED BY <1>1, <1>2, <1>5, <1>6, <1>7, <1>8, <1>9 DEF SoundInv, Wide

(* Every step keeps the invariant, one handler at a time.                  *)
LEMMA SoundStep ==
  ASSUME WideGuards, OneWay, LeastOnPaths, SoundInv, [Next]_vars
  PROVE  SoundInv'
<1>1. AccountInv' /\ EntriesWithinPts'
  BY AccountStep, EntriesStep DEF SoundInv, AccountInv, WorkInv, EntriesInv
<1> SUFFICES Wide'
  BY <1>1 DEF SoundInv
<1>2. Wide /\ NoMerges /\ WideGraph /\ TypeOK /\ LoopWithin
  BY SoundWideGraph DEF SoundInv, Wide, AccountInv, WorkInv, PreciseInv, Within
<1>3. CASE UNCHANGED vars
  BY <1>2, <1>3, WideKept DEF vars, NoMerges
<1>4. ASSUME NEW a \in todo, processAddr(a) PROVE Wide'
  BY <1>2, <1>4, WideKept DEF processAddr
<1>5. CASE beginAttach
  BY <1>2, <1>5, WideKept DEF beginAttach
<1>6. ASSUME NEW s \in todo, attachStaticEdgeGuard(s) PROVE Wide'
  BY <1>2, <1>6, AttachWide DEF TypeOK, attachStaticEdgeGuard
<1>7. CASE SCCDetect
  BY <1>2, <1>7, WideKept, NothingToMerge DEF SCCDetect
<1>8. ASSUME NEW r \in todo, beginSCC(r) PROVE Wide'
  BY <1>2, <1>8 DEF NoMerges, beginSCC
<1>9. ASSUME NEW p \in subs, mergeNodeToRep(p[1], p[2]) PROVE Wide'
  BY <1>2, <1>9 DEF NoMerges
<1>10. ASSUME NEW r \in nodeStack, sweepNode(r) PROVE Wide'
  BY <1>2, <1>10, WideKept DEF sweepNode, processNode
<1>11. CASE popFromWorklist
  BY <1>2, <1>11, WideKept DEF popFromWorklist, processNode
<1>12. ASSUME NEW t \in todo, processLoad(t[1], t[2]) \/ processStore(t[1], t[2]) PROVE Wide'
  <2>1. pc = "loadstore" /\ processLoadStore(t[1], t[2])
    BY <1>12 DEF processLoad, processStore
  <2>2. /\ t[1] \in Obj /\ t[2] \in edges("load") \cup edges("store")
        /\ t[1] \in Sol[pointer(t[2])]
    BY <1>2, <2>1 DEF TypeOK, LoopWithin
  <2>3. /\ derivesWithGuard(t[1], t[2])
        /\ UNCHANGED <<prog, condPtsMap, rep, subs>> /\ pc' # "merge"
    BY <2>1 DEF processLoadStore, derivesWithGuard
  <2> QED BY <1>2, <2>2, <2>3, DeriveWide
<1>13. CASE handleCopyGep
  BY <1>2, <1>13, WideKept DEF handleCopyGep
<1>14. ASSUME NEW e \in todo, processCopy(e) PROVE Wide'
  BY <1>14, CopyFactsWide
<1>15. CASE updateCallGraph
  BY <1>2, <1>15, WideKept DEF updateCallGraph
<1>16. ASSUME NEW c \in todo, connectCaller2CalleeParams(c) PROVE Wide'
  BY <1>2, <1>16, ConnectWide DEF TypeOK, LoopWithin, connectCaller2CalleeParams
<1>17. ASSUME NEW n \in cpySrcNodes, pushCpySrcNode(n) PROVE Wide'
  BY <1>2, <1>17, WideKept DEF pushCpySrcNode
<1>18. CASE finish
  BY <1>2, <1>18, WideKept DEF finish
<1> QED BY <1>3, <1>4, <1>5, <1>6, <1>7, <1>8, <1>9, <1>10, <1>11, <1>12, <1>13, <1>14,
           <1>15, <1>16, <1>17, <1>18 DEF Next

(* The fact itself arrives because the answer accounts for the program     *)
(* (Complete), and so for what is left of it on the path.                  *)
LEMMA WideIsSound ==
  ASSUME SoundInv, LeastOnPaths
  PROVE  GuardsSound
<1>1. TypeOK /\ NoMerges /\ FactsWide /\ prog \in Programs /\ Complete
  BY AccountComplete DEF SoundInv, AccountInv, WorkInv, PreciseInv, TypeOK, Wide
<1>2. SUFFICES ASSUME pc = "done", NEW path \in Path, NEW n \in Node, NEW o \in SolOn(path)[n]
               PROVE  o \in answer[n] /\ path \in Admits(guardOf(rep[n], o))
  BY DEF GuardsSound, SolOn
<1>3. answer \in [Node -> SUBSET Obj] /\ IsSolution(onPath(prog, path), answer)
  BY <1>1, <1>2, SolvesOnPath DEF answer, TypeOK, Complete
<1>4. o \in answer[n] /\ o \in Obj
  BY <1>1, <1>3, OnPathProgram DEF LeastOnPaths, SolOn
<1>5. path \in Admits(guardOf(n, o))
  BY <1>1, <1>4 DEF FactsWide
<1> QED BY <1>1, <1>4, <1>5 DEF NoMerges

(* SolverGuardsSound: where every fact arrives one way, the solver claims  *)
(* every fact that holds on a path, under a guard that admits the path:    *)
(* whatever the limits and options, in whatever order it works, however    *)
(* often it comes back to an edge and merges the same guards again.        *)
THEOREM SolverGuardsSound ==
  ASSUME WideGuards, OneWay, LeastOnPaths
  PROVE  Spec => []GuardsSound
<1>1. Init => SoundInv
  BY SoundInit
<1>2. SoundInv /\ [Next]_vars => SoundInv'
  BY SoundStep
<1>3. SoundInv => GuardsSound
  BY WideIsSound
<1> QED BY <1>1, <1>2, <1>3, PTL DEF Spec

(* A test of satisfiability that does not overlook a path.                 *)
FindsPaths == \A g \in Guards : Admits(g) \cap Path # {} => guardIsSat(g)

(* SolverAliasSound: then alias() denies no alias that some path produces. *)
THEOREM SolverAliasSound ==
  ASSUME WideGuards, OneWay, LeastOnPaths, FindsPaths
  PROVE  Spec => []AliasSound
<1>1. ASSUME SoundInv PROVE AliasSound
  <2>1. GuardsSound /\ TypeOK /\ WidelyTyped /\ NoMerges
    BY <1>1, WideIsSound DEF SoundInv, AccountInv, WorkInv, PreciseInv, Wide
  <2>2. SUFFICES ASSUME pc = "done", NEW v \in Node, NEW w \in Node, NEW path \in Path,
                        someObjectOnPath(v, w, path)
                 PROVE  mayAlias(v, w)
    BY DEF AliasSound
  <2>3. PICK o : o \in PathSolution(prog, path)[v] \cap PathSolution(prog, path)[w]
    BY <2>2 DEF someObjectOnPath
  <2> DEFINE g == guardOf(rep[v], o)
             h == guardOf(rep[w], o)
  <2>4. o \in answer[v] /\ o \in answer[w] /\ path \in Admits(g) /\ path \in Admits(h)
    BY <2>1, <2>2, <2>3 DEF GuardsSound
  <2>5. g \in Guards /\ h \in Guards
    <3>1. rep[v] = v /\ rep[w] = w /\ o \in Obj
      BY <2>1, <2>4 DEF NoMerges, answer, TypeOK
    <3> QED BY <2>1, <3>1 DEF WidelyTyped, guardOf, WideGuards
  <2> HIDE DEF g, h
  <2>6. guardAnd(g, h) \in Guards /\ path \in Admits(guardAnd(g, h))
    BY <2>4, <2>5 DEF WideGuards
  <2>7. guardIsSat(guardAnd(g, h))
    BY <2>6 DEF FindsPaths
  <2> QED BY <2>4, <2>7 DEF mayAlias, g, h
<1>2. Init => SoundInv
  BY SoundInit
<1>3. SoundInv /\ [Next]_vars => SoundInv'
  BY SoundStep
<1> QED BY <1>1, <1>2, <1>3, PTL DEF Spec
=============================================================================
