------------------------ MODULE PathSensitive_proofs ------------------------
(***************************************************************************)
(* What holds of the path-sensitive analysis for every value-flow graph,   *)
(* every set of atoms and choice of options, across levels: no fact is     *)
(* kept under a guard that no world satisfies, and the worklist does not   *)
(* run empty while an edge still has something to hand on.                 *)
(***************************************************************************)
EXTENDS PathFacts, TLAPS

-----------------------------------------------------------------------------
(* What a store is about to write, apart from the flags of the guards.     *)
writes(u)      == [obj |-> u.obj, bdd |-> u.guard.bdd, pts |-> u.pts, strong |-> u.strong]
storeWrites(n) == {writes(u) : u \in storeUpdates(n)}

operands(n) == {nodes[n].dst, nodes[n].src}

(* What a store writes is decided by what has arrived at it: it looks      *)
(* neither operand up in the unconditional sets, which may have grown      *)
(* since, and no strong update competes with another write to the object,  *)
(* where the hash order decides.                                           *)
Decided(n) ==
  /\ \A v \in operands(n) : condPts(inPts, n, v) # {} \/ ptD[v] = {}
  /\ \A u, w \in storeWrites(n) :
       u.strong /\ u.obj = w.obj /\ u # w => u.bdd \cap w.bdd = {}

(* The operands of a store have been copied to its other side.             *)
Copied(n) == \A v \in operands(n) : contents(condPts(inPts, n, v)) \subseteq contents(outPts)

(* A write has been done, and nothing has come over it.                    *)
Applied(n, w) ==
  /\ \A x \in w.pts : <<n, w.obj, w.bdd, x>> \in contents(outPts)
  /\ w.strong => \A f \in outPts :
       f[1] = n /\ f[2] = w.obj /\ f[3].bdd \cap w.bdd # {} =>
         f[3].bdd = w.bdd /\ f[4] \in w.pts

-----------------------------------------------------------------------------
(* The control state: what is being visited, and when nothing is.          *)
Control ==
  /\ prog \in Programs
  /\ worklist \in Seq(DOMAIN nodes)
  /\ fresh \subseteq DOMAIN nodes
  /\ todo \subseteq {e \in prog.edges : e.src = cur}
  /\ pc \in {"level", "solve", "update", "propagate", "done"}
  /\ pc \in {"level", "solve", "done"} => todo = {} /\ updates = {}
  /\ pc \in {"level", "done"} => fresh = {} /\ worklist = <<>>
  /\ pc = "propagate" => updates = {}
  /\ updates # {} => cur \in nodesOf({"store"})
  /\ \A f \in retSummary : nodes[f[1]].kind = "formalRet"
  /\ \A f \in memSummary : nodes[f[1]].kind = "formalOut"

(* Facts are about objects, and the guard of every function stays True.    *)
ObjectFacts(F) == \A f \in F : f[4] \in Obj

Data ==
  /\ ObjectFacts(inPts) /\ ObjectFacts(outPts)
  /\ ObjectFacts(memSummary) /\ ObjectFacts(retSummary)
  /\ ptD \in [Var -> SUBSET Obj]
  /\ \A u \in updates : u.obj \in Obj /\ u.pts \subseteq Obj
  /\ funObjContextGuard \in [Fun -> [Obj -> [bdd : {World}, hasCtxAtom : BOOLEAN]]]

waiting == fresh \cup Range(worklist)

(* An edge that has something left is still to be walked, or its source is *)
(* to be visited, which for a statement is not enough: a visit reports no  *)
(* change then.                                                            *)
HandedOrDue ==
  pc # "level" =>
    \A e \in prog.edges :
      \/ contents(brings(e)) \subseteq contents(inPts)
      \/ e \in todo
      \/ nodes[e.src].kind \in parmKinds \cup memKinds /\ e.src \in waiting
      \/ nodes[e.src].kind = "store" /\ ~(Decided(e.src) /\ Copied(e.src))

(* The pointers after a store came from before it.                         *)
PointersCopied ==
  \A n \in nodesOf({"store"}) : \A f \in outPts :
    f[1] = n /\ f[2] \in Var => content(f) \in contents(inPts)

(* A store whose operands have been copied has done what it writes, or is  *)
(* at it; and if it reported no change, had done all of it before.         *)
StoresApplied ==
  pc # "level" =>
    \A n \in nodesOf({"store"}) :
      /\ n \in waiting \/ Copied(n)
      /\ Decided(n) /\ Copied(n) =>
           \A w \in storeWrites(n) :
             Applied(n, w) \/ (pc = "update" /\ n = cur /\ \E u \in updates : w = writes(u))

Updating ==
  pc = "update" =>
    /\ cur \in nodesOf({"store"})
    /\ Copied(cur)
    /\ \A u \in updates : writes(u) \in storeWrites(cur)
    /\ Decided(cur) /\ (\E e \in prog.edges : e.src = cur /\ e \notin todo) =>
         \A w \in storeWrites(cur) : Applied(cur, w)

Settling ==
  /\ Control /\ Data
  /\ HandedOrDue
  /\ PointersCopied /\ StoresApplied /\ Updating

-----------------------------------------------------------------------------
(* Facts and the maps they are kept in.                                    *)

(* unions keeps what is there and adds what is not, under some flag.       *)
LEMMA UnionFacts ==
  ASSUME NEW F, NEW G, NEW R \in unions(F, G)
  PROVE  /\ F \subseteq R
         /\ \A f \in R : f \in F \/ \E g \in G :
              content(f) = content(g) /\ content(g) \notin contents(F)
         /\ contents(R) = contents(F) \cup contents(G)
         /\ contents(G) \subseteq contents(F) => R = F
<1> DEFINE new       == {f \in G : content(f) \notin contents(F)}
           contested == (flagged(new) \cap unflagged(new)) \ entries(F)
           kept      == flagged(F) \cup (flagged(new) \ (entries(F) \cup contested))
           added(K)  == {<<f[1], f[2], [bdd |-> f[3].bdd, hasCtxAtom |-> entry(f) \in kept \cup K],
                           f[4]>> : f \in new}
<1>1. PICK K : R = F \cup added(K)
  BY DEF unions
<1>2. \A f \in added(K) : \E g \in new : content(f) = content(g)
  <2> HIDE DEF new, kept
  <2> QED BY DEF content
<1>3. \A g \in new : \E f \in added(K) : content(f) = content(g)
  <2>1. SUFFICES ASSUME NEW g \in new PROVE \E f \in added(K) : content(f) = content(g)
    OBVIOUS
  <2> DEFINE f == <<g[1], g[2], [bdd |-> g[3].bdd, hasCtxAtom |-> entry(g) \in kept \cup K], g[4]>>
  <2>2. f \in added(K)
    BY <2>1
  <2>3. content(f) = content(g)
    BY DEF content
  <2> HIDE DEF f, added
  <2> QED BY <2>2, <2>3
<1> HIDE DEF added
<1>4. \A f \in R : f \in F \/ \E g \in G :
        content(f) = content(g) /\ content(g) \notin contents(F)
  BY <1>1, <1>2
<1>5. contents(R) = contents(F) \cup contents(G)
  <2>1. contents(R) \subseteq contents(F) \cup contents(G)
    BY <1>4 DEF contents
  <2>2. contents(F) \subseteq contents(R)
    BY <1>1 DEF contents
  <2>3. contents(G) \subseteq contents(R)
    <3>1. SUFFICES ASSUME NEW g \in G PROVE content(g) \in contents(R)
      BY DEF contents
    <3>2. CASE content(g) \in contents(F)
      BY <2>2, <3>2
    <3>3. CASE content(g) \notin contents(F)
      <4>1. PICK f \in added(K) : content(f) = content(g)
        BY <1>3, <3>3
      <4> QED BY <1>1, <4>1 DEF contents
    <3> QED BY <3>2, <3>3
  <2> QED BY <2>1, <2>2, <2>3
<1>6. contents(G) \subseteq contents(F) => R = F
  <2>1. contents(G) \subseteq contents(F) => new = {}
    BY DEF contents
  <2> QED BY <1>1, <1>2, <2>1
<1> QED BY <1>1, <1>4, <1>5, <1>6

(* What two facts of the same content have in common.                      *)
LEMMA ContentFields ==
  ASSUME NEW f, NEW g, content(f) = content(g)
  PROVE  f[1] = g[1] /\ f[2] = g[2] /\ f[3].bdd = g[3].bdd /\ f[4] = g[4]
BY DEF content

(* Facts added for one node leave the others as they are.                  *)
LEMMA UnionOthers ==
  ASSUME NEW F, NEW G, NEW R \in unions(F, G), NEW n, \A g \in G : g[1] = n
  PROVE  \A m : m # n => factsAt(R, m) = factsAt(F, m)
<1>1. ASSUME NEW f \in R PROVE f \in F \/ f[1] = n
  BY <1>1, UnionFacts, ContentFields
<1> QED BY <1>1, UnionFacts DEF factsAt

(* Adding facts whose content is there already changes nothing of the node *)
(* and variable.                                                           *)
LEMMA UnionSame ==
  ASSUME NEW F, NEW G, NEW R \in unions(F, G), NEW n, NEW v,
         contents(condPts(R, n, v)) \subseteq contents(F)
  PROVE  condPts(R, n, v) = condPts(F, n, v)
<1>1. ASSUME NEW f \in condPts(R, n, v) PROVE f \in F
  <2>1. f \in R /\ content(f) \in contents(F)
    BY <1>1 DEF condPts, contents
  <2>2. f \in F \/ \E g \in G : content(f) = content(g) /\ content(g) \notin contents(F)
    BY <2>1, UnionFacts
  <2> QED BY <2>1, <2>2
<1> QED BY <1>1, UnionFacts DEF condPts

LEMMA UnionObjects ==
  ASSUME NEW F, NEW G, NEW R \in unions(F, G), ObjectFacts(F), ObjectFacts(G)
  PROVE  ObjectFacts(R)
<1>1. SUFFICES ASSUME NEW f \in R, f \notin F PROVE f[4] \in Obj
  BY DEF ObjectFacts
<1>2. PICK g \in G : content(f) = content(g)
  BY <1>1, UnionFacts
<1> QED BY <1>2, ContentFields DEF ObjectFacts

(* The graph of a program.                                                 *)
LEMMA GraphFacts ==
  ASSUME Control, NEW e \in prog.edges
  PROVE  /\ e.src \in DOMAIN nodes /\ e.dst \in DOMAIN nodes
         /\ nodes[e.src].kind \in stmtKinds \cup parmKinds \cup memKinds
         /\ e.kind \in {"dir", "callDir", "retDir", "ind", "callInd", "retInd"}
         /\ e.kind # "dir" => nodes[e.src].kind \in parmKinds \cup memKinds \cup {"store"}
         /\ e.kind \in {"callDir", "retDir"} => nodes[e.src].kind # "store"
         /\ e.objs \subseteq Obj
<1>1. IsNode(nodes[e.src]) /\ IsEdge(prog, e)
  BY ValueFlowAssumption DEF Control, IsProgram, IsEdge, nodes
<1> QED BY <1>1 DEF IsNode, IsEdge, sourceKinds, nodes, parmKinds

(* Visiting the first of the worklist leaves the others waiting.           *)
LEMMA TailWaits ==
  ASSUME NEW S, NEW w \in Seq(S), w # <<>>
  PROVE  Range(w) \subseteq {Head(w)} \cup Range(Tail(w))
<1>1. SUFFICES ASSUME NEW i \in 1..Len(w)
               PROVE  w[i] \in {Head(w)} \cup Range(Tail(w))
  BY DEF Range
<1>2. CASE i = 1
  BY <1>2
<1>3. CASE i # 1
  <2>1. i - 1 \in DOMAIN Tail(w) /\ Tail(w)[i - 1] = w[i]
    BY <1>3
  <2> QED BY <2>1 DEF Range
<1> QED BY <1>2, <1>3

(* Taking a node leaves every other one waiting.                           *)
LEMMA PopWaits ==
  ASSUME Control, NEW n \in DOMAIN nodes, popFromWorklist(n)
  PROVE  /\ waiting \subseteq waiting' \cup {n}
         /\ fresh' \subseteq DOMAIN nodes /\ worklist' \in Seq(DOMAIN nodes)
<1>1. CASE fresh # {}
  BY <1>1 DEF popFromWorklist, waiting, Control
<1>2. CASE fresh = {}
  <2>1. worklist # <<>> /\ n = Head(worklist) /\ worklist' = Tail(worklist) /\ fresh' = fresh
    BY <1>2 DEF popFromWorklist
  <2>2. worklist \in Seq(DOMAIN nodes)
    BY DEF Control
  <2>3. Range(worklist) \subseteq {n} \cup Range(worklist')
    BY <2>1, <2>2, TailWaits
  <2> QED BY <1>2, <2>1, <2>2, <2>3 DEF waiting
<1> QED BY <1>1, <1>2

(* pushIntoWorklist leaves the node waiting.                               *)
LEMMA PushWaits ==
  ASSUME Control, NEW n \in DOMAIN nodes, pushIntoWorklist(n), UNCHANGED fresh
  PROVE  waiting' = waiting \cup {n} /\ worklist' \in Seq(DOMAIN nodes)
<1>1. worklist \in Seq(DOMAIN nodes)
  BY DEF Control
<1>2. CASE n \in fresh \/ n \in Range(worklist)
  BY <1>1, <1>2 DEF pushIntoWorklist, waiting
<1>3. CASE n \notin fresh /\ n \notin Range(worklist)
  <2>1. worklist' = Append(worklist, n)
    BY <1>3 DEF pushIntoWorklist
  <2>2. Range(worklist') = Range(worklist) \cup {n}
    BY <1>1, <2>1 DEF Range
  <2> QED BY <1>1, <2>1, <2>2 DEF waiting
<1> QED BY <1>2, <1>3

-----------------------------------------------------------------------------
(* What a store writes depends on what has arrived at it.                  *)
LEMMA CapBdd ==
  ASSUME NEW g, NEW h, g.bdd = h.bdd
  PROVE  capGuard(g).bdd = capGuard(h).bdd
BY DEF capGuard, isTrue, isFalse

written(n, q, s) ==
  [obj    |-> q[2],
   bdd    |-> capGuard(guardAnd(guardAnd(s[1], q[1]), storeGuard(n, q[2]))).bdd,
   pts    |-> s[2],
   strong |-> overwrites(n, q[1], q[2])]

writable(n) ==
  {w \in {written(n, q, s) : q \in pointees(n, nodes[n].dst), s \in stored(n)} :
     w.obj \notin ConstObj /\ w.bdd # {}}

LEMMA WritesOf == \A n : storeWrites(n) = writable(n)
<1> SUFFICES ASSUME NEW n PROVE storeWrites(n) = writable(n)
  OBVIOUS
<1> DEFINE upd(q, s) == [obj    |-> q[2],
                         guard  |-> capGuard(guardAnd(guardAnd(s[1], q[1]), storeGuard(n, q[2]))),
                         pts    |-> s[2],
                         strong |-> overwrites(n, q[1], q[2])]
           U == {upd(q, s) : q \in pointees(n, nodes[n].dst), s \in stored(n)}
           W == {written(n, q, s) : q \in pointees(n, nodes[n].dst), s \in stored(n)}
<1>1. \A q, s : writes(upd(q, s)) = written(n, q, s)
  BY DEF writes, written
<1>2. storeUpdates(n) = {u \in U : u.obj \notin ConstObj /\ isSat(u.guard)}
  BY DEF storeUpdates
<1>3. \A u : writes(u).obj = u.obj /\ writes(u).bdd = u.guard.bdd
  BY DEF writes
<1>4. \A u \in U : writes(u) \in W
  BY <1>1
<1>5. \A w \in W : \E u \in U : w = writes(u)
  <2>1. SUFFICES ASSUME NEW w \in W PROVE \E u \in U : w = writes(u)
    OBVIOUS
  <2>2. PICK q \in pointees(n, nodes[n].dst), s \in stored(n) : w = written(n, q, s)
    OBVIOUS
  <2>3. upd(q, s) \in U
    <3> HIDE DEF upd, W
    <3> QED OBVIOUS
  <2> HIDE DEF upd, U, W
  <2> QED BY <1>1, <2>2, <2>3
<1> HIDE DEF U, W
<1>6. storeWrites(n) = {writes(u) : u \in {x \in U : x.obj \notin ConstObj /\ x.guard.bdd # {}}}
  BY <1>2 DEF storeWrites, isSat
<1>7. storeWrites(n) = {w \in W : w.obj \notin ConstObj /\ w.bdd # {}}
  BY <1>3, <1>4, <1>5, <1>6
<1> QED BY <1>7 DEF W, writable

LEMMA WritesOfNext == (\A n : storeWrites(n) = writable(n))'
BY WritesOf, PTL

(* What a pointer holds before a store are objects.                        *)
LEMMA PointeesAreObjects ==
  ASSUME Control, Data, NEW n \in nodesOf({"store"}), NEW v \in operands(n)
  PROVE  /\ v \in Var
         /\ \A q \in pointees(n, v) : q[2] \in Obj
<1>1. IsNode(nodes[n]) /\ nodes[n].kind = "store"
  BY ValueFlowAssumption DEF Control, IsProgram, nodes, nodesOf
<1>2. v \in Var
  BY <1>1 DEF IsNode, operands, stmtKinds
<1> QED BY <1>2 DEF pointees, condPts, Data, ObjectFacts

LEMMA StoreFunction ==
  ASSUME Control, Data, NEW n \in nodesOf({"store"}), NEW x \in Obj
  PROVE  getFunctionContextGuard(nodes[n].fun, x).bdd = World
<1>1. nodes[n].fun \in Fun
  BY ValueFlowAssumption DEF Control, IsProgram, IsNode, nodes, nodesOf
<1>2. funObjContextGuard[nodes[n].fun][x] \in [bdd : {World}, hasCtxAtom : BOOLEAN]
  BY <1>1 DEF Data
<1> QED BY <1>2 DEF getFunctionContextGuard

(* As long as its operands hold what they held, a store writes what it     *)
(* wrote: the guard of the function may take on the flag, no more.         *)
LEMMA WritesSame ==
  ASSUME Control, Data, Control', Data', NEW n \in nodesOf({"store"}), prog' = prog,
         \A v \in operands(n) :
           /\ condPts(inPts', n, v) = condPts(inPts, n, v)
           /\ condPts(inPts, n, v) # {} \/ ptD'[v] = ptD[v]
  PROVE  storeWrites(n)' = storeWrites(n)
<1>1. nodes' = nodes /\ operands(n)' = operands(n) /\ n \in nodesOf({"store"})'
  BY DEF nodes, operands, nodesOf
<1>2. \A v \in operands(n) : pointees(n, v)' = pointees(n, v)
  BY DEF pointees
<1>3. stored(n)' = stored(n)
  <2> DEFINE v == nodes[n].src
  <2>1. /\ v' = v /\ condPts(inPts', n, v) = condPts(inPts, n, v)
        /\ condPts(inPts, n, v) # {} \/ ptD'[v] = ptD[v]
    BY <1>1 DEF operands
  <2>2. \A g : ptsUnder(inPts', n, v, g) = ptsUnder(inPts, n, v, g)
    BY <2>1 DEF ptsUnder
  <2>3. guardsOf(inPts', n, v) = guardsOf(inPts, n, v)
    BY <2>1 DEF guardsOf
  <2> HIDE DEF v
  <2>4. stored(n)' = IF condPts(inPts', n, v') # {}
                     THEN {<<g, ptsUnder(inPts', n, v', g)>> : g \in guardsOf(inPts', n, v')}
                     ELSE {<<getTrue, ptD'[v']>>}
    BY DEF stored, v
  <2>5. stored(n) = IF condPts(inPts, n, v) # {}
                    THEN {<<g, ptsUnder(inPts, n, v, g)>> : g \in guardsOf(inPts, n, v)}
                    ELSE {<<getTrue, ptD[v]>>}
    BY DEF stored, v
  <2>6. CASE condPts(inPts, n, v) # {}
    BY <2>1, <2>2, <2>3, <2>4, <2>5, <2>6
  <2>7. CASE condPts(inPts, n, v) = {}
    BY <2>1, <2>4, <2>5, <2>7
  <2> QED BY <2>6, <2>7
<1>4. ASSUME NEW q \in pointees(n, nodes[n].dst), NEW s \in stored(n)
      PROVE  written(n, q, s)' = written(n, q, s)
  <2>1. q[2] \in Obj
    BY <1>4, PointeesAreObjects DEF operands
  <2>2. overwrites(n, q[1], q[2])' = overwrites(n, q[1], q[2])
    BY <1>1 DEF overwrites, operands, ptsUnder
  <2>3. nodeGuard(n)' = nodeGuard(n)
    BY <1>1 DEF nodeGuard
  <2> DEFINE c  == getFunctionContextGuard(nodes[n].fun, q[2])
             cp == getFunctionContextGuard(nodes[n].fun, q[2])'
  <2>4. c.bdd = World /\ cp.bdd = World
    <3>1. c.bdd = World
      BY <2>1, StoreFunction
    <3>2. cp.bdd = World
      <4>1. nodes[n].fun \in Fun
        BY ValueFlowAssumption DEF Control, IsProgram, IsNode, nodes, nodesOf
      <4>2. funObjContextGuard'[nodes[n].fun][q[2]] \in [bdd : {World}, hasCtxAtom : BOOLEAN]
        BY <4>1, <2>1 DEF Data, World, Atom
      <4> QED BY <1>1, <4>2 DEF getFunctionContextGuard
    <3> QED BY <3>1, <3>2
  <2> HIDE DEF c, cp
  <2>5. guardAnd(nodeGuard(n), c).bdd = guardAnd(nodeGuard(n), cp).bdd
    BY <2>4 DEF guardAnd
  <2>6. storeGuard(n, q[2]) = capGuard(guardAnd(nodeGuard(n), c))
    BY DEF storeGuard, c
  <2>7. storeGuard(n, q[2])' = capGuard(guardAnd(nodeGuard(n), cp))
    BY <1>1, <2>3 DEF storeGuard, cp
  <2>8. storeGuard(n, q[2])'.bdd = storeGuard(n, q[2]).bdd
    BY <2>5, <2>6, <2>7, CapBdd
  <2> DEFINE g == guardAnd(guardAnd(s[1], q[1]), storeGuard(n, q[2]))
             h == guardAnd(guardAnd(s[1], q[1]), storeGuard(n, q[2])')
  <2>9. g.bdd = h.bdd
    BY <2>8 DEF guardAnd
  <2>10. capGuard(g).bdd = capGuard(h).bdd
    BY <2>9, CapBdd
  <2> QED BY <2>2, <2>10 DEF written
<1>5. writable(n)' = writable(n)
  BY <1>1, <1>2, <1>3, <1>4 DEF operands, writable
<1>6. storeWrites(n)' = writable(n)'
  BY WritesOfNext
<1> QED BY <1>5, <1>6, WritesOf

-----------------------------------------------------------------------------
(* What edges bring.                                                       *)

(* What an edge brings is at its destination.                              *)
LEMMA BringsTo ==
  ASSUME Control, NEW e \in prog.edges, NEW f \in brings(e)
  PROVE  f[1] = e.dst
<1>1. \A F, n, v, g : \A x \in under(F, n, v, g) : x[1] = n
  BY DEF under
<1>2. \A F, n, v, g : \A x \in cappedUnder(F, n, v, g) : x[1] = n
  BY DEF cappedUnder
<1>3. CASE e.kind \in {"callDir", "retDir"}
  <2>1. f \in crossesCall(e)
    BY <1>3 DEF brings
  <2> QED BY <1>1, <2>1 DEF crossesCall
<1>4. CASE e.kind = "dir"
  <2>1. f \in alongDir(e)
    BY <1>4 DEF brings
  <2>2. PICK x \in factsAt(outPts, e.src) : f \in under({x}, e.dst, x[2], edgeGuard(e))
    BY <2>1 DEF alongDir
  <2> QED BY <1>1, <2>2
<1>5. CASE e.kind = "retInd" /\ nodes[e.src].kind # "store"
  <2>1. f \in alongRetInd(e)
    BY <1>5 DEF brings
  <2>2. PICK x \in returning(e) :
          f \in (IF implies(x[3], edgeGuard(e)) THEN {<<e.dst, x[2], x[3], x[4]>>}
                 ELSE cappedUnder({x}, e.dst, x[2], edgeGuard(e)))
    BY <2>1 DEF alongRetInd
  <2> QED BY <1>2, <2>2
<1>6. CASE e.kind \notin {"callDir", "retDir", "dir"} /\ ~(e.kind = "retInd" /\ nodes[e.src].kind # "store")
  <2>1. f \in alongInd(e)
    BY <1>6 DEF brings
  <2>2. PICK x \in memoryFacts(e) : f \in under({x}, e.dst, x[2], edgeGuard(e))
    BY <2>1 DEF alongInd
  <2> QED BY <1>1, <2>2
<1> QED BY <1>3, <1>4, <1>5, <1>6

(* What an edge brings are facts about objects.                            *)
LEMMA BringsObjects ==
  ASSUME Control, Data, NEW e \in prog.edges
  PROVE  ObjectFacts(brings(e))
<1>0. ObjectFacts(inPts) /\ ObjectFacts(outPts)
  BY DEF Data
<1>1. \A F, n, v, g : ObjectFacts(F) => ObjectFacts(under(F, n, v, g))
  BY DEF under, ObjectFacts
<1>2. \A F, n, v, g : ObjectFacts(F) => ObjectFacts(cappedUnder(F, n, v, g))
  BY DEF cappedUnder, ObjectFacts
<1>3. SUFFICES ASSUME NEW f \in brings(e) PROVE f[4] \in Obj
  BY DEF ObjectFacts
<1>4. \A F, n, v : ObjectFacts(F) => ObjectFacts(condPts(F, n, v)) /\ ObjectFacts(factsAt(F, n))
  BY DEF condPts, factsAt, ObjectFacts
<1>5. ObjectFacts(memoryFacts(e))
  BY <1>0, <1>4 DEF memoryFacts, memoryAt, ObjectFacts
<1>6. CASE e.kind \in {"callDir", "retDir"}
  <2>1. f \in crossesCall(e)
    BY <1>6 DEF brings
  <2> QED BY <1>0, <1>1, <1>4, <2>1 DEF crossesCall, ObjectFacts
<1>7. CASE e.kind = "dir"
  <2>1. f \in alongDir(e)
    BY <1>7 DEF brings
  <2>2. PICK x \in factsAt(outPts, e.src) : f \in under({x}, e.dst, x[2], edgeGuard(e))
    BY <2>1 DEF alongDir
  <2>3. ObjectFacts({x})
    BY <1>0, <1>4, <2>2 DEF ObjectFacts
  <2> QED BY <1>1, <2>2, <2>3 DEF ObjectFacts
<1>8. CASE e.kind = "retInd" /\ nodes[e.src].kind # "store"
  <2>1. f \in alongRetInd(e)
    BY <1>8 DEF brings
  <2>2. PICK x \in returning(e) :
          f \in (IF implies(x[3], edgeGuard(e)) THEN {<<e.dst, x[2], x[3], x[4]>>}
                 ELSE cappedUnder({x}, e.dst, x[2], edgeGuard(e)))
    BY <2>1 DEF alongRetInd
  <2>3. ObjectFacts({x}) /\ x[4] \in Obj
    BY <1>5, <2>2 DEF ObjectFacts, returning
  <2> QED BY <1>2, <2>2, <2>3 DEF ObjectFacts
<1>9. CASE e.kind \notin {"callDir", "retDir", "dir"} /\ ~(e.kind = "retInd" /\ nodes[e.src].kind # "store")
  <2>1. f \in alongInd(e)
    BY <1>9 DEF brings
  <2>2. PICK x \in memoryFacts(e) : f \in under({x}, e.dst, x[2], edgeGuard(e))
    BY <2>1 DEF alongInd
  <2>3. ObjectFacts({x})
    BY <1>5, <2>2 DEF ObjectFacts
  <2> QED BY <1>1, <2>2, <2>3 DEF ObjectFacts
<1> QED BY <1>6, <1>7, <1>8, <1>9

(* An edge that leaves no store brings what is at its source: after it     *)
(* along a direct edge, before it along any other.                         *)
LEMMA BringsSame ==
  ASSUME Control, NEW e \in prog.edges, prog' = prog, nodes[e.src].kind # "store",
         e.kind = "dir" => factsAt(outPts', e.src) = factsAt(outPts, e.src),
         e.kind # "dir" => factsAt(inPts', e.src) = factsAt(inPts, e.src)
  PROVE  brings(e)' = brings(e)
<1>1. nodes' = nodes /\ edgeGuard(e)' = edgeGuard(e)
  BY DEF nodes, edgeGuard, nodeGuard
<1>2. CASE e.kind = "dir"
  BY <1>1, <1>2 DEF brings, alongDir
<1>3. CASE e.kind # "dir"
  <2>1. \A v : condPts(inPts', e.src, v) = condPts(inPts, e.src, v)
    <3>1. \A F, v : condPts(F, e.src, v) = {f \in factsAt(F, e.src) : f[2] = v}
      BY DEF condPts, factsAt
    <3>2. factsAt(inPts', e.src) = factsAt(inPts, e.src)
      BY <1>3
    <3> TAKE v
    <3>3. condPts(inPts', e.src, v) = {f \in factsAt(inPts', e.src) : f[2] = v}
      BY <3>1
    <3>4. condPts(inPts, e.src, v) = {f \in factsAt(inPts, e.src) : f[2] = v}
      BY <3>1
    <3> QED BY <3>2, <3>3, <3>4
  <2>2. memoryFacts(e)' = memoryFacts(e)
    BY <1>1, <1>3 DEF memoryFacts, memoryAt
  <2>3. returning(e)' = returning(e)
    BY <1>1, <2>2 DEF returning
  <2>4. crossesCall(e)' = crossesCall(e)
    BY <1>1, <2>1 DEF crossesCall
  <2>5. alongInd(e)' = alongInd(e)
    BY <1>1, <2>2 DEF alongInd
  <2>6. alongRetInd(e)' = alongRetInd(e)
    BY <1>1, <2>3 DEF alongRetInd
  <2> QED BY <1>1, <1>3, <2>4, <2>5, <2>6 DEF brings
<1> QED BY <1>2, <1>3

(* An edge that leaves a store brings what is after the store, whatever    *)
(* the flags of the guards.                                                *)
carried(e, g, C) ==
  {<<e.dst, k[2], k[3] \cap g.bdd, k[4]>> :
     k \in {x \in C : (e.kind = "dir" \/ x[2] \in e.objs) /\ x[3] \cap g.bdd # {}}}

LEMMA StoreBrings ==
  ASSUME Control, NEW e \in prog.edges, nodes[e.src].kind = "store"
  PROVE  contents(brings(e)) = carried(e, edgeGuard(e), contents(factsAt(outPts, e.src)))
<1> DEFINE g == edgeGuard(e)
           S == {f \in factsAt(outPts, e.src) : e.kind = "dir" \/ f[2] \in e.objs}
<1>1. brings(e) = UNION {under({f}, e.dst, f[2], g) : f \in S}
  <2>1. CASE e.kind = "dir"
    BY <2>1 DEF brings, alongDir
  <2>2. CASE e.kind # "dir"
    <3>1. brings(e) = alongInd(e)
      BY <2>2, GraphFacts DEF brings
    <3>2. memoryFacts(e) = S
      BY <2>2 DEF memoryFacts, memoryAt
    <3> HIDE DEF S
    <3> QED BY <3>1, <3>2 DEF alongInd
  <2> QED BY <2>1, <2>2
<1> HIDE DEF S, g
<1>2. \A f : under({f}, e.dst, f[2], g) =
        IF f[3].bdd \cap g.bdd # {} THEN {<<e.dst, f[2], guardAnd(f[3], g), f[4]>>} ELSE {}
  BY DEF under, isSat, guardAnd
<1>3. \A f : content(<<e.dst, f[2], guardAnd(f[3], g), f[4]>>)
               = <<e.dst, content(f)[2], content(f)[3] \cap g.bdd, content(f)[4]>>
  BY DEF content, guardAnd
<1>4. ASSUME NEW k \in contents(brings(e)) PROVE k \in carried(e, g, contents(factsAt(outPts, e.src)))
  <2>1. PICK b \in brings(e) : k = content(b)
    BY <1>4 DEF contents
  <2>2. PICK f \in S : b \in under({f}, e.dst, f[2], g)
    BY <1>1, <2>1
  <2>3. f[3].bdd \cap g.bdd # {} /\ b = <<e.dst, f[2], guardAnd(f[3], g), f[4]>>
    <3>1. isSat(guardAnd(f[3], g)) /\ b = <<e.dst, f[2], guardAnd(f[3], g), f[4]>>
      BY <2>2 DEF under
    <3> QED BY <3>1 DEF isSat, guardAnd
  <2>4. content(f) \in contents(factsAt(outPts, e.src)) /\ (e.kind = "dir" \/ content(f)[2] \in e.objs)
        /\ content(f)[3] \cap g.bdd # {}
    BY <2>2, <2>3 DEF contents, content, S
  <2> QED BY <1>3, <2>1, <2>3, <2>4 DEF carried
<1>5. ASSUME NEW k \in carried(e, g, contents(factsAt(outPts, e.src))) PROVE k \in contents(brings(e))
  <2>1. PICK c \in contents(factsAt(outPts, e.src)) :
          (e.kind = "dir" \/ c[2] \in e.objs) /\ c[3] \cap g.bdd # {}
          /\ k = <<e.dst, c[2], c[3] \cap g.bdd, c[4]>>
    BY <1>5 DEF carried
  <2>2. PICK f \in factsAt(outPts, e.src) : c = content(f)
    BY DEF contents
  <2>3. f \in S /\ f[3].bdd \cap g.bdd # {}
    BY <2>1, <2>2 DEF S, content
  <2>4. <<e.dst, f[2], guardAnd(f[3], g), f[4]>> \in brings(e)
    BY <1>1, <1>2, <2>3
  <2> QED BY <1>3, <2>1, <2>2, <2>4 DEF contents
<1> QED BY <1>4, <1>5 DEF g

LEMMA StoreBringsAll ==
  \A e : Control /\ e \in prog.edges /\ nodes[e.src].kind = "store" =>
    contents(brings(e)) = carried(e, edgeGuard(e), contents(factsAt(outPts, e.src)))
BY StoreBrings

LEMMA StoreBringsNext ==
  (\A e : Control /\ e \in prog.edges /\ nodes[e.src].kind = "store" =>
    contents(brings(e)) = carried(e, edgeGuard(e), contents(factsAt(outPts, e.src))))'
BY StoreBringsAll, PTL

LEMMA StoreBringsSame ==
  ASSUME Control, Control', NEW e \in prog.edges, prog' = prog, nodes[e.src].kind = "store",
         contents(factsAt(outPts', e.src)) = contents(factsAt(outPts, e.src))
  PROVE  contents(brings(e)') = contents(brings(e))
<1>1. nodes' = nodes /\ edgeGuard(e)' = edgeGuard(e)
  BY DEF nodes, edgeGuard, nodeGuard
<1>2. contents(brings(e)') = carried(e, edgeGuard(e)', contents(factsAt(outPts', e.src)))
  BY <1>1, StoreBringsNext DEF carried, contents
<1> QED BY <1>1, <1>2, StoreBrings DEF carried

-----------------------------------------------------------------------------
(* The handlers of nodes.                                                  *)

(* Every handler adds facts at its node.  A statement or a boundary walks  *)
(* its edges when it changed something; a store when it copied something,  *)
(* and then has its writes to do.                                          *)
VisitsStatement(n) ==
  \E changed \in BOOLEAN : \E facts :
    /\ visits(n, changed) /\ inPts' = inPts /\ outPts' \in unions(outPts, facts)
    /\ (\A f \in facts : f[1] = n) /\ ObjectFacts(facts)
    /\ updates' = {}
    /\ ptD' \in [Var -> SUBSET Obj] /\ \A v \in Var : ptD[v] \subseteq ptD'[v]
    /\ changed \/ (outPts' = outPts /\ nodes[n].kind \in stmtKinds)

LEMMA HandlerVisits ==
  ASSUME Control, Data, pc = "solve", NEW n \in DOMAIN nodes, processSVFGNode(n),
         nodes[n].kind # "store"
  PROVE  VisitsStatement(n)
<1>1. updates = {} /\ ObjectFacts(inPts) /\ ObjectFacts(outPts) /\ ptD \in [Var -> SUBSET Obj]
  BY DEF Control, Data
<1>2. \A F, v, g : \A x \in cappedUnder(F, n, v, g) : x[1] = n
  BY DEF cappedUnder
<1>3. \A F, m, v, g : ObjectFacts(F) => ObjectFacts(cappedUnder(F, m, v, g))
  BY DEF cappedUnder, ObjectFacts
<1>4. \A m, v : ObjectFacts(condPts(inPts, m, v))
  BY <1>1 DEF condPts, ObjectFacts
<1>5. IsNode(nodes[n])
  BY ValueFlowAssumption DEF Control, IsProgram, nodes
<1>6. ASSUME NEW facts, NEW objs, defines(n, facts, objs), \A f \in facts : f[1] = n,
             ObjectFacts(facts), objs \subseteq Obj, nodes[n].kind \in stmtKinds
      PROVE  VisitsStatement(n)
  <2> DEFINE changed == outPts' # outPts \/ ~(objs \subseteq ptD[nodes[n].dst])
  <2>1. /\ visits(n, changed) /\ changed \in BOOLEAN
        /\ inPts' = inPts /\ outPts' \in unions(outPts, facts) /\ updates' = {}
        /\ ptD' = [ptD EXCEPT ![nodes[n].dst] = @ \cup objs]
    BY <1>1, <1>6 DEF defines
  <2>2. ptD' \in [Var -> SUBSET Obj] /\ \A v \in Var : ptD[v] \subseteq ptD'[v]
    BY <1>1, <1>6, <2>1
  <2>3. changed \/ outPts' = outPts
    OBVIOUS
  <2> HIDE DEF changed
  <2> QED BY <1>6, <2>1, <2>2, <2>3 DEF VisitsStatement
<1>7. ASSUME NEW facts, ObjectFacts(facts) PROVE objsOf(facts) \subseteq Obj
  BY <1>7 DEF objsOf, ObjectFacts
<1>8. CASE processAddr(n)
  <2> DEFINE facts == {<<n, nodes[n].dst, getTrue, nodes[n].src>>}
  <2>1. defines(n, facts, {nodes[n].src}) /\ nodes[n].kind = "addr"
    BY <1>8 DEF processAddr
  <2>2. nodes[n].src \in Obj
    BY <1>5, <2>1 DEF IsNode
  <2>3. (\A f \in facts : f[1] = n) /\ ObjectFacts(facts) /\ {nodes[n].src} \subseteq Obj
    BY <2>2 DEF ObjectFacts
  <2>4. nodes[n].kind \in stmtKinds
    BY <2>1 DEF stmtKinds
  <2> HIDE DEF facts
  <2> QED BY <1>6, <2>1, <2>3, <2>4
<1>9. CASE processCopy(n)
  <2> DEFINE facts == cappedUnder(condPts(inPts, n, nodes[n].src), n, nodes[n].dst, nodeGuard(n))
  <2>1. defines(n, facts, objsOf(facts)) /\ nodes[n].kind \in stmtKinds
    BY <1>9 DEF processCopy, stmtKinds
  <2>2. (\A f \in facts : f[1] = n) /\ ObjectFacts(facts)
    BY <1>2, <1>3, <1>4
  <2> HIDE DEF facts
  <2> QED BY <1>6, <1>7, <2>1, <2>2
<1>10. CASE processPhi(n)
  <2>1. (\A f \in phiFacts(n) : f[1] = n) /\ ObjectFacts(phiFacts(n))
    <3>1. SUFFICES ASSUME NEW f \in phiFacts(n) PROVE f[1] = n /\ f[4] \in Obj
      BY DEF ObjectFacts
    <3>2. PICK op \in nodes[n].ops :
            f \in cappedUnder(condPts(inPts, n, op[1]), n, nodes[n].dst,
                     guardAnd(getPhiOperandGuard(prog, nodes[n].block, op[2]), nodeGuard(n)))
      BY DEF phiFacts
    <3>3. ObjectFacts(cappedUnder(condPts(inPts, n, op[1]), n, nodes[n].dst,
                     guardAnd(getPhiOperandGuard(prog, nodes[n].block, op[2]), nodeGuard(n))))
      BY <1>3, <1>4
    <3> QED BY <1>2, <3>2, <3>3 DEF ObjectFacts
  <2> QED BY <1>6, <1>7, <1>10, <2>1 DEF processPhi, stmtKinds
<1>11. CASE processLoad(n)
  <2>1. (\A f \in loadFacts(n) : f[1] = n) /\ ObjectFacts(loadFacts(n))
    <3>1. SUFFICES ASSUME NEW f \in loadFacts(n) PROVE f[1] = n /\ f[4] \in Obj
      BY DEF ObjectFacts
    <3>2. PICK q \in pointees(n, nodes[n].src) :
            f \in cappedUnder(condPts(inPts, n, q[2]), n, nodes[n].dst, guardAnd(q[1], nodeGuard(n)))
      BY DEF loadFacts
    <3>3. ObjectFacts(cappedUnder(condPts(inPts, n, q[2]), n, nodes[n].dst,
                                  guardAnd(q[1], nodeGuard(n))))
      BY <1>3, <1>4
    <3> QED BY <1>2, <3>2, <3>3 DEF ObjectFacts
  <2> QED BY <1>6, <1>7, <1>11, <2>1 DEF processLoad, stmtKinds
<1>12. CASE processMSSANode(n)
  <2> DEFINE none == {}
  <2>1. visits(n, TRUE) /\ updates' = {} /\ inPts' = inPts /\ outPts' = outPts /\ ptD' = ptD
    BY <1>1, <1>12 DEF processMSSANode
  <2>2. outPts \in unions(outPts, none)
    <3> DEFINE kept == flagged(outPts) \cup
                 (flagged(none) \ (entries(outPts) \cup ((flagged(none) \cap unflagged(none)) \ entries(outPts))))
    <3>1. {f \in none : content(f) \notin contents(outPts)} = {} /\ flagged(none) = {} /\ unflagged(none) = {}
      BY DEF flagged, unflagged
    <3>2. {} \in SUBSET ((flagged(none) \cap unflagged(none)) \ entries(outPts))
      BY <3>1
    <3> QED BY <3>1, <3>2 DEF unions
  <2>3. (\A f \in none : f[1] = n) /\ ObjectFacts(none)
    BY DEF ObjectFacts
  <2> HIDE DEF none
  <2> QED BY <1>1, <2>1, <2>2, <2>3 DEF VisitsStatement
<1>13. CASE processParm(n)
  <2>1. /\ visits(n, TRUE) /\ updates' = {} /\ inPts' = inPts /\ ptD' = ptD
        /\ outPts' \in unions(outPts, condPts(inPts, n, nodes[n].dst))
    BY <1>1, <1>13 DEF processParm
  <2>2. \A f \in condPts(inPts, n, nodes[n].dst) : f[1] = n
    BY DEF condPts
  <2> QED BY <1>1, <1>4, <2>1, <2>2 DEF VisitsStatement
<1>14. ~processStore(n)
  BY DEF processStore
<1> QED BY <1>8, <1>9, <1>10, <1>11, <1>12, <1>13, <1>14 DEF processSVFGNode

-----------------------------------------------------------------------------
(* What does not touch a store leaves it as it is.                         *)
LEMMA DecidedBefore ==
  ASSUME Control, Data, Control', Data', NEW k \in nodesOf({"store"}), prog' = prog,
         \A v \in operands(k) : condPts(inPts', k, v) = condPts(inPts, k, v),
         \A v \in Var : ptD[v] \subseteq ptD'[v],
         Decided(k)'
  PROVE  Decided(k) /\ storeWrites(k)' = storeWrites(k)
<1>1. operands(k)' = operands(k) /\ operands(k) \subseteq Var
  BY PointeesAreObjects DEF operands, nodes
<1>2. \A v \in operands(k) : condPts(inPts, k, v) # {} \/ (ptD'[v] = {} /\ ptD[v] = {})
  BY <1>1 DEF Decided
<1>3. storeWrites(k)' = storeWrites(k)
  BY <1>2, WritesSame
<1> QED BY <1>1, <1>2, <1>3 DEF Decided

LEMMA StoreKept ==
  ASSUME Control, Data, Control', Data', NEW k \in nodesOf({"store"}), prog' = prog,
         \A v \in operands(k) : condPts(inPts', k, v) = condPts(inPts, k, v),
         \A v \in Var : ptD[v] \subseteq ptD'[v],
         factsAt(outPts', k) = factsAt(outPts, k)
  PROVE  /\ Copied(k)' <=> Copied(k)
         /\ \A w : Applied(k, w)' <=> Applied(k, w)
         /\ Decided(k)' => Decided(k) /\ storeWrites(k)' = storeWrites(k)
<1>1. operands(k)' = operands(k)
  BY DEF operands, nodes
<1>2. \A f : f[1] = k => (f \in outPts' <=> f \in outPts)
  BY DEF factsAt
<1>3. \A c : c[1] = k => (c \in contents(outPts') <=> c \in contents(outPts))
  BY <1>2, ContentFields DEF contents, content
<1>4. \A v : \A c \in contents(condPts(inPts, k, v)) : c[1] = k
  BY DEF contents, content, condPts
<1>5. Copied(k)' <=> Copied(k)
  <2>1. Copied(k)' <=> \A v \in operands(k) :
                         contents(condPts(inPts, k, v)) \subseteq contents(outPts')
    BY <1>1 DEF Copied, contents
  <2> QED BY <1>3, <1>4, <2>1 DEF Copied
<1>6. ASSUME NEW w PROVE Applied(k, w)' <=> Applied(k, w)
  <2>1. \A x : <<k, w.obj, w.bdd, x>> \in contents(outPts') <=> <<k, w.obj, w.bdd, x>> \in contents(outPts)
    BY <1>3
  <2>2. Applied(k, w)' <=>
          /\ \A x \in w.pts : <<k, w.obj, w.bdd, x>> \in contents(outPts')
          /\ w.strong => \A f \in outPts' :
               f[1] = k /\ f[2] = w.obj /\ f[3].bdd \cap w.bdd # {} =>
                 f[3].bdd = w.bdd /\ f[4] \in w.pts
    BY DEF Applied, contents
  <2> QED BY <1>2, <2>1, <2>2 DEF Applied
<1> QED BY <1>5, <1>6, DecidedBefore

(* A visit to a statement or a boundary: what the node has to hand on is   *)
(* put on the edges to walk.                                               *)
LEMMA VisitSettles ==
  ASSUME Settling, NEW n \in DOMAIN nodes, popFromWorklist(n), processSVFGNode(n),
         nodes[n].kind # "store"
  PROVE  Settling'
<1>1. /\ Control /\ Data /\ HandedOrDue /\ PointersCopied /\ StoresApplied
      /\ pc = "solve" /\ todo = {} /\ updates = {}
  BY DEF Settling, popFromWorklist, Control
<1>2. PICK changed, facts :
        /\ changed \in BOOLEAN
        /\ visits(n, changed) /\ inPts' = inPts /\ outPts' \in unions(outPts, facts)
        /\ (\A f \in facts : f[1] = n) /\ ObjectFacts(facts)
        /\ updates' = {}
        /\ ptD' \in [Var -> SUBSET Obj] /\ \A v \in Var : ptD[v] \subseteq ptD'[v]
        /\ changed \/ (outPts' = outPts /\ nodes[n].kind \in stmtKinds)
  BY <1>1, HandlerVisits DEF VisitsStatement
<1>3. /\ prog' = prog /\ nodes' = nodes /\ cur' = n
      /\ todo' = IF changed THEN {e \in prog.edges : e.src = n} ELSE {}
      /\ pc' = after(updates', todo')
      /\ UNCHANGED <<memSummary, retSummary, funObjContextGuard>>
  BY <1>2 DEF visits, nodes
<1>4. waiting \subseteq waiting' \cup {n} /\ fresh' \subseteq DOMAIN nodes
      /\ worklist' \in Seq(DOMAIN nodes)
  BY <1>1, PopWaits
<1>5. Control'
  BY <1>1, <1>2, <1>3, <1>4 DEF Control, after
<1>6. Data'
  <2>1. ObjectFacts(outPts')
    BY <1>1, <1>2, UnionObjects DEF Data
  <2> QED BY <1>1, <1>2, <1>3, <2>1 DEF Data, ObjectFacts, World, Atom
<1>7. \A m : m # n => factsAt(outPts', m) = factsAt(outPts, m)
  BY <1>2, UnionOthers
<1>8. nodesOf({"store"})' = nodesOf({"store"}) /\ n \notin nodesOf({"store"})
  BY <1>3 DEF nodesOf
<1>9. ASSUME NEW k \in nodesOf({"store"})
      PROVE  /\ Copied(k)' <=> Copied(k)
             /\ \A w : Applied(k, w)' <=> Applied(k, w)
             /\ Decided(k)' => Decided(k) /\ storeWrites(k)' = storeWrites(k)
  BY <1>1, <1>2, <1>3, <1>5, <1>6, <1>7, <1>8, <1>9, StoreKept
<1>10. ASSUME NEW e \in prog.edges
       PROVE  \/ contents(brings(e))' \subseteq contents(inPts)
              \/ e \in todo'
              \/ nodes[e.src].kind \in parmKinds \cup memKinds /\ e.src \in waiting'
              \/ nodes[e.src].kind = "store" /\ ~(Decided(e.src)' /\ Copied(e.src)')
  <2>1. CASE nodes[e.src].kind = "store"
    <3>1. e.src # n /\ e.src \in nodesOf({"store"})
      BY <1>1, <2>1, GraphFacts DEF nodesOf
    <3>2. contents(brings(e)') = contents(brings(e))
      BY <1>1, <1>3, <1>5, <1>7, <2>1, <3>1, StoreBringsSame
    <3>3. \/ contents(brings(e)) \subseteq contents(inPts)
          \/ ~(Decided(e.src) /\ Copied(e.src))
      BY <1>1, <2>1 DEF HandedOrDue, parmKinds, memKinds
    <3>4. contents(brings(e))' = contents(brings(e)')
      BY DEF contents
    <3> QED BY <1>9, <2>1, <3>1, <3>2, <3>3, <3>4
  <2>2. CASE nodes[e.src].kind # "store" /\ e.src = n /\ changed
    BY <1>3, <2>2
  <2>3. CASE nodes[e.src].kind # "store" /\ (e.src # n \/ ~changed)
    <3>1. factsAt(outPts', e.src) = factsAt(outPts, e.src)
      BY <1>2, <1>7, <2>3
    <3>2. brings(e)' = brings(e)
      BY <1>1, <1>2, <1>3, <2>3, <3>1, BringsSame
    <3>3. \/ contents(brings(e)) \subseteq contents(inPts)
          \/ nodes[e.src].kind \in parmKinds \cup memKinds /\ e.src \in waiting
      BY <1>1, <2>3 DEF HandedOrDue
    <3>4. e.src = n => nodes[e.src].kind \notin parmKinds \cup memKinds
      BY <1>2, <2>3 DEF stmtKinds, parmKinds, memKinds
    <3>5. contents(brings(e))' = contents(brings(e)')
      BY DEF contents
    <3> QED BY <1>4, <3>2, <3>3, <3>4, <3>5
  <2> QED BY <2>1, <2>2, <2>3
<1>11. HandedOrDue'
  BY <1>2, <1>3, <1>10 DEF HandedOrDue, contents
<1>12. PointersCopied'
  <2>1. SUFFICES ASSUME NEW k \in nodesOf({"store"}), NEW f \in outPts', f[1] = k, f[2] \in Var
                 PROVE  content(f) \in contents(inPts)
    BY <1>2, <1>8 DEF PointersCopied, contents
  <2>2. f \in outPts
    BY <1>7, <1>8, <2>1 DEF factsAt
  <2> QED BY <1>1, <2>1, <2>2 DEF PointersCopied
<1>13. StoresApplied'
  <2>1. SUFFICES ASSUME NEW k \in nodesOf({"store"})
                 PROVE  /\ k \in waiting' \/ Copied(k)'
                        /\ Decided(k)' /\ Copied(k)' => \A w \in storeWrites(k)' : Applied(k, w)'
    BY <1>8 DEF StoresApplied
  <2>2. k \in waiting \/ Copied(k)
    BY <1>1 DEF StoresApplied
  <2>3. Decided(k) /\ Copied(k) => \A w \in storeWrites(k) : Applied(k, w)
    BY <1>1 DEF StoresApplied
  <2> QED BY <1>4, <1>8, <1>9, <2>2, <2>3
<1>14. Updating'
  BY <1>2, <1>3 DEF Updating, after
<1> QED BY <1>5, <1>6, <1>11, <1>12, <1>13, <1>14 DEF Settling


(* A visit to a store: what was before it is copied to its other side, and *)
(* the writes are about to be done.                                        *)
LEMMA StoredObjects ==
  ASSUME Control, Data, NEW n \in nodesOf({"store"}), NEW u \in storeUpdates(n)
  PROVE  u.obj \in Obj /\ u.pts \subseteq Obj
<1>1. PICK q \in pointees(n, nodes[n].dst), s \in stored(n) : u.obj = q[2] /\ u.pts = s[2]
  BY DEF storeUpdates
<1>2. nodes[n].src \in Var
  BY PointeesAreObjects DEF operands
<1>3. s[2] \subseteq Obj
  BY <1>2 DEF stored, ptsUnder, condPts, Data, ObjectFacts
<1> QED BY <1>1, <1>3, PointeesAreObjects DEF operands

LEMMA VisitStoreSettles ==
  ASSUME Settling, NEW n \in DOMAIN nodes, popFromWorklist(n), processStore(n)
  PROVE  Settling'
<1>1. /\ Control /\ Data /\ HandedOrDue /\ PointersCopied /\ StoresApplied
      /\ pc = "solve" /\ todo = {} /\ updates = {}
  BY DEF Settling, popFromWorklist, Control
<1> DEFINE changed == outPts' # outPts
<1>2. /\ inPts' = inPts /\ ptD' = ptD /\ outPts' \in unions(outPts, factsAt(inPts, n))
      /\ updates' = storeUpdates(n) /\ n \in nodesOf({"store"})
  BY DEF processStore, nodesOf
<1>3. /\ prog' = prog /\ nodes' = nodes /\ cur' = n
      /\ todo' = IF changed THEN {e \in prog.edges : e.src = n} ELSE {}
      /\ pc' = after(updates', todo')
      /\ UNCHANGED <<memSummary, retSummary, funObjContextGuard>>
  BY DEF processStore, visits, nodes
<1>4. waiting \subseteq waiting' \cup {n} /\ fresh' \subseteq DOMAIN nodes
      /\ worklist' \in Seq(DOMAIN nodes)
  BY <1>1, PopWaits
<1>40. nodesOf({"store"})' = nodesOf({"store"})
  BY <1>3 DEF nodesOf
<1>5. Control'
  BY <1>1, <1>2, <1>3, <1>4, <1>40 DEF Control, after
<1>6. Data'
  <2>1. ObjectFacts(factsAt(inPts, n))
    BY <1>1 DEF Data, ObjectFacts, factsAt
  <2>2. ObjectFacts(outPts')
    BY <1>1, <1>2, <2>1, UnionObjects DEF Data
  <2>3. \A u \in updates' : u.obj \in Obj /\ u.pts \subseteq Obj
    BY <1>1, <1>2, StoredObjects
  <2> QED BY <1>1, <1>2, <1>3, <2>2, <2>3 DEF Data, ObjectFacts, World, Atom
<1>7. \A m : m # n => factsAt(outPts', m) = factsAt(outPts, m)
  <2>1. \A f \in factsAt(inPts, n) : f[1] = n
    BY DEF factsAt
  <2> QED BY <1>2, <2>1, UnionOthers
<1>9. ASSUME NEW k \in nodesOf({"store"}), factsAt(outPts', k) = factsAt(outPts, k)
      PROVE  /\ Copied(k)' <=> Copied(k)
             /\ \A w : Applied(k, w)' <=> Applied(k, w)
             /\ Decided(k)' => Decided(k) /\ storeWrites(k)' = storeWrites(k)
  BY <1>1, <1>2, <1>3, <1>5, <1>6, <1>9, StoreKept
<1>10. storeWrites(n)' = storeWrites(n) /\ storeWrites(n) = {writes(u) : u \in updates'}
  <2>1. storeWrites(n)' = storeWrites(n)
    BY <1>1, <1>2, <1>3, <1>5, <1>6, WritesSame
  <2> QED BY <1>2, <2>1 DEF storeWrites
<1>11. Copied(n)'
  <2>1. operands(n)' = operands(n)
    BY <1>3 DEF operands
  <2>2. contents(outPts') = contents(outPts) \cup contents(factsAt(inPts, n))
    BY <1>2, UnionFacts
  <2>3. \A v : contents(condPts(inPts, n, v)) \subseteq contents(factsAt(inPts, n))
    BY DEF contents, condPts, factsAt
  <2> QED BY <1>2, <2>1, <2>2, <2>3 DEF Copied, contents
<1>12. ASSUME NEW e \in prog.edges
       PROVE  \/ contents(brings(e))' \subseteq contents(inPts)
              \/ e \in todo'
              \/ nodes[e.src].kind \in parmKinds \cup memKinds /\ e.src \in waiting'
              \/ nodes[e.src].kind = "store" /\ ~(Decided(e.src)' /\ Copied(e.src)')
  <2>1. CASE nodes[e.src].kind = "store" /\ (e.src # n \/ ~changed)
    <3>1. e.src \in nodesOf({"store"}) /\ factsAt(outPts', e.src) = factsAt(outPts, e.src)
      BY <1>1, <1>7, <2>1, GraphFacts DEF nodesOf
    <3>2. contents(brings(e)') = contents(brings(e))
      BY <1>1, <1>3, <1>5, <2>1, <3>1, StoreBringsSame
    <3>3. \/ contents(brings(e)) \subseteq contents(inPts)
          \/ ~(Decided(e.src) /\ Copied(e.src))
      BY <1>1, <2>1 DEF HandedOrDue, parmKinds, memKinds
    <3>4. contents(brings(e))' = contents(brings(e)')
      BY DEF contents
    <3> QED BY <1>9, <2>1, <3>1, <3>2, <3>3, <3>4
  <2>2. CASE e.src = n /\ changed
    BY <1>3, <2>2
  <2>3. CASE nodes[e.src].kind # "store"
    <3>0. e.src # n
      BY <1>2, <2>3 DEF nodesOf
    <3>1. factsAt(outPts', e.src) = factsAt(outPts, e.src)
      BY <1>7, <3>0
    <3>2. brings(e)' = brings(e)
      BY <1>1, <1>2, <1>3, <2>3, <3>1, BringsSame
    <3>3. \/ contents(brings(e)) \subseteq contents(inPts)
          \/ nodes[e.src].kind \in parmKinds \cup memKinds /\ e.src \in waiting
      BY <1>1, <2>3 DEF HandedOrDue
    <3>5. contents(brings(e))' = contents(brings(e)')
      BY DEF contents
    <3> QED BY <1>4, <3>0, <3>2, <3>3, <3>5
  <2> QED BY <2>1, <2>2, <2>3
<1>13. HandedOrDue'
  BY <1>2, <1>3, <1>12 DEF HandedOrDue, contents
<1>14. PointersCopied'
  <2>1. SUFFICES ASSUME NEW k \in nodesOf({"store"}), NEW f \in outPts', f[1] = k, f[2] \in Var
                 PROVE  content(f) \in contents(inPts)
    BY <1>2, <1>40 DEF PointersCopied, contents
  <2>2. f \in outPts \/ \E g \in factsAt(inPts, n) : content(f) = content(g)
    BY <1>2, UnionFacts
  <2>3. \A g \in factsAt(inPts, n) : content(g) \in contents(inPts)
    BY DEF contents, factsAt
  <2> QED BY <1>1, <2>1, <2>2, <2>3 DEF PointersCopied
<1>15. StoresApplied'
  <2>1. SUFFICES ASSUME NEW k \in nodesOf({"store"})
                 PROVE  /\ k \in waiting' \/ Copied(k)'
                        /\ Decided(k)' /\ Copied(k)' => \A w \in storeWrites(k)' :
                             Applied(k, w)' \/ (pc' = "update" /\ k = cur' /\ \E u \in updates' : w = writes(u))
    BY <1>40 DEF StoresApplied, writes
  <2>2. CASE k # n
    <3>1. k \in waiting \/ Copied(k)
      BY <1>1 DEF StoresApplied
    <3>2. Decided(k) /\ Copied(k) => \A w \in storeWrites(k) : Applied(k, w)
      BY <1>1 DEF StoresApplied
    <3> QED BY <1>4, <1>7, <1>9, <2>2, <3>1, <3>2
  <2>3. CASE k = n
    <3>1. \A w \in storeWrites(n)' : \E u \in updates' : w = writes(u)
      BY <1>10
    <3>2. updates' # {} => pc' = "update"
      BY <1>3 DEF after
    <3> QED BY <1>3, <1>11, <2>3, <3>1, <3>2
  <2> QED BY <2>2, <2>3
<1>16. Updating'
  <2>1. \A u \in updates' : writes(u) \in storeWrites(n)'
    BY <1>10
  <2>2. ASSUME Decided(n)', NEW e \in prog.edges, e.src = n, e \notin todo', NEW w \in storeWrites(n)'
        PROVE  Applied(n, w)'
    <3>1. ~changed
      BY <1>3, <2>2
    <3>2. factsAt(outPts', n) = factsAt(outPts, n)
      BY <3>1
    <3>3. Copied(n) /\ Decided(n) /\ (Applied(n, w)' <=> Applied(n, w))
      BY <1>2, <1>9, <1>11, <2>2, <3>2
    <3>4. Applied(n, w)
      BY <1>1, <1>2, <1>10, <2>2, <3>3 DEF StoresApplied
    <3> QED BY <3>3, <3>4
  <2> QED BY <1>2, <1>3, <1>11, <1>40, <2>1, <2>2 DEF Updating, writes
<1> QED BY <1>5, <1>6, <1>13, <1>14, <1>15, <1>16 DEF Settling

-----------------------------------------------------------------------------
(* What one update of a store changes: what it writes is there afterwards, *)
(* a strong one leaves nothing else under its guard, and of the rest only  *)
(* what overlapped a strong one is cut.                                    *)
overlaps(f, n, u) == f[1] = n /\ f[2] = u.obj /\ f[3].bdd \cap u.guard.bdd # {}

LEMMA UpdateFacts ==
  ASSUME NEW F, NEW n, NEW u, NEW R \in applyStoreUpdate(F, n, u)
  PROVE  /\ \A f \in R : \/ f \in F
                         \/ f[1] = n /\ f[2] = u.obj /\ f[3].bdd = u.guard.bdd /\ f[4] \in u.pts
                         \/ u.strong /\ \E g \in F :
                              /\ overlaps(g, n, u)
                              /\ f[1] = n /\ f[2] = u.obj /\ f[4] = g[4]
                              /\ f[3].bdd = g[3].bdd \cap (World \ u.guard.bdd) /\ f[3].bdd # {}
         /\ \A f \in F : f \in R \/ (u.strong /\ overlaps(f, n, u))
         /\ \A x \in u.pts : <<n, u.obj, u.guard.bdd, x>> \in contents(R)
         /\ u.strong => \A f \in R : overlaps(f, n, u) =>
              f[3].bdd = u.guard.bdd /\ f[4] \in u.pts
<1> DEFINE old  == {f \in condPts(F, n, u.obj) : isSat(guardAnd(f[3], u.guard))}
           rest == under(old, n, u.obj, guardNot(u.guard))
           new  == {<<n, u.obj, u.guard, x>> : x \in u.pts}
<1>1. \A f : f \in old <=> f \in F /\ overlaps(f, n, u)
  BY DEF condPts, isSat, guardAnd, overlaps
<1>2. \A f \in rest : \E g \in F :
        /\ overlaps(g, n, u)
        /\ f[1] = n /\ f[2] = u.obj /\ f[4] = g[4]
        /\ f[3].bdd = g[3].bdd \cap (World \ u.guard.bdd) /\ f[3].bdd # {}
  <2>1. SUFFICES ASSUME NEW f \in rest
                 PROVE  \E g \in old :
                          /\ f[1] = n /\ f[2] = u.obj /\ f[4] = g[4]
                          /\ f[3].bdd = g[3].bdd \cap (World \ u.guard.bdd) /\ f[3].bdd # {}
    BY <1>1
  <2>2. PICK g \in old : f = <<n, u.obj, guardAnd(g[3], guardNot(u.guard)), g[4]>>
                         /\ isSat(guardAnd(g[3], guardNot(u.guard)))
    BY DEF under
  <2> HIDE DEF old, rest
  <2>3. guardAnd(g[3], guardNot(u.guard)).bdd = g[3].bdd \cap (World \ u.guard.bdd)
    BY DEF guardAnd, guardNot
  <2> QED BY <2>2, <2>3 DEF isSat
<1>3. \A f \in new : f[1] = n /\ f[2] = u.obj /\ f[3].bdd = u.guard.bdd /\ f[4] \in u.pts
  OBVIOUS
<1>4. \A x \in u.pts : <<n, u.obj, u.guard.bdd, x>> \in contents(new)
  <2>1. SUFFICES ASSUME NEW x \in u.pts PROVE <<n, u.obj, u.guard.bdd, x>> \in contents(new)
    OBVIOUS
  <2>2. content(<<n, u.obj, u.guard, x>>) = <<n, u.obj, u.guard.bdd, x>>
    BY DEF content
  <2>3. <<n, u.obj, u.guard, x>> \in new
    OBVIOUS
  <2> HIDE DEF new
  <2> QED BY <2>2, <2>3 DEF contents
<1>5. \A f \in rest : f[3].bdd \cap u.guard.bdd = {}
  BY <1>2
<1> HIDE DEF old, rest, new
<1>6. CASE u.strong
  <2>1. PICK left \in unions(F \ old, rest) : R \in unions(left, new)
    BY <1>6 DEF applyStoreUpdate, old, rest, new
  <2>2. /\ F \ old \subseteq R
        /\ contents(new) \subseteq contents(R)
    BY <2>1, UnionFacts
  <2>3. \A f \in left : f \in F \ old \/ \E g \in rest : content(f) = content(g)
    BY <2>1, UnionFacts
  <2>4. \A f \in R : f \in left \/ \E g \in new : content(f) = content(g)
    BY <2>1, UnionFacts
  <2>5. ASSUME NEW f \in R
        PROVE  \/ f \in F \ old
               \/ f[1] = n /\ f[2] = u.obj /\ f[3].bdd = u.guard.bdd /\ f[4] \in u.pts
               \/ \E g \in rest : content(f) = content(g)
    <3>1. CASE f \in left
      BY <2>3, <3>1
    <3>2. CASE f \notin left
      <4>1. PICK g \in new : content(f) = content(g)
        BY <2>4, <3>2
      <4> QED BY <1>3, <4>1, ContentFields
    <3> QED BY <3>1, <3>2
  <2>6. ASSUME NEW f \in R
        PROVE  \/ f \in F
               \/ f[1] = n /\ f[2] = u.obj /\ f[3].bdd = u.guard.bdd /\ f[4] \in u.pts
               \/ \E g \in F :
                    /\ overlaps(g, n, u)
                    /\ f[1] = n /\ f[2] = u.obj /\ f[4] = g[4]
                    /\ f[3].bdd = g[3].bdd \cap (World \ u.guard.bdd) /\ f[3].bdd # {}
    <3>1. CASE \E g \in rest : content(f) = content(g)
      <4>1. PICK g \in rest : content(f) = content(g)
        BY <3>1
      <4>2. f[1] = g[1] /\ f[2] = g[2] /\ f[3].bdd = g[3].bdd /\ f[4] = g[4]
        BY <4>1, ContentFields
      <4> QED BY <1>2, <4>2
    <3> QED BY <2>5, <3>1
  <2>7. ASSUME NEW f \in R, overlaps(f, n, u)
        PROVE  f[3].bdd = u.guard.bdd /\ f[4] \in u.pts
    <3>1. f \notin F \ old
      BY <1>1, <2>7
    <3>2. ~ \E g \in rest : content(f) = content(g)
      <4>1. SUFFICES ASSUME NEW g \in rest, content(f) = content(g) PROVE FALSE
        OBVIOUS
      <4>2. f[3].bdd = g[3].bdd
        BY <4>1, ContentFields
      <4> QED BY <1>5, <2>7, <4>2 DEF overlaps
    <3> QED BY <2>5, <3>1, <3>2
  <2> QED BY <1>1, <1>4, <1>6, <2>2, <2>6, <2>7
<1>7. CASE ~u.strong
  <2>1. R \in unions(F, new)
    BY <1>7 DEF applyStoreUpdate, new
  <2>2. /\ F \subseteq R /\ contents(new) \subseteq contents(R)
        /\ \A f \in R : f \in F \/ \E g \in new : content(f) = content(g)
    BY <2>1, UnionFacts
  <2>3. ASSUME NEW f \in R, f \notin F
        PROVE  f[1] = n /\ f[2] = u.obj /\ f[3].bdd = u.guard.bdd /\ f[4] \in u.pts
    <3>1. PICK g \in new : content(f) = content(g)
      BY <2>2, <2>3
    <3> QED BY <1>3, <3>1, ContentFields
  <2> QED BY <1>4, <1>7, <2>2, <2>3
<1> QED BY <1>6, <1>7

(* An update leaves alone what other writes of a decided store have done.  *)
LEMMA UpdateKeepsWrites ==
  ASSUME NEW n, NEW u, outPts' \in applyStoreUpdate(outPts, n, u),
         NEW w, Applied(n, w),
         w # writes(u) /\ w.obj = u.obj /\ (w.strong \/ u.strong) => w.bdd \cap u.guard.bdd = {}
  PROVE  w = writes(u) \/ Applied(n, w)'
<1>1. SUFFICES ASSUME w # writes(u) PROVE Applied(n, w)'
  OBVIOUS
<1>2. ASSUME NEW x \in w.pts PROVE <<n, w.obj, w.bdd, x>> \in contents(outPts')
  <2>1. PICK f \in outPts : content(f) = <<n, w.obj, w.bdd, x>>
    BY <1>2 DEF Applied, contents
  <2>2. f[1] = n /\ f[2] = w.obj /\ f[3].bdd = w.bdd
    BY <2>1 DEF content
  <2>3. ~(u.strong /\ overlaps(f, n, u))
    BY <1>1, <2>2 DEF overlaps
  <2>4. f \in outPts'
    BY <2>3, UpdateFacts
  <2> QED BY <2>1, <2>4 DEF contents
<1>3. ASSUME w.strong, NEW f \in outPts', f[1] = n, f[2] = w.obj, f[3].bdd \cap w.bdd # {}
      PROVE  f[3].bdd = w.bdd /\ f[4] \in w.pts
  <2>1. CASE f \in outPts
    BY <1>3, <2>1 DEF Applied
  <2>2. CASE f[2] = u.obj /\ f[3].bdd = u.guard.bdd
    BY <1>1, <1>3, <2>2
  <2>3. CASE \E g \in outPts : overlaps(g, n, u) /\ f[2] = u.obj
               /\ f[3].bdd = g[3].bdd \cap (World \ u.guard.bdd)
    <3>1. PICK g \in outPts : overlaps(g, n, u) /\ f[2] = u.obj
                              /\ f[3].bdd = g[3].bdd \cap (World \ u.guard.bdd)
      BY <2>3
    <3>2. g[3].bdd = w.bdd
      BY <1>3, <3>1 DEF Applied, overlaps
    <3> QED BY <1>1, <1>3, <3>1, <3>2 DEF overlaps
  <2> QED BY <2>1, <2>2, <2>3, UpdateFacts
<1>4. Applied(n, w)' <=>
          /\ \A x \in w.pts : <<n, w.obj, w.bdd, x>> \in contents(outPts')
          /\ w.strong => \A f \in outPts' :
               f[1] = n /\ f[2] = w.obj /\ f[3].bdd \cap w.bdd # {} =>
                 f[3].bdd = w.bdd /\ f[4] \in w.pts
  BY DEF Applied, contents
<1> QED BY <1>2, <1>3, <1>4

LEMMA UpdateApplies ==
  ASSUME NEW n, NEW u, NEW w, w = writes(u), outPts' \in applyStoreUpdate(outPts, n, u)
  PROVE  Applied(n, w)'
<1>1. Applied(n, w)' <=>
          /\ \A x \in u.pts : <<n, u.obj, u.guard.bdd, x>> \in contents(outPts')
          /\ u.strong => \A f \in outPts' :
               f[1] = n /\ f[2] = u.obj /\ f[3].bdd \cap u.guard.bdd # {} =>
                 f[3].bdd = u.guard.bdd /\ f[4] \in u.pts
  BY DEF Applied, contents, writes
<1> QED BY <1>1, UpdateFacts DEF overlaps

(* A write done again changes nothing but flags.                           *)
LEMMA UpdateAgain ==
  ASSUME NEW n, NEW u, outPts' \in applyStoreUpdate(outPts, n, u), Applied(n, writes(u))
  PROVE  contents(outPts') = contents(outPts)
<1>1. /\ \A x \in u.pts : <<n, u.obj, u.guard.bdd, x>> \in contents(outPts)
      /\ u.strong => \A f \in outPts : overlaps(f, n, u) =>
           f[3].bdd = u.guard.bdd /\ f[4] \in u.pts
  BY DEF Applied, writes, overlaps
<1>2. ASSUME NEW f \in outPts' PROVE content(f) \in contents(outPts)
  <2>1. CASE f \in outPts
    BY <2>1 DEF contents
  <2>2. CASE f[1] = n /\ f[2] = u.obj /\ f[3].bdd = u.guard.bdd /\ f[4] \in u.pts
    BY <1>1, <2>2 DEF content
  <2>3. CASE u.strong /\ \E g \in outPts : overlaps(g, n, u)
               /\ f[3].bdd = g[3].bdd \cap (World \ u.guard.bdd) /\ f[3].bdd # {}
    BY <1>1, <2>3
  <2> QED BY <2>1, <2>2, <2>3, UpdateFacts
<1>3. ASSUME NEW f \in outPts PROVE content(f) \in contents(outPts')
  <2>1. CASE f \in outPts'
    BY <2>1 DEF contents
  <2>2. CASE u.strong /\ overlaps(f, n, u)
    <3>1. content(f) = <<n, u.obj, u.guard.bdd, f[4]>> /\ f[4] \in u.pts
      BY <1>1, <2>2 DEF content, overlaps
    <3> QED BY <3>1, UpdateFacts
  <2> QED BY <2>1, <2>2, UpdateFacts
<1> QED BY <1>2, <1>3 DEF contents

(* One update of a store: it touches an object after that store, so what   *)
(* came before and the pointers stay, and a store that walks none of its   *)
(* edges had done what it does.                                            *)
LEMMA UpdateSettles ==
  ASSUME Settling, NEW u \in updates, updateStore(u)
  PROVE  Settling'
<1>1. /\ Control /\ Data /\ HandedOrDue /\ PointersCopied /\ StoresApplied /\ Updating
      /\ pc = "update" /\ cur \in nodesOf({"store"})
      /\ outPts' \in applyStoreUpdate(outPts, cur, u)
      /\ u.obj \in Obj /\ u.pts \subseteq Obj
  BY DEF Settling, updateStore, Updating, Data
<1>2. /\ prog' = prog /\ nodes' = nodes /\ inPts' = inPts /\ ptD' = ptD /\ todo' = todo /\ cur' = cur
      /\ updates' = updates \ {u}
      /\ pc' = after(updates', todo') /\ waiting' = waiting
      /\ UNCHANGED <<fresh, worklist, retSummary, memSummary, funObjContextGuard>>
  BY DEF updateStore, nodes, waiting
<1>3. nodesOf({"store"})' = nodesOf({"store"})
  BY <1>2 DEF nodesOf
<1>4. Control'
  BY <1>1, <1>2, <1>3 DEF Control, after
<1>5. Data'
  <2>1. ASSUME NEW f \in outPts' PROVE f[4] \in Obj
    BY <1>1, UpdateFacts DEF Data, ObjectFacts
  <2> QED BY <1>1, <1>2, <2>1 DEF Data, ObjectFacts, World, Atom
<1>6. \A m : m # cur => factsAt(outPts', m) = factsAt(outPts, m)
  BY <1>1, UpdateFacts DEF factsAt, overlaps
<1>7. ASSUME NEW k \in nodesOf({"store"}), k # cur
      PROVE  /\ Copied(k)' <=> Copied(k)
             /\ \A w : Applied(k, w)' <=> Applied(k, w)
             /\ Decided(k)' => Decided(k) /\ storeWrites(k)' = storeWrites(k)
  BY <1>1, <1>2, <1>4, <1>5, <1>6, <1>7, StoreKept
<1>8. Decided(cur)' => Decided(cur) /\ storeWrites(cur)' = storeWrites(cur)
  BY <1>1, <1>2, <1>4, <1>5, DecidedBefore
<1>9. Copied(cur) /\ Copied(cur)'
  <2>1. operands(cur)' = operands(cur) /\ operands(cur) \subseteq Var
    BY <1>1, <1>2, PointeesAreObjects DEF operands
  <2>2. Copied(cur)
    BY <1>1 DEF Updating
  <2>3. ASSUME NEW v \in operands(cur), NEW c \in contents(condPts(inPts, cur, v))
        PROVE  c \in contents(outPts')
    <3>1. c \in contents(outPts) /\ c[2] = v
      BY <2>2, <2>3 DEF Copied, contents, content, condPts
    <3>2. PICK f \in outPts : c = content(f)
      BY <3>1 DEF contents
    <3>3. f[2] # u.obj
      BY <1>1, <2>1, <3>1, <3>2, ValueFlowAssumption DEF content
    <3>4. f \in outPts'
      BY <1>1, <3>3, UpdateFacts DEF overlaps
    <3> QED BY <3>2, <3>4 DEF contents
  <2>4. Copied(cur)' <=> \A v \in operands(cur) :
                           contents(condPts(inPts, cur, v)) \subseteq contents(outPts')
    BY <1>2, <2>1 DEF Copied, contents
  <2> QED BY <2>2, <2>3, <2>4
<1>10. writes(u) \in storeWrites(cur)
  BY <1>1 DEF Updating
<1>11. ASSUME Decided(cur), NEW w \in storeWrites(cur), Applied(cur, w)
       PROVE  Applied(cur, w)'
  <2>1. CASE w = writes(u)
    BY <1>1, <1>2, <2>1, UpdateApplies
  <2>2. CASE w # writes(u)
    <3>1. w.obj = u.obj /\ (w.strong \/ u.strong) => w.bdd \cap u.guard.bdd = {}
      <4>1. /\ w.strong /\ w.obj = writes(u).obj => w.bdd \cap writes(u).bdd = {}
            /\ writes(u).strong /\ writes(u).obj = w.obj => writes(u).bdd \cap w.bdd = {}
        BY <1>10, <1>11, <2>2 DEF Decided
      <4>2. writes(u).obj = u.obj /\ writes(u).bdd = u.guard.bdd /\ writes(u).strong = u.strong
        BY DEF writes
      <4> QED BY <4>1, <4>2
    <3> QED BY <1>1, <1>2, <1>11, <2>2, <3>1, UpdateKeepsWrites
  <2> QED BY <2>1, <2>2
<1>12. ASSUME NEW e \in prog.edges
       PROVE  \/ contents(brings(e))' \subseteq contents(inPts)
              \/ e \in todo
              \/ nodes[e.src].kind \in parmKinds \cup memKinds /\ e.src \in waiting
              \/ nodes[e.src].kind = "store" /\ ~(Decided(e.src)' /\ Copied(e.src)')
  <2>1. contents(brings(e))' = contents(brings(e)')
    BY DEF contents
  <2>2. \/ contents(brings(e)) \subseteq contents(inPts)
        \/ e \in todo
        \/ nodes[e.src].kind \in parmKinds \cup memKinds /\ e.src \in waiting
        \/ nodes[e.src].kind = "store" /\ ~(Decided(e.src) /\ Copied(e.src))
    BY <1>1 DEF HandedOrDue
  <2>3. CASE nodes[e.src].kind # "store"
    <3>1. factsAt(outPts', e.src) = factsAt(outPts, e.src)
      BY <1>1, <1>6, <2>3 DEF nodesOf
    <3>2. brings(e)' = brings(e)
      BY <1>1, <1>2, <2>3, <3>1, BringsSame
    <3> QED BY <2>1, <2>2, <2>3, <3>2
  <2>4. CASE nodes[e.src].kind = "store" /\ e.src # cur
    <3>1. e.src \in nodesOf({"store"})
      BY <1>1, <2>4, GraphFacts DEF nodesOf
    <3>2. contents(brings(e)') = contents(brings(e))
      BY <1>1, <1>2, <1>4, <1>6, <2>4, StoreBringsSame
    <3> QED BY <1>7, <2>1, <2>2, <2>4, <3>1, <3>2 DEF parmKinds, memKinds
  <2>5. CASE e.src = cur /\ nodes[e.src].kind = "store"
    <3>1. SUFFICES ASSUME Decided(cur)', e \notin todo
                   PROVE  contents(brings(e)') \subseteq contents(inPts)
      BY <1>2, <1>9, <2>1, <2>5
    <3>2. contents(brings(e)) \subseteq contents(inPts)
      BY <1>8, <1>9, <2>2, <2>5, <3>1 DEF parmKinds, memKinds
    <3>3. Applied(cur, writes(u))
      BY <1>1, <1>8, <1>10, <2>5, <3>1 DEF Updating
    <3>4. contents(outPts') = contents(outPts)
      BY <1>1, <3>3, UpdateAgain
    <3>5. \A F : contents(factsAt(F, cur)) = {c \in contents(F) : c[1] = cur}
      BY DEF contents, factsAt, content
    <3>6. contents(factsAt(outPts', cur)) = contents(factsAt(outPts, cur))
      BY <3>4, <3>5
    <3>7. contents(brings(e)') = contents(brings(e))
      BY <1>1, <1>2, <1>4, <2>5, <3>6, StoreBringsSame
    <3> QED BY <3>2, <3>7
  <2> QED BY <2>3, <2>4, <2>5
<1>13. HandedOrDue'
  BY <1>2, <1>12 DEF HandedOrDue, contents
<1>14. PointersCopied'
  <2>1. SUFFICES ASSUME NEW k \in nodesOf({"store"}), NEW f \in outPts', f[1] = k, f[2] \in Var
                 PROVE  content(f) \in contents(inPts)
    BY <1>2, <1>3 DEF PointersCopied, contents
  <2>2. f[2] # u.obj
    BY <1>1, <2>1, ValueFlowAssumption
  <2>3. f \in outPts
    BY <1>1, <2>2, UpdateFacts
  <2> QED BY <1>1, <2>1, <2>3 DEF PointersCopied
<1>15. StoresApplied'
  <2>1. SUFFICES ASSUME NEW k \in nodesOf({"store"})
                 PROVE  /\ k \in waiting \/ Copied(k)'
                        /\ Decided(k)' /\ Copied(k)' => \A w \in storeWrites(k)' :
                             Applied(k, w)' \/ (pc' = "update" /\ k = cur /\ \E x \in updates' : w = writes(x))
    BY <1>2, <1>3 DEF StoresApplied, writes
  <2>2. k \in waiting \/ Copied(k)
    BY <1>1 DEF StoresApplied
  <2>3. Decided(k) /\ Copied(k) => \A w \in storeWrites(k) :
          Applied(k, w) \/ (k = cur /\ \E x \in updates : w = writes(x))
    BY <1>1 DEF StoresApplied
  <2>4. CASE k # cur
    BY <1>7, <2>2, <2>3, <2>4
  <2>5. CASE k = cur
    <3>1. SUFFICES ASSUME Decided(cur)', NEW w \in storeWrites(cur)', ~Applied(cur, w)'
                   PROVE  pc' = "update" /\ \E x \in updates' : w = writes(x)
      BY <1>2, <1>9, <2>5
    <3>2. Decided(cur) /\ w \in storeWrites(cur) /\ ~Applied(cur, w)
      BY <1>8, <1>11, <3>1
    <3>3. PICK x \in updates : w = writes(x)
      BY <1>9, <2>3, <2>5, <3>2
    <3>4. w # writes(u)
      BY <1>1, <1>2, <3>1, UpdateApplies
    <3>5. x \in updates'
      BY <1>2, <3>3, <3>4
    <3>6. pc' = "update"
      BY <1>2, <3>5 DEF after
    <3> QED BY <3>3, <3>5, <3>6
  <2> QED BY <2>4, <2>5
<1>16. Updating'
  <2>1. \A x \in updates' : writes(x) \in storeWrites(cur)
    BY <1>1, <1>2 DEF Updating
  <2>2. storeWrites(cur)' = storeWrites(cur)
    BY <1>1, <1>2, <1>4, <1>5, WritesSame
  <2>3. ASSUME Decided(cur)', NEW e \in prog.edges, e.src = cur, e \notin todo, NEW w \in storeWrites(cur)'
        PROVE  Applied(cur, w)'
    <3>1. Decided(cur) /\ w \in storeWrites(cur)
      BY <1>8, <2>3
    <3>2. Applied(cur, w)
      BY <1>1, <2>3, <3>1 DEF Updating
    <3> QED BY <1>11, <3>1, <3>2
  <2> QED BY <1>1, <1>2, <1>3, <1>9, <2>1, <2>2, <2>3 DEF Updating, writes
<1> QED BY <1>4, <1>5, <1>13, <1>14, <1>15, <1>16 DEF Settling

(* The atom of a call site changes no more than the flag of a guard that   *)
(* is True to begin with.                                                  *)
LEMMA AbsorbKeepsTrue ==
  ASSUME Data, NEW e, absorbContextAtom(e)
  PROVE  funObjContextGuard' \in [Fun -> [Obj -> [bdd : {World}, hasCtxAtom : BOOLEAN]]]
<1> DEFINE G == [bdd : {World}, hasCtxAtom : BOOLEAN]
<1>1. funObjContextGuard \in [Fun -> [Obj -> G]]
  BY DEF Data
<1>2. CASE funObjContextGuard' = funObjContextGuard
  BY <1>1, <1>2
<1>3. CASE funObjContextGuard' # funObjContextGuard
  <2> DEFINE fun == nodes[e.dst].fun
             ctx == edgeGuard(e)
             h   == [x \in Obj |-> IF x \in e.objs THEN guardOr(funObjContextGuard[fun][x], ctx)
                                   ELSE funObjContextGuard[fun][x]]
  <2>1. e.kind = "callInd" /\ funObjContextGuard' = [funObjContextGuard EXCEPT ![fun] = h]
    BY <1>3 DEF absorbContextAtom
  <2>2. ctx.bdd \subseteq World
    <3>1. ctx = capGuard(atom(e.site, TRUE))
      BY <2>1 DEF edgeGuard, contextEdgeGuard
    <3>2. atom(e.site, TRUE).bdd \subseteq World
      BY DEF atom
    <3>3. ASSUME NEW g, g.bdd \subseteq World PROVE capGuard(g).bdd \subseteq World
      <4>1. capGuard(g) = getTrue \/ capGuard(g) = g
        BY DEF capGuard
      <4> QED BY <3>3, <4>1 DEF getTrue, plainGuard
    <3> HIDE DEF ctx
    <3> QED BY <3>1, <3>2, <3>3
  <2>3. \A g \in G : guardOr(g, ctx) \in G
    <3> HIDE DEF ctx
    <3>1. SUFFICES ASSUME NEW g \in G PROVE guardOr(g, ctx) \in G
      OBVIOUS
    <3>2. g.bdd \cup ctx.bdd = World
      BY <2>2
    <3> QED BY <3>2 DEF guardOr
  <2> HIDE DEF ctx, G
  <2>4. fun \in Fun => h \in [Obj -> G]
    BY <1>1, <2>3
  <2> HIDE DEF h, fun
  <2> QED BY <1>1, <2>1, <2>4 DEF G
<1> QED BY <1>2, <1>3

(* Walking an edge: what it brings is there then, and whoever gets         *)
(* something new is to be visited; a store that needs no visit has got     *)
(* nothing new of its operands.                                            *)
LEMMA PropagateSettles ==
  ASSUME Settling, NEW e \in prog.edges, propagate(e)
  PROVE  Settling'
<1>1. /\ Control /\ Data /\ HandedOrDue /\ PointersCopied /\ StoresApplied
      /\ pc = "propagate" /\ updates = {} /\ e \in todo
  BY DEF Settling, propagate, Control
<1>2. /\ prog' = prog /\ nodes' = nodes /\ outPts' = outPts /\ ptD' = ptD
      /\ inPts' \in unions(inPts, brings(e))
      /\ todo' = todo \ {e} /\ cur' = cur /\ updates' = {} /\ pc' = after({}, todo')
      /\ UNCHANGED <<fresh, retSummary, memSummary>>
      /\ IF bringsNew(e) THEN pushIntoWorklist(e.dst) ELSE UNCHANGED worklist
      /\ absorbContextAtom(e)
  BY <1>1 DEF propagate, nodes
<1>3. /\ worklist' \in Seq(DOMAIN nodes) /\ waiting \subseteq waiting'
      /\ inPts' = inPts \/ e.dst \in waiting'
  <2>1. CASE bringsNew(e)
    BY <1>1, <1>2, <2>1, PushWaits, GraphFacts
  <2>2. CASE ~bringsNew(e)
    <3>1. inPts' = inPts
      BY <1>2, <2>2, UnionFacts DEF bringsNew
    <3> QED BY <1>1, <1>2, <2>2, <3>1 DEF waiting, Control
  <2> QED BY <2>1, <2>2
<1>4. nodesOf({"store"})' = nodesOf({"store"})
  BY <1>2 DEF nodesOf
<1>5. Control'
  BY <1>1, <1>2, <1>3 DEF Control, after
<1>6. Data'
  <2>1. ObjectFacts(inPts')
    BY <1>1, <1>2, BringsObjects, UnionObjects DEF Data
  <2>2. funObjContextGuard' \in [Fun -> [Obj -> [bdd : {World}, hasCtxAtom : BOOLEAN]]]
    BY <1>1, <1>2, AbsorbKeepsTrue
  <2> QED BY <1>1, <1>2, <2>1, <2>2 DEF Data, ObjectFacts, World, Atom
<1>7. \A m : m # e.dst => factsAt(inPts', m) = factsAt(inPts, m)
  <2>1. \A f \in brings(e) : f[1] = e.dst
    BY <1>1, BringsTo
  <2> QED BY <1>2, <2>1, UnionOthers
<1>8. contents(inPts') = contents(inPts) \cup contents(brings(e))
  BY <1>2, UnionFacts
<1>9. \A m, v : condPts(inPts', m, v) = condPts(inPts, m, v) \/ (m = e.dst /\ e.dst \in waiting')
  <2>1. \A F, m, v : condPts(F, m, v) = {f \in factsAt(F, m) : f[2] = v}
    BY DEF condPts, factsAt
  <2> QED BY <1>3, <1>7, <2>1
<1>10. ASSUME NEW k \in nodesOf({"store"}),
              \A v \in operands(k) : condPts(inPts', k, v) = condPts(inPts, k, v)
       PROVE  /\ Copied(k)' <=> Copied(k)
              /\ \A w : Applied(k, w)' <=> Applied(k, w)
              /\ Decided(k)' => Decided(k) /\ storeWrites(k)' = storeWrites(k)
  BY <1>1, <1>2, <1>4, <1>5, <1>6, <1>10, StoreKept
<1>11. ASSUME NEW k \in nodesOf({"store"}), Copied(k)', NEW v \in operands(k)
       PROVE  condPts(inPts', k, v) = condPts(inPts, k, v)
  <2>1. operands(k)' = operands(k) /\ v \in Var
    BY <1>1, <1>2, <1>11, PointeesAreObjects DEF operands
  <2>2. contents(condPts(inPts', k, v)) \subseteq contents(outPts)
    BY <1>2, <1>11, <2>1 DEF Copied, contents
  <2>3. ASSUME NEW c \in contents(condPts(inPts', k, v)) PROVE c \in contents(inPts)
    <3>1. c \in contents(outPts) /\ c[1] = k /\ c[2] = v
      BY <2>2 DEF contents, content, condPts
    <3>2. PICK f \in outPts : c = content(f)
      BY <3>1 DEF contents
    <3>3. f[1] = k /\ f[2] = v
      BY <3>1, <3>2 DEF content
    <3> QED BY <1>1, <2>1, <3>2, <3>3 DEF PointersCopied
  <2>4. contents(condPts(inPts', k, v)) \subseteq contents(inPts)
    BY <2>3
  <2> QED BY <1>2, <2>4, UnionSame
<1>12. ASSUME NEW k \in nodesOf({"store"}), Copied(k)', Decided(k)'
       PROVE  /\ Copied(k) /\ Decided(k) /\ storeWrites(k)' = storeWrites(k)
              /\ \A w : Applied(k, w)' <=> Applied(k, w)
  BY <1>10, <1>11, <1>12
<1>13. ASSUME NEW d \in prog.edges
       PROVE  \/ contents(brings(d))' \subseteq contents(inPts')
              \/ d \in todo'
              \/ nodes[d.src].kind \in parmKinds \cup memKinds /\ d.src \in waiting'
              \/ nodes[d.src].kind = "store" /\ ~(Decided(d.src)' /\ Copied(d.src)')
  <2>1. contents(brings(d))' = contents(brings(d)')
    BY DEF contents
  <2>2. \/ contents(brings(d)) \subseteq contents(inPts)
        \/ d \in todo
        \/ nodes[d.src].kind \in parmKinds \cup memKinds /\ d.src \in waiting
        \/ nodes[d.src].kind = "store" /\ ~(Decided(d.src) /\ Copied(d.src))
    BY <1>1 DEF HandedOrDue
  <2>3. ASSUME contents(brings(d)') = contents(brings(d)),
               contents(brings(d)) \subseteq contents(inPts) \/ d \in todo
        PROVE  contents(brings(d)') \subseteq contents(inPts') \/ d \in todo'
    BY <1>2, <1>8, <2>3
  <2>4. CASE nodes[d.src].kind = "store"
    <3>1. d.src \in nodesOf({"store"})
      BY <1>1, <2>4, GraphFacts DEF nodesOf
    <3>2. contents(brings(d)') = contents(brings(d))
      BY <1>1, <1>2, <1>5, <2>4, StoreBringsSame
    <3> QED BY <1>12, <2>1, <2>2, <2>3, <2>4, <3>1, <3>2 DEF parmKinds, memKinds
  <2>5. CASE nodes[d.src].kind # "store" /\ (d.kind = "dir" \/ d.src # e.dst \/ inPts' = inPts)
    <3>1. brings(d)' = brings(d)
      BY <1>1, <1>2, <1>7, <2>5, BringsSame
    <3> QED BY <1>3, <2>1, <2>2, <2>3, <2>5, <3>1
  <2>6. CASE nodes[d.src].kind # "store" /\ d.kind # "dir" /\ d.src = e.dst /\ inPts' # inPts
    BY <1>1, <1>3, <2>6, GraphFacts
  <2> QED BY <2>4, <2>5, <2>6
<1>14. HandedOrDue'
  BY <1>2, <1>13 DEF HandedOrDue, contents
<1>15. PointersCopied'
  BY <1>1, <1>2, <1>4, <1>8 DEF PointersCopied, contents
<1>16. StoresApplied'
  <2>1. SUFFICES ASSUME NEW k \in nodesOf({"store"})
                 PROVE  /\ k \in waiting' \/ Copied(k)'
                        /\ Decided(k)' /\ Copied(k)' => \A w \in storeWrites(k)' : Applied(k, w)'
    BY <1>4 DEF StoresApplied
  <2>2. k \in waiting \/ Copied(k)
    BY <1>1 DEF StoresApplied
  <2>3. Decided(k) /\ Copied(k) => \A w \in storeWrites(k) : Applied(k, w)
    BY <1>1 DEF StoresApplied
  <2> QED BY <1>3, <1>9, <1>10, <1>12, <2>2, <2>3
<1>17. Updating'
  BY <1>2 DEF Updating, after
<1> QED BY <1>5, <1>6, <1>14, <1>15, <1>16, <1>17 DEF Settling

-----------------------------------------------------------------------------
(* The levels.                                                             *)

(* A level starts with every node waiting.  What the level before left are *)
(* the facts at the exits of functions, whose edges are walked on every    *)
(* visit; a store has nothing yet.                                         *)
LEMMA LevelSettles ==
  ASSUME Settling, startLevel
  PROVE  Settling'
<1>1. Control /\ Data /\ todo = {} /\ updates = {} /\ worklist = <<>>
  BY DEF Settling, startLevel, Control
<1>2. /\ prog' = prog /\ nodes' = nodes /\ fresh' = DOMAIN nodes /\ pc' = "solve"
      /\ inPts' = memSummary /\ outPts' = retSummary /\ ptD' = ptD
      /\ funObjContextGuard' = noContextGuards
      /\ UNCHANGED <<retSummary, memSummary, worklist, cur, todo, updates>>
  BY DEF startLevel, nodes
<1>3. Control'
  BY <1>1, <1>2 DEF Control
<1>4. Data'
  <2>1. noContextGuards \in [Fun -> [Obj -> [bdd : {World}, hasCtxAtom : BOOLEAN]]]
    BY DEF noContextGuards, getTrue, plainGuard
  <2> QED BY <1>1, <1>2, <2>1 DEF Data, ObjectFacts, World, Atom
<1>5. ASSUME NEW m \in DOMAIN nodes, nodes[m].kind \in stmtKinds
      PROVE  factsAt(outPts', m) = {} /\ factsAt(inPts', m) = {}
  BY <1>1, <1>2, <1>5 DEF Control, factsAt, stmtKinds
<1>6. ASSUME NEW e \in prog.edges, nodes[e.src].kind \in stmtKinds
      PROVE  contents(brings(e))' = {}
  <2>1. CASE nodes[e.src].kind # "store"
    <3>1. e.kind = "dir"
      BY <1>1, <1>6, <2>1, GraphFacts DEF stmtKinds, parmKinds, memKinds
    <3>2. brings(e)' = {}
      BY <1>1, <1>2, <1>5, <1>6, <3>1, GraphFacts DEF brings, alongDir
    <3> QED BY <3>2 DEF contents
  <2>2. CASE nodes[e.src].kind = "store"
    <3>1. factsAt(outPts', e.src) = {}
      BY <1>1, <1>5, <1>6, GraphFacts
    <3>2. contents(brings(e)') = carried(e, edgeGuard(e)', contents(factsAt(outPts', e.src)))
      BY <1>2, <1>3, <2>2, StoreBringsNext DEF carried, contents
    <3>3. contents(factsAt(outPts', e.src)) = {}
      BY <3>1 DEF contents
    <3> QED BY <3>2, <3>3 DEF carried, contents
  <2> QED BY <2>1, <2>2
<1>7. HandedOrDue'
  <2>1. ASSUME NEW e \in prog.edges
        PROVE  \/ contents(brings(e))' = {}
               \/ nodes[e.src].kind \in parmKinds \cup memKinds /\ e.src \in waiting'
    BY <1>1, <1>2, <1>6, GraphFacts DEF waiting
  <2>2. \A e \in prog.edges :
               \/ contents(brings(e))' \subseteq contents(inPts)'
               \/ nodes[e.src].kind \in parmKinds \cup memKinds /\ e.src \in waiting'
    BY <2>1
  <2> QED BY <1>2, <2>2 DEF HandedOrDue
<1>8. nodesOf({"store"})' = nodesOf({"store"})
  BY <1>2 DEF nodesOf
<1>9. PointersCopied'
  BY <1>2, <1>5, <1>8 DEF PointersCopied, nodesOf, stmtKinds, factsAt
<1>10. StoresApplied'
  <2>1. SUFFICES ASSUME NEW k \in nodesOf({"store"})
                 PROVE  /\ k \in waiting'
                        /\ Decided(k)' => storeWrites(k)' = {}
    BY <1>8 DEF StoresApplied
  <2>2. k \in waiting'
    BY <1>2 DEF waiting, nodesOf
  <2>3. ASSUME Decided(k)' PROVE storeWrites(k)' = {}
    <3>1. operands(k)' = operands(k) /\ nodes[k].dst \in operands(k)
      BY <1>2 DEF operands
    <3>2. condPts(inPts', k, nodes[k].dst) = {}
      BY <1>2, <1>5 DEF condPts, factsAt, nodesOf, stmtKinds
    <3>3. ptD'[nodes[k].dst] = {}
      BY <2>3, <3>1, <3>2 DEF Decided
    <3>4. pointees(k, nodes[k].dst)' = {}
      BY <1>2, <3>2, <3>3 DEF pointees
    <3>5. writable(k)' = {}
      BY <1>2, <3>4 DEF writable
    <3> QED BY <3>5, WritesOfNext
  <2> QED BY <2>2, <2>3
<1>11. Updating'
  BY <1>2 DEF Updating
<1> QED BY <1>3, <1>4, <1>7, <1>9, <1>10, <1>11 DEF Settling

(* What leaves the facts and the worklist alone.                           *)
LEMMA FrameSettles ==
  ASSUME Settling, Control', Data',
         UNCHANGED <<prog, inPts, outPts, ptD, fresh, worklist, cur, todo, updates>>,
         pc' = pc \/ (pc = "solve" /\ pc' \in {"level", "done"})
  PROVE  Settling'
<1>1. Control /\ Data /\ HandedOrDue /\ PointersCopied /\ StoresApplied /\ Updating
  BY DEF Settling
<1>2. /\ nodes' = nodes /\ nodesOf({"store"})' = nodesOf({"store"}) /\ waiting' = waiting
      /\ \A v \in Var : ptD[v] \subseteq ptD'[v]
  BY DEF nodes, nodesOf, waiting
<1>3. ASSUME NEW k \in nodesOf({"store"})
      PROVE  /\ Copied(k)' <=> Copied(k)
             /\ \A w : Applied(k, w)' <=> Applied(k, w)
             /\ Decided(k)' => Decided(k)
             /\ storeWrites(k)' = storeWrites(k)
  <2>1. storeWrites(k)' = storeWrites(k)
    BY <1>1, <1>3, WritesSame
  <2> QED BY <1>1, <1>2, <1>3, <2>1, StoreKept
<1>4. ASSUME NEW e \in prog.edges
      PROVE  contents(brings(e))' = contents(brings(e))
  <2>1. contents(brings(e))' = contents(brings(e)')
    BY DEF contents
  <2>2. CASE nodes[e.src].kind = "store"
    BY <1>1, <2>1, <2>2, StoreBringsSame
  <2>3. CASE nodes[e.src].kind # "store"
    <3>1. brings(e)' = brings(e)
      BY <1>1, <2>3, BringsSame
    <3> QED BY <2>1, <3>1
  <2> QED BY <2>2, <2>3
<1>5. ASSUME NEW e \in prog.edges, nodes[e.src].kind = "store"
      PROVE  Decided(e.src)' /\ Copied(e.src)' => Decided(e.src) /\ Copied(e.src)
  <2>1. e.src \in nodesOf({"store"})
    BY <1>1, <1>5, GraphFacts DEF nodesOf
  <2> QED BY <1>3, <2>1
<1>6. HandedOrDue'
  <2>1. ASSUME pc' # "level", NEW e \in prog.edges
        PROVE  \/ contents(brings(e)) \subseteq contents(inPts)
               \/ e \in todo
               \/ nodes[e.src].kind \in parmKinds \cup memKinds /\ e.src \in waiting
               \/ nodes[e.src].kind = "store" /\ ~(Decided(e.src)' /\ Copied(e.src)')
    BY <1>1, <1>5, <2>1 DEF HandedOrDue
  <2> QED BY <1>2, <1>4, <2>1 DEF HandedOrDue, contents
<1>7. PointersCopied'
  BY <1>1, <1>2 DEF PointersCopied, contents
<1>8. StoresApplied'
  <2>1. ASSUME pc' # "level", NEW k \in nodesOf({"store"})
        PROVE  /\ k \in waiting' \/ Copied(k)'
               /\ Decided(k)' /\ Copied(k)' =>
                    \A w \in storeWrites(k)' :
                      Applied(k, w)' \/ (pc' = "update" /\ k = cur' /\ \E u \in updates' : w = writes(u))
    <3>1. k \in waiting \/ Copied(k)
      BY <1>1, <2>1 DEF StoresApplied
    <3>2. Decided(k) /\ Copied(k) =>
            \A w \in storeWrites(k) :
              Applied(k, w) \/ (pc = "update" /\ k = cur /\ \E u \in updates : w = writes(u))
      BY <1>1, <2>1 DEF StoresApplied
    <3> QED BY <1>2, <1>3, <2>1, <3>1, <3>2
  <2> QED BY <1>2, <2>1 DEF StoresApplied, writes
<1>9. Updating'
  <2>1. SUFFICES ASSUME pc' = "update" PROVE Updating'
    BY DEF Updating
  <2>2. pc = "update" /\ cur \in nodesOf({"store"})
    BY <1>1, <2>1 DEF Updating
  <2>3. PICK n \in nodesOf({"store"}) : n = cur
    BY <2>2
  <2>4. /\ Copied(n)'
        /\ \A u \in updates : writes(u) \in storeWrites(n)'
        /\ Decided(n)' /\ (\E e \in prog.edges : e.src = n /\ e \notin todo) =>
             \A w \in storeWrites(n)' : Applied(n, w)'
    BY <1>1, <1>3, <2>2, <2>3 DEF Updating
  <2> QED BY <1>2, <2>2, <2>3, <2>4 DEF Updating, writes
<1> QED BY <1>6, <1>7, <1>8, <1>9 DEF Settling

(* The end of a level finds nobody waiting.                                *)
LEMMA EndSettles ==
  ASSUME Settling, endLevel
  PROVE  Settling'
<1>1. Control /\ Data /\ todo = {} /\ updates = {} /\ pc = "solve"
  BY DEF Settling, endLevel, Control
<1>2. /\ prog' = prog /\ nodes' = nodes /\ pc' \in {"done", "level"}
      /\ fresh = {} /\ worklist = <<>>
      /\ UNCHANGED <<inPts, outPts, ptD, funObjContextGuard, fresh, worklist, cur, todo, updates>>
  BY DEF endLevel, nodes
<1>3. /\ memSummary' = memSummary \/ memSummary' = {f \in outPts : nodes[f[1]].kind = "formalOut"}
      /\ retSummary' = retSummary \/ retSummary' \subseteq {f \in outPts : nodes[f[1]].kind = "formalRet"}
  BY DEF endLevel, computeFunctionSummary
<1>4. Control'
  BY <1>1, <1>2, <1>3 DEF Control
<1>5. Data'
  BY <1>1, <1>2, <1>3 DEF Data, ObjectFacts, World, Atom
<1> QED BY <1>1, <1>2, <1>4, <1>5, FrameSettles

(* Every step hands on what it should or leaves somebody waiting for it.   *)
LEMMA SettlingStep == Settling /\ [PSNext]_psVars => Settling'
<1> SUFFICES ASSUME Settling, [PSNext]_psVars PROVE Settling'
  OBVIOUS
<1>1. CASE UNCHANGED psVars
  <2>1. Control' /\ Data'
    BY <1>1 DEF Settling, Control, Data, ObjectFacts, psVars, nodes, nodesOf, World, Atom
  <2> QED BY <1>1, <2>1, FrameSettles DEF psVars
<1>2. ASSUME NEW n \in DOMAIN nodes, popFromWorklist(n), processSVFGNode(n) PROVE Settling'
  <2>1. CASE nodes[n].kind = "store"
    <3>1. processStore(n)
      BY <1>2, <2>1 DEF processSVFGNode, processAddr, processCopy, processPhi, processLoad,
                        processMSSANode, processParm, memKinds, parmKinds
    <3> QED BY <1>2, <3>1, VisitStoreSettles
  <2>2. CASE nodes[n].kind # "store"
    BY <1>2, <2>2, VisitSettles
  <2> QED BY <2>1, <2>2
<1>3. CASE PSNext
  BY <1>2, <1>3, UpdateSettles, PropagateSettles, LevelSettles, EndSettles DEF PSNext
<1> QED BY <1>1, <1>3

LEMMA SettlingInit == PSInit => Settling
<1> SUFFICES ASSUME PSInit PROVE Settling
  OBVIOUS
<1>1. Control
  BY DEF PSInit, Control
<1>2. Data
  BY DEF PSInit, Data, ObjectFacts, noContextGuards, getTrue, plainGuard
<1> QED BY <1>1, <1>2 DEF PSInit, Settling, HandedOrDue, PointersCopied, StoresApplied, Updating

(* What leaves a store whose writes depend on the order of the hash maps,  *)
(* or on unconditional sets that may have grown since, has been handed on. *)
UndecidedStoresSettled ==
  pc = "done" => \A e \in prog.edges :
    nodes[e.src].kind = "store" /\ ~Decided(e.src) => contents(brings(e)) \subseteq contents(inPts)

(* PathEdgesSettled: when the worklist runs empty every edge has handed on *)
(* all it will (EdgesSettled), in every level.  Statements do not come     *)
(* back to edges of theirs, and processStore reports what came before the  *)
(* store, not what the store changed; that is enough, unless two writes of *)
(* one store, one of them strong, compete for an object under guards that  *)
(* overlap, or an operand of it never arrived: then the order in which a   *)
(* visit updates may change what an edge would bring with nobody to see.   *)
THEOREM PathEdgesSettled == PathSensitiveSpec => [](UndecidedStoresSettled => EdgesSettled)
<1>1. ASSUME Settling, UndecidedStoresSettled PROVE EdgesSettled
  <2>1. SUFFICES ASSUME pc = "done", NEW e \in prog.edges
                 PROVE  contents(brings(e)) \subseteq contents(inPts)
    BY DEF EdgesSettled
  <2>2. Control /\ HandedOrDue /\ StoresApplied /\ waiting = {} /\ todo = {}
    BY <1>1, <2>1 DEF Settling, Control, waiting, Range
  <2>3. CASE nodes[e.src].kind = "store"
    <3>1. e.src \in nodesOf({"store"})
      BY <2>2, <2>3, GraphFacts DEF nodesOf
    <3>2. Copied(e.src)
      BY <2>1, <2>2, <3>1 DEF StoresApplied
    <3> QED BY <1>1, <2>1, <2>2, <2>3, <3>2 DEF HandedOrDue, UndecidedStoresSettled
  <2> QED BY <2>1, <2>2, <2>3 DEF HandedOrDue
<1> QED BY <1>1, SettlingInit, SettlingStep, PTL DEF PathSensitiveSpec

-----------------------------------------------------------------------------
(* No fact is held in no world.  alias() takes a variable that has facts   *)
(* at all for one whose facts decide, and does not ask the unconditional   *)
(* sets then: a fact no world satisfies would deny every alias of it.      *)
Satisfiable(F) == \A f \in F : isSat(f[3])

FactsSatisfiable == Satisfiable(inPts) /\ Satisfiable(outPts)

SatisfiableInv ==
  /\ Control
  /\ FactsSatisfiable
  /\ Satisfiable(memSummary) /\ Satisfiable(retSummary)
  /\ \A u \in updates : isSat(u.guard)

(* Moving facts under a guard drops those it makes unsatisfiable.          *)
LEMMA MovedSatisfiable ==
  /\ \A F, n, v, g : Satisfiable(under(F, n, v, g))
  /\ \A F, n, v, g : Satisfiable(cappedUnder(F, n, v, g))
BY DEF Satisfiable, under, cappedUnder

LEMMA UnionSatisfiable ==
  ASSUME NEW F, NEW G, NEW R \in unions(F, G), Satisfiable(F), Satisfiable(G)
  PROVE  Satisfiable(R)
<1>1. SUFFICES ASSUME NEW f \in R, f \notin F PROVE f[3].bdd # {}
  BY DEF Satisfiable, isSat
<1>2. PICK g \in G : content(f) = content(g)
  BY <1>1, UnionFacts
<1> QED BY <1>2, ContentFields DEF Satisfiable, isSat

(* An edge hands on what was kept of the facts under its guard.            *)
LEMMA BringsSatisfiable ==
  ASSUME SatisfiableInv, NEW e \in prog.edges
  PROVE  Satisfiable(brings(e))
<1>1. SUFFICES ASSUME NEW f \in brings(e) PROVE isSat(f[3])
  BY DEF Satisfiable
<1>2. CASE e.kind \in {"callDir", "retDir"}
  <2>1. f \in crossesCall(e)
    BY <1>2 DEF brings
  <2> QED BY <2>1, MovedSatisfiable DEF crossesCall, Satisfiable
<1>3. CASE e.kind = "dir"
  <2>1. f \in alongDir(e)
    BY <1>3 DEF brings
  <2>2. PICK x \in factsAt(outPts, e.src) : f \in under({x}, e.dst, x[2], edgeGuard(e))
    BY <2>1 DEF alongDir
  <2> QED BY <2>2, MovedSatisfiable DEF Satisfiable
<1>4. CASE e.kind \notin {"callDir", "retDir", "dir"} /\ ~(e.kind = "retInd" /\ nodes[e.src].kind # "store")
  <2>1. f \in alongInd(e)
    BY <1>4 DEF brings
  <2>2. PICK x \in memoryFacts(e) : f \in under({x}, e.dst, x[2], edgeGuard(e))
    BY <2>1 DEF alongInd
  <2> QED BY <2>2, MovedSatisfiable DEF Satisfiable
<1>5. CASE e.kind = "retInd" /\ nodes[e.src].kind # "store"
  <2>1. f \in alongRetInd(e)
    BY <1>5 DEF brings
  <2>2. PICK x \in returning(e) :
          f \in (IF implies(x[3], edgeGuard(e)) THEN {<<e.dst, x[2], x[3], x[4]>>}
                 ELSE cappedUnder({x}, e.dst, x[2], edgeGuard(e)))
    BY <2>1 DEF alongRetInd
  <2>3. isSat(x[3])
    BY DEF returning, memoryFacts, memoryAt, factsAt, SatisfiableInv, FactsSatisfiable, Satisfiable
  <2> QED BY <2>2, <2>3, MovedSatisfiable DEF Satisfiable
<1> QED BY <1>2, <1>3, <1>4, <1>5

(* A handler defines facts that some world satisfies, or none.             *)
LEMMA VisitSatisfiable ==
  ASSUME SatisfiableInv, pc = "solve", NEW n \in DOMAIN nodes, processSVFGNode(n)
  PROVE  FactsSatisfiable' /\ UNCHANGED <<memSummary, retSummary>>
         /\ \A u \in updates' : isSat(u.guard)
<1>1. Satisfiable(inPts) /\ Satisfiable(outPts) /\ updates = {}
  BY DEF SatisfiableInv, FactsSatisfiable, Control
<1>2. \A F : \A n1, v : Satisfiable(F) => Satisfiable(condPts(F, n1, v)) /\ Satisfiable(factsAt(F, n1))
  BY DEF Satisfiable, condPts, factsAt
<1>4. ASSUME NEW facts, NEW objs, defines(n, facts, objs), Satisfiable(facts)
      PROVE  FactsSatisfiable' /\ UNCHANGED <<memSummary, retSummary>> /\ updates' = {}
  <2>1. /\ outPts' \in unions(outPts, facts) /\ updates' = {}
        /\ UNCHANGED <<inPts, memSummary, retSummary>>
    BY <1>1, <1>4 DEF defines, visits
  <2> QED BY <1>1, <1>4, <2>1, UnionSatisfiable DEF FactsSatisfiable, Satisfiable
<1>5. CASE processAddr(n)
  <2>1. isSat(getTrue)
    <3>1. {} \in World
      BY DEF World
    <3> QED BY <3>1 DEF isSat, getTrue, plainGuard
  <2>2. Satisfiable({<<n, nodes[n].dst, getTrue, nodes[n].src>>})
    BY <2>1 DEF Satisfiable
  <2> QED BY <1>4, <1>5, <2>2 DEF processAddr
<1>6. CASE processCopy(n)
  BY <1>4, <1>6, MovedSatisfiable DEF processCopy
<1>7. CASE processPhi(n)
  <2>1. Satisfiable(phiFacts(n))
    BY MovedSatisfiable DEF phiFacts, Satisfiable
  <2> QED BY <1>4, <1>7, <2>1 DEF processPhi
<1>8. CASE processLoad(n)
  <2>1. Satisfiable(loadFacts(n))
    BY MovedSatisfiable DEF loadFacts, Satisfiable
  <2> QED BY <1>4, <1>8, <2>1 DEF processLoad
<1>9. CASE processStore(n)
  <2>1. \A u \in storeUpdates(n) : isSat(u.guard)
    BY DEF storeUpdates
  <2>2. outPts' \in unions(outPts, factsAt(inPts, n)) /\ updates' = storeUpdates(n)
        /\ UNCHANGED <<inPts, memSummary, retSummary>>
    BY <1>9 DEF processStore, visits
  <2>3. Satisfiable(outPts') /\ Satisfiable(inPts')
    BY <1>1, <1>2, <2>2, UnionSatisfiable
  <2>4. FactsSatisfiable'
    BY <2>3 DEF FactsSatisfiable, Satisfiable
  <2> QED BY <2>1, <2>2, <2>4
<1>10. CASE processMSSANode(n)
  BY <1>1, <1>10 DEF processMSSANode, visits, FactsSatisfiable
<1>11. CASE processParm(n)
  <2>1. outPts' \in unions(outPts, condPts(inPts, n, nodes[n].dst)) /\ updates' = updates
        /\ UNCHANGED <<inPts, memSummary, retSummary>>
    BY <1>11 DEF processParm, visits
  <2> QED BY <1>1, <1>2, <2>1, UnionSatisfiable DEF FactsSatisfiable, Satisfiable
<1> QED BY <1>5, <1>6, <1>7, <1>8, <1>9, <1>10, <1>11 DEF processSVFGNode

(* Every step keeps the facts, and what a store is to change, satisfiable. *)
LEMMA SatisfiableStep == SatisfiableInv /\ Settling /\ [PSNext]_psVars => SatisfiableInv'
<1> SUFFICES ASSUME SatisfiableInv, Settling, [PSNext]_psVars PROVE SatisfiableInv'
  OBVIOUS
<1>1. Control' /\ Satisfiable(inPts) /\ Satisfiable(outPts)
      /\ Satisfiable(memSummary) /\ Satisfiable(retSummary) /\ \A u \in updates : isSat(u.guard)
  BY SettlingStep DEF Settling, SatisfiableInv, FactsSatisfiable
<1>2. CASE UNCHANGED psVars
  BY <1>1, <1>2 DEF psVars, SatisfiableInv, FactsSatisfiable, Satisfiable
<1>3. CASE startLevel
  BY <1>1, <1>3 DEF startLevel, SatisfiableInv, FactsSatisfiable
<1>4. ASSUME NEW n \in DOMAIN nodes, popFromWorklist(n), processSVFGNode(n)
      PROVE  SatisfiableInv'
  BY <1>1, <1>4, VisitSatisfiable DEF SatisfiableInv, popFromWorklist
<1>5. ASSUME NEW u \in updates, updateStore(u) PROVE SatisfiableInv'
  <2> DEFINE old  == {f \in condPts(outPts, cur, u.obj) : isSat(guardAnd(f[3], u.guard))}
             rest == under(old, cur, u.obj, guardNot(u.guard))
             new  == {<<cur, u.obj, u.guard, x>> : x \in u.pts}
  <2>1. Satisfiable(rest) /\ Satisfiable(new)
    <3>1. Satisfiable(rest)
      BY MovedSatisfiable
    <3>2. Satisfiable(new)
      BY <1>1 DEF Satisfiable
    <3> QED BY <3>1, <3>2
  <2>2. Satisfiable(outPts \ old)
    BY <1>1 DEF Satisfiable
  <2>3. outPts' \in IF u.strong THEN UNION {unions(left, new) : left \in unions(outPts \ old, rest)}
                    ELSE unions(outPts, new)
    BY <1>5 DEF updateStore, applyStoreUpdate
  <2> HIDE DEF old, rest, new
  <2>4. Satisfiable(outPts')
    <3>1. CASE u.strong
      <4>1. PICK left \in unions(outPts \ old, rest) : outPts' \in unions(left, new)
        BY <2>3, <3>1
      <4>2. Satisfiable(left)
        BY <2>1, <2>2, UnionSatisfiable
      <4> QED BY <2>1, <4>1, <4>2, UnionSatisfiable
    <3>2. CASE ~u.strong
      BY <1>1, <2>1, <2>3, <3>2, UnionSatisfiable
    <3> QED BY <3>1, <3>2
  <2> QED BY <1>1, <1>5, <2>4 DEF updateStore, SatisfiableInv, FactsSatisfiable, Satisfiable
<1>6. ASSUME NEW e \in prog.edges, propagate(e) PROVE SatisfiableInv'
  <2>1. Satisfiable(brings(e)) /\ inPts' \in unions(inPts, brings(e))
        /\ UNCHANGED <<outPts, updates, memSummary, retSummary>>
    BY <1>6, BringsSatisfiable DEF propagate
  <2>2. Satisfiable(inPts')
    BY <1>1, <2>1, UnionSatisfiable
  <2> QED BY <1>1, <2>1, <2>2 DEF SatisfiableInv, FactsSatisfiable, Satisfiable
<1>7. CASE endLevel
  <2>1. /\ UNCHANGED <<inPts, outPts, updates>>
        /\ memSummary' = memSummary \/ memSummary' \subseteq outPts
        /\ retSummary' = retSummary \/ retSummary' \subseteq outPts
    BY <1>7 DEF endLevel, computeFunctionSummary
  <2> QED BY <1>1, <2>1 DEF SatisfiableInv, FactsSatisfiable, Satisfiable
<1> QED BY <1>2, <1>3, <1>4, <1>5, <1>6, <1>7 DEF PSNext

(* PathFactsSatisfiable: no handler, no limit on guards, no strong update  *)
(* and no level ever leaves a fact under a guard that no world satisfies.  *)
THEOREM PathFactsSatisfiable == PathSensitiveSpec => []FactsSatisfiable
<1>1. PSInit => SatisfiableInv
  BY SettlingInit DEF PSInit, Settling, SatisfiableInv, FactsSatisfiable, Satisfiable
<1>2. SatisfiableInv => FactsSatisfiable
  BY DEF SatisfiableInv
<1> QED BY <1>1, <1>2, SettlingInit, SettlingStep, SatisfiableStep, PTL DEF PathSensitiveSpec
=============================================================================
