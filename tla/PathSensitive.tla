--------------------------- MODULE PathSensitive ----------------------------
(***************************************************************************)
(* PathSensitiveFlowSensitive                                              *)
(* (SVF/svf/lib/WPA/PathSensitiveFlowSensitive.cpp with                    *)
(* MemoryModel/CondPointsToDS.h, on the solver of WPASolver.h): a sparse   *)
(* flow-sensitive analysis that keeps, before and after every node, which  *)
(* object a variable holds under which guard.                              *)
(*                                                                         *)
(* A fact is <<node, variable, guard, object>>.  Facts only come, except   *)
(* where a strong update overwrites what a store node held before.  The    *)
(* maps are keyed by the diagram of the guard: facts of one node and       *)
(* variable with the same diagram have the same guard, and the flag of     *)
(* whichever came first.                                                   *)
(***************************************************************************)
EXTENDS ValueFlow, SequencesExt

CONSTANTS
  kLimit,          \* psfs-k
  useDepthLimit,   \* psfs-use-depth-limit: bound the atoms of a guard
  useRefinement    \* psfs-refine: solve kLimit times

ASSUME LimitAssumption ==
  /\ kLimit \in Int
  /\ useDepthLimit \in BOOLEAN
  /\ useRefinement \in BOOLEAN

VARIABLES
  prog,
  inPts, outPts,       \* condDFPTData: the facts before and after each node
  ptD,                 \* the unconditional points-to sets, kept across levels
  funObjContextGuard,  \* [fun][obj]; an entry that is not there is True
  funCallSites,        \* <<fun, call site>>
  memSummary, retSummary,  \* what the level before left at function exits
  exclusive,           \* functions whose call sites are taken to exclude one another
  currentK,
  reach,               \* the nodes each node reaches, from SCC detection
  fresh,               \* nodes of the initial worklist not yet popped
  worklist,            \* nodes pushed since
  cur, todo,           \* the node being propagated, its edges still to visit
  updates,             \* what the store at hand has still to write
  pc                   \* "level", "solve", "update", "propagate" or "done"

psVars == <<prog, inPts, outPts, ptD, funObjContextGuard, funCallSites, memSummary,
            retSummary, exclusive, currentK, reach, fresh, worklist, cur, todo, updates, pc>>

nodes       == prog.nodes
nodesOf(ks) == {n \in DOMAIN nodes : nodes[n].kind \in ks}

-----------------------------------------------------------------------------
(* The facts of one variable at one node.                                  *)
factsAt(F, n)        == {f \in F : f[1] = n}
condPts(F, n, v)     == {f \in F : f[1] = n /\ f[2] = v}
guardsOf(F, n, v)    == {f[3] : f \in condPts(F, n, v)}
ptsUnder(F, n, v, g) == {f[4] : f \in {x \in condPts(F, n, v) : x[3] = g}}

(* What a fact says, and the entry of the maps it is kept in.              *)
content(f)     == <<f[1], f[2], f[3].bdd, f[4]>>
entry(f)       == <<f[1], f[2], f[3].bdd>>
contents(F)    == {content(f) : f \in F}
entries(F)     == {entry(f) : f \in F}
flagged(F)     == {entry(f) : f \in {x \in F : x[3].hasCtxAtom}}
unflagged(F)   == {entry(f) : f \in {x \in F : ~x[3].hasCtxAtom}}

(* unionCondInPts and unionCondOutPts, for several facts: the guard of an  *)
(* entry that is there already stays, and with it its flag.  If the facts  *)
(* bring a new entry both with the flag and without, the hash order of the *)
(* map they are read from decides.                                         *)
unions(F, facts) ==
  LET new       == {f \in facts : content(f) \notin contents(F)}
      contested == (flagged(new) \cap unflagged(new)) \ entries(F)
      kept      == flagged(F) \cup (flagged(new) \ (entries(F) \cup contested))
      added(K)  == {<<f[1], f[2], [bdd |-> f[3].bdd, hasCtxAtom |-> entry(f) \in kept \cup K],
                      f[4]>> : f \in new}
  IN  {F \cup added(K) : K \in SUBSET contested}

(* Facts moved to another node and variable, conjoined with a guard; what  *)
(* becomes unsatisfiable is dropped.                                       *)
under(F, n, v, guard) ==
  {<<n, v, guardAnd(f[3], guard), f[4]>> : f \in {x \in F : isSat(guardAnd(x[3], guard))}}

capsAlways(g) == IF useDepthLimit THEN getTrue ELSE g      \* mutant

sizeOf == [worlds \in SUBSET World |-> supportSize(worlds)]

capGuard(g) ==
  IF useDepthLimit /\ kLimit >= 0 /\ ~isTrue(g) /\ ~isFalse(g) /\ sizeOf[g.bdd] > kLimit
  THEN getTrue ELSE g

nodeGuard(n) == capGuard(getNodeGuard(prog, n))

cappedUnder(F, n, v, guard) ==
  {f \in {<<n, v, capGuard(guardAnd(x[3], guard)), x[4]>> : x \in F} : isSat(f[3])}

edgeGuard(e) ==
  capGuard(CASE e.kind = "dir" -> nodeGuard(e.dst)
             [] e.kind = "ind" -> indirectEdgeGuard(prog, e)
             [] OTHER -> contextEdgeGuard(e))

getFunctionContextGuard(fun, obj) == funObjContextGuard[fun][obj]

noContextGuards == [fun \in Fun |-> [obj \in Obj |-> getTrue]]

-----------------------------------------------------------------------------
(* The nodes a node reaches, which order the worklist: one step to the     *)
(* successors for every node there is.  SCC detection finds them anew for  *)
(* each level, in a graph that stays as it is.                             *)
children(n) == {e.dst : e \in {x \in prog.edges : x.src = n}}
succs(S)    == UNION {{n} \cup children(n) : n \in S}

reachedFrom(n) == FoldSet(LAMBDA m, S : succs(S), {n}, DOMAIN nodes)

PSInit ==
  /\ prog \in Programs
  /\ inPts = {} /\ outPts = {}
  /\ ptD = [v \in Var |-> {}]
  /\ funObjContextGuard = noContextGuards /\ funCallSites = {}
  /\ memSummary = {} /\ retSummary = {}
  /\ exclusive = {}
  /\ currentK = 0
  /\ reach = [n \in DOMAIN prog.nodes |-> reachedFrom(n)]
  /\ fresh = {} /\ worklist = <<>>
  /\ cur \in {CHOOSE n \in DOMAIN prog.nodes : TRUE}
  /\ todo = {} /\ updates = {}
  /\ pc = "level"

(* solveConstraints: the next level, or the only one.  A level starts from *)
(* the summary of the level before and with every node on the worklist.    *)
lastLevel == ~useRefinement \/ kLimit <= 0 \/ currentK = kLimit

startLevel ==
  /\ pc = "level"
  /\ currentK' = IF ~useRefinement \/ kLimit <= 0 THEN kLimit ELSE currentK + 1
  /\ inPts' = memSummary
  /\ outPts' = retSummary
  /\ funObjContextGuard' = noContextGuards
  /\ fresh' = DOMAIN nodes
  /\ pc' = "solve"
  /\ UNCHANGED <<prog, ptD, funCallSites, memSummary, retSummary, exclusive,
                 reach, worklist, cur, todo, updates>>

(* popFromWorklist: the initial worklist lists the nodes by component, the *)
(* components from the end of the graph to its beginning, and the nodes of *)
(* one from the youngest to the oldest; what is pushed meanwhile comes     *)
(* after it.                                                               *)
creationOrder ==
  <<"addr", "copy", "load", "store", "actualParm", "actualRet", "formalParm", "formalRet",
    "phi", "mssaPhi", "formalIn", "formalOut", "actualIn", "actualOut">>

rank(n) == CHOOSE i \in DOMAIN creationOrder : creationOrder[i] = nodes[n].kind

goesBefore(m, n) ==
  /\ m \in reach[n]
  /\ n \in reach[m] => rank(m) > rank(n)

popFromWorklist(n) ==
  /\ pc = "solve"
  /\ IF fresh # {}
     THEN /\ n \in fresh
          /\ \A m \in fresh : ~goesBefore(m, n)
          /\ fresh' = fresh \ {n}
          /\ UNCHANGED worklist
     ELSE /\ worklist # <<>>
          /\ n = Head(worklist)
          /\ worklist' = Tail(worklist)
          /\ UNCHANGED fresh

(* processNode: the node's handler, and, if it changed something, its      *)
(* outgoing edges.                                                         *)
after(moreUpdates, moreEdges) ==
  IF moreUpdates # {} THEN "update" ELSE IF moreEdges # {} THEN "propagate" ELSE "solve"

visits(n, changed) ==
  /\ cur' = n
  /\ todo' = IF changed THEN {e \in prog.edges : e.src = n} ELSE {}
  /\ pc' = after(updates', todo')
  /\ UNCHANGED <<prog, funObjContextGuard, funCallSites, memSummary, retSummary,
                 exclusive, currentK, reach>>

(* A handler that adds facts after the node, and their objects to the      *)
(* unconditional set of its result.                                        *)
definesByObject(n, facts, objs) ==                         \* mutant
  LET v == nodes[n].dst
  IN  /\ outPts' \in unions(outPts, facts)
      /\ ptD' = [ptD EXCEPT ![v] = @ \cup objs]
      /\ UNCHANGED <<inPts, updates>>
      /\ visits(n, ~(objs \subseteq ptD[v]))

defines(n, facts, objs) ==
  LET v == nodes[n].dst
  IN  /\ outPts' \in unions(outPts, facts)
      /\ ptD' = [ptD EXCEPT ![v] = @ \cup objs]
      /\ UNCHANGED <<inPts, updates>>
      /\ visits(n, outPts' # outPts \/ ~(objs \subseteq ptD[v]))

objsOf(facts) == {f[4] : f \in facts}

processAddr(n) ==
  /\ nodes[n].kind = "addr"
  /\ defines(n, {<<n, nodes[n].dst, getTrue, nodes[n].src>>}, {nodes[n].src})

processCopy(n) ==
  /\ nodes[n].kind = "copy"
  /\ LET facts == cappedUnder(condPts(inPts, n, nodes[n].src), n, nodes[n].dst, nodeGuard(n))
     IN  defines(n, facts, objsOf(facts))

phiFacts(n) ==
  UNION {cappedUnder(condPts(inPts, n, op[1]), n, nodes[n].dst,
                     guardAnd(getPhiOperandGuard(prog, nodes[n].block, op[2]), nodeGuard(n)))
           : op \in nodes[n].ops}

processPhi(n) ==
  /\ nodes[n].kind = "phi"
  /\ defines(n, phiFacts(n), objsOf(phiFacts(n)))

(* Where a load or a store looks its pointer up: before the node, or, when *)
(* nothing has arrived there, in the unconditional set.                    *)
pointees(n, v) ==
  IF condPts(inPts, n, v) # {}
  THEN {<<f[3], f[4]>> : f \in condPts(inPts, n, v)}
  ELSE {<<getTrue, x>> : x \in ptD[v]}

loadFacts(n) ==
  UNION {cappedUnder(condPts(inPts, n, q[2]), n, nodes[n].dst, guardAnd(q[1], nodeGuard(n)))
           : q \in {x \in pointees(n, nodes[n].src) : x[2] \notin ConstObj}}

processLoad(n) ==
  /\ nodes[n].kind = "load"
  /\ defines(n, loadFacts(n), objsOf(loadFacts(n)))

-----------------------------------------------------------------------------
(* One update of a store: object, guard, what is stored, and whether it    *)
(* overwrites.  A store overwrites an object when, under one guard, its    *)
(* pointer holds nothing else.                                             *)
overwrites(n, g, x) ==
  /\ x \in StrongObj
  /\ condPts(inPts, n, nodes[n].dst) # {}
  /\ ptsUnder(inPts, n, nodes[n].dst, g) = {x}

stored(n) ==
  IF condPts(inPts, n, nodes[n].src) # {}
  THEN {<<g, ptsUnder(inPts, n, nodes[n].src, g)>> : g \in guardsOf(inPts, n, nodes[n].src)}
  ELSE {<<getTrue, ptD[nodes[n].src]>>}

storeGuard(n, x) ==
  capGuard(guardAnd(nodeGuard(n), getFunctionContextGuard(nodes[n].fun, x)))

storeUpdates(n) ==
  {u \in {[obj    |-> q[2],
           guard  |-> capGuard(guardAnd(guardAnd(s[1], q[1]), storeGuard(n, q[2]))),
           pts    |-> s[2],
           strong |-> overwrites(n, q[1], q[2])]
             : q \in pointees(n, nodes[n].dst), s \in stored(n)}
     : u.obj \notin ConstObj /\ isSat(u.guard)}

killsWhole(out, n, u) ==                                   \* mutant
  LET old  == {f \in condPts(out, n, u.obj) : isSat(guardAnd(f[3], u.guard))}
      new  == {<<n, u.obj, u.guard, x>> : x \in u.pts}
  IN  unions(IF u.strong THEN out \ old ELSE out, new)

(* applyStoreUpdate: a strong update leaves of what overlaps it the part   *)
(* outside its guard.                                                      *)
applyStoreUpdate(out, n, u) ==
  LET old  == {f \in condPts(out, n, u.obj) : isSat(guardAnd(f[3], u.guard))}
      rest == under(old, n, u.obj, guardNot(u.guard))
      new  == {<<n, u.obj, u.guard, x>> : x \in u.pts}
  IN  IF u.strong THEN UNION {unions(left, new) : left \in unions(out \ old, rest)}
      ELSE unions(out, new)

(* processStore: what holds before the store is copied to its other side,  *)
(* which alone counts as a change, and then updated, in the order of the   *)
(* hash maps.                                                              *)
processStore(n) ==
  /\ nodes[n].kind = "store"
  /\ outPts' \in unions(outPts, factsAt(inPts, n))
  /\ updates' = storeUpdates(n)
  /\ UNCHANGED <<inPts, ptD>>
  /\ visits(n, outPts' # outPts)

updateStore(u) ==
  /\ pc = "update"
  /\ outPts' \in applyStoreUpdate(outPts, cur, u)
  /\ updates' = updates \ {u}
  /\ pc' = after(updates', todo)
  /\ UNCHANGED <<prog, inPts, ptD, funObjContextGuard, funCallSites, memSummary,
                 retSummary, exclusive, currentK, reach, fresh, worklist, cur, todo>>

(* Memory phis and the memory at function and call boundaries hand on what *)
(* is before them; parameters and returned values are copied across.       *)
processMSSANode(n) ==
  /\ nodes[n].kind \in memKinds
  /\ UNCHANGED <<inPts, outPts, ptD, updates>>
  /\ visits(n, TRUE)

processParm(n) ==
  /\ nodes[n].kind \in parmKinds
  /\ outPts' \in unions(outPts, condPts(inPts, n, nodes[n].dst))
  /\ UNCHANGED <<inPts, ptD, updates>>
  /\ visits(n, TRUE)

-----------------------------------------------------------------------------
(* propFromSrcToDst: the facts an edge brings to its destination.  A       *)
(* parameter or returned value changes its name on the way.                *)
crossesCall(e) ==
  under(condPts(inPts, e.src, nodes[e.src].dst), e.dst, nodes[e.dst].dst, edgeGuard(e))

alongDir(e) ==
  UNION {under({f}, e.dst, f[2], edgeGuard(e)) : f \in factsAt(outPts, e.src)}

(* An indirect edge takes memory after a store, and before any other node. *)
memoryAt(n) ==
  IF nodes[n].kind = "store" THEN factsAt(outPts, n) ELSE factsAt(inPts, n)

memoryFacts(e) == {f \in memoryAt(e.src) : f[2] \in e.objs}

alongInd(e) ==
  UNION {under({f}, e.dst, f[2], edgeGuard(e)) : f \in memoryFacts(e)}

(* On return a fact passes if it belongs to the call site, and takes the   *)
(* call site on if no call site ever entered its guard.                    *)
returning(e) ==
  {f \in memoryFacts(e) : implies(f[3], edgeGuard(e)) \/ isContextIndependent(f[3])}

alongRetInd(e) ==
  UNION {IF implies(f[3], edgeGuard(e)) THEN {<<e.dst, f[2], f[3], f[4]>>}
         ELSE cappedUnder({f}, e.dst, f[2], edgeGuard(e)) : f \in returning(e)}

brings(e) ==
  CASE e.kind \in {"callDir", "retDir"} -> crossesCall(e)
    [] e.kind = "dir"                   -> alongDir(e)
    [] e.kind = "retInd" /\ nodes[e.src].kind # "store" -> alongRetInd(e)
    [] OTHER                            -> alongInd(e)

pushesNone(n) == UNCHANGED worklist                        \* mutant

pushIntoWorklist(n) ==
  worklist' = IF n \in fresh \/ n \in Range(worklist) THEN worklist ELSE Append(worklist, n)

bringsAny(e) == brings(e) # {}                             \* mutant
bringsNew(e) == ~(contents(brings(e)) \subseteq contents(inPts))

(* A call edge into the memory of a function makes the call site one under *)
(* which the function runs.  Its atom goes by disjunction into a guard     *)
(* that is True to begin with, where it sets the flag and nothing else.    *)
absorbContextAtom(e) ==
  IF e.kind = "callInd" /\ nodes[e.dst].kind = "formalIn"
  THEN LET fun == nodes[e.dst].fun
           ctx == edgeGuard(e)
       IN  /\ funCallSites' = funCallSites \cup {<<fun, e.site>>}
           /\ funObjContextGuard' =
                IF isTrue(ctx) \/ isFalse(ctx) THEN funObjContextGuard
                ELSE [funObjContextGuard EXCEPT ![fun] =
                        [x \in Obj |-> IF x \in e.objs THEN guardOr(@[x], ctx) ELSE @[x]]]
  ELSE UNCHANGED <<funCallSites, funObjContextGuard>>

propagate(e) ==
  /\ pc = "propagate"
  /\ e \in todo
  /\ inPts' \in unions(inPts, brings(e))
  /\ IF bringsNew(e) THEN pushIntoWorklist(e.dst) ELSE UNCHANGED worklist
  /\ absorbContextAtom(e)
  /\ todo' = todo \ {e}
  /\ pc' = after({}, todo')
  /\ UNCHANGED <<prog, outPts, ptD, memSummary, retSummary, exclusive, currentK, reach,
                 fresh, cur, updates>>

(* computeFunctionSummary, and from the call sites seen so far             *)
(* buildContextExclusivityConstraints.                                     *)
computeFunctionSummary ==
  /\ memSummary' = {f \in outPts : nodes[f[1]].kind = "formalOut"}
  /\ retSummary' = {f \in outPts : nodes[f[1]].kind = "formalRet" /\ f[2] = nodes[f[1]].dst}
  /\ exclusive' = {x[1] : x \in {y \in funCallSites :
                      \E z \in funCallSites : z[1] = y[1] /\ z[2] # y[2]}}

endLevel ==
  /\ pc = "solve"
  /\ fresh = {} /\ worklist = <<>>
  /\ pc' = IF lastLevel THEN "done" ELSE "level"
  /\ IF useRefinement THEN computeFunctionSummary
     ELSE UNCHANGED <<memSummary, retSummary, exclusive>>
  /\ UNCHANGED <<prog, inPts, outPts, ptD, funObjContextGuard, funCallSites, currentK,
                 reach, fresh, worklist, cur, todo, updates>>

processSVFGNode(n) ==
  \/ processAddr(n) \/ processCopy(n) \/ processPhi(n) \/ processLoad(n)
  \/ processStore(n) \/ processMSSANode(n) \/ processParm(n)

PSNext ==
  \/ startLevel
  \/ \E n \in DOMAIN nodes : popFromWorklist(n) /\ processSVFGNode(n)
  \/ \E u \in updates : updateStore(u)
  \/ \E e \in prog.edges : propagate(e)
  \/ endLevel

PathSensitiveSpec     == PSInit /\ [][PSNext]_psVars
FairPathSensitiveSpec == PathSensitiveSpec /\ WF_psVars(PSNext)

-----------------------------------------------------------------------------
(* alias(): two pointers alias if facts of theirs, at one node or, failing *)
(* that, anywhere, agree on an object in some world; of functions that the *)
(* guards involve, at most one call site is taken at a time.  Without      *)
(* facts the unconditional sets decide.                                    *)
sitesOf(fun) == {x[2] : x \in {y \in funCallSites : y[1] = fun}}

getAliasContextConstraint(g) ==
  plainGuard({w \in World : \A fun \in exclusive :
     isSat(guardAnd(g, anyOf({atom(s, TRUE) : s \in sitesOf(fun)})))
       => Cardinality(w \cap sitesOf(fun)) <= 1})

mayAliasUnderGuard(f, h) ==
  /\ f[4] = h[4]
  /\ isSat(guardAnd(guardAnd(f[3], h[3]), getAliasContextConstraint(guardAnd(f[3], h[3]))))

outOf(v) == {f \in outPts : f[2] = v}

alias(v1, v2) ==
  IF outOf(v1) = {} \/ outOf(v2) = {}
  THEN ptD[v1] \cap ptD[v2] # {}
  ELSE \E f \in outOf(v1), h \in outOf(v2) : mayAliasUnderGuard(f, h)
=============================================================================
