---------------------------- MODULE CondAndersen ----------------------------
(***************************************************************************)
(* The constraint solver of ConditionalAndersen                            *)
(* (SVF/svf/lib/WPA/ConditionalAndersen.cpp on top of Andersen.cpp,        *)
(* WPASolver.h and ConsG.cpp): Andersen's worklist algorithm with cycle    *)
(* merging and on-the-fly call graph construction, in which every          *)
(* points-to fact may carry a guard.  One action is one handler of the     *)
(* code; the order in which the code walks its hash sets and its sets of   *)
(* edges is left open.                                                     *)
(*                                                                         *)
(* The guard algebra is a parameter: GuardLimits gives it the meaning of   *)
(* PathCond when the solver is model-checked.  Within one processCopy, a   *)
(* guard counts as conj-capped when it was so at the start of the call.    *)
(* Fields (gep edges, field collapsing and positive weight cycles) and     *)
(* heap allocators called through pointers are not part of this module.    *)
(***************************************************************************)
EXTENDS Constraints, Naturals, Sequences, Functions

CONSTANTS
  NoGuard,           \* condPtsMap holds no entry
  trueGuard, guardIsTrue(_), guardIsFalse(_),  \* getTrue, isTrue, isFalse
  guardAnd(_, _), guardOr(_, _),               \* getAnd, getOr
  guardIsSat(_),     \* z3IsSat
  guardLimited(_),   \* applyLimits: the guard cut to the limits
  guardCapped(_),    \* the guards applyLimits adds to conjCappedGuards
  guardKept(_, _),   \* the depth mode passes the guard on as it is
  unconditional,     \* kLimit = 0: guards are ignored altogether
  useDepthLimit,
  eagerSat,
  mergeCondSCC

ASSUME GuardAssumption ==
  /\ unconditional \in BOOLEAN /\ useDepthLimit \in BOOLEAN
  /\ eagerSat \in BOOLEAN /\ mergeCondSCC \in BOOLEAN
  /\ guardIsTrue(trueGuard)

VARIABLES
  prog,       \* the program under analysis
  pc,         \* what the solver is doing
  todo,       \* the elements the running loop has still to visit
  subs,       \* pairs <<n, r>>: nodes of the current SCC to merge into r
  cur,        \* the node being processed
  pts,        \* points-to sets (only those of representatives are read)
  condPtsMap, \* guards of points-to facts; no entry means True
  consCG,     \* the constraint graph: the guard of each of its edges
  rep,        \* the node that stands for a merged node
  worklist,   \* nodes to process, first in first out, without repetitions
  nodeStack,  \* SCC roots still to be processed in topological order
  reach,      \* the pairs of nodes SCC detection found connected
  conjCappedGuards,
  resolved,   \* call edges added to the call graph
  cpySrcNodes \* sources of the copy edges the last calls added

vars == <<prog, pc, todo, subs, cur, pts, condPtsMap, consCG, rep, worklist,
          nodeStack, reach, conjCappedGuards, resolved, cpySrcNodes>>

-----------------------------------------------------------------------------
(* The constraint graph.                                                   *)

edges(kind) == {e \in DOMAIN consCG : e.kind = kind}

(* addCopyCGEdge: not between a node and itself; an existing edge stays.   *)
addCopyEdges(g, E) ==
  LET new == {e \in E : e.src # e.dst} \ DOMAIN g
  IN  [e \in DOMAIN g \cup new |-> IF e \in new THEN trueGuard ELSE g[e]]

(* mergeCopyEdgeGuard and its siblings for loads and stores: a True guard  *)
(* changes nothing, the first conditional guard replaces True.             *)
mergeEdgeGuard(g, e, guard) ==
  IF guardIsTrue(guard) \/ e \notin DOMAIN g THEN g
  ELSE [g EXCEPT ![e] = IF guardIsTrue(g[e]) THEN guard ELSE guardOr(g[e], guard)]

(* reTargetDstOfEdge / reTargetSrcOfEdge for all edges of node n that are  *)
(* moved to r at one end: where r already has such an edge, that one stays *)
(* and the moved one is dropped; copies inside the cycle disappear.        *)
moved(e, end, n, r) == IF e[end] = n THEN [e EXCEPT ![end] = r] ELSE e

reTarget(g, end, n, r) ==
  LET kept == {e \in {moved(f, end, n, r) : f \in DOMAIN g} :
                 e.kind = "copy" => e.src # e.dst}
  IN  [e \in kept |-> IF e \in DOMAIN g THEN g[e] ELSE g[[e EXCEPT ![end] = n]]]

(* moveEdgesToRepNode: incoming edges first, then outgoing ones.           *)
moveInEdgesOnly(g, n, r)    == reTarget(g, "dst", n, r)    \* mutant
moveEdgesToRepNode(g, n, r) == reTarget(reTarget(g, "dst", n, r), "src", n, r)

-----------------------------------------------------------------------------
(* Guarded points-to facts.                                                *)

noEntries == [o \in Obj |-> NoGuard]

guardOf(n, o) ==
  IF condPtsMap[n][o] = NoGuard THEN trueGuard ELSE condPtsMap[n][o]

(* orMergeCondPts on one entry.  A True guard erases the entry; a          *)
(* disjunction that collapses to True leaves the old guard in place.       *)
keepFirstGuard(old, guard) ==                              \* mutant
  IF guardIsTrue(guard) THEN NoGuard ELSE IF old = NoGuard THEN guard ELSE old

orMergeCondPts(old, guard) ==
  LET merged == guardOr(old, guard)
  IN  IF guardIsTrue(guard) THEN NoGuard
      ELSE IF old = NoGuard THEN guard
      ELSE IF merged = old THEN old
      ELSE IF guardIsTrue(merged) THEN (IF guardIsTrue(old) THEN NoGuard ELSE old)
      ELSE IF useDepthLimit THEN merged ELSE guardLimited(merged)

(* The chains guardLimited truncates on the way.                           *)
orMergeCapped(old, guard) ==
  IF guardIsTrue(guard) \/ old = NoGuard \/ guardIsTrue(guardOr(old, guard)) \/ useDepthLimit
  THEN {}
  ELSE guardCapped(guardOr(old, guard))

ignoresAnd(cond, guard) ==
  \/ ~useDepthLimit /\ cond \in conjCappedGuards
  \/ guardKept(cond, guard)

push(w, n) == IF rep[n] \in Range(w) THEN w ELSE Append(w, rep[n])

-----------------------------------------------------------------------------
Init ==
  /\ prog \in Programs
  /\ pc = "addr"
  /\ todo = prog.addr
  /\ subs = {}
  /\ cur \in {CHOOSE n \in Node : TRUE}
  /\ pts = [n \in Node |-> {}]
  /\ condPtsMap = [n \in Node |-> noEntries]
  /\ consCG = [e \in {edge(s.kind, s.src, s.dst) :
                        s \in {t \in prog.stmts : t.kind = "copy" => t.src # t.dst}}
                |-> trueGuard]
  /\ rep = [n \in Node |-> n]
  /\ worklist = <<>>
  /\ nodeStack = {}
  /\ reach = {}
  /\ conjCappedGuards = {}
  /\ resolved = {}
  /\ cpySrcNodes = {}

addrWithoutPush(a) ==                                      \* mutant
  /\ pc = "addr"
  /\ a \in todo
  /\ todo' = todo \ {a}
  /\ pts' = [pts EXCEPT ![a[2]] = @ \cup {a[1]}]
  /\ UNCHANGED <<prog, pc, subs, cur, condPtsMap, consCG, rep, worklist, nodeStack,
                 reach, conjCappedGuards, resolved, cpySrcNodes>>

(* Andersen::processAddr, called by processAllAddr for every address edge. *)
processAddr(a) ==
  /\ pc = "addr"
  /\ a \in todo
  /\ todo' = todo \ {a}
  /\ pts' = [pts EXCEPT ![a[2]] = @ \cup {a[1]}]
  /\ worklist' = IF a[1] \in pts[a[2]] THEN worklist ELSE push(worklist, a[2])
  /\ UNCHANGED <<prog, pc, subs, cur, condPtsMap, consCG, rep, nodeStack, reach,
                 conjCappedGuards, resolved, cpySrcNodes>>

(* attachStaticEdgeGuards: its loops over the statements, one at a time.   *)
beginAttach ==
  /\ pc = "addr"
  /\ todo = {}
  /\ pc' = "attach"
  /\ todo' = prog.stmts
  /\ UNCHANGED <<prog, subs, cur, pts, condPtsMap, consCG, rep, worklist,
                 nodeStack, reach, conjCappedGuards, resolved, cpySrcNodes>>

attachStaticEdgeGuard(s) ==
  /\ pc = "attach"
  /\ s \in todo
  /\ todo' = todo \ {s}
  /\ consCG' = mergeEdgeGuard(consCG, edge(s.kind, s.src, s.dst), s.guard)
  /\ UNCHANGED <<prog, pc, subs, cur, pts, condPtsMap, rep, worklist, nodeStack,
                 reach, conjCappedGuards, resolved, cpySrcNodes>>

-----------------------------------------------------------------------------
(* SCC detection over the copy edges.  m reaches n when n lies in every    *)
(* successor-closed set that holds m.  The root of an SCC is whichever     *)
(* node the depth-first search met first.                                  *)
live == {n \in Node : rep[n] = n}

closedSets ==
  {X \in SUBSET live : \A e \in edges("copy") : e.src \in X => e.dst \in X}

reachable ==
  LET closed == closedSets
  IN  {p \in live \X live : \A X \in closed : p[1] \in X => p[2] \in X}

reachableFrom(r, R) == {n \in Node : <<r, n>> \in R}       \* mutant
scc(r, R) == {n \in Node : <<r, n>> \in R /\ <<n, r>> \in R}

first(r, S) == \A q \in S \ {r} : <<q, r>> \notin reach

SCCDetect ==
  /\ pc \in {"attach", "update"}
  /\ todo = {}
  /\ cpySrcNodes = {}
  /\ pc' = "merge"
  /\ reach' = reachable
  /\ \E roots \in SUBSET live :
       /\ \A n \in live : \E r \in roots : n \in scc(r, reach')
       /\ \A r, q \in roots : q \in scc(r, reach') => q = r
       /\ nodeStack' = roots
       /\ todo' = {r \in roots : scc(r, reach') # {r}}
  /\ UNCHANGED <<prog, subs, cur, pts, condPtsMap, consCG, rep, worklist,
                 conjCappedGuards, resolved, cpySrcNodes>>

sccHasConditionalEdge(r) ==
  \E e \in edges("copy") :
    /\ e.src \in scc(r, reach) \/ e.dst \in scc(r, reach)
    /\ ~guardIsTrue(consCG[e])

(* One round of the merge loop of ConditionalAndersen::SCCDetect.          *)
beginSCC(r) ==
  /\ pc = "merge"
  /\ subs = {}
  /\ r \in todo
  /\ first(r, todo)
  /\ todo' = todo \ {r}
  /\ subs' = IF sccHasConditionalEdge(r) /\ ~mergeCondSCC THEN {}
             ELSE {<<n, r>> : n \in scc(r, reach) \ {r}}
  /\ UNCHANGED <<prog, pc, cur, pts, condPtsMap, consCG, rep, worklist, nodeStack,
                 reach, conjCappedGuards, resolved, cpySrcNodes>>

(* mergeNodeToRep: ConditionalAndersen::mergeSrcToTgt moves the guarded    *)
(* facts of n, Andersen::mergeSrcToTgt the rest.                           *)
mergedEntry(n, r, o) ==
  IF condPtsMap[n][o] = NoGuard THEN condPtsMap[r][o]
  ELSE orMergeCondPts(condPtsMap[r][o],
                      IF mergeCondSCC THEN trueGuard ELSE condPtsMap[n][o])

mergeLeavingEntries(n, r) ==                               \* mutant
  /\ pc = "merge"
  /\ <<n, r>> \in subs
  /\ subs' = subs \ {<<n, r>>}
  /\ condPtsMap' = [condPtsMap EXCEPT ![r] = [o \in Obj |-> mergedEntry(n, r, o)]]
  /\ pts' = [pts EXCEPT ![r] = @ \cup pts[n]]
  /\ consCG' = moveEdgesToRepNode(consCG, n, r)
  /\ rep' = [m \in Node |-> IF rep[m] = n THEN r ELSE rep[m]]
  /\ UNCHANGED <<prog, pc, todo, cur, worklist, nodeStack, reach, conjCappedGuards,
                 resolved, cpySrcNodes>>

mergeNodeToRep(n, r) ==
  /\ pc = "merge"
  /\ <<n, r>> \in subs
  /\ subs' = subs \ {<<n, r>>}
  /\ condPtsMap' = [condPtsMap EXCEPT ![r] = [o \in Obj |-> mergedEntry(n, r, o)],
                                      ![n] = noEntries]
  /\ conjCappedGuards' = conjCappedGuards \cup
       UNION {orMergeCapped(condPtsMap[r][o], condPtsMap[n][o]) :
                o \in {q \in Obj : condPtsMap[n][q] # NoGuard /\ ~mergeCondSCC}}
  /\ pts' = [pts EXCEPT ![r] = @ \cup pts[n]]
  /\ consCG' = moveEdgesToRepNode(consCG, n, r)
  /\ rep' = [m \in Node |-> IF rep[m] = n THEN r ELSE rep[m]]
  /\ UNCHANGED <<prog, pc, todo, cur, worklist, nodeStack, reach, resolved,
                 cpySrcNodes>>

-----------------------------------------------------------------------------
(* ConditionalAndersen::solveWorklist: the SCC roots in topological order, *)
(* then the worklist.                                                      *)
idle == pc \in {"merge", "propagate"} /\ todo = {} /\ subs = {}

(* The loads from n and the stores through it.                             *)
through(n) ==
  {e \in DOMAIN consCG : \/ e.kind = "load" /\ e.src = n
                         \/ e.kind = "store" /\ e.dst = n}

(* processNode starts with handleLoadStore: every object of the node with  *)
(* every load from it and every store through it.                          *)
processNode(n) ==
  /\ pc' = "loadstore"
  /\ cur' = n
  /\ todo' = pts[n] \X through(n)

sweepNode(r) ==
  /\ idle
  /\ r \in nodeStack
  /\ first(r, nodeStack)
  /\ nodeStack' = nodeStack \ {r}
  /\ processNode(r)
  /\ UNCHANGED <<prog, subs, pts, condPtsMap, consCG, rep, worklist, reach,
                 conjCappedGuards, resolved, cpySrcNodes>>

popFromWorklist ==
  /\ idle
  /\ nodeStack = {}
  /\ worklist # <<>>
  /\ worklist' = Tail(worklist)
  /\ processNode(rep[Head(worklist)])
  /\ UNCHANGED <<prog, subs, pts, condPtsMap, consCG, rep, nodeStack, reach,
                 conjCappedGuards, resolved, cpySrcNodes>>

(* The copy edge a load or store derives for the object o, and its guard:  *)
(* the statement's guard and the guard under which the pointer holds o.    *)
derivedEdge(o, e) ==
  IF e.kind = "load" THEN edge("copy", rep[o], e.dst)
                     ELSE edge("copy", e.src, rep[o])

derivedGuard(o, e) ==
  LET stmtG == consCG[e]
      ptsG  == guardOf(IF e.kind = "load" THEN e.src ELSE e.dst, o)
  IN  IF guardIsTrue(stmtG) THEN ptsG
      ELSE IF guardIsTrue(ptsG) THEN stmtG ELSE guardAnd(stmtG, ptsG)

(* ConditionalAndersen::processLoad and processStore, which differ in the  *)
(* ends of the edges only; handleLoadStore pushes the source of a new      *)
(* edge.  The guard is merged even for constant objects.                   *)
processLoadStore(o, e) ==
  /\ <<o, e>> \in todo
  /\ todo' = todo \ {<<o, e>>}
  /\ LET new   == derivedEdge(o, e)
         added == addCopyEdges(consCG, IF o \in ConstObj THEN {} ELSE {new})
     IN  /\ consCG' = IF unconditional THEN added
                      ELSE mergeEdgeGuard(added, new, derivedGuard(o, e))
         /\ worklist' = IF new \in DOMAIN added \ DOMAIN consCG
                        THEN push(worklist, new.src) ELSE worklist
  /\ UNCHANGED <<prog, pc, subs, cur, pts, condPtsMap, rep, nodeStack, reach,
                 conjCappedGuards, resolved, cpySrcNodes>>

processLoad(o, e) ==
  pc = "loadstore" /\ e.kind = "load" /\ processLoadStore(o, e)

processStore(o, e) ==
  pc = "loadstore" /\ e.kind = "store" /\ processLoadStore(o, e)

pushesAllOutEdges ==                                       \* mutant
  /\ pc = "loadstore"
  /\ todo = {}
  /\ pc' = "propagate"
  /\ todo' = {e \in DOMAIN consCG : e.src = cur /\ pts[cur] # {}}
  /\ UNCHANGED <<prog, subs, cur, pts, condPtsMap, consCG, rep, worklist, nodeStack,
                 reach, conjCappedGuards, resolved, cpySrcNodes>>

(* Then handleCopyGep: the outgoing copies of a node with any points-to.   *)
handleCopyGep ==
  /\ pc = "loadstore"
  /\ todo = {}
  /\ pc' = "propagate"
  /\ todo' = {e \in edges("copy") : e.src = cur /\ pts[cur] # {}}
  /\ UNCHANGED <<prog, subs, cur, pts, condPtsMap, consCG, rep, worklist, nodeStack,
                 reach, conjCappedGuards, resolved, cpySrcNodes>>

(* The guard under which processCopy passes o on along e.                  *)
entryGuardOnly(o, e) == guardOf(e.src, o)                  \* mutant
passedGuard(o, e) ==
  LET cond == condPtsMap[e.src][o]
  IN  IF cond = NoGuard THEN guardLimited(consCG[e])
      ELSE IF ignoresAnd(cond, consCG[e]) THEN cond
      ELSE guardLimited(guardAnd(cond, consCG[e]))

(* The objects whose guards processCopy merges: those with an entry, and,  *)
(* across a conditional edge, those that are implicitly True.              *)
passedObjs(e) ==
  {o \in Obj :
    /\ \/ condPtsMap[e.src][o] # NoGuard
       \/ /\ o \in pts[e.src]
          /\ ~guardIsTrue(consCG[e])
          /\ ~guardIsFalse(guardLimited(consCG[e]))
    /\ eagerSat => guardIsSat(passedGuard(o, e))}

cappedByCopy(e) ==
  UNION ( {IF guardIsTrue(consCG[e]) THEN {} ELSE guardCapped(consCG[e])}
    \cup {guardCapped(guardAnd(condPtsMap[e.src][o], consCG[e])) :
            o \in {q \in Obj : /\ condPtsMap[e.src][q] # NoGuard
                               /\ ~ignoresAnd(condPtsMap[e.src][q], consCG[e])}}
    \cup {orMergeCapped(condPtsMap[e.dst][o], passedGuard(o, e)) :
            o \in passedObjs(e)} )

(* unionPts: the copy gives its destination something new.                 *)
anySource(e)        == pts[e.src] # {}                     \* mutant
addsPts(e)          == ~(pts[e.src] \subseteq pts[e.dst])

processCopy(e) ==
  /\ pc = "propagate"
  /\ e \in todo
  /\ todo' = todo \ {e}
  /\ pts' = [pts EXCEPT ![e.dst] = @ \cup pts[e.src]]
  /\ worklist' = IF addsPts(e) THEN push(worklist, e.dst) ELSE worklist
  /\ IF unconditional THEN UNCHANGED <<condPtsMap, conjCappedGuards>>
     ELSE /\ condPtsMap' = [condPtsMap EXCEPT ![e.dst] =
               [o \in Obj |-> IF o \in passedObjs(e)
                              THEN orMergeCondPts(@[o], passedGuard(o, e))
                              ELSE @[o]]]
          /\ conjCappedGuards' = conjCappedGuards \cup cappedByCopy(e)
  /\ UNCHANGED <<prog, pc, subs, cur, consCG, rep, nodeStack, reach, resolved,
                 cpySrcNodes>>

-----------------------------------------------------------------------------
(* AndersenBase::updateCallGraph: the calls that the points-to sets now    *)
(* resolve and that the call graph does not hold yet.                      *)
knownCallsAgain == {c \in prog.calls : c.fun \in pts[rep[c.fp]]}  \* mutant
newCalls == {c \in prog.calls \ resolved : c.fun \in pts[rep[c.fp]]}

sweptOnly == idle /\ nodeStack = {}                        \* mutant
solved == idle /\ nodeStack = {} /\ worklist = <<>>

updateCallGraph ==
  /\ solved
  /\ newCalls # {}
  /\ pc' = "update"
  /\ todo' = newCalls
  /\ resolved' = resolved \cup newCalls
  /\ UNCHANGED <<prog, subs, cur, pts, condPtsMap, consCG, rep, worklist, nodeStack,
                 reach, conjCappedGuards, cpySrcNodes>>

(* connectCaller2CalleeParams: only the edges that are new get the guard   *)
(* of the call site.                                                       *)
swappedEdges(c) == {edge("copy", rep[arg[2]], rep[arg[1]]) : arg \in c.args}  \* mutant
boundEdges(c) == {edge("copy", rep[arg[1]], rep[arg[2]]) : arg \in c.args}

connectWithoutGuard(c) ==                                  \* mutant
  /\ pc = "update"
  /\ c \in todo
  /\ todo' = todo \ {c}
  /\ consCG' = addCopyEdges(consCG, boundEdges(c))
  /\ cpySrcNodes' = cpySrcNodes \cup {e.src : e \in DOMAIN consCG' \ DOMAIN consCG}
  /\ UNCHANGED <<prog, pc, subs, cur, pts, condPtsMap, rep, worklist, nodeStack,
                 reach, conjCappedGuards, resolved>>

boundBothWays(c) ==                                        \* mutant
  /\ pc = "update"
  /\ c \in todo
  /\ todo' = todo \ {c}
  /\ consCG' = addCopyEdges(consCG, boundEdges(c) \cup swappedEdges(c))
  /\ cpySrcNodes' = cpySrcNodes \cup {e.src : e \in DOMAIN consCG' \ DOMAIN consCG}
  /\ UNCHANGED <<prog, pc, subs, cur, pts, condPtsMap, rep, worklist, nodeStack,
                 reach, conjCappedGuards, resolved>>

connectCaller2CalleeParams(c) ==
  /\ pc = "update"
  /\ c \in todo
  /\ todo' = todo \ {c}
  /\ LET added == addCopyEdges(consCG, boundEdges(c))
         new   == DOMAIN added \ DOMAIN consCG
     IN  /\ consCG' = [e \in DOMAIN added |->
                         IF e \in new /\ ~guardIsTrue(c.guard) THEN c.guard ELSE added[e]]
         /\ cpySrcNodes' = cpySrcNodes \cup {e.src : e \in new}
  /\ UNCHANGED <<prog, pc, subs, cur, pts, condPtsMap, rep, worklist, nodeStack,
                 reach, conjCappedGuards, resolved>>

forgetCpySrcNode(n) ==                                     \* mutant
  /\ pc = "update"
  /\ todo = {}
  /\ n \in cpySrcNodes
  /\ cpySrcNodes' = cpySrcNodes \ {n}
  /\ UNCHANGED <<prog, pc, todo, subs, cur, pts, condPtsMap, consCG, rep, worklist,
                 nodeStack, reach, conjCappedGuards, resolved>>

pushCpySrcNode(n) ==
  /\ pc = "update"
  /\ todo = {}
  /\ n \in cpySrcNodes
  /\ cpySrcNodes' = cpySrcNodes \ {n}
  /\ worklist' = push(worklist, n)
  /\ UNCHANGED <<prog, pc, todo, subs, cur, pts, condPtsMap, consCG, rep, nodeStack,
                 reach, conjCappedGuards, resolved>>

finish ==
  /\ solved
  /\ newCalls = {}
  /\ pc' = "done"
  /\ UNCHANGED <<prog, todo, subs, cur, pts, condPtsMap, consCG, rep, worklist,
                 nodeStack, reach, conjCappedGuards, resolved, cpySrcNodes>>

Next ==
  \/ \E a \in todo : processAddr(a)
  \/ beginAttach
  \/ \E s \in todo : attachStaticEdgeGuard(s)
  \/ SCCDetect
  \/ \E r \in todo : beginSCC(r)
  \/ \E p \in subs : mergeNodeToRep(p[1], p[2])
  \/ \E r \in nodeStack : sweepNode(r)
  \/ popFromWorklist
  \/ \E t \in todo : processLoad(t[1], t[2])
  \/ \E t \in todo : processStore(t[1], t[2])
  \/ handleCopyGep
  \/ \E e \in todo : processCopy(e)
  \/ updateCallGraph
  \/ \E c \in todo : connectCaller2CalleeParams(c)
  \/ \E n \in cpySrcNodes : pushCpySrcNode(n)
  \/ finish

Spec     == Init /\ [][Next]_vars
FairSpec == Spec /\ WF_vars(Next)

-----------------------------------------------------------------------------
TypeOK ==
  /\ prog \in Programs
  /\ pc \in {"addr", "attach", "merge", "loadstore", "propagate", "update", "done"}
  /\ pc = "addr"      => todo \subseteq prog.addr
  /\ pc = "attach"    => todo \subseteq prog.stmts
  /\ pc = "merge"     => todo \subseteq Node
  /\ pc = "loadstore" => todo \subseteq Obj \X (edges("load") \cup edges("store"))
  /\ pc = "propagate" => todo \subseteq edges("copy")
  /\ pc = "update"    => todo \subseteq prog.calls
  /\ pc = "done"      => todo = {}
  /\ subs \subseteq Node \X Node
  /\ cur \in Node
  /\ pts \in [Node -> SUBSET Obj]
  /\ DOMAIN condPtsMap = Node
  /\ \A n \in Node : DOMAIN condPtsMap[n] = Obj
  /\ DOMAIN consCG \subseteq Edge
  /\ rep \in [Node -> Node]
  /\ worklist \in Seq(Node)
  /\ nodeStack \subseteq Node
  /\ reach \subseteq Node \X Node
  /\ resolved \subseteq prog.calls
  /\ cpySrcNodes \subseteq Node

(* The points-to set of every variable, through the node that stands for it *)
answer == [n \in Node |-> pts[rep[n]]]

(* Precise: whatever it merges and in whatever order it works, the solver  *)
(* never gives a variable an object that a solution of the constraints     *)
(* does without; merging a cycle loses nothing.                            *)
Precise == \A n \in Node : answer[n] \subseteq Solution(prog)[n]

(* Complete: when the worklist runs dry and no call is left to resolve,    *)
(* nothing was forgotten: the answer accounts for every statement and for  *)
(* every call its own function pointers resolve to.                        *)
Complete == pc = "done" => IsSolution(prog, answer)

(* What processing node n has to achieve: its objects have reached every   *)
(* node it is copied to, and every load and store through it has its edge  *)
(* or has become a copy of a node to itself.                               *)
copied(e)     == pts[e.src] \subseteq pts[e.dst]
derived(o, e) == LET d == derivedEdge(o, e) IN d.src = d.dst \/ d \in DOMAIN consCG

tasks(n) == (pts[n] \ ConstObj) \X through(n)

settled(n) ==
  /\ \A e \in edges("copy") : e.src = n => copied(e)
  /\ \A t \in tasks(n) : derived(t[1], t[2])

(* Somebody will still come round to n: the sweep, the worklist (which may *)
(* name it by a node merged into it since), the calls just connected, or   *)
(* the loop that is running now.                                           *)
pending(n) ==
  \/ n \in nodeStack
  \/ \E m \in Range(worklist) \cup cpySrcNodes : rep[m] = n
  \/ n = cur /\ pc = "loadstore" /\ \A t \in tasks(n) : t \in todo \/ derived(t[1], t[2])
  \/ /\ n = cur
     /\ pc = "propagate"
     /\ \A e \in edges("copy") : e.src = n => e \in todo \/ copied(e)
     /\ \A t \in tasks(n) : derived(t[1], t[2])

(* NoLostWork: no handler leaves a node unfinished with nobody to come     *)
(* back to it.  The preserved (unmerged) conditional cycles are where it   *)
(* is easily lost: the sweep visits their root only, their other members   *)
(* must be on the worklist.                                                *)
NoLostWork ==
  pc # "addr" => \A n \in live : settled(n) \/ pending(n)

(* EntriesWithinPts: a guard is only ever kept for an object that the      *)
(* variable points to, and only at nodes that are still in the graph.      *)
EntriesWithinPts ==
  \A n \in Node, o \in Obj :
    condPtsMap[n][o] # NoGuard => rep[n] = n /\ o \in pts[n]

(* The solver implements the abstract analysis.                            *)
PTA == INSTANCE PointsTo WITH program <- prog, sol <- answer, finished <- (pc = "done")

ImplementsPointsTo == PTA!Spec

(* It terminates, although it keeps adding edges and calls as it goes.     *)
Terminates == <>(pc = "done")
=============================================================================
