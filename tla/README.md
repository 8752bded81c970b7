# Verification of the conditional pointer analyses

This directory models the part of the repository that is its own work: the
conditional pointer analyses built on top of SVF (the worklist solver
`-cond-ander`, its wave-diff and single-track variants, and the path-sensitive
`-psfs`), the guards they attach to points-to facts, and the constraint solvers
they drive. The modules are translated from the source under `src/SVF/svf/`; TLC
checks them on small programs and TLAPS proves some of what they say for every
program. `src/CONDITIONAL_ANDERSEN.md` is quoted only where the code does
something else (see *Findings*).

Contents: 1 inventory · 2 hard behaviours · 3 modules and how they correspond to
the code · 4 runs, bounds and what they show · 5 fairness · 6 proofs · 7 findings
· 8 what is not modelled · 9 plan.

## 1. Inventory

| component | state it keeps | operations | correct when |
|---|---|---|---|
| **PathCond** (`Util/PathCond.h`) | immutable trees of branch atoms; per object a cached clause count and a `capped` mark | `getAtom`, `getAnd`, `getOr`, `depth`, `clauseCount`, `isSatisfiable` | a guard means the paths its construction admits, or errs towards True |
| **FastGuard** (`Util/FastGuard.cpp`) | sets of clauses (DNF) | `AND`, `OR`, `simplify`, `removeSubsumed`, `isSat`, `fromPathCond` | AND, OR and isSat are exact although clauses are dropped |
| **Guard limits** (`ConditionalAndersen.cpp:359-472`) | the set `conjCappedGuards` | `applyLimits` (depth or m/n mode), `countClauses` | limiting only weakens, and is stable |
| **Constraint graph** (`Graphs/ConsG.cpp`) | nodes, copy/load/store/gep edges, `rep` | add edges, retarget the edges of a merged node | no constraint is lost or invented |
| **Worklist solver** (`WPA/Andersen.cpp`, `WPASolver.h`) | points-to sets, worklist, SCC order | `processAddr`, `processNode`, `processLoad/Store/Copy`, `mergeNodeToRep`, `solveWorklist` | the answer is the least solution of the constraints, and it terminates |
| **SCC detection** (`Graphs/SCC.h`) | DFS stacks, reps, topological order | `find`, `visit` | it returns the components, in order |
| **ConditionalAndersen** (`WPA/ConditionalAndersen.cpp`) | `condPtsMap` (guard of a fact; *no entry means True*), edge guards, `conjCappedGuards` | `attachStaticEdgeGuards`, `orMergeCondPts`, overrides of the handlers above, `alias` | a guard admits exactly the paths on which the fact holds |
| **Call graph on the fly** (`PointerAnalysisImpl.cpp:505`, `Andersen.cpp:190-365`) | resolved indirect calls | `onTheFlyCallGraphSolve`, `connectCaller2CalleeParams` | every call its function pointers resolve to is bound, once |
| **Alias queries** (`ConditionalAndersen.cpp:1083`) | none | `alias`, `expandCondFIObjs` | never denies an alias some path produces |
| **Fields** (`Andersen.cpp:613-820`, `ConsG.cpp`, `SVFIR.cpp:500`) | field objects, field-insensitive marks, PWC marks, `nodesToBeCollapsed`, `reanalyze` | `processGep`, `collapsePWCNode`, `collapseField`, merging of nodes with geps | no fact is lost or invented although objects give up their fields midway |
| **ConditionalAndersenWaveDiff** | as ConditionalAndersen, plus `propaPts` (handed on), `condDiffPtsMap` (guards changed), `reanalyze` | two-phase rounds: copies in a sweep, loads and stores from the worklist | nothing counted as handed on is missing; same answer as the solver |
| **SingleTrackCondAndersen** | only guarded facts, `ptsCache` | `ensureNodeSynced`, `getPts`, `alias` | an answer does not depend on the queries before it, and is what the paths say |
| **Guard** (BDD, `Util/Guard.cpp`) | BDD manager, node table | `&`, `\|`, `!`, `implies`, `supportSize` | canonical: equality is equality of meaning |
| **PathSensitiveFlowSensitive** | `condDFPTData` (facts before and after each node, by guard), `ptD`, `funObjContextGuard`, `funCallSites`, summaries | a handler per node kind, `propAlongDirectEdge`, `propAlongIndirectEdge`, `applyStoreUpdate`, refinement levels, `alias` | what happens on a path is claimed on it, overwritten values are not, alias is never denied |
| **SVFG/VFG/MemSSA guards** | guards on value-flow edges | `getNodeGuard`, `getEdgeGuard` | an edge's guard admits the paths along which the value flows |
| SABER conditions | a Z3 solver, block conditions | `isSatisfiable`, `NewCond` | reports only feasible leaks |
| `getBBGuard` and its copies | none (reads the ICFG) | guard of a basic block | a block's guard admits the paths that reach it |
| `WPAPass`, `Options` | command line | select and configure an analysis | - |
| the rest of SVF (AE, CFL, DDA, MTA, memory-SSA construction, LLVM front end) | - | - | vendored upstream code |

How they interact. The LLVM front end (not modelled) hands over a program as
statements with the guards of their basic blocks. `initialize` builds the
constraint graph, processes the address statements and attaches the static edge
guards. `solveWorklist` alternates SCC detection and merging with a topological
sweep and a worklist; loads and stores add copy edges while they run; when the
worklist is empty, `updateCallGraph` resolves function pointers from the
points-to sets, binds parameters with new edges and starts over. Every handler
of `ConditionalAndersen` calls the handler of `Andersen` it overrides and then
updates the guards, so each fact is recorded in two places: the points-to set
and the entry in `condPtsMap`. Guards are values of `PathCond`, limited when
they enter `condPtsMap`, and turned into `FastGuard`s to decide satisfiability
in `alias`.

`ConditionalAndersenWaveDiff` overrides the same handlers on another solver: a
round sweeps copies in topological order, then does loads and stores, and a new
edge asks for one more round. `SingleTrackCondAndersen` is that solver with other
queries: once finished, it answers from the guarded facts alone.
`PathSensitiveFlowSensitive` is separate: it runs on the sparse value-flow graph
that SVF builds from an Andersen analysis, reads guards off the control-flow graph
and the graph's edges, and keeps facts per program point, which stores overwrite.

## 2. What makes it hard

The analysis is single-threaded, so its hazards are of order, not of races: the
handlers walk hash sets, so the order of objects, of edges and of SCC roots is
not determined by the program. The ones that a unit test would hardly reach are
listed with their lines in `PROJECT.json` ("hazards"). The recurring themes:

* **Two records of one fact.** A points-to set grows first and the guard follows.
  Anything between the two, or that does one without the other, turns "no entry"
  into "unconditional".
* **No entry means True.** A merge cannot tell "not seen yet" from
  "unconditional"; which it is depends on the order of arrival.
* **Only growth is propagated.** The worklist is driven by new objects. A guard
  that weakens later moves nobody.
* **The graph changes under the loops.** Loads, stores and calls add edges while
  nodes wait on the worklist; merging renames nodes that wait there; conditional
  cycles are preserved, and then only their root is in the sweep.
* **Fields that go away.** A gep with a variable offset, or a gep on a merged cycle,
  makes an object lose its fields after pointers to them have been handed round; their
  nodes are merged outside SCC detection, and guards recorded for them stay behind.
* **Rounds.** Calls resolved from the points-to sets change the points-to sets.
* **What has been handed on.** The wave-diff solver keeps the points-to set and
  the guards a node has passed on; edges added, moved and merged make both stale.
* **Lazy answers.** Single-track queries change the entries and the cache they read; one of them
  fills the cache without synchronising the entries first.
* **Overwriting.** Strong updates take facts back under a guard, store by store, in hash
  order, while the worklist visits stores before their pointers.
* **Call sites as atoms.** Which call a fact belongs to is encoded in its guard, and whether any
  call takes part in a flag beside it, which equality of guards does not see and which
  therefore depends on the order of arrival.
* **Limits.** Truncated and collapsed guards must stay weaker in every later
  operation, including those that use a cached clause count.

## 3. Modules

| module | models | extends / uses |
|---|---|---|
| `PathCond` | `PathCond.h`: trees, constructors with all early returns, `clauseCount` with its cache | |
| `FastGuard` | `FastGuard.cpp`: DNF operations | |
| `GuardLimits` | `applyLimits`, its helpers, `fromPathCond`, `z3IsSat` | `PathCond`, `FastGuard` |
| `GuardBuilder` | state machine that builds guards the way the analysis does | `GuardLimits` |
| `Constraints` | programs, edges, what a solution is (the reference) | |
| `PointsTo` | abstract specification: the answer grows within a solution and is one at the end | `Constraints` |
| `CondAndersen` | the solver: one action per handler; guard algebra a parameter | `Constraints`, `PointsTo` |
| `GuardedFacts` | meaning of guards: paths, `alias`, soundness and exactness | `CondAndersen` |
| `Fields` | field sensitivity of the worklist solver: geps, field objects, PWC nodes, collapse and re-analysis | `CondAndersen` |
| `FieldFacts` | the field-sensitive answer against the constraints with fields, and `alias` with `expandCondFIObjs` | `Fields`, `GuardedFacts` |
| `WaveDiff` | the wave-diff solver, on the state and the shared handlers of `CondAndersen` | `CondAndersen` |
| `SingleTrack` | the queries after the wave-diff solver has finished: one action per query | `WaveDiff` |
| `TrackedFacts` | the queries' answers against the paths | `SingleTrack`, `GuardedFacts` |
| `Guard` | the BDD guards: their meaning, a set of worlds, and the flag for call sites | |
| `ValueFlow` | programs of the path-sensitive analysis: value-flow graph, control-flow graph, the guards read off both | `Guard` |
| `PathSensitive` | the path-sensitive analysis: one action per node kind, edge and store update, and the levels | `ValueFlow` |
| `PathFacts` | executions along every path, and what the facts mean against them | `PathSensitive` |
| `MCGuardBuilder`, `MCCondAndersen`, `MCWaveDiff`, `MCSingleTrack`, `MCPathSensitive`, `MCFields` | instances for TLC: guard algebra := `GuardLimits`, least solutions, program families | |
| `FastGuard_proofs` | theorems about the DNF guards | `FastGuard` |
| `Precision_proofs`, `Completeness_proofs` | theorems about the worklist solver, up to the refinement of `PointsTo` | `CondAndersen` |
| `Soundness_proofs` | theorems that guards and `alias()` lose no path where every fact arrives one way | `GuardedFacts`, `Completeness_proofs` |
| `Justified_proofs` | theorems that the guards of the worklist solver claim no path too many, and what `alias()` makes of them | `Soundness_proofs` |
| `WaveDiff_proofs` | theorems about the wave-diff solver, on those about the handlers it shares, and about the queries that follow it | `TrackedFacts`, `Soundness_proofs` |
| `Fields_proofs` | theorems about the field-sensitive solver: types, collapsing, precision | `FieldFacts`, `Completeness_proofs` |
| `PathSensitive_proofs` | theorems about the path-sensitive analysis: what its worklist hands on, and that its facts are satisfiable | `PathFacts` |

**Guards.** A `PathCond` is a record tree. Object identity is not kept: where the
code compares pointers it compares trees (the guards it compares are memoised or
shared). `clauseCount` writes its result into the object it was asked about; in
the model the cache is a variable `counts` of `GuardBuilder` that later calls of
`applyLimits` read. The solver module limits guards as if no count were cached,
a simplification: what a cached count may change is which guards collapse, and
`LimitsWeaken` is checked with every cache the guard builder reaches: what is kept although it has
too many clauses is stated there. `MaxDepth` stands for the constant 100 of
`getAnd`/`getOr`, so that a run can reach it; `ContainsDepth` is the constant 8
of `containsInOr`.

**The solver.** The correspondence of the variables of `CondAndersen`:

| variable | code |
|---|---|
| `pts`, `rep`, `worklist` | the points-to data structure, `ConstraintGraph::nodeToRepMap`, `WPASolver::worklist` (FIFO, set semantics) |
| `consCG` | the edges of the constraint graph; the value is the edge's guard (`ConstraintEdge::guard`) |
| `condPtsMap`, `conjCappedGuards` | the members of that name; `NoGuard` is a missing entry |
| `nodeStack`, `reach` | `SCCDetection`'s topological order and components |
| `resolved`, `cpySrcNodes` | the indirect call map; the local set of `updateCallGraph` |
| `pc`, `todo`, `subs`, `cur` | where the program is: the loop that runs, what it has still to visit, the node it works on |

The actions, in the order the code reaches them: `processAddr`, `beginAttach`,
`attachStaticEdgeGuard`, `SCCDetect`, `beginSCC`, `mergeNodeToRep`, `sweepNode`,
`popFromWorklist`, `processLoad`, `processStore`, `handleCopyGep`,
`processCopy`, `updateCallGraph`, `connectCaller2CalleeParams`,
`pushCpySrcNode`, `finish`. A loop over a hash set or an edge set is a `todo`
set taken in any order; everything one iteration does is one action. Three
abstractions are worth knowing:

* Nuutila's traversal is replaced by its result: `m` reaches `n` when `n` is in
  every successor-closed set that holds `m`. The root of a component is any of
  its nodes, and the sweep takes any topological order.
* Within one `processCopy`, a guard is conj-capped if it was so when the call began.
* `isPointer()` tests are dropped, since the graph only holds pointer operands.

**Fields.** `Fields` keeps the variables of `CondAndersen` and its handlers, unchanged or
with a gep part, and adds: `gepCG` (gep edges with offset and guard, moved when nodes are
merged), `gepTodo` (the geps the running loop has still to visit), `created` (field
objects that exist; `base` and `gepObjVar` are the layout, a parameter, so that the wrap
at `MaxFieldLimit` is the instance's affair), `fieldInsensitive`, `pwcNodes`,
`nodesToBeCollapsed`, `ptsToCollapse` (the clone `collapseNodePts` walks), `collapsing`
(the `collapseField` that runs) and `reanalyze`. `collapseOneField` is one round of the
loop of `collapseField`: the holders of the field get the object and go on the worklist,
and the field's node is merged into the object's. The recursion of `collapseField`
through `collapseNodePts` becomes more members of `ptsToCollapse`. Objects that wait for
a collapse are taken in any order, and `processGep` meets the guarded objects in any
order, since the disjunction it builds depends on it. The reference of `FieldFacts` is
the least solution in which the objects that gave up their fields stand for them; which
these are is the solver's decision.

**The wave-diff solver.** `WaveDiff` keeps the variables of `CondAndersen` and adds
`propaPts` and `diffPts` (`MutableDiffPTData`), `condDiffPtsMap`, `diffNode` and
`diffObjs` (`currentDiffNode`, `currentDiffObjs`), `sccRoots` and `visit` (the
members of an unmerged cycle still to be processed with its root) and `reanalyze`.
Handlers the class inherits unchanged are the actions of `CondAndersen` with the new
variables unchanged; those it overrides are actions of their own. `propaPts` is cut
for the new edges of one call at once.

**Single track.** A query is an action, because it synchronises its nodes
(`afterSync`) and fills or invalidates `ptsCache`; the const overload of `getPts`
(`constGetPts`) synchronises nothing and fills the same cache from the entries as they are; `getPtsAnswer` and
`aliasAnswer` are what it would answer in the current state. What holds of the
answers in every reachable state holds whatever the order of the queries.

**The path-sensitive analysis.** A fact `<<node, variable, guard, object>>` stands for
an entry of `condDFPTData`: `inPts` before the node, `outPts` after it. A BDD
is canonical, so a guard is the set of worlds it admits (`bdd`), where a world is the
set of branch conditions and call sites that are true in it, and the flag `hasCtxAtom`, which
the atom of a call site sets and no operation clears, also when the diagram no longer depends on a
call site. The code's equality and hash of guards ignore the flag, so an entry of the maps keeps
the flag of the guard that came first: `unions` adds to an entry only new objects
(`contents`, `entries` are facts without flag), and where one edge or handler brings a new
entry both with and without the flag the choice is open, as the hash order decides it.
`funObjContextGuard` has True where the map has no entry, and `absorbContextAtom` forms the
disjunction of that with the call-site atom, as the code does: True again, now
flagged. `popFromWorklist` and the node's
handler are one action; a store copies what is before it and then writes one
`updates` member per action, in any order, as the hash maps give it; each outgoing
edge is an action (`propagate`). The initial worklist is kept as a set `fresh`
with the order it is popped in: components from the end of the graph to its
beginning, because `WPAFSSolver::SCCDetect` refills a queue from a
reversed stack, and within a component the youngest node first. `ptD`, the unconditional
sets, survive the levels, as in the code.

Definitions marked `\* mutant` are plausible mistakes next to the definition they
replace. They are not part of the specification; they exist so that it can be
checked that each property notices one.

## 4. Runs

Passing runs explore the whole state space within the bounds.

| run (cfg) | question | bounds |
|---|---|---|
| `guards` | do And, Or, satisfiability, DNF conversion and the m/n limits keep the meaning of a guard, or weaken it, and do the limits hold afterwards? | 2 branches, up to 5 guards, depth cap 3, m=1, n=2 |
| `solver` | is the unguarded answer the least solution, is no work lost, is every guard justified, does it end, does it implement `PointsTo`? | all 81 programs of a two-pointer cycle through memory, each statement absent, unconditional or conditional; `oy` a constant object |
| `solver_calls` | the same with calls that resolve during the run and close cycles, and with conditional cycles merged (`-cond-ander-merge-cond-scc`); does merging leave an entry behind? | 36 programs with two calls through one pointer, the second enabled by the first |
| `forest` | are guards sound and is `alias()` exact when all of a fact's guards arrive before it is passed on? | one branch; 27 programs through a copy, a call, a store and a load, each unconditional or under either outcome; 8 diamonds with guarded first edges and unconditional second ones |
| `wave` | does difference propagation reach the same unguarded answer, is everything it counts as handed on there, does a guard ever run ahead of its object, does it end? | the programs of `solver` and `solver_calls`, and 8 in which a store and a load close a cycle after the first round |
| `single_track` | do `getPts` and `alias` answer exactly by the paths, after any queries, but for what a const `getPts` left out of the cache? | one branch, eager pruning: 8 `forest` programs and 8 diamonds with guards under either outcome, and 9 in which a variable also holds an object unconditionally |
| `psfs` | is what happens on a path claimed on it, is nothing stale claimed, is alias never denied, is every edge settled, does it end? | one branch, two call sites, k=2 with two levels: stores in the arms of a branch to one or several objects, a pointer chosen by a branch, and functions called once or twice that return or store their parameter: 30 programs |
| `fields` | with fields, is the answer still within the constraints in every state and complete at the end, does nobody keep a field of a collapsed object, is alias denied and claimed by the paths, does it end? | an object with two fields and a plain one, offsets 0, 1 and variable; a walk along a list (gep, store back, copy and load that close cycles, each absent, unconditional or conditional) with a second gep; a recursive call that binds the field's address; a pointer that holds the object under one outcome of a branch and a field of it under either, beside one that holds the field or an object collapsed meanwhile; geps through a pointer that holds the object conditionally: 210 programs |

The bounds are small but reach the interesting cases. Two branches are the least
with which a chain can exceed m=1, a disjunction n=2, and two clauses subsume or
contradict one another; a depth cap of 3 lets a collapse happen and be combined
further, and is the least at which a disjunction counted as the right child of another passes the
clause limit n=2. Two pointers in a cycle with a load and a store give derived edges in
both directions, cycles that appear only during the run, and preserved cycles
with members that are not the root. Two calls give a second round of the outer
loop with a merged node behind the function pointer. Adding a third pointer to the
cycle multiplies the states without a new kind of step.

In `psfs` one branch and two call sites give guards over up to three atoms, one more
than `kLimit`, so `capGuard` applies. Both arms of a branch, a join with a memory
phi and a phi of pointers exist, and both kinds of update: through a pointer that is sure
and to an object that stands for several. The programs have no loop and no `if`
without an `else` (section 7).

The *violation* runs (`diamond`, `wave_merge`, `called_once`, `gep_merge`) each check one
statement of the documentation or a comment on a small program family; section 7 says what
they find. The restriction of the `forest` family is therefore deliberate: on programs where
facts meet late, or where two guards meet that contain one another, the guards are not
sound. In the same way no program of `fields` takes the addresses of two fields into one
copy cycle, and `FieldComplete` excepts what a dropped zero-offset gep would have added; and where an
object reaches a pointer of `fields` twice, it does so under single literals, of which `getOr` loses
no path (section 7: it keeps the longer of two chains, and an unconditional fact has no entry).
The functions of `psfs` store their parameter, whose guard implies the call site; one that stores
anything else is `called_once`.

`CHECK_DEADLOCK FALSE` is set because the solver stops when it is `done`; that it
does not stop earlier is the property `Terminates`. The guard builder stops at its
bound on guards.

What the properties say:

* `Precise`, `Complete`, `ImplementsPointsTo`: the answer never leaves the least solution and
  is one at the end. `Precise` holds in *every* state: a wrong merge shows at once.
* `NoLostWork`: a node that is not settled is in the sweep, on the worklist
  (perhaps under the name of a node merged since), among the sources of edges just
  added, or in the running loop. It is the reason for `Complete`.
* `EntriesWithinPts`: no guard is kept for a fact that does not exist or at a merged node.
* `GuardsJustified`: every fact and every edge is claimed only on paths on which it can arise.
* `GuardsSound`, `AliasSound`, `AliasExact`: the converse, and what it is for.
* `HandedOn`: what a node counts as handed on has reached the far end of each of its copies,
  although edges are added, moved to other nodes and dropped while `propaPts` is carried along.
* `CompleteUnlessMerged`: the answer of the wave-diff solver is a solution, but for loads and stores
  through a node that others were merged into; those are what `wave_merge` shows missing.
* `FieldPrecise`, `FieldComplete`: the counterparts of `Precise` and `Complete` with fields, up
  to the objects that gave theirs up; `FieldComplete` accounts also for the geps that are no
  longer in the graph because their ends were merged.
* `NoCollapsedFields`: between two nodes nobody points to a field of a collapsed object, and
  the field's node is the object's, whatever geps and copies ran before the collapse.
* `FieldAliasExact`: `alias` with its expansion denies nothing that a path produces, although the
  guards recorded for fields stay behind when the fields go, but for the aliases that only a
  guard produces which the expansion overwrites (`covers`, section 7); and it claims none that
  no path produces, as long as no node was merged and no object collapsed (`guardsKept`). Guards
  under opposite outcomes of the branch meet there, so denying and claiming both depend on them.
* `PtsExact`, `TrackedAliasExact`: the single-track answers are what the variable holds on some path,
  and no more. `PtsExact` excepts the objects `missing` from a line of the cache: those that
  have no entry yet, when a const `getPts` filled the line. That a query which enters them
  ends the exception, by invalidating the line, is part of the property.
* `PathSound`: whatever a statement does when a path is executed, the analysis has
  after that statement in a world of this path and this call. `PathExact` is the
  converse, where it can hold: not after a join that a definition from above the branch
  reaches, not after stores through computed pointers, not across calls (the
  comment in `PathFacts` says why). `PathAliasSound` is what both are for.
* `EdgesSettled`: at the end no edge has anything left to hand on, although a store does
  not report what it overwrote, and is updated anew, in any order, at every visit.
* `AndExact`, `OrNeverInvents`, `SatExact`, `FastGuardFaithful`, `LimitsWeaken`,
  `CappedChainsFull`: the guard algebra against truth assignments. `LimitsWeaken` says besides that a
  limited guard is within both limits and that only a guard over the clause limit collapses; it
  excepts guards of which some part has a count cached that was cut short (`countedShort`,
  section 7), and counts the clauses itself (`clausesOf`), with no bound and no cache.

## 5. Fairness

`FairSpec`, `FairFieldSpec`, `FairWaveSpec` and `FairPathSensitiveSpec` add weak fairness of the
whole next-state relation and nothing more: each solver is one thread that takes a
next step while it has one. No action is treated fairly on its own, so termination
does not rest on an order of the hash sets. `TrackSpec` has weak fairness of
the solver's steps and of `finalize`, none of the queries; its properties are
invariants and do not use it.

## 6. Proofs

Checked by TLAPS for every value of the constants (`Node`, `Obj`, `Programs`, the guard algebra, all options):

* `TypeCorrect`: `Spec => []TypeOK`. By steps: the running loop only ever holds edges,
  statements or calls of its kind, which needs that `processLoadStore` drops no edge
  and retargeting keeps a graph of edges.
* `SolverPrecise`: `Spec => []Precise`. `Precise` is not inductive. The
  invariant `PreciseInv` adds that every edge is one the solution respects and
  ends at nodes still in the graph (`GraphWithin`), that a node and its
  representative are not told apart by the solution (`RepsWithin`), that the
  components still to be merged are disjoint sets of nodes in the graph, whose
  members the solution does not tell apart (`SubsWithin`, `RootsWithin`), and
  that the running loop holds facts of the solution (`LoopWithin`). The
  heart is `ReachWithin` (what the solution gives a node it gives all it
  reaches: the set of nodes that get as much is closed) and `MoveEdgesWithin`
  (merging nodes with equal solutions keeps the graph within it).
* `SolverEntries`: `Spec => []EntriesWithinPts`, on top of `PreciseInv`: an entry
  arises only where an edge or a merge ends, which must be a node in the graph.
* `SolverForgetsNothing`: `Spec => []NoLostWork`. The property becomes inductive by
  dropping its exception for the first phase (`Unforgotten`) and adding where the sweep is
  (`StackInv`: the cycles still to be merged are below it, and outside
  it nothing is left on it). A merge pushes nobody: the representative is finished later only because
  it is still on the stack. `MoveEdgesDomain` says exactly which edges a merge leaves.
* `SolverComplete`: `Spec => []Complete`. The invariant `AccountInv` adds that
  each constraint of the program is in the graph between the nodes that stand for its operands, or
  asks for nothing because they were merged into one node (`StmtsIn`, `CallsIn`,
  `AddrIn`). At the end nobody is pending, so by `SolverForgetsNothing` every
  node is settled, and settled nodes satisfy every constraint in the graph.
* `SolverImplementsPointsTo`: `Spec => ImplementsPointsTo`. The steps of the solver
  only let the answer grow (`AnswerGrows`: a merged node reads the set of its
  representative, which has taken its own in); `SolverPrecise` bounds it and
  `SolverComplete` gives the last step.
* `SolverJustified`: under `PlainAnalysis`, `Spec => []GuardsJustified`. `PlainAnalysis`
  restricts the algebra (`NarrowGuards`: no operation admits a path its operands do not, so no
  limits, and the depth of 100 at which `getAnd` and `getOr` collapse counts as one), the options
  (guards are kept, no eager pruning, conditional cycles stay unmerged) and the programs
  (no calls, since a call ignores the guard of its function pointer; constant objects are no
  operands). The property alone is not inductive: a merge gives a variable the facts of another
  one, so `JustifiedInv` adds that no path tells merged nodes apart (`MergedAlike`). A cycle
  is merged when its edges are unconditional *then*; but reachability was computed before the
  first merge of the round, and merging drops edges. `RootsLinked` therefore says that an SCC
  still to be merged is held together by copies between its own nodes, which merging others
  leaves alone. Until the statements' guards are all attached, edges count as unconditional too
  early, which is harmless only because nothing is propagated yet (`EdgesHold`).
* `SolverAliasExact`: under `PlainAnalysis`, and for guards whose conjunction and
  satisfiability test are exact (`DecidedGuards`), `alias()` at the end reports only what some path
  produces, by `SolverJustified`: a satisfiable conjunction has a path, and both facts hold on it.
  The other direction of `AliasExact`, and `AliasSound`, follow from `GuardsSound`, which
  is a hypothesis here because the code violates it where two facts meet (`diamond`):
  nothing but a lost path makes `alias()` wrong.
* `SolverGuardsSound`: `Spec => []GuardsSound`, with calls and for all options, under three
  hypotheses. `WideGuards`: no operation of the algebra cuts a path that *both* operands
  admit. Limits, the depth at which guards collapse and even `getOr` meet it, which keeps only one of
  two chains but never drops what they share. `OneWay`: no object flows to a node
  by two statements or calls, from two nodes, or where an address-of puts it already;
  nothing flows in a circle; constant objects are no operands. Without it the
  property is false: the disjunction of two arrivals may drop a path, a conditional arrival may
  replace an unconditional one, and a merge keeps the guard of one node. `LeastOnPaths`:
  `PathSolution` is the least, so that a fact of a path has a reason there (`Supported`).
  The invariant `Wide` says that nothing is merged (`NoMerges`; a component would contain a
  node into which nothing flows, `NothingToMerge`), that each edge stems from what flows
  (`GraphFlows`), that a copy admits each path on which something flows over it (`CopiesWide`),
  that loads and stores that matter admit their own paths (`StmtsWide`), and, in every
  state, that what is recorded of a fact admits the paths on which it holds (`FactsWide`): no
  entry yet means True. A fact that arrives over a copy must then have come that way on every
  path (`ArriveWide`), and an edge derived by a load or store is derived by no other
  (`DeriveWide`). That the points-to sets are large enough is `SolverComplete`.
* `SolverAliasSound`: under the same hypotheses and `FindsPaths` (a guard that admits a path
  counts as satisfiable), `Spec => []AliasSound`. `OneWayAliasExact` joins it with
  `SolverAliasExact`: `Spec => []AliasExact` for plain analyses of such programs.
* `WaveTypeCorrect`: `WaveSpec => []WaveTypeOK`. Outside its sweep the wave solver is
  in a state of `CondAndersen`, so the shared handlers come from `TypeStep`.
* `WaveHandsOn`: `WaveSpec => []HandedOn`. The invariant adds that a node counts as
  handed on only what it points to (`PropaWithin`): a new edge makes its source forget
  what its destination has not handed on itself, and that must already be there.
* `WavePrecise`: `WaveSpec => []Precise`, with the invariant of `SolverPrecise` plus
  `DiffWithin` (what is on its way along a copy lies in the solution of its source).
  Merging, loads and stores and taking up a node are lemmas about the part both
  solvers share (`mergesGraph`, `derivesEdge`, `ProcessNodeWithin`).
* `WaveEntries`: `WaveSpec => []EntriesWithinPts`. It needs all of the above: a copy
  passes on the guards of every object of its source but only the objects not handed
  on before, so the destination must have the rest (`HandedOn`), and while the copies
  of a node are walked the node must count all it points to (`AllCounted`), which no
  copy of the walk may add to (`NoLoops`).
* `WaveComplete`: `WaveSpec => []CompleteUnlessMerged`. `NoLostWork` is false of this solver, so
  the invariant says who is still to come round to a node, separately for what it has to
  hand on (`CopiesInv`) and for its loads and stores (`LoadsInv`, of nodes nothing was merged into
  only). With every cycle merged the worklist walks no copies and all depends on the order of the
  sweep: no copy leads from a node on the stack to one that was swept before
  (`SweepInv`), which the edges a round adds may break only because they ask for another round.
  While cycles are merged every node is in the SCC of a root on the stack (`CyclesInv`).
* `WaveGuardsSound`: `WaveSpec => []GuardsSound` under the same hypotheses, `FindsPaths` and
  `FalseGuards` (what is recognised as False admits no path). The
  handlers keep the invariant `Wide` whichever entries a copy passes on, since
  an entry that was not passed on is missing and stands for True. Eager pruning enters False, but only
  where the edge and the fact admit no common path (`WavePassedWide`). Where nothing is merged
  `WaveComplete` leaves no exception, so the answer is a solution.
* `TrackedAnswers`, `OnlyConstGetPtsDenies`: of `TrackSpec`, the solver followed by any
  queries. `factsOf` reads the answer off what the solver left, without cache and synchronisation.
  `alias()` agrees with it in every state, and so does `getPts`, except for the objects `missing`
  from a line of the cache that a const `getPts` left. What the solver left never changes; no query
  changes an answer of `alias()`, and only a const `getPts` of the same node makes `getPts` name
  fewer objects (`MissingByConst`: any other query that touches the line synchronises the
  node first or leaves both alone).
  The invariant `TrackInv` is that of `WavePrecise` until `finalize`; from then on
  (`Queried`) no guard is left outside the points-to set, and every line of the cache is what
  its node's entries give as they are (`CacheRight`): a query that enters an object drops the
  line. So if the facts are exact (`FactsExact`), `PtsExact` and `TrackedAliasExact`, which
  `single_track` checks on its programs in every state, cannot be lost by a query.
* `TrackedSound`, `TrackedAliasIsExact`: under the hypotheses of `WaveGuardsSound` no query
  denies what some path produces, but for what is `missing` from the cache (`NothingDenied`):
  `finalize` drops only entries of objects that
  are not pointed to, synchronising enters True where an entry is missing, and the filter for
  False removes only facts of no path. If the facts claim nothing too much (`FactsJustified`) and
  two guards that are satisfiable together share a path (`PathsDecided`),
  `alias()` is exact in every state (`TrackedAliasExact`). `FactsJustified` is a condition and no
  theorem here: it is false of the wave solver in general (last paragraph of this section).
* `FieldsCollapsed`: `FieldSpec => []NoCollapsedFields`. The property speaks of the
  moments between two nodes; the invariant `FieldInv` of every state. A field whose
  object is field-insensitive is due (its object waits in `nodesToBeCollapsed`, or
  the collapse that runs has still to reach it) or gone (`CollapseDue`), and what is
  gone stays so: facts and guards name only fields that exist (`FieldsTracked`), arise
  only from facts and guards that are there (`FactsMoved`, `MergeMoves`), and a gep
  makes no field of an object that is insensitive already (`TranslatedField`). A merge
  never runs while the geps of a node are walked (`GepsKept`).
* `FieldTypeCorrect`: `FieldSpec => []FieldTypeOK`. The invariant `FieldState` adds to
  `FieldInv` that every load, store and gep edge stems from a statement whose operands its ends
  stand for (`GraphStems`), that a field that does not exist stands for itself and every other
  node for one in the graph (`RepsInGraph`), that the SCCs still to be merged are disjoint
  (`FieldSubs`, `FieldRoots`), and that collapses run only between the loops, over
  objects that gave up their fields (`FieldCollapses`).
* `FieldsPrecise`: `FieldSpec => []FieldPrecise`. The property compares the answer with the
  constraints read for the set F of objects that give up their fields, and F grows as the
  solver runs, so it is not inductive. `FieldPreciseInv` says it of *every* F that holds the
  objects given up so far: what was done must stay right if more is given up. It adds that
  copies are respected (`CopiesWithin`) and what merged nodes share (`ClassesWithin`). That
  is less than without fields. Around a cycle with a gep the constraints do not give all nodes the
  same objects, only the same objects of F; but all that reaches such a cycle belongs to F by
  then (`mayLoseFields`). SCC detection provides this before anything is merged
  (`SCCsWithin`), by two closed sets in `CycleWithin`: the nodes that get as many objects of
  F, and, without geps on the cycle, those that get as much or cannot lead back. A collapse
  merges a field's node into its object's, which are one to the constraints since the object
  is in F (`CollapseWithin`).
* `PathEdgesSettled`: `PathSensitiveSpec => [](UndecidedStoresSettled => EdgesSettled)`, in every
  level. The analysis walks the edges of a node only if its visit changed something, so
  the invariant `Settling` says of every edge that it has nothing left to bring, is on the
  walk, or leaves a parameter or memory node that waits for a visit (`HandedOrDue`). For
  the other statements waiting would not do: their next visit may report no change. So it must
  be shown that a handler reports each fact it adds, that what arrives at a
  node changes only what the node's own edges bring, and that a
  level starts with nothing a statement would fail to report. A store reports what it copied from
  before the store, not what its updates changed. It hands on everything all the same: its writes are
  determined by its operands before it; a visit that copies nothing new finds them as they were,
  every write done already (`StoresApplied`, `Updating`), and to do them again changes nothing.
  That needs that neither operand is looked up in an unconditional set, which may have grown
  meanwhile, and that no strong write overlaps another write of the store to the object, since then
  the hash order decides what is left (`Decided`). Edges that leave other stores are the condition
  (`UndecidedStoresSettled`); `psfs` checks on its programs that they hand on everything too.
  The guard of every function stays True throughout (`Data`), so only its flag changes under
  a store, and neither the maps' keys nor `EdgesSettled` depend on that. All facts are compared
  without the flag, as the maps compare them.
* `PathFactsSatisfiable`: `PathSensitiveSpec => []FactsSatisfiable`. `alias()` lets the facts
  of a variable decide as soon as there are any, and asks the unconditional sets
  otherwise; a fact no world satisfies would deny every alias of its variable. The
  invariant follows the guards through handlers, limits, strong updates (what is left
  outside the guard of the update may be nothing), the guards of functions, edges and the
  summaries between levels.
* `FastAndIsConjunction`, `FastOrIsDisjunction`, `FastSatIsExact`: the DNF operations are exact for
  every finite set of branches although contradictory and subsumed clauses go.
  The lemma behind the first two is that removing subsumed clauses keeps the
  models: a smallest clause below any clause survives.

Assumptions: `ConstraintsAssumption` (nodes exist, objects are nodes, programs are
well formed, `Solution` is *some* solution of each program; the proofs do not need
that it is the least, so with the least one they bound the solver most tightly),
`GuardAssumption` (options are Booleans, True is True), and for fields `FieldAssumption`
(a field object has a base that is no field, a gep leads to an object of the same base,
no address statement names a field), `FieldsOnDemandAssumption` (an object is constant when
its base is, `SVFIR::isConstantObj`; no statement, call or gep is about a field, whose node only
`getGepObjVar` makes) and `FieldSolutionAssumption` (`FieldSolution` is *some* solution of
each program and its geps, given F; TLC evaluates it with the least one). For the queries,
`QueryAssumption` (a cached set is not the mark of a missing one, and True is not the mark of
a missing guard). For the path-sensitive analysis, `ValueFlowAssumption` (programs are well-formed
value-flow graphs; only stores, memory nodes, parameters and returned values have edges
that are not direct, as `SVFG` builds them). But for the theorems on what
guards mean (`GuardsSound`, `GuardsJustified` and the exactness of `alias()`), whose hypotheses are
described above, nothing is assumed of the guard algebra, so the theorems hold whatever PathCond
does. That those hypotheses are met is not left to belief. `MCCondAndersen` and `MCSingleTrack`
state as assumptions, which TLC evaluates in every run, that the programs of `forest` and the
mixed ones of `single_track` are one-way (`ForestIsOneWay`, `MixedIsOneWay`) and
that `WideGuards`, `FalseGuards` and `FindsPaths` hold of all guards of two operations at most
(`AlgebraWidens`); `guards` checks the rest of it with limits (`AndExact`, `SatExact`,
`LimitsWeaken`). `NarrowGuards`, `DecidedGuards` and `PathsDecided` fail only of guards that the depth
of 100 makes True.

Only model-checked:

* Termination: liveness is out of the prover's reach.
* What a `PathCond` means (`AndExact`, `OrNeverInvents`, `SatExact`, `FastGuardFaithful`,
  `LimitsWeaken`, `CappedChainsFull`, and `TypeOK` of `GuardBuilder`): its operators are
  recursive over trees, and neither they nor induction over trees are within the provers' reach.
* What the path-sensitive analysis finds (`PathSound`, `PathExact`, `PathAliasSound`): the
  reference executes a path by folding over its statements, so a proof would be
  an induction over that execution. Of `EdgesSettled` the part about edges that leave stores that are not `Decided`.
* `FieldComplete` and `FieldAliasExact`: `gep_merge` shows completeness with fields to be false in
  general, and what holds excepts the geps dropped in a merge; an inductive invariant for it
  would have to say of each gep that left the graph which objects it still owes, and
  has not been worked out.
* `GuardsJustified` with limits or calls, and `GuardsSound` of programs in which facts meet but
  arrive before they are passed on (the diamonds of `forest`).
* That the facts of the wave solver claim nothing too much (`PtsExact` and the condition of
  `TrackedAliasIsExact`): false in general, since a new edge whose source is visited for its changed
  guards hands on the other objects without one.

## 7. Findings

Each is a disagreement between the code and a document, comment or test, with a run that
shows it.

| run | the document | the code |
|---|---|---|
| `diamond` | `⊨=` OR-merges, alias answers NoAlias only without a common satisfiable guard (doc:333, :453) | where two facts meet, `getOr` keeps the *longer* of two And chains (`PathCond.h:159`), a path is lost, and `alias` denies an alias this path produces |
| `wave_merge` | both solvers produce identical alias results (doc:18) | `Andersen::mergeSrcToTgt` does not push the representative; the wave-diff sweep handles copies only, so a load or store of one member of a merged cycle is not done for the objects the others bring, and the points-to sets stay too small |
| `called_once` | alias answers by a common object under a satisfiable guard (`PathSensitiveFlowSensitive.h:20`); the guard of a function is the 'disjunction of calling-context atoms that may activate' it (`.h:122`); `isContextIndependent` is true of a guard that 'does not depend on any context atom' (`Guard.h:147`) | `absorbContextAtom` ORs the call-site atom into a guard that is default-constructed as True (`.cpp:131`, `Guard.h:107`): it stays True and only becomes flagged. A store in the function then holds under a flagged True, which implies no call site and does not count as independent of them, so the return edge (`.cpp:711`) drops it: what a function stores, unless it is a parameter, is not seen by its caller even if it is called from one place, and alias answers NoAlias |
| `gep_merge` | `reTargetDstOfEdge` '(3) Add modified edge into new dst' (`ConsG.cpp:335`); every gep derives its field (doc:383) | `addNormalGepCGEdge` drops an edge between nodes that already have one, and `hasEdge` ignores the offset: when the targets of `&q->f` and `&q->g` are merged as a copy cycle, the merged pointer never points to one of the two fields |

Met while reading, in the conditional solvers, without a run of their own: a conditional
guard is inserted wherever there is no entry, also where the fact is unconditional
(`ConditionalAndersen.cpp:586`, against doc:658); a guard that weakens after its fact was
passed on is not passed on (`Andersen.cpp:601`, doc:320); a derived guard merged into an
unconditional edge replaces True (`ConditionalAndersen.cpp:323`, doc:355); the guard of a
second call site over the same edge is ignored (`ConditionalAndersen.cpp:780`, doc:414);
eager pruning drops the guard and keeps the object, which thereby counts as
unconditional (`ConditionalAndersen.cpp:864`, `test_eager_cut.c:16`), and in the
wave-diff solver enters False also over an object that is there
unconditionally (`ConditionalAndersenWaveDiff.cpp:1048`); `getOr`'s absorption against
doc:218; `getAnd(g, g)` builds a new node (doc:217); the comment that a cached
clause count decides as exactly as the DNF (`ConditionalAndersen.cpp:386`), which is an upper bound only;
the right child of a disjunction is counted up to what its sibling left of the bound and caches that
(`PathCond.h:362`), so that a guard with more clauses than `nLimit` may pass the limit later, where
`ConditionalAndersen.cpp:400` collapses it (the exception in `LimitsWeaken`, which fails without it); the const
`getPts` of the single-track analysis caches the entries as they are, and every `getPts` answers by that
line until another query enters an object (`SingleTrackCondAndersen.cpp:97`, against :60 'lazily synced
to match bitvector set size' and 'single source of truth', `SingleTrackCondAndersen.h:12`; the exception in `PtsExact`); `k = 0` makes every guard True, where doc:272 makes it unlimited; a
collapse to True is undone by the third visit (`ConditionalAndersen.cpp:569`);
merging keeps the guard of one node where doc:467 takes the disjunction, and a
merged True guard erases the entry; retargeting onto an existing edge drops the
moved guard (`ConsG.cpp:229`); the default limit mode is depth (`Options.cpp:365`), m/n in the document.

With fields: objects that reach a PWC node from the worklist keep their fields, since only
the sweep collapses (`ConditionalAndersen.cpp:767`, against 'collapse all its points-to target',
`Andersen.cpp:688`); a gep of offset 0 on a merged cycle is dropped as if the first field
were the object, which it is only under `-ff-eq-base` (`ConsG.cpp:514`); `expandCondFIObjs` gives a
field the guard of its object and then overwrites it with the field's own
(`ConditionalAndersen.cpp:1153`, against doc:458), so that alias denies what only the object's
path produces (the exception `covers` in `FieldAliasExact`, which fails without it).

In the path-sensitive analysis: the guard of a block ORs its conditional in-edges and ignores the
unconditional ones, so the join after an `if` without `else` is guarded by the
negated condition (`PathSensitiveFlowSensitive.cpp:68`, and its copies in
`ConditionalAndersen.cpp:62`, `ConditionalAndersenWaveDiff.cpp:64`, `MemSSA.cpp:711`); the
initial worklist is the reverse of the order the comment promises
(`WPAFSSolver.h:87`), so that a store through a computed pointer hands on what it
overwrites later; a level starts with `ptD` of the one before and loads fall back to it
under True, so that level k+1 may claim more than level k; capping the guard of a
strong update makes it overwrite more; the summary of a level reads what is
after function exits, where nothing is ever put (`:990`), and the return summary
is seeded where no return edge looks; `currentK` is set and never limits anything.

## 8. Not modelled

Field sensitivity in the wave-diff, single-track and path-sensitive analyses; forked threads and heap allocators called through pointers; SABER; `WPAPass`,
statistics, sampling, dumping; the Z3 back end (`z3IsSat` with
`-cond-ander-fast-guard`, the default, is); the BDD package and the construction of memory SSA
and of the value-flow graph (their results are inputs); calls resolved on the fly in the
path-sensitive analysis; loops in its programs; the rest of upstream SVF.
For the conditional solvers the guard of a statement is an arbitrary input, not one
that `getBBGuard` computes. Options the runs do not exercise: the limits of guards during a whole analysis (`guards` checks that they only weaken), `kLimit = 0`
(`unconditional`), `eagerSat` outside `single_track`, merging conditional cycles
outside `solver_calls`, psfs without refinement or without its limit.

## 9. Plan

Done: guards, limits and FastGuard; the worklist solver with calls and its abstract
specification; the meaning of guards; the wave-diff solver and the single-track
queries; the path-sensitive analysis with its guards and its control-flow graph; the
field sensitivity of the worklist solver; the theorems of section 6. What is left, in
this order:

1. Geps in the wave-diff solver; refinement of `PointsTo` over fields.
2. Calls through pointers in the path-sensitive analysis: `updateCallGraph` extends the
   value-flow graph and starts the level over.
3. Composition of `ValueFlow.getNodeGuard` with the conditional solvers, so that their
   statement guards are those of a control-flow graph.
4. Proofs: `GuardsSound` of programs in which facts meet before they are passed on, for an
   algebra whose disjunction is exact; the completeness invariant for fields.
