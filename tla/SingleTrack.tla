---------------------------- MODULE SingleTrack ----------------------------
(***************************************************************************)
(* SingleTrackCondAndersen                                                 *)
(* (SVF/svf/lib/WPA/SingleTrackCondAndersen.cpp): the wave-diff solver,    *)
(* and the queries it answers once it has finished.  From then on the      *)
(* guarded facts are the only source: an object without an entry is        *)
(* entered as True when its node is first asked about, an object entered   *)
(* as False is not pointed to, and the points-to sets derived from the     *)
(* entries are cached.  A query changes the state, so it is an action; the *)
(* const getPts enters nothing, but fills the same cache.                  *)
(***************************************************************************)
EXTENDS WaveDiff

CONSTANTS
  NotCached,     \* ptsCache holds no line for the node
  aliasUseSat    \* conjoin the guards in alias()

(* A line of the cache is a set, and an entry of the map a guard.          *)
ASSUME QueryAssumption ==
  /\ \A S \in SUBSET Obj : NotCached # S
  /\ trueGuard # NoGuard

VARIABLES
  analysisComplete,
  ptsCache

trackVars == <<waveVars, analysisComplete, ptsCache>>

TrackInit ==
  /\ WaveInit
  /\ analysisComplete = FALSE
  /\ ptsCache = [n \in Node |-> NotCached]

Solve ==
  /\ WaveNext
  /\ UNCHANGED <<analysisComplete, ptsCache>>

(* finalize: entries of objects outside the points-to set are dropped.     *)
finalize ==
  /\ pc = "done"
  /\ ~analysisComplete
  /\ analysisComplete' = TRUE
  /\ ptsCache' = [n \in Node |-> NotCached]
  /\ condPtsMap' = [n \in Node |->
       [o \in Obj |-> IF o \in answer[n] THEN condPtsMap[n][o] ELSE NoGuard]]
  /\ UNCHANGED <<prog, pc, todo, subs, cur, pts, consCG, rep, worklist, nodeStack,
                 reach, conjCappedGuards, resolved, cpySrcNodes, diffVars>>

-----------------------------------------------------------------------------
(* ensureNodeSynced on the entries and on the cache.                       *)
syncsUnlessAny(n, entries) ==                              \* mutant
  IF \A o \in Obj : entries[o] = NoGuard
  THEN [o \in Obj |-> IF o \in pts[n] THEN trueGuard ELSE NoGuard] ELSE entries

synced(n, entries) ==
  [o \in Obj |-> IF entries[o] = NoGuard /\ o \in pts[n] THEN trueGuard ELSE entries[o]]

afterSync(nodes) ==
  [n \in Node |-> IF n \in nodes THEN synced(n, condPtsMap[n]) ELSE condPtsMap[n]]

cacheKept(nodes) == ptsCache                               \* mutant

cacheAfterSync(nodes) ==
  [n \in Node |-> IF afterSync(nodes)[n] # condPtsMap[n] THEN NotCached ELSE ptsCache[n]]

pointees(entries) == {o \in Obj : entries[o] # NoGuard /\ ~guardIsFalse(entries[o])}

(* getPts: the cached set, or the one the synced entries give.             *)
getPts(n) ==
  /\ analysisComplete
  /\ ptsCache[rep[n]] = NotCached
  /\ condPtsMap' = afterSync({rep[n]})
  /\ ptsCache' = [ptsCache EXCEPT ![rep[n]] = pointees(condPtsMap'[rep[n]])]
  /\ UNCHANGED <<prog, pc, todo, subs, cur, pts, consCG, rep, worklist, nodeStack,
                 reach, conjCappedGuards, resolved, cpySrcNodes, diffVars,
                 analysisComplete>>

(* getPts on a const solver: the cached set, or the one that the entries   *)
(* give as they are, which is cached all the same.                         *)
constGetPts(n) ==
  /\ analysisComplete
  /\ ptsCache[rep[n]] = NotCached
  /\ ptsCache' = [ptsCache EXCEPT ![rep[n]] = pointees(condPtsMap[rep[n]])]
  /\ UNCHANGED <<waveVars, analysisComplete>>

(* alias: its answer from the entries of the two nodes, and the queries of *)
(* distinct nodes, which leave both of them synced.                        *)
mayAliasOn(m, v, w) ==
  \E o \in pointees(m[v]) \cap pointees(m[w]) :
    \/ guardIsTrue(m[v][o]) /\ guardIsTrue(m[w][o])
    \/ ~aliasUseSat
    \/ guardIsSat(guardAnd(m[v][o], m[w][o]))

alias(v, w) ==
  /\ analysisComplete
  /\ rep[v] # rep[w]
  /\ condPtsMap' = afterSync({rep[v], rep[w]})
  /\ ptsCache' = cacheAfterSync({rep[v], rep[w]})
  /\ UNCHANGED <<prog, pc, todo, subs, cur, pts, consCG, rep, worklist, nodeStack,
                 reach, conjCappedGuards, resolved, cpySrcNodes, diffVars,
                 analysisComplete>>

(* samplePrecisionGain drops the cache when it is done.                    *)
clearCache ==
  /\ analysisComplete
  /\ ptsCache' = [n \in Node |-> NotCached]
  /\ UNCHANGED <<waveVars, analysisComplete>>

TrackNext ==
  \/ Solve
  \/ finalize
  \/ \E n \in Node : getPts(n) \/ constGetPts(n)
  \/ \E v, w \in Node : alias(v, w)
  \/ clearCache

TrackSpec == TrackInit /\ [][TrackNext]_trackVars /\ WF_trackVars(Solve) /\ WF_trackVars(finalize)

-----------------------------------------------------------------------------
(* What getPts and alias() answer if they are asked now.                   *)
getPtsAnswer(n) ==
  IF ptsCache[rep[n]] # NotCached THEN ptsCache[rep[n]]
  ELSE pointees(synced(rep[n], condPtsMap[rep[n]]))

aliasAnswer(v, w) == rep[v] = rep[w] \/ mayAliasOn(afterSync({rep[v], rep[w]}), rep[v], rep[w])
=============================================================================
