---------------------------- MODULE TrackedFacts ----------------------------
(***************************************************************************)
(* What the queries of SingleTrackCondAndersen mean: the answers it gives  *)
(* after the analysis against the points-to solutions of the program on    *)
(* each of its paths, in every state the queries themselves can lead to.   *)
(***************************************************************************)
EXTENDS SingleTrack, GuardedFacts

holdsOnSomePath(n, o) == \E path \in Path : o \in PathSolution(prog, path)[n]

(* A cached line lacks the objects that have no entry yet: a const getPts  *)
(* left it before the entries were synced.                                 *)
missing(n, o) == ptsCache[rep[n]] # NotCached /\ condPtsMap[rep[n]][o] = NoGuard

(* PtsExact: whatever queries came before, getPts names the objects that   *)
(* the variable holds on some path and no other, except for what a const   *)
(* getPts left out of the line that is cached, and for as long as the      *)
(* object has no entry.  Entering an object as False is what filters it    *)
(* although it is still in the points-to set; syncing enters the rest as   *)
(* True; no line may outlive the entries it was made of.                   *)
PtsExact ==
  analysisComplete =>
    \A n \in Node, o \in Obj :
      o \in getPtsAnswer(n) <=> holdsOnSomePath(n, o) /\ ~missing(n, o)

(* TrackedAliasExact: alias() reports two variables exactly if some path   *)
(* gives them a common object, before and after any queries.               *)
TrackedAliasExact ==
  analysisComplete =>
    \A v, w \in Node : rep[v] # rep[w] =>
      (aliasAnswer(v, w) <=> \E path \in Path : someObjectOnPath(v, w, path))
=============================================================================
