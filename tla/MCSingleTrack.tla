--------------------------- MODULE MCSingleTrack ---------------------------
(***************************************************************************)
(* Model checking of the queries of SingleTrack.                           *)
(***************************************************************************)
EXTENDS TrackedFacts, MCWaveDiff

(* vb holds oy besides what it gets from va, and passes both on.           *)
Mixed ==
  {program({<<ox, va>>, <<oy, vb>>, <<oy, ve>>},
           {stmt("copy", va, vb, g1), stmt("copy", vb, vd, g2)}, {}) :
     g1 \in positive \cup signed, g2 \in positive \cup signed}

ASSUME MixedIsOneWay == \A p \in Mixed \cap Programs : oneWay(p)

TrackPrograms == Mixed \cup forest(signed) \cup Arms

(* The solutions, computed once.                                           *)
TrackSolutions == [p \in TrackPrograms |-> [path \in MCPath |-> MCPathSolution(p, path)]]

MCTrackSolution(p, path) == TrackSolutions[p][path]
=============================================================================
