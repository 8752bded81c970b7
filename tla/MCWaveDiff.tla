----------------------------- MODULE MCWaveDiff -----------------------------
(***************************************************************************)
(* Model checking of the wave-diff solver, with the guard algebra and the  *)
(* programs of MCCondAndersen.                                             *)
(***************************************************************************)
EXTENDS WaveDiff, MCCondAndersen

MCfalseGuard          == G!getFalse
MCguardOutgrows(g, h) == G!outgrows(g, h)
MCorOutgrows(g, h)    == G!orGrowsPast(g, h)

(* A walk along a list: vb is a copy of va, *va = vb and va = *va.  Once   *)
(* the store and the load are processed, va, vb and ox form a cycle.       *)
LateCycle ==
  {program({<<ox, va>>, <<oy, vb>>},
           {stmt("copy", va, vb, g1), stmt("store", vb, va, g2), stmt("load", va, va, g3)}, {}) :
     g1 \in openGuards, g2 \in openGuards, g3 \in openGuards}

WavePrograms == Cycles \cup LateCycle \cup Calls
=============================================================================
