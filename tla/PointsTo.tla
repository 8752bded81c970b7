------------------------------ MODULE PointsTo ------------------------------
(***************************************************************************)
(* What an inclusion-based points-to analysis promises, whatever the       *)
(* order it works in and however it merges nodes: its answer only grows,   *)
(* never leaves the bounds of a solution of the program's constraints      *)
(* (of the least one, when Solution is the least), and is itself a         *)
(* solution when the analysis declares it finished.                        *)
(***************************************************************************)
EXTENDS Constraints

VARIABLES
  program,    \* the program under analysis
  sol,        \* the points-to set of every node so far
  finished    \* the analysis has declared its answer final

Init ==
  /\ program \in Programs
  /\ sol = [n \in Node |-> {}]
  /\ finished = FALSE

Grow ==
  /\ ~finished
  /\ sol' \in [Node -> SUBSET Obj]
  /\ \A n \in Node : sol[n] \subseteq sol'[n] /\ sol'[n] \subseteq Solution(program)[n]
  /\ UNCHANGED <<program, finished>>

Finish ==
  /\ ~finished
  /\ IsSolution(program, sol)
  /\ finished' = TRUE
  /\ UNCHANGED <<program, sol>>

Next == Grow \/ Finish

Spec == Init /\ [][Next]_<<program, sol, finished>>
=============================================================================
