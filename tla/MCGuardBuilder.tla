--------------------------- MODULE MCGuardBuilder ---------------------------
(***************************************************************************)
(* Model checking of GuardBuilder: two or three branches, interchangeable. *)
(***************************************************************************)
EXTENDS GuardBuilder, TLC

Symmetry == Permutations(Branch)
Unlimited == -1
=============================================================================
