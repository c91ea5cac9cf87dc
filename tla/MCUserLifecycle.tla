-------------------------- MODULE MCUserLifecycle ---------------------------
(* Model-checking instances of UserLifecycle.                              *)
EXTENDS UserLifecycle, TLC

Symmetry == Permutations(Procs)
=============================================================================
