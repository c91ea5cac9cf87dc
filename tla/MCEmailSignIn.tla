--------------------------- MODULE MCEmailSignIn ----------------------------
(* Model-checking instances of EmailSignIn.                                *)
EXTENDS EmailSignIn, TLC

Symmetry == Permutations(Procs) \cup Permutations(Codes) \cup Permutations(UserIDs)
=============================================================================
