---------------------------- MODULE MCKYCSocial -----------------------------
(* Model-checking instances of KYCSocial.                                  *)
EXTENDS KYCSocial, TLC

Symmetry == Permutations(Users) \cup Permutations(Procs) \cup Permutations(Handles)
=============================================================================
