----------------------------- MODULE MCKYCFace ------------------------------
(* Model-checking instances of KYCFace.                                    *)
EXTENDS KYCFace, TLC

CONSTANTS p1, p2

Symmetry == Permutations(Procs)
=============================================================================
