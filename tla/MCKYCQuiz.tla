----------------------------- MODULE MCKYCQuiz ------------------------------
(* Model-checking instances of KYCQuiz.                                    *)
EXTENDS KYCQuiz, TLC

Symmetry == Permutations(Procs)
=============================================================================
