---------------------------- MODULE MCEmailQueue ----------------------------
(* Model-checking instances of EmailQueue.                                 *)
EXTENDS EmailQueue, TLC

\* Each address has a language of its own.
LanguageByEmail == [e \in Emails |-> [d \in Devices |-> e]]

Symmetry == Permutations(Requests)
=============================================================================
