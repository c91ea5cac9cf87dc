--------------------------- MODULE MCEmailChange ----------------------------
(* Model-checking instances of EmailChange.                                *)
EXTENDS EmailChange, TLC

CONSTANTS p1, p2, new1, new2
=============================================================================
