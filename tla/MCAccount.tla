----------------------------- MODULE MCAccount ------------------------------
(* Model-checking instances of Account.                                    *)
EXTENDS Account, TLC

CONSTANTS p1, p2, u1, u2, t1, t2, d1, d2

MCScenes == {{"telegram"}, {"devices"}, {"contacts"}, {"scenarios", "mining"}}

\* Versions without a fourth part, with one that passes, with one that is
\* outdated, and an older version whose fourth part is that of the required one.
MCVersions == {<<1, 0, 0>>, <<1, 0, 0, 1>>, <<1, 0, 0, 2>>, <<0, 9, 9, 3>>}
MCRequired == <<1, 0, 0, 3>>

\* No mandatory scenarios; a scenario and another tenant.
MCMandatories == {{}, {"join", "other"}}

Symmetry ==
  Permutations(Procs) \cup Permutations(Users)
    \cup Permutations(Telegrams) \cup Permutations(Devices)
=============================================================================
