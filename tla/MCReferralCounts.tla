-------------------------- MODULE MCReferralCounts --------------------------
(* Model-checking instances of ReferralCounts.                             *)
EXTENDS ReferralCounts, TLC

CONSTANTS c1, c2, c3, u1, u2, u3, low, mid, top

\* low was referred by mid, who was referred by top.
Chain == (low :> mid) @@ (mid :> top) @@ (top :> Nobody) @@ (Nobody :> Nobody)

Snapshot(kind, user, ref) == [kind |-> kind, user |-> user, ref |-> ref]

Rows == {{mid}}

\* One referral of low, one of mid, and one that mid has in its row leaves.
Feeds ==
  (c1 :> <<Snapshot("created", u1, low)>>) @@
  (c2 :> <<Snapshot("deleted", u2, mid)>>) @@
  (c3 :> <<Snapshot("chose", u3, mid)>>)
=============================================================================
