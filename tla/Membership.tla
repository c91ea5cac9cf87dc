----------------------------- MODULE Membership -----------------------------
(* What the users table promises about referrers, whatever requests run at *)
(* once: a user picks a referrer at most once; afterwards the referrer is  *)
(* replaced only because it leaves, or because an update is undone; and    *)
(* nobody leaves to whom somebody still refers.                            *)
EXTENDS Naturals

CONSTANTS Ids, None

VARIABLES
  ref,      \* ref[u]: the referrer of a member, itself for "no referrer"
  leaving,  \* members whose departure is under way
  moving,   \* members who are being given another referrer
  undoing   \* members of whom an update is being undone

vars == <<ref, leaving, moving, undoing>>

Members == {u \in Ids : ref[u] # None}
Sets == leaving \subseteq Ids /\ moving \subseteq Ids /\ undoing \subseteq Ids

Init ==
  /\ ref \in [Ids -> Ids \cup {None}]
  /\ leaving = {} /\ moving = {} /\ undoing = {}

\* A member begins to be moved only while the referrer leaves.
Movable(S) == \A u \in S : ref[u] \in leaving \ {u}

Join(u, r) ==
  /\ ref[u] = None
  /\ r \in Members \cup {u}
  /\ ref' = [ref EXCEPT ![u] = r]

Choose(u, r) ==
  /\ ref[u] = u
  /\ r \in Members
  /\ ref' = [ref EXCEPT ![u] = r]

Move(u, r) ==
  /\ u \in Members \cap (moving \cup undoing)
  /\ r \in Members
  /\ ref' = [ref EXCEPT ![u] = r]

Leave(u) ==
  /\ u \in leaving
  /\ \A v \in Ids \ {u} : ref[v] # u
  /\ ref' = [ref EXCEPT ![u] = None]

\* Work that begins or ends somewhere, next to at most one change of ref.
Book ==
  /\ leaving' \subseteq Ids /\ undoing' \subseteq Ids
  /\ moving' \subseteq Ids /\ Movable(moving' \ moving)

Next ==
  /\ Book
  /\ \/ UNCHANGED ref
     \/ \E u \in Ids : Leave(u) \/ \E r \in Ids : Join(u, r) \/ Choose(u, r) \/ Move(u, r)

Spec == Init /\ [][Next]_vars
=============================================================================
