------------------------------ MODULE TokenSeq ------------------------------
(***************************************************************************)
(* The refresh-token sequence a sign-in row keeps (auth/token.go).         *)
(*                                                                         *)
(* Both sign-in tables, email_link_sign_ins and telegram_sign_ins, number  *)
(* the token pairs they hand out.  "issued" is the number of the newest    *)
(* pair and "prev" the oldest number the row still accepts: a client whose *)
(* answer was lost presents its old token again and is served.             *)
(***************************************************************************)
EXTENDS Integers

\* Mutant of CanRefresh: any number the row ever issued is taken.
CanRefreshAny(row, uid, seq) == row.user = uid /\ seq <= row.issued

\* The WHERE clause of IncrementRefreshTokenSeq.
CanRefresh(row, uid, seq) ==
  /\ row.user = uid
  /\ \/ row.issued = seq
     \/ row.prev <= seq /\ row.prev <= row.issued + 1

\* Mutant of Refreshed: the number is not advanced.
RefreshedInPlace(row, uid, seq) == [row EXCEPT !.user = uid, !.prev = seq]

\* Its SET clause: the presented number becomes the oldest accepted one.
Refreshed(row, uid, seq) ==
  [row EXCEPT !.user   = uid,
              !.issued = @ + 1,
              !.prev   = IF row.issued = seq THEN row.issued ELSE seq]

\* Mutant of SessionStarted: the second assignment sees the first.
SessionStartedInOrder(row) ==
  [row EXCEPT !.issued = @ + 1, !.prev = row.issued + 2]

\* A fresh sign-in: the new number is also the oldest accepted one.
SessionStarted(row) ==
  [row EXCEPT !.issued = @ + 1, !.prev = row.issued + 1]
=============================================================================
