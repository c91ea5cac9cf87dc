---------------------------- MODULE UserLifecycle ---------------------------
(***************************************************************************)
(* Creating, modifying and deleting users (users/users_create.go,          *)
(* users_modify.go, users_delete.go) and the trigger that counts verified  *)
(* referrals (users/DDL.sql).                                              *)
(*                                                                         *)
(* Every statement is one step.  Nothing but the constraints of the table  *)
(* orders the requests: the checksum that should detect lost updates is    *)
(* switched off (ContextWithChecksum).  Deleting a user first gives every  *)
(* referral another referrer, each in a goroutine that calls ModifyUser,   *)
(* and starts again when one of them, or the DELETE, meets a newcomer.     *)
(*                                                                         *)
(* Of a row: the referrer, whether the system chose it, whether the face   *)
(* was verified, the counter of verified referrals.  Everybody has a       *)
(* username.  Ids are numbers; at first users were created in that order.  *)
(***************************************************************************)
EXTENDS Integers, FiniteSets

CONSTANTS
  Users, Procs, None,
  Default,            \* the default referral: a user nobody deletes
  MaxReferralsCount,  \* verified referrals after which the system diverts
  MaxRequests, MaxFaults   \* bounds

ASSUME UsersAssumption ==
  /\ Users \subseteq Nat \ {0} /\ IsFiniteSet(Users) /\ Default = 0
  /\ None \notin Nat
  /\ {MaxReferralsCount, MaxRequests, MaxFaults} \subseteq Nat

Ids == Users \cup {Default}

VARIABLES
  row,       \* row[u]: the row of table users, or NoRow
  refs,      \* refs[u]: rows of other tables that belong to u
  req,       \* req[p]: the request p is serving
  call,      \* call[p][u]: the ModifyUser that p runs for u
  requests, faults,   \* so far
  mutual,    \* users that once were their own referrer's referrer; never read
  gone       \* gone[r]: verified referrals of r that were deleted; never read

vars == <<row, refs, req, call, requests, faults, mutual, gone>>
table == <<row, refs, mutual, gone>>

NoRow == [ref |-> None, random |-> FALSE, kyc |-> FALSE, t1 |-> 0, born |-> 0]
Row == [ref : Ids \cup {None}, random : BOOLEAN, kyc : BOOLEAN, t1 : Nat, born : Nat]
Exists(u) == row[u].ref # None
Members == {u \in Ids : Exists(u)}

NoCall == [pc |-> "none", ref |-> None, random |-> FALSE, kyc |-> FALSE, old |-> NoRow]
Call == [pc : {"none", "read", "share", "update", "send", "rollback", "ok", "retry", "failed"},
         ref : Ids \cup {None}, random : BOOLEAN, kyc : BOOLEAN, old : Row]

IdleReq == [pc |-> "idle", op |-> "none", user |-> None, ref |-> None]
Req == [pc : {"idle", "insert", "created", "modify", "references", "select", "join", "delete"},
        op : {"none", "create", "modify", "delete"},
        user : Users \cup {None}, ref : Ids \cup {None}]

\* The column verified, which the trigger recomputes on every update.
Verified(u, r) == r.ref # u /\ r.kyc

\* "referred_by != NEW.id": a referrer who refers back does not count u.
Counts(rows, u, r) == r # u /\ rows[r].ref # u

VerifiedReferrals(rows, r) ==
  {u \in Ids \ {r} : rows[u].ref = r /\ Verified(u, rows[u])}

Mutual(rows) == {u \in Ids : \E v \in Ids \ {u} : rows[u].ref = v /\ rows[v].ref = u}

TypeOK ==
  /\ row \in [Ids -> Row]
  /\ refs \in [Ids -> BOOLEAN]
  /\ req \in [Procs -> Req]
  /\ call \in [Procs -> [Ids -> Call]]
  /\ \A p \in Procs, u \in Ids : call[p][u] # NoCall => req[p].pc \in {"modify", "join"}
  /\ \A p \in Procs : req[p].pc # "idle" => req[p].user \in Users
  /\ \A u \in Ids : row[u] = NoRow \/ row[u].ref \in Members
  /\ requests \in 0..MaxRequests /\ faults \in 0..MaxFaults
  /\ mutual \subseteq Ids
  /\ gone \in [Ids -> Nat]

\* The default user and some others, each referred by an earlier one or by
\* nobody, all of them verified, the counters right.
Init ==
  /\ \E M \in {Users \cap 1..n : n \in Users}, r \in [Users -> Ids] :
       /\ \A u \in Users : IF u \in M THEN r[u] \in (M \cup {Default}) \cap 0..u ELSE r[u] = u
       /\ LET new == [u \in Ids |->
                IF u \in M THEN [NoRow EXCEPT !.ref = r[u], !.kyc = TRUE, !.born = u]
                ELSE IF u = Default THEN [NoRow EXCEPT !.ref = Default] ELSE NoRow]
          IN  row = [x \in Ids |-> [new[x] EXCEPT !.t1 = Cardinality(VerifiedReferrals(new, x))]]
       /\ refs = [u \in Ids |-> u \in M]
  /\ req = [p \in Procs |-> IdleReq]
  /\ call = [p \in Procs |-> [u \in Ids |-> NoCall]]
  /\ requests = 0 /\ faults = 0 /\ mutual = {}
  /\ gone = [u \in Ids |-> 0]

Goto(p, pc) == req' = [req EXCEPT ![p].pc = pc]
Finished(p) == req' = [req EXCEPT ![p] = IdleReq]
CallGoto(p, u, pc) == call' = [call EXCEPT ![p][u].pc = pc]
Fault == faults < MaxFaults /\ faults' = faults + 1
-----------------------------------------------------------------------------
(* The table.                                                              *)

\* Mutant of CountBefore: a referral that was verified before counts again.
CountBeforeNever(u, old, new) == FALSE

\* Whether the old referrer counted u already (NEW.verified = OLD.verified).
CountBefore(u, old, new) == Verified(u, old) /\ old.ref = new.ref

\* before_update_on_users: the counters of the old and the new referrer
\* follow from the row before and after, in the same transaction.
Triggered(u, new) ==
  LET old == row[u]
      plus(x) == /\ Verified(u, new) /\ ~ CountBefore(u, old, new)
                 /\ x = new.ref /\ Counts(row, u, x)
      minus(x) == /\ Verified(u, old) /\ ~ (Verified(u, new) /\ old.ref = new.ref)
                  /\ x = old.ref /\ Counts(row, u, x)
  IN  [x \in Ids |->
        IF x = u THEN new
        ELSE IF plus(x) THEN [row[x] EXCEPT !.t1 = @ + 1]
        ELSE IF minus(x) /\ row[x].t1 > 0 THEN [row[x] EXCEPT !.t1 = @ - 1]
        ELSE row[x]]

Update(u, new) ==
  /\ row' = Triggered(u, new)
  /\ mutual' = mutual \cup Mutual(row')
  /\ UNCHANGED <<refs, gone>>

\* The foreign key of referred_by, checked when the column changes.
Referable(u, r) == r = row[u].ref \/ r \in Members \cup {u}

\* replaceReferredByWithARandomOneIfT1ReferralsSharingEnabled: whom the
\* system may put in the place of the referrer r that u has named.  The draw is
\* from all users: "id != ANY" of two ids leaves out neither.
Diverted(u, r) ==
  {r} \cup {x \in Members :
              /\ r # u /\ Verified(r, row[r]) /\ row[r].t1 >= MaxReferralsCount
              /\ Verified(x, row[x]) /\ row[x].t1 = 0}
-----------------------------------------------------------------------------
(* ModifyUser, called for a request or by the deletion of a referrer.      *)

\* A user may give a referrer only once.
SecondChoice(u, c) ==
  ~ c.random /\ c.ref \notin {None, row[u].ref} /\ row[u].ref # u

\* What the read makes of the call c: refused, or the backup and the next
\* statement.
AfterRead(u, c) ==
  IF ~ Exists(u) THEN [c EXCEPT !.pc = "retry"]
  ELSE IF SecondChoice(u, c) THEN [c EXCEPT !.pc = "failed"]
  ELSE [c EXCEPT !.old = row[u],
                 !.pc = IF c.ref \in {None, u, row[u].ref} THEN "update" ELSE "share"]

ReadUser(p, u) ==
  /\ call[p][u].pc = "read"
  /\ call' = [call EXCEPT ![p][u] = AfterRead(u, @)]
  /\ UNCHANGED <<table, req, requests, faults>>

\* The call returns: to the client, or to the goroutine that waits for all.
Return(p, u, pc) ==
  IF req[p].op = "modify"
  THEN Finished(p) /\ call' = [call EXCEPT ![p][u] = NoCall]
  ELSE CallGoto(p, u, pc) /\ UNCHANGED req

ShareReferral(p, u) ==
  /\ call[p][u].pc = "share"
  /\ \E x \in Diverted(u, call[p][u].ref) :
       call' = [call EXCEPT ![p][u].ref = x, ![p][u].pc = "update"]
  /\ UNCHANGED <<table, req, requests, faults>>

\* Mutant of ReferredBy: what was read before decides, not the row.
ReferredByLastWins(u, ref, random) == IF ref = None THEN row[u].ref ELSE ref

\* CASE WHEN random THEN new ELSE COALESCE(NULLIF(REFERRED_BY,ID),new) END
ReferredBy(u, ref, random) ==
  IF ref # None /\ (random \/ row[u].ref = u) THEN ref ELSE row[u].ref

Modified(u, c) ==
  [row[u] EXCEPT !.ref = ReferredBy(u, c.ref, c.random),
                 !.random = IF c.ref = None THEN @ ELSE c.random,
                 !.kyc = IF c.ref = None THEN c.kyc ELSE @]

UpdateUser(p, u) ==
  /\ call[p][u].pc = "update"
  /\ LET new == Modified(u, call[p][u])
     IN  \/ ~ Exists(u) /\ Return(p, u, "failed") /\ UNCHANGED table
         \/ /\ Exists(u) /\ ~ Referable(u, new.ref)
            /\ Return(p, u, "retry") /\ UNCHANGED table
         \/ /\ Exists(u) /\ Referable(u, new.ref)
            /\ Update(u, new) /\ CallGoto(p, u, "send") /\ UNCHANGED req
  /\ UNCHANGED <<requests, faults>>

SendSnapshot(p, u) ==
  /\ call[p][u].pc = "send"
  /\ \/ Return(p, u, "ok") /\ UNCHANGED faults
     \/ Fault /\ CallGoto(p, u, "rollback") /\ UNCHANGED req
  /\ UNCHANGED <<table, requests>>

\* sanitizeUser: a referrer equal to the id is shown as "".
Sanitized(u, old) == IF old.ref = u THEN None ELSE old.ref

\* The row is updated from the backup, which was sanitized when the snapshot was
\* built; the update leaves alone what is "".
Backup(u, old) ==
  [row[u] EXCEPT !.ref = ReferredBy(u, Sanitized(u, old), old.random),
                 !.random = old.random,
                 !.kyc = old.kyc]

RollbackUser(p, u) ==
  /\ call[p][u].pc = "rollback"
  /\ LET new == Backup(u, call[p][u].old)
     IN  IF Exists(u) /\ Referable(u, new.ref) THEN Update(u, new) ELSE UNCHANGED table
  /\ Return(p, u, "failed")
  /\ UNCHANGED <<requests, faults>>
-----------------------------------------------------------------------------
(* Requests; each begins with its first statement.                         *)

Start(p, r) ==
  /\ req[p].pc = "idle"
  /\ requests < MaxRequests
  /\ requests' = requests + 1
  /\ req' = [req EXCEPT ![p] = r]
  /\ UNCHANGED <<table, faults>>

Modification == [NoCall EXCEPT !.pc = "read"]

\* PATCH of the referrer, or of the state of the face verification.
StartModifyUser(p, u) ==
  \E c \in {[Modification EXCEPT !.ref = r] : r \in Ids \ {u}}
            \cup {[Modification EXCEPT !.kyc = k] : k \in BOOLEAN} :
    /\ AfterRead(u, c).pc \notin {"retry", "failed"}
    /\ Start(p, [IdleReq EXCEPT !.pc = "modify", !.op = "modify", !.user = u])
    /\ call' = [call EXCEPT ![p][u] = AfterRead(u, c)]

Forget(p) == call' = [call EXCEPT ![p] = [u \in Ids |-> NoCall]]

\* POST: the referrer is optional, and never the user.
StartCreateUser(p, u) ==
  /\ \E r \in Ids : \E x \in IF r = u THEN {u} ELSE Diverted(u, r) :
       Start(p, [pc |-> "insert", op |-> "create", user |-> u, ref |-> x])
  /\ UNCHANGED call

InsertUser(p) ==
  /\ req[p].pc = "insert"
  /\ LET u == req[p].user
         r == req[p].ref
     IN  IF Exists(u) \/ r \notin Members \cup {u}
         THEN Finished(p) /\ UNCHANGED table
         ELSE /\ row' = [row EXCEPT ![u] = [NoRow EXCEPT
                           !.ref = r, !.born = Cardinality(Users) + requests]]
              /\ mutual' = mutual \ {u}
              /\ gone' = [gone EXCEPT ![u] = 0]
              /\ Goto(p, "created")
              /\ UNCHANGED refs
  /\ UNCHANGED <<call, requests, faults>>

\* When the message fails, the new user is deleted like any other.
SendCreated(p) ==
  /\ req[p].pc = "created"
  /\ \/ Finished(p) /\ UNCHANGED faults
     \/ Fault /\ Goto(p, "references")
  /\ UNCHANGED <<table, call, requests>>

StartDeleteUser(p, u) ==
  /\ Exists(u)
  /\ Start(p, [IdleReq EXCEPT !.pc = "references", !.op = "delete", !.user = u])
  /\ UNCHANGED call

DeleteUserReferences(p) ==
  /\ req[p].pc = "references"
  /\ refs' = [refs EXCEPT ![req[p].user] = FALSE]
  /\ Goto(p, "select")
  /\ UNCHANGED <<row, mutual, gone, call, requests, faults>>

\* Whom a referral u of d may be given to; the draw may also find nobody.
NewReferrers(u, d) ==
  {u} \cup {r \in Members \ {Default, d, u} :
              row[r].ref \notin {r, d, u} /\ row[r].born < row[u].born}

Referrals(d) == {u \in Members \ {d} : row[u].ref = d}

\* The query and one goroutine for each referral.
Reassign(p, new) ==
  /\ req[p].pc = "select"
  /\ LET d == req[p].user
     IN  /\ DOMAIN new = Referrals(d)
         /\ \A u \in Referrals(d) : new[u] \in NewReferrers(u, d)
         /\ call' = [call EXCEPT ![p] = [u \in Ids |->
              IF u \in Referrals(d)
              THEN [Modification EXCEPT !.ref = new[u], !.random = TRUE] ELSE NoCall]]
  /\ Goto(p, "join")
  /\ UNCHANGED <<table, requests, faults>>

SelectReferrals(p) ==
  req[p].pc = "select" /\ \E new \in [Referrals(req[p].user) -> Ids] : Reassign(p, new)

\* The draw finds nobody for any referral.
SelectNobody(p) == req[p].pc = "select" /\ Reassign(p, [u \in Referrals(req[p].user) |-> u])

\* One error to be retried repeats the whole; else one error ends it.  What
\* deleteUser then reads of the user once more is only for the message.
JoinReferrals(p) ==
  /\ req[p].pc = "join"
  /\ \A u \in Ids : call[p][u].pc \in {"none", "ok", "retry", "failed"}
  /\ LET Some(pc) == \E u \in Ids : call[p][u].pc = pc
     IN  \/ Some("retry") /\ Goto(p, "select")
         \/ ~ Some("retry") /\ Some("failed") /\ Finished(p)
         \/ ~ Some("retry") /\ ~ Some("failed") /\ Goto(p, "delete")
  /\ Forget(p)
  /\ UNCHANGED <<table, requests, faults>>

\* Mutant of AfterConflict: the statement alone is repeated.
AfterConflictDelete == "delete"

\* A foreign key stops the DELETE: deleteUser starts again.
AfterConflict == "references"

\* The snapshot and the tombstone that follow change nothing here.
DeleteRow(p) ==
  /\ req[p].pc = "delete"
  /\ LET d == req[p].user
         r == row[d].ref
     IN  IF refs[d] \/ Referrals(d) # {}
         THEN Goto(p, AfterConflict) /\ UNCHANGED table
         ELSE /\ row' = [row EXCEPT ![d] = NoRow]
              /\ gone' = IF Exists(d) /\ Verified(d, row[d]) /\ Counts(row, d, r)
                         THEN [gone EXCEPT ![r] = @ + 1] ELSE gone
              /\ Finished(p)
              /\ UNCHANGED <<refs, mutual>>
  /\ UNCHANGED <<call, requests, faults>>

\* A device reports itself: a row with a foreign key to the user.
AddReference(u) ==
  /\ Exists(u) /\ ~ refs[u] /\ requests < MaxRequests
  /\ refs' = [refs EXCEPT ![u] = TRUE]
  /\ requests' = requests + 1
  /\ UNCHANGED <<row, mutual, gone, req, call, faults>>

CallStep(p, u) ==
  \/ ReadUser(p, u) \/ ShareReferral(p, u) \/ UpdateUser(p, u)
  \/ SendSnapshot(p, u) \/ RollbackUser(p, u)

RequestStep(p) ==
  \/ InsertUser(p) \/ SendCreated(p)
  \/ DeleteUserReferences(p) \/ SelectReferrals(p) \/ JoinReferrals(p) \/ DeleteRow(p)

Next ==
  \/ \E p \in Procs, u \in Ids : CallStep(p, u)
  \/ \E p \in Procs : RequestStep(p)
  \/ \E p \in Procs, u \in Users :
       StartCreateUser(p, u) \/ StartModifyUser(p, u) \/ StartDeleteUser(p, u)
  \/ \E u \in Users : AddReference(u)

Spec == Init /\ [][Next]_vars

\* Goroutines are scheduled; requests come when they come.  The draws are
\* random: one that is repeated for ever finds nobody again and again.
FairSpec ==
  /\ Spec
  /\ \A p \in Procs : WF_vars(RequestStep(p)) /\ SF_vars(SelectNobody(p))
  /\ \A p \in Procs, u \in Ids : WF_vars(CallStep(p, u))
-----------------------------------------------------------------------------
\* The counter that decides when the system diverts new referrals counts
\* every verified referral once, whatever updates, rollbacks and deletions
\* ran: it is off only by the referrals that were deleted while they counted
\* (no trigger on DELETE), unless the user once was a referrer's referrer.
VerifiedCounted ==
  \A r \in Members \ mutual :
    row[r].t1 = Cardinality(VerifiedReferrals(row, r)) + gone[r]

\* Two choices of one user at once, a choice while the referrer is deleted,
\* two deletions of one user: the first choice holds until that referrer
\* leaves or the update is undone, and nobody leaves who is referred to.
Directory == INSTANCE Membership WITH
  ref <- [u \in Ids |-> row[u].ref],
  leaving <- {req[p].user : p \in {q \in Procs :
                req[q].pc \in {"references", "select", "join", "delete"}}},
  moving <- {u \in Ids : \E p \in Procs : call[p][u].pc # "none" /\ call[p][u].random},
  undoing <- {u \in Ids : \E p \in Procs : call[p][u].pc = "rollback"}

ReferrerKept == Directory!Spec

\* Every request ends: a deletion that meets newcomers, devices and other
\* deletions starts again only while there are some.  Or else the system
\* diverts referrals for ever: nothing keeps it from diverting one to the
\* very user who is being deleted.
Divert(p, u) == ShareReferral(p, u) /\ call'[p][u].ref # call[p][u].ref

RequestsEnd ==
  \/ []<><<\E p \in Procs, u \in Ids : Divert(p, u)>>_vars
  \/ \A p \in Procs : []<>(req[p].pc = "idle")
=============================================================================
