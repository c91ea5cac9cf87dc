------------------------ MODULE UserLifecycleProofs -------------------------
(***************************************************************************)
(* Proof that the requests on the users table implement Membership, for    *)
(* any users, requests at once and faults.                                 *)
(*                                                                         *)
(* The invariant is about the shape of the state: who is being deleted is  *)
(* a user.  The rest is one step of Membership for each statement that     *)
(* changes a referrer, and none for the others.                            *)
(***************************************************************************)
EXTENDS UserLifecycle, FiniteSetTheorems, TLAPS

RowShape(r) ==
  /\ r = [ref |-> r.ref, random |-> r.random, kyc |-> r.kyc, t1 |-> r.t1, born |-> r.born]
  /\ r.ref \in Ids \cup {None}

ReqShape(r) ==
  /\ r = [pc |-> r.pc, op |-> r.op, user |-> r.user, ref |-> r.ref]
  /\ r.pc # "idle" => r.user \in Users

CallShape(c) ==
  c = [pc |-> c.pc, ref |-> c.ref, random |-> c.random, kyc |-> c.kyc, old |-> c.old]

RowsOK  == row = [u \in Ids |-> row[u]] /\ \A u \in Ids : RowShape(row[u])
ReqsOK  == req = [p \in Procs |-> req[p]] /\ \A p \in Procs : ReqShape(req[p])
CallsOK ==
  /\ call = [p \in Procs |-> call[p]]
  /\ \A p \in Procs : call[p] = [u \in Ids |-> call[p][u]]
  /\ \A p \in Procs, u \in Ids : CallShape(call[p][u])

IInv == RowsOK /\ ReqsOK /\ CallsOK

\* What the variables of Membership stand for.
Ref      == [u \in Ids |-> row[u].ref]
Deleting == {"references", "select", "join", "delete"}
Leaving  == {req[p].user : p \in {q \in Procs : req[q].pc \in Deleting}}
Moves(c) == c.pc # "none" /\ c.random
Moving   == {u \in Ids : \E p \in Procs : Moves(call[p][u])}
Undoing  == {u \in Ids : \E p \in Procs : call[p][u].pc = "rollback"}

LEMMA Distinct == None \notin Ids /\ Users \subseteq Ids /\ Default \in Ids /\ Default \notin Users
<1>1. Users \subseteq Nat /\ 0 \notin Users /\ Default = 0 /\ None \notin Nat
  BY UsersAssumption
<1>2. Ids \subseteq Nat
  BY <1>1 DEF Ids
<1> QED BY <1>1, <1>2 DEF Ids

LEMMA DirectoryMeans ==
  /\ Directory!vars = <<Ref, Leaving, Moving, Undoing>>
  /\ Directory!Members = Members
BY DEF Directory!vars, Directory!Members, Ref, Leaving, Moving, Undoing, Moves, Deleting,
       Members, Exists
-----------------------------------------------------------------------------
(* How the records change.                                                 *)

LEMMA PutReq ==
  ASSUME ReqsOK, NEW p \in Procs, NEW r, ReqShape(r), req' = [req EXCEPT ![p] = r]
  PROVE  ReqsOK'
BY DEF ReqsOK

LEMMA GotoOK ==
  ASSUME ReqsOK, NEW p \in Procs, NEW pc, req[p].pc # "idle", Goto(p, pc)
  PROVE  ReqsOK'
<1>1. PICK r : r = [req[p] EXCEPT !.pc = pc]
  OBVIOUS
<1>2. req' = [req EXCEPT ![p] = r]
  BY <1>1 DEF Goto
<1>3. ReqShape(r)
  BY <1>1 DEF ReqsOK, ReqShape
<1> QED BY <1>2, <1>3, PutReq

LEMMA FinishedOK ==
  ASSUME ReqsOK, NEW p \in Procs, Finished(p)
  PROVE  ReqsOK'
<1>1. ReqShape(IdleReq)
  BY DEF ReqShape, IdleReq
<1> QED BY <1>1, PutReq DEF Finished

\* No call begins to give a member another referrer.
CallsStay == \A p \in Procs, u \in Ids : Moves(call'[p][u]) => Moves(call[p][u])

LEMMA PutCall ==
  ASSUME CallsOK, NEW p \in Procs, NEW u \in Ids, NEW c, CallShape(c),
         Moves(c) => Moves(call[p][u]), call' = [call EXCEPT ![p][u] = c]
  PROVE  CallsOK' /\ CallsStay
<1>1. \A q \in Procs, v \in Ids :
        call'[q][v] = IF q = p /\ v = u THEN c ELSE call[q][v]
  BY DEF CallsOK
<1>2. CallsOK'
  BY <1>1 DEF CallsOK
<1> QED BY <1>1, <1>2 DEF CallsStay

LEMMA SameCall ==
  ASSUME CallsOK, UNCHANGED call
  PROVE  CallsOK' /\ CallsStay
BY DEF CallsOK, CallsStay

LEMMA CallGotoOK ==
  ASSUME CallsOK, NEW p \in Procs, NEW u \in Ids, NEW pc, call[p][u].pc # "none",
         CallGoto(p, u, pc)
  PROVE  CallsOK' /\ CallsStay
<1>1. PICK c : c = [call[p][u] EXCEPT !.pc = pc]
  OBVIOUS
<1>2. call' = [call EXCEPT ![p][u] = c]
  BY <1>1 DEF CallGoto
<1>3. CallShape(c) /\ c.random = call[p][u].random
  <2>1. CallShape(call[p][u])
    BY DEF CallsOK
  <2> QED BY <1>1, <2>1 DEF CallShape
<1> QED BY <1>2, <1>3, PutCall DEF Moves

LEMMA NoCallOK == CallShape(NoCall) /\ ~ Moves(NoCall)
BY DEF CallShape, NoCall, Moves

LEMMA ReturnOK ==
  ASSUME ReqsOK, CallsOK, NEW p \in Procs, NEW u \in Ids, NEW pc, call[p][u].pc # "none",
         Return(p, u, pc)
  PROVE  ReqsOK' /\ CallsOK' /\ CallsStay
<1>1. CASE Finished(p) /\ call' = [call EXCEPT ![p][u] = NoCall]
  BY <1>1, FinishedOK, NoCallOK, PutCall
<1>2. CASE CallGoto(p, u, pc) /\ UNCHANGED req
  BY <1>2, CallGotoOK DEF ReqsOK
<1> QED BY <1>1, <1>2 DEF Return
-----------------------------------------------------------------------------
(* How the referrers change.                                               *)

\* A step of Membership, but for the books.
RefStep ==
  \/ Ref' = Ref
  \/ \E u \in Ids : Directory!Leave(u)
  \/ \E u \in Ids, r \in Ids : Directory!Join(u, r)
  \/ \E u \in Ids, r \in Ids : Directory!Choose(u, r)
  \/ \E u \in Ids, r \in Ids : Directory!Move(u, r)

LEMMA MembersRef ==
  /\ \A u \in Ids : Ref[u] = row[u].ref
  /\ Members = {u \in Ids : Ref[u] # None}
BY DEF Ref, Members, Exists

\* The trigger changes nobody's referrer but the user's.
LEMMA UpdateOK ==
  ASSUME RowsOK, NEW u \in Ids, NEW new, RowShape(new), Update(u, new)
  PROVE  RowsOK' /\ Ref' = [Ref EXCEPT ![u] = new.ref]
<1>1. row' = Triggered(u, new)
  BY DEF Update
<1>2. ASSUME NEW x \in Ids
      PROVE  /\ RowShape(row'[x])
             /\ row'[x].ref = IF x = u THEN new.ref ELSE row[x].ref
  <2>1. RowShape(row[x])
    BY DEF RowsOK
  <2>2. \/ row'[x] = new /\ x = u
        \/ x # u /\ row'[x] = row[x]
        \/ x # u /\ row'[x] = [row[x] EXCEPT !.t1 = @ + 1]
        \/ x # u /\ row'[x] = [row[x] EXCEPT !.t1 = @ - 1]
    BY <1>1 DEF Triggered
  <2>3. CASE row'[x] = [row[x] EXCEPT !.t1 = @ + 1]
    BY <2>1, <2>2, <2>3 DEF RowShape
  <2>4. CASE row'[x] = [row[x] EXCEPT !.t1 = @ - 1]
    BY <2>1, <2>2, <2>4 DEF RowShape
  <2> QED BY <2>1, <2>2, <2>3, <2>4
<1>3. row' = [x \in Ids |-> row'[x]]
  BY <1>1 DEF Triggered
<1> QED BY <1>2, <1>3 DEF RowsOK, Ref

LEMMA SameTable ==
  ASSUME RowsOK, UNCHANGED table
  PROVE  RowsOK' /\ RefStep
BY DEF RowsOK, table, RefStep, Ref

\* An update that the foreign key lets pass: the referrer stays, or is chosen
\* by a user who has none, or is replaced by those who may.
LEMMA ReferrerStep ==
  ASSUME RowsOK, NEW u \in Ids, NEW ref, NEW random, NEW new,
         Exists(u), RowShape(row[u]), RowShape(new), new.ref = ReferredBy(u, ref, random),
         Referable(u, new.ref), Update(u, new),
         random => u \in Moving \cup Undoing
  PROVE  RowsOK' /\ RefStep
<1>1. RowsOK' /\ Ref' = [Ref EXCEPT ![u] = new.ref]
  BY UpdateOK
<1>2. CASE new.ref = row[u].ref
  BY <1>1, <1>2 DEF RefStep, Ref
<1>3. CASE new.ref # row[u].ref
  <2>1. u \in Members /\ new.ref \in Members
    BY <1>3 DEF Referable, Members
  <2>2. CASE random
    <3>1. Directory!Move(u, new.ref)
      BY <1>1, <2>1, <2>2, DirectoryMeans
         DEF Directory!Move, Ref, Moving, Undoing, Moves
    <3> QED BY <1>1, <2>1, <3>1 DEF RefStep, Members
  <2>3. CASE ~ random
    <3>1. row[u].ref = u
      BY <1>3, <2>3 DEF ReferredBy
    <3>2. Directory!Choose(u, new.ref)
      BY <1>1, <2>1, <3>1, DirectoryMeans DEF Directory!Choose, Ref
    <3> QED BY <1>1, <2>1, <3>2 DEF RefStep, Members
  <2> QED BY <2>2, <2>3
<1> QED BY <1>1, <1>2, <1>3
-----------------------------------------------------------------------------
(* One lemma for each kind of step: the shapes, the referrer, the books.   *)

Kept == IInv' /\ RefStep /\ CallsStay

LEMMA ReadUserKept ==
  ASSUME IInv, NEW p \in Procs, NEW u \in Ids, ReadUser(p, u)
  PROVE  Kept
<1> DEFINE c == AfterRead(u, call[p][u])
<1>1. CallShape(call[p][u]) /\ call[p][u].pc = "read"
  BY DEF IInv, CallsOK, ReadUser
<1>2. CallShape(c) /\ c.random = call[p][u].random
  BY <1>1 DEF AfterRead, CallShape
<1>3. call' = [call EXCEPT ![p][u] = c]
  BY DEF ReadUser
<1> HIDE DEF c
<1>4. CallsOK' /\ CallsStay
  BY <1>1, <1>2, <1>3, PutCall DEF IInv, Moves
<1> QED BY <1>4, SameTable DEF ReadUser, Kept, IInv, ReqsOK

LEMMA ShareReferralKept ==
  ASSUME IInv, NEW p \in Procs, NEW u \in Ids, ShareReferral(p, u)
  PROVE  Kept
<1>1. CallShape(call[p][u]) /\ call[p][u].pc = "share"
  BY DEF IInv, CallsOK, ShareReferral
<1>2. PICK x : call' = [call EXCEPT ![p][u].ref = x, ![p][u].pc = "update"]
  BY DEF ShareReferral
<1>3. PICK c : c = [call[p][u] EXCEPT !.ref = x, !.pc = "update"]
  OBVIOUS
<1>4. call' = [call EXCEPT ![p][u] = c]
  BY <1>2, <1>3 DEF IInv, CallsOK
<1>5. CallShape(c) /\ c.random = call[p][u].random
  BY <1>1, <1>3 DEF CallShape
<1>6. CallsOK' /\ CallsStay
  BY <1>1, <1>4, <1>5, PutCall DEF IInv, Moves
<1> QED BY <1>6, SameTable DEF ShareReferral, Kept, IInv, ReqsOK

LEMMA UpdateUserKept ==
  ASSUME IInv, NEW p \in Procs, NEW u \in Ids, UpdateUser(p, u)
  PROVE  Kept
<1> DEFINE c == call[p][u]
<1>0. PICK new : new = Modified(u, c)
  OBVIOUS
<1>1. c.pc = "update"
  BY DEF UpdateUser
<1>2. CASE UNCHANGED table /\ \E pc : Return(p, u, pc)
  BY <1>1, <1>2, SameTable, ReturnOK DEF Kept, IInv
<1>3. CASE Exists(u) /\ Referable(u, new.ref) /\ Update(u, new) /\ CallGoto(p, u, "send")
           /\ UNCHANGED req
  <2>1. RowShape(row[u])
    BY DEF IInv, RowsOK
  <2>2. /\ new = [ref |-> new.ref, random |-> new.random, kyc |-> new.kyc,
                  t1 |-> new.t1, born |-> new.born]
        /\ new.ref = ReferredBy(u, c.ref, c.random)
    BY <1>0, <2>1 DEF RowShape, Modified
  <2>3. RowShape(new)
    BY <1>3, <2>1, <2>2 DEF RowShape, Referable, Members
  <2>4. c.random => u \in Moving
    BY <1>1 DEF Moving, Moves
  <2>5. RowsOK' /\ RefStep
    BY <1>3, <2>1, <2>2, <2>3, <2>4, ReferrerStep DEF IInv
  <2>6. CallsOK' /\ CallsStay
    BY <1>1, <1>3, CallGotoOK DEF IInv
  <2> QED BY <1>3, <2>5, <2>6 DEF Kept, IInv, ReqsOK
<1> QED BY <1>0, <1>2, <1>3 DEF UpdateUser

LEMMA SendSnapshotKept ==
  ASSUME IInv, NEW p \in Procs, NEW u \in Ids, SendSnapshot(p, u)
  PROVE  Kept
<1>1. call[p][u].pc = "send" /\ RowsOK' /\ RefStep
  BY SameTable DEF SendSnapshot, IInv
<1>2. CASE Return(p, u, "ok")
  BY <1>1, <1>2, ReturnOK DEF Kept, IInv
<1>3. CASE CallGoto(p, u, "rollback") /\ UNCHANGED req
  BY <1>1, <1>3, CallGotoOK DEF Kept, IInv, ReqsOK
<1> QED BY <1>2, <1>3 DEF SendSnapshot

LEMMA RollbackUserKept ==
  ASSUME IInv, NEW p \in Procs, NEW u \in Ids, RollbackUser(p, u)
  PROVE  Kept
<1> DEFINE old == call[p][u].old
<1>0. PICK new : new = Backup(u, old)
  OBVIOUS
<1>1. call[p][u].pc = "rollback" /\ Return(p, u, "failed")
  BY DEF RollbackUser
<1>2. ReqsOK' /\ CallsOK' /\ CallsStay
  BY <1>1, ReturnOK DEF IInv
<1>3. CASE UNCHANGED table
  BY <1>2, <1>3, SameTable DEF Kept, IInv
<1>4. CASE Exists(u) /\ Referable(u, new.ref) /\ Update(u, new)
  <2>1. RowShape(row[u])
    BY DEF IInv, RowsOK
  <2>2. /\ new = [ref |-> new.ref, random |-> new.random, kyc |-> new.kyc,
                  t1 |-> new.t1, born |-> new.born]
        /\ new.ref = ReferredBy(u, Sanitized(u, old), old.random)
    BY <1>0, <2>1 DEF RowShape, Backup
  <2>3. RowShape(new)
    BY <1>4, <2>1, <2>2 DEF RowShape, Referable, Members
  <2>4. u \in Undoing
    BY <1>1 DEF Undoing
  <2>5. RowsOK' /\ RefStep
    BY <1>4, <2>1, <2>2, <2>3, <2>4, ReferrerStep DEF IInv
  <2> QED BY <1>2, <2>5 DEF Kept, IInv
<1> QED BY <1>0, <1>3, <1>4 DEF RollbackUser

LEMMA StartOK ==
  ASSUME IInv, NEW p \in Procs, NEW r, ReqShape(r), Start(p, r)
  PROVE  RowsOK' /\ ReqsOK' /\ RefStep
BY PutReq, SameTable DEF Start, IInv

LEMMA ModificationIs ==
  Modification = [pc |-> "read", ref |-> None, random |-> FALSE, kyc |-> FALSE, old |-> NoRow]
<1>1. PICK none : none = NoCall
  OBVIOUS
<1>2. PICK m : m = [none EXCEPT !.pc = "read"]
  OBVIOUS
<1>3. none = [pc |-> "none", ref |-> None, random |-> FALSE, kyc |-> FALSE, old |-> NoRow]
  BY <1>1 DEF NoCall
<1>4. m = [pc |-> "read", ref |-> None, random |-> FALSE, kyc |-> FALSE, old |-> NoRow]
  BY <1>2, <1>3
<1> QED BY <1>1, <1>2, <1>4 DEF Modification

LEMMA StartModifyUserKept ==
  ASSUME IInv, NEW p \in Procs, NEW u \in Users, StartModifyUser(p, u)
  PROVE  Kept
<1>0. PICK q : q = [IdleReq EXCEPT !.pc = "modify", !.op = "modify", !.user = u]
  OBVIOUS
<1>1. PICK c : /\ \/ \E r \in Ids : c = [Modification EXCEPT !.ref = r]
                  \/ \E k \in BOOLEAN : c = [Modification EXCEPT !.kyc = k]
               /\ Start(p, q) /\ call' = [call EXCEPT ![p][u] = AfterRead(u, c)]
  BY <1>0 DEF StartModifyUser
<1>3. CallShape(c) /\ c.random = FALSE
  BY <1>1, ModificationIs DEF CallShape
<1>4. PICK d : d = AfterRead(u, c)
  OBVIOUS
<1>5. CallShape(d) /\ d.random = FALSE
  BY <1>3, <1>4 DEF AfterRead, CallShape
<1>6. CallsOK' /\ CallsStay
  BY <1>1, <1>4, <1>5, PutCall, Distinct DEF IInv, Moves
<1>7. ReqShape(q)
  BY <1>0 DEF ReqShape, IdleReq
<1> QED BY <1>1, <1>6, <1>7, StartOK DEF Kept, IInv

LEMMA StartOtherKept ==
  ASSUME IInv, NEW p \in Procs, NEW u \in Users, StartCreateUser(p, u) \/ StartDeleteUser(p, u)
  PROVE  Kept
<1>1. UNCHANGED call
  BY DEF StartCreateUser, StartDeleteUser
<1>2. CASE StartCreateUser(p, u)
  <2>1. PICK x : Start(p, [pc |-> "insert", op |-> "create", user |-> u, ref |-> x])
    BY <1>2 DEF StartCreateUser
  <2>2. PICK r : r = [pc |-> "insert", op |-> "create", user |-> u, ref |-> x]
    OBVIOUS
  <2>3. ReqShape(r)
    BY <2>2 DEF ReqShape
  <2> QED BY <1>1, <2>1, <2>2, <2>3, StartOK, SameCall DEF Kept, IInv
<1>3. CASE StartDeleteUser(p, u)
  <2>1. PICK r : r = [IdleReq EXCEPT !.pc = "references", !.op = "delete", !.user = u]
    OBVIOUS
  <2>2. ReqShape(r)
    BY <2>1 DEF ReqShape, IdleReq
  <2>3. Start(p, r)
    BY <1>3, <2>1 DEF StartDeleteUser
  <2> QED BY <1>1, <2>2, <2>3, StartOK, SameCall DEF Kept, IInv
<1> QED BY <1>2, <1>3

LEMMA InsertUserKept ==
  ASSUME IInv, NEW p \in Procs, InsertUser(p)
  PROVE  Kept
<1> DEFINE u == req[p].user
           r == req[p].ref
<1>1. req[p].pc = "insert" /\ u \in Users /\ u \in Ids /\ UNCHANGED call
  BY Distinct DEF InsertUser, IInv, ReqsOK, ReqShape
<1>2. CASE Finished(p) /\ UNCHANGED table
  BY <1>1, <1>2, FinishedOK, SameTable, SameCall DEF Kept, IInv
<1>3. CASE /\ ~ Exists(u) /\ r \in Members \cup {u} /\ Goto(p, "created")
           /\ \E born : row' = [row EXCEPT ![u] = [NoRow EXCEPT !.ref = r, !.born = born]]
  <2>1. PICK born : row' = [row EXCEPT ![u] = [NoRow EXCEPT !.ref = r, !.born = born]]
    BY <1>3
  <2>2. PICK new : new = [NoRow EXCEPT !.ref = r, !.born = born]
    OBVIOUS
  <2>3. r \in Ids
    BY <1>1, <1>3 DEF Members
  <2>4. RowShape(new) /\ new.ref = r
    BY <2>2, <2>3 DEF RowShape, NoRow
  <2>5. RowsOK' /\ Ref' = [Ref EXCEPT ![u] = r]
    BY <1>1, <2>1, <2>2, <2>4 DEF IInv, RowsOK, Ref
  <2>6. \E v \in Ids, x \in Ids : Directory!Join(v, x)
    <3>1. PICK v \in Ids, x \in Ids : v = u /\ x = r
      BY <1>1, <2>3
    <3>2. Directory!Join(v, x)
      BY <1>1, <1>3, <2>5, <3>1, DirectoryMeans DEF Directory!Join, Ref, Exists
    <3> QED BY <3>2
  <2>7. RefStep
    BY <2>6 DEF RefStep
  <2> QED BY <1>1, <1>3, <2>5, <2>7, GotoOK, SameCall DEF Kept, IInv
<1> QED BY <1>2, <1>3 DEF InsertUser

LEMMA SendCreatedKept ==
  ASSUME IInv, NEW p \in Procs, SendCreated(p)
  PROVE  Kept
<1>1. req[p].pc = "created" /\ UNCHANGED <<table, call>>
  BY DEF SendCreated
<1>2. ReqsOK'
  BY <1>1, GotoOK, FinishedOK DEF SendCreated, IInv
<1> QED BY <1>1, <1>2, SameTable, SameCall DEF Kept, IInv

LEMMA ReferencesKept ==
  ASSUME IInv, \/ \E p \in Procs : DeleteUserReferences(p)
               \/ \E u \in Users : AddReference(u)
  PROVE  Kept
<1>1. UNCHANGED <<row, call>>
  BY DEF DeleteUserReferences, AddReference
<1>2. RowsOK' /\ RefStep
  BY <1>1 DEF IInv, RowsOK, RefStep, Ref
<1>3. ReqsOK'
  BY GotoOK DEF DeleteUserReferences, AddReference, IInv, ReqsOK
<1> QED BY <1>1, <1>2, <1>3, SameCall DEF Kept, IInv

LEMMA JoinReferralsKept ==
  ASSUME IInv, NEW p \in Procs, JoinReferrals(p)
  PROVE  Kept
<1>1. req[p].pc = "join" /\ Forget(p) /\ UNCHANGED table
  BY DEF JoinReferrals
<1>2. ReqsOK'
  BY <1>1, GotoOK, FinishedOK DEF JoinReferrals, IInv
<1>3. \A q \in Procs, u \in Ids : call'[q][u] = IF q = p THEN NoCall ELSE call[q][u]
  BY <1>1 DEF Forget, IInv, CallsOK
<1>4. CallsOK'
  BY <1>1, <1>3, NoCallOK DEF Forget, IInv, CallsOK
<1>5. CallsStay
  BY <1>3, NoCallOK DEF CallsStay
<1> QED BY <1>1, <1>2, <1>4, <1>5, SameTable DEF Kept, IInv

\* Nobody refers to whom the foreign key lets go.
LEMMA DeleteRowKept ==
  ASSUME IInv, NEW p \in Procs, DeleteRow(p)
  PROVE  Kept
<1> DEFINE d == req[p].user
<1>1. req[p].pc = "delete" /\ d \in Users /\ d \in Ids /\ UNCHANGED call
  BY Distinct DEF DeleteRow, IInv, ReqsOK, ReqShape
<1>2. CASE Goto(p, AfterConflict) /\ UNCHANGED table
  BY <1>1, <1>2, GotoOK, SameTable, SameCall DEF Kept, IInv
<1>3. CASE Referrals(d) = {} /\ row' = [row EXCEPT ![d] = NoRow] /\ Finished(p)
  <2>1. RowShape(NoRow) /\ NoRow.ref = None
    BY DEF RowShape, NoRow
  <2>2. RowsOK' /\ Ref' = [Ref EXCEPT ![d] = None]
    BY <1>1, <1>3, <2>1 DEF IInv, RowsOK, Ref
  <2>3. \A v \in Ids \ {d} : Ref[v] # d
    BY <1>1, <1>3, Distinct DEF Referrals, Members, Exists, Ref
  <2>4. d \in Leaving
    BY <1>1 DEF Leaving, Deleting
  <2>5. \E v \in Ids : Directory!Leave(v)
    <3>1. PICK v \in Ids : v = d
      BY <1>1
    <3>2. Directory!Leave(v)
      BY <2>2, <2>3, <2>4, <3>1 DEF Directory!Leave, Ref, Leaving, Deleting
    <3> QED BY <3>2
  <2>6. RefStep
    BY <2>5 DEF RefStep
  <2> QED BY <1>1, <1>3, <2>2, <2>6, FinishedOK, SameCall DEF Kept, IInv
<1> QED BY <1>2, <1>3 DEF DeleteRow
-----------------------------------------------------------------------------
(* The deletion gives every referral another referrer.                     *)

NewMoves == \A u \in Moving' \ Moving : row[u].ref \in Leaving \ {u}

LEMMA ReassignMoves ==
  ASSUME IInv, NEW p \in Procs, NEW new, Reassign(p, new)
  PROVE  IInv' /\ RefStep /\ NewMoves
<1> DEFINE d == req[p].user
           c(u) == IF u \in Referrals(d)
                   THEN [Modification EXCEPT !.ref = new[u], !.random = TRUE] ELSE NoCall
<1>1. req[p].pc = "select" /\ Goto(p, "join") /\ UNCHANGED table
  BY DEF Reassign
<1>2. call' = [call EXCEPT ![p] = [u \in Ids |-> c(u)]]
  BY DEF Reassign
<1>3. ASSUME NEW u \in Ids
      PROVE  CallShape(c(u)) /\ (Moves(c(u)) => u \in Referrals(d))
  <2>2. CASE u \in Referrals(d)
    <3>1. PICK x : x = [Modification EXCEPT !.ref = new[u], !.random = TRUE]
      OBVIOUS
    <3>2. CallShape(x) /\ c(u) = x
      BY <2>2, <3>1, ModificationIs DEF CallShape
    <3> QED BY <2>2, <3>2
  <2>3. CASE u \notin Referrals(d)
    BY <2>3, NoCallOK
  <2> QED BY <2>2, <2>3
<1> HIDE DEF c
<1>4. \A q \in Procs, u \in Ids : call'[q][u] = IF q = p THEN c(u) ELSE call[q][u]
  BY <1>2 DEF IInv, CallsOK
<1>5. CallsOK'
  BY <1>2, <1>3, <1>4 DEF IInv, CallsOK
<1>6. NewMoves
  <2>1. SUFFICES ASSUME NEW u \in Moving' \ Moving
                 PROVE  row[u].ref \in Leaving \ {u}
    BY DEF NewMoves
  <2>2. u \in Ids /\ \E q \in Procs : Moves(call'[q][u]) /\ ~ Moves(call[q][u])
    BY DEF Moving, Moves
  <2>3. u \in Referrals(d)
    BY <1>3, <1>4, <2>2
  <2>4. d \in Leaving
    BY <1>1 DEF Leaving, Deleting
  <2> QED BY <2>3, <2>4 DEF Referrals
<1>7. ReqsOK'
  BY <1>1, GotoOK DEF IInv
<1> QED BY <1>1, <1>5, <1>6, <1>7, SameTable DEF IInv
-----------------------------------------------------------------------------
(* The refinement.                                                         *)

LEMMA InitMaps == Init => IInv /\ Directory!Init
<1> SUFFICES ASSUME Init PROVE IInv /\ Directory!Init
  OBVIOUS
<1>1. PICK M \in {Users \cap 1..n : n \in Users}, r \in [Users -> Ids] :
        LET new == [u \in Ids |->
              IF u \in M THEN [NoRow EXCEPT !.ref = r[u], !.kyc = TRUE, !.born = u]
              ELSE IF u = Default THEN [NoRow EXCEPT !.ref = Default] ELSE NoRow]
        IN  row = [x \in Ids |-> [new[x] EXCEPT !.t1 = Cardinality(VerifiedReferrals(new, x))]]
  BY Zenon DEF Init
<1>2. \A u \in Ids : RowShape(row[u])
  <2> SUFFICES ASSUME NEW u \in Ids PROVE RowShape(row[u])
    OBVIOUS
  <2>1. PICK x, n : /\ \/ u \in M /\ x = [NoRow EXCEPT !.ref = r[u], !.kyc = TRUE, !.born = u]
                       \/ u = Default /\ x = [NoRow EXCEPT !.ref = Default]
                       \/ x = NoRow
                    /\ row[u] = [x EXCEPT !.t1 = n]
    BY <1>1
  <2>2. RowShape(x)
    BY <1>1, <2>1, Distinct DEF RowShape, NoRow
  <2> QED BY <2>1, <2>2 DEF RowShape
<1>3. row = [u \in Ids |-> row[u]]
  BY <1>1
<1>4. req = [p \in Procs |-> IdleReq] /\ call = [p \in Procs |-> [u \in Ids |-> NoCall]]
  BY DEF Init
<1>5. ReqsOK
  BY <1>4 DEF ReqsOK, ReqShape, IdleReq
<1>6. CallsOK
  BY <1>4, NoCallOK DEF CallsOK
<1>7. Ref \in [Ids -> Ids \cup {None}]
  BY <1>2 DEF Ref, RowShape
<1>8. Leaving = {} /\ Moving = {} /\ Undoing = {}
  BY <1>4 DEF Leaving, Deleting, Moving, Moves, Undoing, IdleReq, NoCall
<1>9. Directory!Init
  BY <1>7, <1>8 DEF Directory!Init, Ref, Leaving, Deleting, Moving, Moves, Undoing
<1> QED BY <1>2, <1>3, <1>5, <1>6, <1>9 DEF IInv, RowsOK

\* A step of Membership is one of a referrer and of the books.
LEMMA StepMaps ==
  ASSUME IInv, IInv', RefStep, NewMoves
  PROVE  Directory!Next
<1>1. Leaving' \subseteq Ids /\ Moving' \subseteq Ids /\ Undoing' \subseteq Ids
  BY Distinct DEF Leaving, Deleting, Moving, Undoing, IInv, ReqsOK, ReqShape
<1>2. \A u \in Moving' \ Moving : Ref[u] \in Leaving \ {u}
  BY DEF NewMoves, Ref, Moving
<1>3. Directory!Book
  BY <1>1, <1>2
     DEF Directory!Book, Directory!Movable, Ref, Leaving, Deleting, Moving, Moves, Undoing
<1> QED BY <1>3 DEF Directory!Next, RefStep, Ref

LEMMA KeptMaps ==
  ASSUME IInv, Kept
  PROVE  IInv' /\ Directory!Next
<1>1. NewMoves
  BY DEF NewMoves, Kept, CallsStay, Moving
<1> QED BY <1>1, StepMaps DEF Kept

LEMMA NextMaps ==
  ASSUME IInv, [Next]_vars
  PROVE  IInv' /\ [Directory!Next]_(Directory!vars)
<1>1. ASSUME NEW p \in Procs, NEW u \in Ids, CallStep(p, u)
      PROVE  Kept
  BY <1>1, ReadUserKept, ShareReferralKept, UpdateUserKept, SendSnapshotKept,
     RollbackUserKept DEF CallStep
<1>2. ASSUME NEW p \in Procs, RequestStep(p)
      PROVE  IInv' /\ Directory!Next
  <2>1. CASE SelectReferrals(p)
    <3>1. PICK new : Reassign(p, new)
      BY <2>1 DEF SelectReferrals
    <3> QED BY <3>1, ReassignMoves, StepMaps
  <2>2. CASE ~ SelectReferrals(p)
    <3>1. Kept
      BY <1>2, <2>2, InsertUserKept, SendCreatedKept, ReferencesKept, JoinReferralsKept,
         DeleteRowKept DEF RequestStep
    <3> QED BY <3>1, KeptMaps
  <2> QED BY <2>1, <2>2
<1>3. ASSUME NEW p \in Procs, NEW u \in Users,
             StartCreateUser(p, u) \/ StartModifyUser(p, u) \/ StartDeleteUser(p, u)
      PROVE  Kept
  BY <1>3, StartModifyUserKept, StartOtherKept
<1>4. ASSUME NEW u \in Users, AddReference(u)
      PROVE  Kept
  BY <1>4, ReferencesKept
<1>5. CASE Next
  BY <1>1, <1>2, <1>3, <1>4, <1>5, KeptMaps DEF Next
<1>6. CASE UNCHANGED vars
  <2>1. UNCHANGED <<row, req, call>>
    BY <1>6 DEF vars
  <2>2. IInv'
    BY <2>1 DEF IInv, RowsOK, ReqsOK, CallsOK
  <2>3. UNCHANGED <<Ref, Leaving, Moving, Undoing>>
    BY <2>1 DEF Ref, Leaving, Deleting, Moving, Moves, Undoing
  <2>4. UNCHANGED Directory!vars
    BY <2>3 DEF Directory!vars, Ref, Leaving, Deleting, Moving, Moves, Undoing
  <2> QED BY <2>2, <2>4
<1> QED BY <1>5, <1>6

\* Requests that create, modify and delete users at once, with their faults,
\* keep what Membership promises, for any users and any number of requests:
\* a chosen referrer stays until it leaves or the update is undone, and
\* nobody leaves whom somebody still refers to.
THEOREM ReferrerKeptHolds == Spec => ReferrerKept
<1>1. Init => IInv /\ Directory!Init
  BY InitMaps
<1>2. IInv /\ [Next]_vars => IInv' /\ [Directory!Next]_(Directory!vars)
  BY NextMaps
<1> QED BY <1>1, <1>2, PTL DEF Spec, ReferrerKept, Directory!Spec
-----------------------------------------------------------------------------
(* The counters of verified referrals.  A counter follows every change of  *)
(* the set it counts, since the trigger runs in the same transaction; it   *)
(* needs that who refers back is known to have done so, and that nobody    *)
(* refers to a user who is not there.                                      *)

CountersOK     == \A u \in Ids : row[u].t1 \in Nat /\ gone[u] \in Nat
ReferrersExist == \A u \in Members : row[u].ref \in Members
MutualNoted    == Mutual(row) \subseteq mutual

CountInv ==
  /\ IInv
  /\ CountersOK
  /\ gone = [u \in Ids |-> gone[u]]
  /\ ReferrersExist
  /\ MutualNoted
  /\ VerifiedCounted

LEMMA ReferralsFinite ==
  ASSUME NEW rows, NEW r
  PROVE  /\ IsFiniteSet(VerifiedReferrals(rows, r))
         /\ Cardinality(VerifiedReferrals(rows, r)) \in Nat
<1>1. IsFiniteSet({Default})
  BY FS_Singleton
<1>2. IsFiniteSet(Users)
  BY UsersAssumption
<1>3. IsFiniteSet(Ids)
  BY <1>1, <1>2, FS_Union DEF Ids
<1>4. VerifiedReferrals(rows, r) \subseteq Ids
  BY DEF VerifiedReferrals
<1> QED BY <1>3, <1>4, FS_Subset, FS_CardinalityType

\* Rows that differ in what one user says of its referrer.
DiffersAt(u, old, new) ==
  \A x \in Ids \ {u} : new[x].ref = old[x].ref /\ (new[x].kyc <=> old[x].kyc)

\* The referrals of everybody else change by that user.
LEMMA OneReferral ==
  ASSUME NEW old, NEW new, NEW u \in Ids, NEW r \in Ids, DiffersAt(u, old, new)
  PROVE  LET A == VerifiedReferrals(old, r)
             B == VerifiedReferrals(new, r)
         IN  /\ (u \in A <=> u \in B) => Cardinality(B) = Cardinality(A)
             /\ u \notin A /\ u \in B => Cardinality(B) = Cardinality(A) + 1
             /\ u \in A /\ u \notin B => Cardinality(A) = Cardinality(B) + 1
<1> DEFINE A == VerifiedReferrals(old, r)
           B == VerifiedReferrals(new, r)
<1>1. IsFiniteSet(A) /\ IsFiniteSet(B)
  BY ReferralsFinite
<1>2. \A x \in Ids \ {u} : x \in A <=> x \in B
  BY DEF DiffersAt, VerifiedReferrals, Verified
<1>3. A \subseteq Ids /\ B \subseteq Ids
  BY DEF VerifiedReferrals
<1> HIDE DEF A, B
<1>4. (u \in A <=> u \in B) => B = A
  BY <1>2, <1>3
<1>5. ASSUME u \notin A, u \in B PROVE Cardinality(B) = Cardinality(A) + 1
  <2>1. B = A \cup {u}
    BY <1>2, <1>3, <1>5
  <2> QED BY <1>1, <1>5, <2>1, FS_AddElement
<1>6. ASSUME u \in A, u \notin B PROVE Cardinality(A) = Cardinality(B) + 1
  <2>1. A = B \cup {u}
    BY <1>2, <1>3, <1>6
  <2> QED BY <1>1, <1>6, <2>1, FS_AddElement
<1> QED BY <1>4, <1>5, <1>6 DEF A, B

\* An update, by whatever request and with whatever referrer, keeps the counters.
LEMMA UpdateCounts ==
  ASSUME CountInv, IInv', NEW u \in Ids, NEW new, RowShape(new), RowShape(row[u]),
         Exists(u), Referable(u, new.ref), new.t1 = row[u].t1, Update(u, new)
  PROVE  CountInv'
<1>1. /\ row' = Triggered(u, new)
      /\ mutual' = mutual \cup Mutual(row')
      /\ gone' = gone
  BY DEF Update, table
<1>2. row'[u] = new
  BY <1>1 DEF Triggered
<1>3. ASSUME NEW x \in Ids \ {u}
      PROVE  /\ row'[x].ref = row[x].ref
             /\ row'[x].kyc <=> row[x].kyc
             /\ row'[x].t1 \in Nat
  <2>1. \/ row'[x] = row[x]
        \/ row'[x] = [row[x] EXCEPT !.t1 = @ + 1]
        \/ row[x].t1 > 0 /\ row'[x] = [row[x] EXCEPT !.t1 = @ - 1]
    BY <1>1 DEF Triggered
  <2>2. RowShape(row[x]) /\ row[x].t1 \in Nat
    BY DEF CountInv, IInv, RowsOK, CountersOK
  <2> QED BY <2>1, <2>2 DEF RowShape
<1>4. Members' = Members
  <2>1. new.ref # None
    BY Distinct DEF Referable, Exists, Members
  <2>2. \A x \in Ids : row'[x].ref # None <=> row[x].ref # None
    BY <1>2, <1>3, <2>1 DEF Exists
  <2> QED BY <2>2 DEF Members, Exists
<1>5. CountersOK'
  BY <1>1, <1>2, <1>3 DEF CountInv, CountersOK
<1>6. ReferrersExist'
  <2>1. u \in Members
    BY DEF Members
  <2>2. new.ref \in Members
    BY <2>1 DEF CountInv, ReferrersExist, Referable
  <2>3. \A x \in Members : row'[x].ref \in Members
    BY <1>2, <1>3, <2>2 DEF CountInv, ReferrersExist, Members
  <2> QED BY <1>4, <2>3 DEF ReferrersExist
<1>7. MutualNoted'
  BY <1>1 DEF MutualNoted
<1>8. ASSUME NEW r \in Members', r \notin mutual'
      PROVE  row'[r].t1 = Cardinality(VerifiedReferrals(row', r)) + gone'[r]
  <2> DEFINE A == VerifiedReferrals(row, r)
             B == VerifiedReferrals(row', r)
  <2>1. r \in Members /\ r \in Ids /\ r \notin mutual /\ r \notin Mutual(row)
    BY <1>1, <1>4, <1>8 DEF Members, CountInv, MutualNoted
  <2>2. row[r].t1 = Cardinality(A) + gone[r]
    BY <2>1 DEF CountInv, VerifiedCounted
  <2>3. DiffersAt(u, row, row')
    BY <1>3 DEF DiffersAt
  <2>4. /\ (u \in A <=> u \in B) => Cardinality(B) = Cardinality(A)
        /\ u \notin A /\ u \in B => Cardinality(B) = Cardinality(A) + 1
        /\ u \in A /\ u \notin B => Cardinality(A) = Cardinality(B) + 1
    BY <2>1, <2>3, OneReferral
  <2>5. Cardinality(A) \in Nat /\ Cardinality(B) \in Nat /\ gone[r] \in Nat /\ row[r].t1 \in Nat
    BY <2>1, ReferralsFinite DEF CountInv, CountersOK
  <2>6. CASE r = u
    <3>1. u \notin A /\ u \notin B
      BY <2>6 DEF VerifiedReferrals
    <3> QED BY <1>1, <1>2, <2>2, <2>4, <2>6, <3>1
  <2>7. CASE r # u
    <3>1. u \in A <=> row[u].ref = r /\ Verified(u, row[u])
      BY <2>7 DEF VerifiedReferrals
    <3>2. u \in B <=> new.ref = r /\ Verified(u, new)
      BY <1>2, <2>7 DEF VerifiedReferrals
    <3>3. u \in A \/ u \in B => Counts(row, u, r)
      <4>1. r \notin Mutual(row')
        BY <1>1, <1>8
      <4>2. (u \in A => row[u].ref = r) /\ (u \in B => row'[u].ref = r)
        BY <1>2, <3>1, <3>2
      <4>3. row'[r].ref = row[r].ref
        BY <1>3, <2>1, <2>7
      <4> QED BY <2>1, <2>7, <4>1, <4>2, <4>3 DEF Counts, Mutual
    <3>4. row'[r] = IF u \in B /\ u \notin A /\ Counts(row, u, r) THEN [row[r] EXCEPT !.t1 = @ + 1]
                    ELSE IF u \in A /\ u \notin B /\ Counts(row, u, r) /\ row[r].t1 > 0
                    THEN [row[r] EXCEPT !.t1 = @ - 1]
                    ELSE row[r]
      BY <1>1, <2>1, <2>7, <3>1, <3>2 DEF Triggered, CountBefore
    <3>5. RowShape(row[r])
      BY <2>1 DEF CountInv, IInv, RowsOK
    <3>6. row'[r].t1 = IF u \in B /\ u \notin A THEN row[r].t1 + 1
                       ELSE IF u \in A /\ u \notin B THEN row[r].t1 - 1 ELSE row[r].t1
      <4> HIDE DEF A, B
      <4>1. u \in A /\ u \notin B => row[r].t1 > 0
        BY <2>2, <2>4, <2>5
      <4> QED BY <3>3, <3>4, <3>5, <4>1 DEF RowShape
    <3> HIDE DEF A, B
    <3> QED BY <1>1, <2>2, <2>4, <2>5, <3>6 DEF B
  <2> QED BY <2>6, <2>7
<1>9. VerifiedCounted'
  BY <1>8 DEF VerifiedCounted
<1> QED BY <1>1, <1>5, <1>6, <1>7, <1>9 DEF CountInv

LEMMA SameCounts ==
  ASSUME CountInv, IInv', UNCHANGED <<row, mutual, gone>>
  PROVE  CountInv'
BY DEF CountInv, CountersOK, ReferrersExist, MutualNoted, VerifiedCounted, Members, Exists

\* A new user refers to a member, and nobody refers to it yet.
LEMMA InsertCounts ==
  ASSUME CountInv, IInv', NEW u \in Users, NEW r, NEW new,
         ~ Exists(u), r \in Members \cup {u},
         RowShape(new), new.ref = r, new.kyc = FALSE, new.t1 = 0,
         row' = [row EXCEPT ![u] = new],
         mutual' = mutual \ {u}, gone' = [gone EXCEPT ![u] = 0]
  PROVE  CountInv'
<1>1. u \in Ids /\ None \notin Ids /\ r \in Ids
  BY Distinct DEF Members
<1>2. /\ row'[u] = new
      /\ \A x \in Ids \ {u} : row'[x] = row[x]
  BY <1>1 DEF CountInv, IInv, RowsOK
<1>3. /\ gone'[u] = 0
      /\ \A x \in Ids \ {u} : gone'[x] = gone[x]
      /\ gone' = [x \in Ids |-> gone'[x]]
  BY <1>1 DEF CountInv
<1>4. Members' = Members \cup {u}
  BY <1>1, <1>2 DEF Members, Exists
<1>5. \A x \in Ids : row[x].ref # u
  BY <1>1 DEF CountInv, ReferrersExist, Members, Exists
<1>6. CountersOK'
  BY <1>2, <1>3 DEF CountInv, CountersOK
<1>7. ReferrersExist'
  BY <1>2, <1>4 DEF CountInv, ReferrersExist, Members
<1>8. MutualNoted'
  <2>1. \A x, y \in Ids :
          x # y /\ row'[x].ref = y /\ row'[y].ref = x => x # u /\ y # u
    BY <1>2, <1>5
  <2>2. Mutual(row') \subseteq Mutual(row) \ {u}
    BY <1>2, <2>1 DEF Mutual
  <2> QED BY <2>2 DEF CountInv, MutualNoted
<1>9. DiffersAt(u, row, row')
  BY <1>2 DEF DiffersAt
<1>10. ASSUME NEW x \in Members', x \notin mutual'
       PROVE  row'[x].t1 = Cardinality(VerifiedReferrals(row', x)) + gone'[x]
  <2>1. CASE x = u
    <3>1. VerifiedReferrals(row', u) = {}
      BY <1>2, <1>5 DEF VerifiedReferrals
    <3>2. Cardinality(VerifiedReferrals(row', u)) = 0
      BY <3>1, FS_EmptySet
    <3> QED BY <1>2, <1>3, <2>1, <3>2
  <2>2. CASE x # u
    <3>1. x \in Members \ mutual /\ x \in Ids
      BY <1>4, <1>10, <2>2 DEF Members
    <3>2. u \notin VerifiedReferrals(row, x) /\ u \notin VerifiedReferrals(row', x)
      BY <1>1, <1>2, <2>2, <3>1 DEF VerifiedReferrals, Verified, Exists
    <3>3. Cardinality(VerifiedReferrals(row', x)) = Cardinality(VerifiedReferrals(row, x))
      BY <1>1, <1>9, <3>1, <3>2, OneReferral
    <3> QED BY <1>2, <1>3, <2>2, <3>1, <3>3 DEF CountInv, VerifiedCounted
  <2> QED BY <2>1, <2>2
<1>11. VerifiedCounted'
  BY <1>10 DEF VerifiedCounted
<1> QED BY <1>3, <1>6, <1>7, <1>8, <1>11 DEF CountInv

\* No trigger runs when a row is deleted: what it was counted for stays.
LEMMA DeleteCounts ==
  ASSUME CountInv, IInv', NEW d \in Users, Referrals(d) = {},
         row' = [row EXCEPT ![d] = NoRow], mutual' = mutual,
         gone' = IF Exists(d) /\ Verified(d, row[d]) /\ Counts(row, d, row[d].ref)
                 THEN [gone EXCEPT ![row[d].ref] = @ + 1] ELSE gone
  PROVE  CountInv'
<1>1. d \in Ids /\ None \notin Ids
  BY Distinct
<1>2. /\ row'[d] = NoRow
      /\ \A x \in Ids \ {d} : row'[x] = row[x]
  BY <1>1 DEF CountInv, IInv, RowsOK
<1>3. NoRow.ref = None /\ NoRow.t1 = 0
  BY DEF NoRow
<1>4. Members' = Members \ {d}
  BY <1>1, <1>2, <1>3 DEF Members, Exists
<1>5. \A x \in Members \ {d} : row[x].ref # d
  BY DEF Referrals
<1>6. /\ gone' = [x \in Ids |-> gone'[x]]
      /\ \A x \in Ids : gone'[x] =
           IF Exists(d) /\ Verified(d, row[d]) /\ Counts(row, d, x) /\ row[d].ref = x
           THEN gone[x] + 1 ELSE gone[x]
  <2>1. Exists(d) => row[d].ref \in Ids
    BY <1>1 DEF CountInv, ReferrersExist, Members
  <2> QED BY <2>1 DEF CountInv
<1>7. CountersOK'
  BY <1>2, <1>3, <1>6 DEF CountInv, CountersOK
<1>8. ReferrersExist'
  BY <1>2, <1>4, <1>5 DEF CountInv, ReferrersExist
<1>9. MutualNoted'
  <2>1. Mutual(row') \subseteq Mutual(row)
    BY <1>1, <1>2, <1>3 DEF Mutual
  <2> QED BY <2>1 DEF CountInv, MutualNoted
<1>10. DiffersAt(d, row, row')
  BY <1>2 DEF DiffersAt
<1>11. ASSUME NEW x \in Members', x \notin mutual'
       PROVE  row'[x].t1 = Cardinality(VerifiedReferrals(row', x)) + gone'[x]
  <2> DEFINE A == VerifiedReferrals(row, x)
             B == VerifiedReferrals(row', x)
  <2>1. x \in Members \ mutual /\ x \in Ids /\ x # d
    BY <1>4, <1>11 DEF Members
  <2>2. row'[x].t1 = Cardinality(A) + gone[x]
    BY <1>2, <2>1 DEF CountInv, VerifiedCounted
  <2>3. d \notin B
    BY <1>1, <1>2, <1>3, <2>1 DEF VerifiedReferrals
  <2>4. d \in A <=> row[d].ref = x /\ Verified(d, row[d])
    BY <1>1, <2>1 DEF VerifiedReferrals
  <2>5. d \in A => Exists(d) /\ Counts(row, d, x)
    <3>1. x \notin Mutual(row)
      BY <2>1 DEF CountInv, MutualNoted
    <3> QED BY <1>1, <2>1, <2>4, <3>1 DEF Counts, Mutual, Exists
  <2>6. gone'[x] = IF d \in A THEN gone[x] + 1 ELSE gone[x]
    BY <1>6, <2>1, <2>4, <2>5
  <2>7. /\ d \notin A => Cardinality(B) = Cardinality(A)
        /\ d \in A => Cardinality(A) = Cardinality(B) + 1
    BY <1>1, <1>10, <2>1, <2>3, OneReferral
  <2>8. Cardinality(A) \in Nat /\ Cardinality(B) \in Nat /\ gone[x] \in Nat
    BY <2>1, ReferralsFinite DEF CountInv, CountersOK
  <2> HIDE DEF A, B
  <2>9. row'[x].t1 = Cardinality(B) + gone'[x]
    BY <2>2, <2>6, <2>7, <2>8
  <2> QED BY <2>9 DEF B
<1>12. VerifiedCounted'
  BY <1>11 DEF VerifiedCounted
<1> QED BY <1>6, <1>7, <1>8, <1>9, <1>12 DEF CountInv

LEMMA NextCounts ==
  ASSUME CountInv, [Next]_vars
  PROVE  CountInv'
<1>1. IInv /\ IInv'
  BY NextMaps DEF CountInv
<1>2. CASE UNCHANGED <<row, mutual, gone>>
  BY <1>1, <1>2, SameCounts
<1>3. ASSUME NEW p \in Procs, NEW u \in Ids, UpdateUser(p, u)
      PROVE  CountInv'
  <2>1. PICK new : new = Modified(u, call[p][u])
    OBVIOUS
  <2>2. RowShape(row[u])
    BY <1>1 DEF IInv, RowsOK
  <2>3. CASE Exists(u) /\ Referable(u, new.ref) /\ Update(u, new)
    <3>1. new = [ref |-> new.ref, random |-> new.random, kyc |-> new.kyc,
                 t1 |-> row[u].t1, born |-> new.born]
      BY <2>1, <2>2 DEF RowShape, Modified
    <3>2. RowShape(new) /\ new.t1 = row[u].t1
      BY <2>2, <2>3, <3>1 DEF RowShape, Referable, Members
    <3> QED BY <1>1, <2>2, <2>3, <3>2, UpdateCounts
  <2>4. CASE UNCHANGED table
    BY <1>2, <2>4 DEF table
  <2> QED BY <1>3, <2>1, <2>3, <2>4 DEF UpdateUser
<1>4. ASSUME NEW p \in Procs, NEW u \in Ids, RollbackUser(p, u)
      PROVE  CountInv'
  <2>1. PICK new : new = Backup(u, call[p][u].old)
    OBVIOUS
  <2>2. RowShape(row[u])
    BY <1>1 DEF IInv, RowsOK
  <2>3. CASE Exists(u) /\ Referable(u, new.ref) /\ Update(u, new)
    <3>1. new = [ref |-> new.ref, random |-> new.random, kyc |-> new.kyc,
                 t1 |-> row[u].t1, born |-> new.born]
      BY <2>1, <2>2 DEF RowShape, Backup
    <3>2. RowShape(new) /\ new.t1 = row[u].t1
      BY <2>2, <2>3, <3>1 DEF RowShape, Referable, Members
    <3> QED BY <1>1, <2>2, <2>3, <3>2, UpdateCounts
  <2>4. CASE UNCHANGED table
    BY <1>2, <2>4 DEF table
  <2> QED BY <1>4, <2>1, <2>3, <2>4 DEF RollbackUser
<1>5. ASSUME NEW p \in Procs, InsertUser(p)
      PROVE  CountInv'
  <2> DEFINE u == req[p].user
             r == req[p].ref
             born == Cardinality(Users) + requests
  <2>1. CASE UNCHANGED table
    BY <1>2, <2>1 DEF table
  <2>2. CASE /\ ~ Exists(u) /\ r \in Members \cup {u}
             /\ row' = [row EXCEPT ![u] = [NoRow EXCEPT !.ref = r, !.born = born]]
             /\ mutual' = mutual \ {u} /\ gone' = [gone EXCEPT ![u] = 0]
    <3>1. PICK new : new = [NoRow EXCEPT !.ref = r, !.born = born]
      OBVIOUS
    <3>2. new = [ref |-> r, random |-> FALSE, kyc |-> FALSE, t1 |-> 0, born |-> born]
      BY <3>1 DEF NoRow
    <3>3. u \in Users
      BY <1>1, <1>5 DEF InsertUser, IInv, ReqsOK, ReqShape
    <3>4. RowShape(new)
      BY <2>2, <3>2, <3>3, Distinct DEF RowShape, Members
    <3> QED BY <1>1, <2>2, <3>1, <3>2, <3>3, <3>4, InsertCounts
  <2> QED BY <1>5, <2>1, <2>2 DEF InsertUser
<1>6. ASSUME NEW p \in Procs, DeleteRow(p)
      PROVE  CountInv'
  <2>1. req[p].user \in Users
    BY <1>1, <1>6 DEF DeleteRow, IInv, ReqsOK, ReqShape
  <2>2. CASE UNCHANGED table
    BY <1>2, <2>2 DEF table
  <2>3. CASE ~ UNCHANGED table
    BY <1>1, <1>6, <2>1, <2>3, DeleteCounts DEF DeleteRow
  <2> QED BY <2>2, <2>3
<1>7. ASSUME NEW p \in Procs, NEW u \in Ids, CallStep(p, u)
      PROVE  CountInv'
  BY <1>2, <1>3, <1>4, <1>7 DEF CallStep, ReadUser, ShareReferral, SendSnapshot, table
<1>8. ASSUME NEW p \in Procs, RequestStep(p)
      PROVE  CountInv'
  BY <1>2, <1>5, <1>6, <1>8
     DEF RequestStep, SendCreated, DeleteUserReferences, SelectReferrals, Reassign,
         JoinReferrals, table
<1>9. ASSUME NEW p \in Procs, NEW u \in Users,
             StartCreateUser(p, u) \/ StartModifyUser(p, u) \/ StartDeleteUser(p, u)
      PROVE  CountInv'
  BY <1>2, <1>9 DEF StartCreateUser, StartModifyUser, StartDeleteUser, Start, table
<1>10. ASSUME NEW u \in Users, AddReference(u)
       PROVE  CountInv'
  BY <1>2, <1>10 DEF AddReference
<1>11. CASE UNCHANGED vars
  BY <1>2, <1>11 DEF vars
<1> QED BY <1>7, <1>8, <1>9, <1>10, <1>11 DEF Next

LEMMA InitCounts == Init => CountInv
<1> SUFFICES ASSUME Init PROVE CountInv
  OBVIOUS
<1>1. PICK M \in {Users \cap 1..n : n \in Users}, r \in [Users -> Ids] :
        /\ \A u \in Users : IF u \in M THEN r[u] \in (M \cup {Default}) \cap 0..u ELSE r[u] = u
        /\ LET new == [u \in Ids |->
                IF u \in M THEN [NoRow EXCEPT !.ref = r[u], !.kyc = TRUE, !.born = u]
                ELSE IF u = Default THEN [NoRow EXCEPT !.ref = Default] ELSE NoRow]
           IN  row = [x \in Ids |-> [new[x] EXCEPT !.t1 = Cardinality(VerifiedReferrals(new, x))]]
  BY Zenon DEF Init
<1>2. PICK new : /\ new = [u \in Ids |->
                      IF u \in M THEN [NoRow EXCEPT !.ref = r[u], !.kyc = TRUE, !.born = u]
                      ELSE IF u = Default THEN [NoRow EXCEPT !.ref = Default] ELSE NoRow]
                 /\ row = [x \in Ids |->
                      [new[x] EXCEPT !.t1 = Cardinality(VerifiedReferrals(new, x))]]
  BY <1>1
<1>3. M \subseteq Users
  BY <1>1
<1>4. ASSUME NEW u \in Ids
      PROVE  /\ new[u].ref = IF u \in M THEN r[u] ELSE IF u = Default THEN Default ELSE None
             /\ new[u].t1 = 0
             /\ new[u] = [ref |-> new[u].ref, random |-> new[u].random, kyc |-> new[u].kyc,
                          t1 |-> new[u].t1, born |-> new[u].born]
  <2>1. \/ u \in M /\ new[u] = [NoRow EXCEPT !.ref = r[u], !.kyc = TRUE, !.born = u]
        \/ u \notin M /\ u = Default /\ new[u] = [NoRow EXCEPT !.ref = Default]
        \/ u \notin M /\ u # Default /\ new[u] = NoRow
    BY <1>2
  <2>2. PICK none : none = NoRow
    OBVIOUS
  <2>3. none = [ref |-> None, random |-> FALSE, kyc |-> FALSE, t1 |-> 0, born |-> 0]
    BY <2>2 DEF NoRow
  <2>4. CASE u \in M /\ new[u] = [none EXCEPT !.ref = r[u], !.kyc = TRUE, !.born = u]
    BY <2>3, <2>4
  <2>5. CASE u \notin M /\ u = Default /\ new[u] = [none EXCEPT !.ref = Default]
    BY <2>3, <2>5
  <2>6. CASE u \notin M /\ u # Default /\ new[u] = none
    BY <2>3, <2>6
  <2> QED BY <2>1, <2>2, <2>4, <2>5, <2>6
<1>5. ASSUME NEW u \in Ids
      PROVE  /\ row[u].ref = new[u].ref /\ row[u].kyc = new[u].kyc
             /\ row[u].t1 = Cardinality(VerifiedReferrals(new, u))
  <2>1. row[u] = [new[u] EXCEPT !.t1 = Cardinality(VerifiedReferrals(new, u))]
    BY <1>2
  <2> QED BY <1>4, <2>1
<1>6. gone = [u \in Ids |-> 0] /\ mutual = {}
  BY DEF Init
<1>7. CountersOK
  BY <1>5, <1>6, ReferralsFinite DEF CountersOK
<1>8. \A u \in M : r[u] \in M \cup {Default} /\ r[u] \in 0..u /\ u \in Ids /\ u # Default
  BY <1>1, <1>3, Distinct
<1>9. \A u \in Ids : row[u].ref = IF u \in M THEN r[u] ELSE IF u = Default THEN Default ELSE None
  BY <1>4, <1>5
<1>10. Members = M \cup {Default}
  BY <1>8, <1>9, Distinct DEF Members, Exists
<1>11. ReferrersExist
  BY <1>10, <1>8, <1>9, Distinct DEF ReferrersExist
<1>12. MutualNoted
  <2>1. SUFFICES ASSUME NEW u \in Ids, NEW v \in Ids, u # v, row[u].ref = v, row[v].ref = u
                 PROVE  FALSE
    BY <1>6 DEF MutualNoted, Mutual
  <2>2. u \in Members /\ v \in Members
    BY <2>1, Distinct DEF Members, Exists
  <2>3. Ids \subseteq Nat
    BY UsersAssumption DEF Ids
  <2>4. ASSUME NEW x \in Members PROVE row[x].ref <= x
    <3>1. CASE x \in M
      BY <1>8, <1>9, <2>3, <3>1
    <3>2. CASE x \notin M
      <4>1. x = 0 /\ x \in Ids /\ Default = 0
        BY <1>10, <3>2, UsersAssumption, Distinct
      <4> QED BY <1>9, <3>2, <4>1
    <3> QED BY <3>1, <3>2
  <2> QED BY <2>1, <2>2, <2>3, <2>4
<1>13. VerifiedCounted
  <2>1. SUFFICES ASSUME NEW x \in Ids
                 PROVE  row[x].t1 = Cardinality(VerifiedReferrals(row, x)) + gone[x]
    BY DEF VerifiedCounted, Members
  <2>2. VerifiedReferrals(row, x) = VerifiedReferrals(new, x)
    BY <1>5 DEF VerifiedReferrals, Verified
  <2> QED BY <1>5, <1>6, <2>2, ReferralsFinite
<1>14. IInv
  BY InitMaps
<1> QED BY <1>6, <1>7, <1>11, <1>12, <1>13, <1>14 DEF CountInv

\* The counter that decides when the system diverts new referrals counts
\* every verified referral once, whatever updates, roll backs and deletions
\* run at once, for any number of users, requests and faults.
THEOREM VerifiedCountedHolds == Spec => []VerifiedCounted
<1>1. CountInv => VerifiedCounted
  BY DEF CountInv
<1> QED BY <1>1, InitCounts, NextCounts, PTL DEF Spec
=============================================================================
