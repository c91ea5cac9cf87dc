--------------------------- MODULE KYCSocialProofs --------------------------
(***************************************************************************)
(* Theorems about KYCSocial, for any users, requests, accounts and limits. *)
(***************************************************************************)
EXTENDS KYCSocial, FiniteSetTheorems, TLAPS

\* The steps of one request, as Next lists them.
Step(p) ==
  \/ \E u \in Users, s \in Steps, skip \in BOOLEAN : ValidateKycStep(p, u, s, skip)
  \/ VerifySkipped(p) \/ CountAttempts(p)
  \/ Verify(p) \/ SaveSocial(p)
  \/ RecordFailure(p) \/ RecordSession(p) \/ SaveSocialKYCStep(p)
  \/ ReadUser(p) \/ UpdateUser(p) \/ Notify(p) \/ RollBackUser(p)
  \/ Abort(p)

\* A request as TypeOK wants it; the account is known once it was found.
GoodReq(q) ==
  /\ q \in Req
  /\ q.pc # "idle" => q.user \in Users /\ q.step \in Steps
  /\ q.pc \in {"save", "complete"} => q.handle \in Handles

ReqTypeOK == req \in [Procs -> Req] /\ \A p \in Procs : GoodReq(req[p])

TablesTypeOK ==
  /\ now \in Times
  /\ passed \in [Users -> 0..10]
  /\ sessions \in [Users -> [Steps -> Nat]]
  /\ latest \in [Users -> [Steps -> Times]]
  /\ attempts \in [Users -> [Steps -> [Times -> Nat]]]
  /\ socials \in [Handles -> Users \cup {None}]
  /\ completed \in [Users -> [Steps -> Handles \cup {None}]]
  /\ faults \in 0..MaxFaults
  /\ conflict \in [Users -> [Steps -> BOOLEAN]]

\* The sessions the request has read are still on record.
CountStands(p) ==
  req[p].pc \in {"attempts", "verify", "save", "fail", "session", "complete"} =>
    req[p].sessions <= sessions[req[p].user][req[p].step]

\* The account whose step is about to be completed is the user's.
AccountStands(p) == req[p].pc = "complete" => socials[req[p].handle] = req[p].user

\* What the request is about to write to kyc_step_passed, and the old value it
\* may write back, are earned.
TargetStands(p) ==
  req[p].pc \in {"modify", "update"} /\ req[p].target # 0 =>
    Earned(req[p].user, req[p].target)

OldStands(p) ==
  req[p].pc \in {"update", "notify", "rollback"} /\ req[p].old # 0 =>
    Earned(req[p].user, req[p].old)

\* Only a message that failed is followed by a rollback.
RollbackStands(p) == req[p].pc = "rollback" => faults # 0

Stands(p) ==
  /\ CountStands(p) /\ AccountStands(p) /\ TargetStands(p)
  /\ OldStands(p) /\ RollbackStands(p)

\* The inductive invariant.
IInv ==
  /\ ReqTypeOK /\ TablesTypeOK
  /\ HandleOwned /\ PassedIsEarned
  /\ \A p \in Procs : Stands(p)

\* Records are only added to: what they entitle to stays.
Grows ==
  /\ \A u \in Users, s \in Steps : sessions'[u][s] >= sessions[u][s]
  /\ \A u \in Users, s \in Steps :
       completed[u][s] # None => completed'[u][s] = completed[u][s]
  /\ \A h \in Handles : socials[h] # None => socials'[h] = socials[h]
  /\ faults # 0 => faults' # 0
-----------------------------------------------------------------------------
LEMMA TypeOKSplit == ReqTypeOK /\ TablesTypeOK => TypeOK
BY DEF TypeOK, ReqTypeOK, TablesTypeOK, GoodReq

LEMMA NoneIsNobody == None \notin Users /\ None \notin Handles
BY SocialAssumption

LEMMA MaxOfTwo ==
  ASSUME NEW a \in Int, NEW b \in Int
  PROVE  /\ Max({a, b}) \in {a, b}
         /\ Max({a, b}) >= a /\ Max({a, b}) >= b
<1>1. \E x \in {a, b} : \A y \in {a, b} : x >= y
  <2>1. CASE a >= b
    BY <2>1
  <2>2. CASE b >= a
    BY <2>2
  <2> QED
    BY <2>1, <2>2
<1> QED
  BY <1>1 DEF Max

LEMMA StepRange ==
  ASSUME NEW s \in Steps
  PROVE  s \in 0..10 /\ Completed(s) \in 0..10
<1>1. s \in 3..10
  BY SocialAssumption
<1>2. Completed(s) \in {s, 4, 6}
  BY DEF Completed, Social1KYCStep, Social2KYCStep
<1> QED
  BY <1>1, <1>2

LEMMA EarnedKept ==
  ASSUME Grows, TablesTypeOK, TablesTypeOK', NEW u \in Users, NEW v, Earned(u, v)
  PROVE  Earned(u, v)'
<1>1. PICK s \in Steps : \/ v = s /\ sessions[u][s] >= MaxSessions
                         \/ v = Completed(s) /\ completed[u][s] # None
  BY DEF Earned
<1>2. CASE v = s /\ sessions[u][s] >= MaxSessions
  <2>1. sessions[u][s] \in Nat /\ sessions'[u][s] \in Nat /\ MaxSessions \in Nat
    BY SocialAssumption DEF TablesTypeOK
  <2>2. sessions'[u][s] >= MaxSessions
    BY <1>2, <2>1 DEF Grows
  <2> QED
    BY <1>2, <2>2 DEF Earned
<1>3. CASE v = Completed(s) /\ completed[u][s] # None
  <2>1. completed'[u][s] # None
    BY <1>3 DEF Grows
  <2> QED
    BY <1>3, <2>1 DEF Earned, Completed
<1> QED
  BY <1>1, <1>2, <1>3

\* A request whose fields and records stand as they did still stands.
LEMMA StandsKept ==
  ASSUME IInv, Grows, TablesTypeOK', ReqTypeOK', NEW o \in Procs,
         req'[o] = req[o]
  PROVE  Stands(o)'
<1>1. GoodReq(req[o]) /\ Stands(o) /\ TablesTypeOK
  BY DEF IInv, ReqTypeOK
<1>2. CountStands(o)'
  <2>1. SUFFICES ASSUME req[o].pc \in {"attempts", "verify", "save", "fail",
                                      "session", "complete"}
                 PROVE  req[o].sessions <= sessions'[req[o].user][req[o].step]
    BY DEF CountStands
  <2> DEFINE u == req[o].user
             s == req[o].step
  <2>2. u \in Users /\ s \in Steps
    BY <1>1, <2>1 DEF GoodReq
  <2>3. sessions[u][s] \in Nat /\ sessions'[u][s] \in Nat
    BY <1>1, <2>2 DEF TablesTypeOK
  <2>4. req[o].sessions \in Int
    BY <1>1, SocialAssumption DEF GoodReq, Req
  <2>5. req[o].sessions <= sessions[u][s]
    BY <1>1, <2>1 DEF Stands, CountStands
  <2>6. sessions'[u][s] >= sessions[u][s]
    BY <2>2 DEF Grows
  <2> QED
    BY <2>3, <2>4, <2>5, <2>6
<1>3. AccountStands(o)'
  <2>1. SUFFICES ASSUME req[o].pc = "complete"
                 PROVE  socials'[req[o].handle] = req[o].user
    BY DEF AccountStands
  <2>2. req[o].user \in Users /\ req[o].handle \in Handles
    BY <1>1, <2>1 DEF GoodReq
  <2>3. socials[req[o].handle] = req[o].user
    BY <1>1, <2>1 DEF Stands, AccountStands
  <2> QED
    BY <2>2, <2>3, NoneIsNobody DEF Grows
<1>4. TargetStands(o)'
  <2>1. SUFFICES ASSUME req[o].pc \in {"modify", "update"}, req[o].target # 0
                 PROVE  Earned(req[o].user, req[o].target)'
    BY DEF TargetStands
  <2>2. req[o].user \in Users
    BY <1>1, <2>1 DEF GoodReq
  <2>3. Earned(req[o].user, req[o].target)
    BY <1>1, <2>1 DEF Stands, TargetStands
  <2>4. PICK u \in Users : u = req[o].user
    BY <2>2
  <2>5. PICK v : v = req[o].target
    OBVIOUS
  <2>6. Earned(u, v)'
    BY <1>1, <2>3, <2>4, <2>5, EarnedKept
  <2> QED
    BY <2>4, <2>5, <2>6 DEF Earned
<1>5. OldStands(o)'
  <2>1. SUFFICES ASSUME req[o].pc \in {"update", "notify", "rollback"}, req[o].old # 0
                 PROVE  Earned(req[o].user, req[o].old)'
    BY DEF OldStands
  <2>2. req[o].user \in Users
    BY <1>1, <2>1 DEF GoodReq
  <2>3. Earned(req[o].user, req[o].old)
    BY <1>1, <2>1 DEF Stands, OldStands
  <2>4. PICK u \in Users : u = req[o].user
    BY <2>2
  <2>5. PICK v : v = req[o].old
    OBVIOUS
  <2>6. Earned(u, v)'
    BY <1>1, <2>3, <2>4, <2>5, EarnedKept
  <2> QED
    BY <2>4, <2>5, <2>6 DEF Earned
<1>6. RollbackStands(o)'
  BY <1>1 DEF Stands, RollbackStands, Grows
<1> QED
  BY <1>2, <1>3, <1>4, <1>5, <1>6 DEF Stands

\* One request moves to q, the records grow: what is left to show.
LEMMA Move ==
  ASSUME IInv, TablesTypeOK', Grows, NEW p \in Procs, NEW q, GoodReq(q),
         req' = [req EXCEPT ![p] = q],
         Stands(p)', HandleOwned', PassedIsEarned'
  PROVE  IInv'
<1>1. req \in [Procs -> Req] /\ q \in Req
  BY DEF IInv, ReqTypeOK, GoodReq
<1>2. req' \in [Procs -> Req]
  BY <1>1
<1>3. \A o \in Procs : req'[o] = IF o = p THEN q ELSE req[o]
  BY <1>1
<1>4. \A o \in Procs : GoodReq(req'[o])
  BY <1>3 DEF IInv, ReqTypeOK
<1>5. ReqTypeOK'
  BY <1>2, <1>4 DEF ReqTypeOK, GoodReq
<1>6. ASSUME NEW o \in Procs, o # p PROVE Stands(o)'
  BY <1>3, <1>5, <1>6, StandsKept
<1> QED
  BY <1>5, <1>6 DEF IInv

\* The same when the request writes no table.
LEMMA SameTables ==
  ASSUME IInv, UNCHANGED tables, now' \in Times,
         faults' \in 0..MaxFaults, faults # 0 => faults' # 0,
         conflict' \in [Users -> [Steps -> BOOLEAN]]
  PROVE  TablesTypeOK' /\ Grows /\ HandleOwned' /\ PassedIsEarned'
<1>1. TablesTypeOK'
  BY DEF IInv, TablesTypeOK, tables
<1>2. Grows
  BY DEF IInv, TablesTypeOK, tables, Grows
<1>3. HandleOwned'
  BY DEF IInv, HandleOwned, tables
<1>4. PassedIsEarned'
  BY DEF IInv, PassedIsEarned, Earned, tables
<1> QED
  BY <1>1, <1>2, <1>3, <1>4

LEMMA MoveOnly ==
  ASSUME IInv, UNCHANGED tables, now' \in Times,
         faults' \in 0..MaxFaults, faults # 0 => faults' # 0,
         conflict' \in [Users -> [Steps -> BOOLEAN]],
         NEW p \in Procs, NEW q, GoodReq(q), req' = [req EXCEPT ![p] = q],
         Stands(p)'
  PROVE  IInv'
BY SameTables, Move

LEMMA IdleGood == GoodReq(IdleReq)
<1>1. 0 \in Times /\ 0 \in 0..(MaxSessions - 1)
  BY SocialAssumption DEF Times
<1> QED
  BY <1>1, SocialAssumption DEF GoodReq, IdleReq, Req, PCs, UInt8

\* A request that is over leaves nothing to justify.
LEMMA OverStands ==
  ASSUME NEW p \in Procs, req \in [Procs -> Req], Finished(p)
  PROVE  Stands(p)'
<1>1. req'[p] = IdleReq
  BY DEF Finished
<1> QED
  BY <1>1 DEF Stands, CountStands, AccountStands, TargetStands, OldStands,
              RollbackStands, IdleReq

\* What is known of a request that is running.
LEMMA Running ==
  ASSUME IInv, NEW p \in Procs
  PROVE  /\ req \in [Procs -> Req] /\ req[p] \in Req /\ GoodReq(req[p]) /\ Stands(p)
         /\ TablesTypeOK
         /\ now \in Times /\ faults \in 0..MaxFaults /\ MaxFaults \in Nat
         /\ conflict \in [Users -> [Steps -> BOOLEAN]]
         /\ req[p].pc # "idle" => req[p].user \in Users /\ req[p].step \in Steps
BY SocialAssumption DEF IInv, ReqTypeOK, TablesTypeOK, GoodReq
-----------------------------------------------------------------------------
(* One lemma per step.                                                     *)

LEMMA RefuseType ==
  ASSUME conflict \in [Users -> [Steps -> BOOLEAN]], NEW u \in Users, NEW s \in Steps,
         NEW skip, Refuse(u, s, skip)
  PROVE  conflict' \in [Users -> [Steps -> BOOLEAN]]
<1> DEFINE b == conflict[u][s] \/ ~ skip
           f == [conflict[u] EXCEPT ![s] = b]
<1>1. b \in BOOLEAN
  OBVIOUS
<1>2. conflict[u] \in [Steps -> BOOLEAN]
  OBVIOUS
<1>3. conflict' = [conflict EXCEPT ![u] = f]
  BY Zenon DEF Refuse
<1> HIDE DEF b
<1>4. f \in [Steps -> BOOLEAN]
  BY <1>1, <1>2
<1> HIDE DEF f
<1> QED
  BY <1>3, <1>4

LEMMA ValidateStep ==
  ASSUME IInv, NEW p \in Procs, NEW u \in Users, NEW s \in Steps,
         NEW skip \in BOOLEAN, ValidateKycStep(p, u, s, skip)
  PROVE  IInv'
<1> DEFINE q == [IdleReq EXCEPT !.pc = "skipped", !.user = u, !.step = s,
                                !.skip = skip, !.now = now]
<1>1. conflict' \in [Users -> [Steps -> BOOLEAN]] /\ faults' = faults
      /\ now' = now /\ UNCHANGED tables
  <2>1. conflict' = conflict \/ Refuse(u, s, skip)
    BY DEF ValidateKycStep
  <2> QED
    BY <2>1, Running, RefuseType DEF ValidateKycStep
<1>2. CASE req' = req
  <2>1. req[p] \in Req /\ GoodReq(req[p]) /\ req' = [req EXCEPT ![p] = req[p]]
    BY <1>2, Running
  <2>2. Stands(p)'
    BY <1>1, <1>2, Running DEF Stands, CountStands, AccountStands, TargetStands,
       OldStands, RollbackStands, Earned, tables
  <2> QED
    BY <1>1, <2>1, <2>2, Running, MoveOnly
<1>3. CASE req' = [req EXCEPT ![p] = q]
  <2>1. IdleReq \in Req /\ now \in Times
    BY IdleGood, Running DEF GoodReq
  <2>2. GoodReq(q)
    BY <2>1 DEF GoodReq, Req, PCs
  <2>3. req'[p] = q /\ q.pc = "skipped"
    BY <1>3, <2>1, Running DEF IdleReq
  <2>4. Stands(p)'
    BY <2>3 DEF Stands, CountStands, AccountStands, TargetStands, OldStands,
       RollbackStands
  <2> QED
    BY <1>1, <1>3, <2>2, <2>4, Running, MoveOnly
<1> QED
  BY <1>2, <1>3 DEF ValidateKycStep

LEMMA VerifySkippedStep ==
  ASSUME IInv, NEW p \in Procs, VerifySkipped(p)
  PROVE  IInv'
<1> DEFINE u == req[p].user
           s == req[p].step
           pc == IF req[p].skip THEN "session" ELSE "attempts"
           q == [req[p] EXCEPT !.sessions = sessions[u][s], !.pc = pc]
<1>1. u \in Users /\ s \in Steps
  BY Running DEF VerifySkipped
<1>2. conflict' \in [Users -> [Steps -> BOOLEAN]] /\ faults' = faults
      /\ now' = now /\ UNCHANGED tables
  <2>1. conflict' = conflict \/ Refuse(u, s, req[p].skip)
    BY DEF VerifySkipped
  <2>2. conflict' = conflict => conflict' \in [Users -> [Steps -> BOOLEAN]]
    BY Running
  <2>3. Refuse(u, s, req[p].skip) => conflict' \in [Users -> [Steps -> BOOLEAN]]
    BY <1>1, Running, RefuseType
  <2> QED
    BY <2>1, <2>2, <2>3 DEF VerifySkipped
<1>3. CASE Finished(p)
  BY <1>2, <1>3, Running, IdleGood, OverStands, MoveOnly DEF Finished
<1>4. CASE ~ AllUsed(p) /\ req' = [req EXCEPT ![p].sessions = Mine(sessions, p),
                                              ![p].pc = pc]
  <2>1. sessions[u][s] \in 0..(MaxSessions - 1)
    BY <1>1, <1>4, Running, SocialAssumption DEF AllUsed, Mine, TablesTypeOK
  <2>2. req[p] \in Req /\ pc \in PCs
    BY Running DEF PCs
  <2>3. q \in Req /\ q.pc = pc /\ q.user = u /\ q.step = s /\ q.sessions = sessions[u][s]
    BY <2>1, <2>2 DEF Req
  <2>4. req' = [req EXCEPT ![p] = q]
    BY <1>4, <2>2, Running DEF Mine
  <2>5. req'[p] = q
    BY <2>4, Running
  <2>6. GoodReq(q)
    BY <1>1, <2>3 DEF GoodReq
  <2>7. Stands(p)'
    BY <1>2, <2>1, <2>3, <2>5 DEF Stands, CountStands, AccountStands, TargetStands,
       OldStands, RollbackStands, tables
  <2> QED
    BY <1>2, <2>4, <2>6, <2>7, Running, MoveOnly
<1> QED
  BY <1>3, <1>4 DEF VerifySkipped

LEMMA CountAttemptsStep ==
  ASSUME IInv, NEW p \in Procs, CountAttempts(p)
  PROVE  IInv'
<1>1. UNCHANGED tables /\ now' = now /\ faults' = faults /\ conflict' = conflict
  BY DEF CountAttempts
<1>2. CASE Finished(p)
  BY <1>1, <1>2, Running, IdleGood, OverStands, MoveOnly DEF Finished
<1>3. ASSUME NEW n \in UInt8,
             req' = [req EXCEPT ![p].pc = "verify", ![p].remaining = n]
      PROVE  IInv'
  <2> DEFINE q == [req[p] EXCEPT !.pc = "verify", !.remaining = n]
  <2>1. req[p] \in Req /\ req[p].pc = "attempts"
    BY Running DEF CountAttempts
  <2>2. q \in Req /\ q.pc = "verify" /\ q.user = req[p].user /\ q.step = req[p].step
        /\ q.sessions = req[p].sessions
    BY <2>1 DEF Req, PCs
  <2>3. req' = [req EXCEPT ![p] = q]
    BY <1>3, Running
  <2>4. GoodReq(q)
    BY <2>1, <2>2, Running DEF GoodReq
  <2>5. Stands(p)'
    BY <1>1, <2>1, <2>2, <2>3, Running DEF Stands, CountStands, AccountStands, TargetStands,
       OldStands, RollbackStands, tables
  <2> QED
    BY <1>1, <2>3, <2>4, <2>5, Running, MoveOnly
<1>4. \/ Finished(p)
      \/ \E n \in UInt8 : req' = [req EXCEPT ![p].pc = "verify", ![p].remaining = n]
  BY DEF CountAttempts
<1> QED
  BY <1>2, <1>3, <1>4

LEMMA VerifyStep ==
  ASSUME IInv, NEW p \in Procs, Verify(p)
  PROVE  IInv'
<1>1. UNCHANGED tables /\ now' = now /\ faults' = faults /\ conflict' = conflict
  BY DEF Verify
<1>2. req[p] \in Req /\ req[p].pc = "verify"
  BY Running DEF Verify
<1>3. CASE Goto(p, "fail")
  <2> DEFINE q == [req[p] EXCEPT !.pc = "fail"]
  <2>1. q \in Req /\ q.pc = "fail" /\ q.user = req[p].user /\ q.step = req[p].step
        /\ q.sessions = req[p].sessions
    BY <1>2 DEF Req, PCs
  <2>2. req' = [req EXCEPT ![p] = q]
    BY <1>3 DEF Goto
  <2>3. GoodReq(q)
    BY <1>2, <2>1, Running DEF GoodReq
  <2>4. Stands(p)'
    BY <1>1, <1>2, <2>1, <2>2, Running DEF Stands, CountStands, AccountStands, TargetStands,
       OldStands, RollbackStands, tables
  <2> QED
    BY <1>1, <2>2, <2>3, <2>4, Running, MoveOnly
<1>4. ASSUME NEW h \in Handles,
             req' = [req EXCEPT ![p].pc = "save", ![p].handle = h]
      PROVE  IInv'
  <2> DEFINE q == [req[p] EXCEPT !.pc = "save", !.handle = h]
  <2>1. q \in Req /\ q.pc = "save" /\ q.user = req[p].user /\ q.step = req[p].step
        /\ q.sessions = req[p].sessions /\ q.handle = h
    BY <1>2 DEF Req, PCs
  <2>2. req' = [req EXCEPT ![p] = q]
    BY <1>4, Running
  <2>3. GoodReq(q)
    BY <1>2, <2>1, Running DEF GoodReq
  <2>4. Stands(p)'
    BY <1>1, <1>2, <2>1, <2>2, Running DEF Stands, CountStands, AccountStands, TargetStands,
       OldStands, RollbackStands, tables
  <2> QED
    BY <1>1, <2>2, <2>3, <2>4, Running, MoveOnly
<1> QED
  BY <1>3, <1>4 DEF Verify

LEMMA SaveSocialStep ==
  ASSUME IInv, NEW p \in Procs, SaveSocial(p)
  PROVE  IInv'
<1> DEFINE h == req[p].handle
           u == req[p].user
           pc == req'[p].pc
           q == [req[p] EXCEPT !.pc = pc]
<1>1. req[p] \in Req /\ req[p].pc = "save" /\ h \in Handles /\ u \in Users
  BY Running DEF SaveSocial, GoodReq
<1>2. /\ Goto(p, "complete") \/ Goto(p, "fail")
      /\ socials' = socials \/ (socials[h] = None /\ socials' = [socials EXCEPT ![h] = u])
      /\ Goto(p, "complete") => socials'[h] = u
  <2>1. socials \in [Handles -> Users \cup {None}]
    BY Running DEF TablesTypeOK
  <2>2. CASE socials[h] = None
    BY <1>1, <2>1, <2>2 DEF SaveSocial
  <2>3. CASE socials[h] # None /\ OwnedBy(h, u)
    BY <2>3 DEF SaveSocial, OwnedBy
  <2>4. CASE socials[h] # None /\ ~ OwnedBy(h, u)
    <3>1. Goto(p, "fail") /\ socials' = socials
      BY <2>4 DEF SaveSocial
    <3>2. req'[p].pc = "fail"
      BY <1>1, <3>1, Running DEF Goto, Req
    <3>3. ~ Goto(p, "complete")
      BY <1>1, <3>2, Running DEF Goto, Req
    <3> QED
      BY <3>1, <3>3
  <2> QED
    BY <2>2, <2>3, <2>4
<1>3. /\ pc \in {"complete", "fail"}
      /\ Goto(p, pc)
      /\ pc = "complete" => socials'[h] = u
  BY <1>1, <1>2, Running DEF Goto, Req
<1> HIDE DEF pc
<1>4. q \in Req /\ q.pc = pc /\ q.user = u /\ q.step = req[p].step
      /\ q.sessions = req[p].sessions /\ q.handle = h
  BY <1>1, <1>3 DEF Req, PCs
<1>5. req' = [req EXCEPT ![p] = q]
  BY <1>3 DEF Goto
<1>6. GoodReq(q)
  BY <1>1, <1>3, <1>4, Running DEF GoodReq
<1>7. TablesTypeOK'
  BY <1>1, <1>2, Running DEF TablesTypeOK, SaveSocial
<1>8. Grows
  BY <1>1, <1>2, Running DEF TablesTypeOK, Grows, SaveSocial
<1>9. HandleOwned' /\ PassedIsEarned'
  <2>1. HandleOwned'
    BY <1>8, NoneIsNobody, Running DEF IInv, HandleOwned, Grows, SaveSocial, TablesTypeOK
  <2>2. PassedIsEarned'
    BY DEF IInv, PassedIsEarned, Earned, SaveSocial
  <2> QED
    BY <2>1, <2>2
<1>10. Stands(p)'
  <2>1. req'[p] = q
    BY <1>5, Running
  <2> HIDE DEF q
  <2>2. sessions' = sessions
    BY DEF SaveSocial
  <2> QED
    BY <1>1, <1>3, <1>4, <2>1, <2>2, Running DEF Stands, CountStands, AccountStands, TargetStands,
       OldStands, RollbackStands
<1> QED
  BY <1>5, <1>6, <1>7, <1>8, <1>9, <1>10, Move

LEMMA AddRowType ==
  ASSUME TablesTypeOK, NEW p \in Procs, req[p].user \in Users, req[p].step \in Steps,
         req[p].now \in Times, AddRow(p)
  PROVE  attempts' \in [Users -> [Steps -> [Times -> Nat]]]
<1> DEFINE u == req[p].user
           s == req[p].step
           t == req[p].now
           f == [attempts[u][s] EXCEPT ![t] = @ + 1]
           g == [attempts[u] EXCEPT ![s] = f]
<1>1. attempts \in [Users -> [Steps -> [Times -> Nat]]]
  BY DEF TablesTypeOK
<1>2. attempts[u][s] \in [Times -> Nat] /\ attempts[u] \in [Steps -> [Times -> Nat]]
  BY <1>1
<1>3. f \in [Times -> Nat]
  BY <1>2
<1>4. attempts' = [attempts EXCEPT ![u] = g]
  BY DEF AddRow
<1> HIDE DEF f
<1>5. g \in [Steps -> [Times -> Nat]]
  BY <1>2, <1>3
<1> HIDE DEF g
<1> QED
  BY <1>1, <1>4, <1>5

LEMMA RecordFailureStep ==
  ASSUME IInv, NEW p \in Procs, RecordFailure(p)
  PROVE  IInv'
<1>1. req[p] \in Req /\ req[p].pc = "fail" /\ req[p].user \in Users /\ req[p].step \in Steps
      /\ req[p].now \in Times
  BY Running DEF RecordFailure, Req
<1>2. TablesTypeOK'
  BY <1>1, AddRowType, Running DEF RecordFailure, TablesTypeOK
<1>3. Grows
  BY Running DEF RecordFailure, Grows, TablesTypeOK
<1>4. HandleOwned' /\ PassedIsEarned'
  BY DEF IInv, HandleOwned, PassedIsEarned, Earned, RecordFailure
<1>5. CASE Finished(p)
  BY <1>2, <1>3, <1>4, <1>5, Running, IdleGood, OverStands, Move DEF Finished
<1>6. CASE Goto(p, "session")
  <2> DEFINE q == [req[p] EXCEPT !.pc = "session"]
  <2>1. q \in Req /\ q.pc = "session" /\ q.user = req[p].user /\ q.step = req[p].step
        /\ q.sessions = req[p].sessions
    BY <1>1 DEF Req, PCs
  <2>2. req' = [req EXCEPT ![p] = q]
    BY <1>6 DEF Goto
  <2>3. GoodReq(q)
    BY <1>1, <2>1 DEF GoodReq
  <2>4. Stands(p)'
    BY <1>1, <2>1, <2>2, Running DEF Stands, CountStands, AccountStands, TargetStands,
       OldStands, RollbackStands, RecordFailure
  <2> QED
    BY <1>2, <1>3, <1>4, <2>2, <2>3, <2>4, Move
<1> QED
  BY <1>5, <1>6 DEF RecordFailure

LEMMA RecordSessionStep ==
  ASSUME IInv, NEW p \in Procs, RecordSession(p)
  PROVE  IInv'
<1> DEFINE u == req[p].user
           s == req[p].step
           target == IF LastSession(p) THEN s ELSE 0
           q == [req[p] EXCEPT !.pc = "modify", !.target = target]
<1>1. req[p] \in Req /\ req[p].pc = "session" /\ u \in Users /\ s \in Steps
      /\ req[p].now \in Times
  BY Running DEF RecordSession, Req
<1>2. /\ sessions \in [Users -> [Steps -> Nat]]
      /\ sessions' = [sessions EXCEPT ![u] = [sessions[u] EXCEPT ![s] = @ + 1]]
  BY Running DEF RecordSession, TablesTypeOK
<1>3. /\ sessions' \in [Users -> [Steps -> Nat]]
      /\ sessions'[u][s] = sessions[u][s] + 1
      /\ \A v \in Users, z \in Steps : sessions'[v][z] >= sessions[v][z]
  <2> DEFINE f == [sessions[u] EXCEPT ![s] = @ + 1]
  <2>1. sessions[u] \in [Steps -> Nat]
    BY <1>1, <1>2
  <2>2. f \in [Steps -> Nat] /\ f[s] = sessions[u][s] + 1
        /\ \A z \in Steps : f[z] >= sessions[u][z]
    BY <1>1, <2>1
  <2>3. sessions' = [sessions EXCEPT ![u] = f]
    BY <1>2
  <2> HIDE DEF f
  <2> QED
    BY <1>1, <1>2, <2>2, <2>3
<1>4. latest' \in [Users -> [Steps -> Times]]
  <2> DEFINE m == Max({latest[u][s], req[p].now})
             f == [latest[u] EXCEPT ![s] = m]
  <2>1. latest \in [Users -> [Steps -> Times]] /\ latest[u] \in [Steps -> Times]
    BY <1>1, Running DEF TablesTypeOK
  <2>2. latest[u][s] \in Times /\ latest[u][s] \in Int /\ req[p].now \in Int
    BY <1>1, <2>1, SocialAssumption DEF Times
  <2>3. m \in Times
    BY <1>1, <2>2, MaxOfTwo
  <2>4. latest' = [latest EXCEPT ![u] = f]
    BY DEF RecordSession
  <2> HIDE DEF m
  <2>5. f \in [Steps -> Times]
    BY <1>1, <2>1, <2>3
  <2> HIDE DEF f
  <2> QED
    BY <1>1, <2>1, <2>4, <2>5
<1>5. TablesTypeOK'
  BY <1>1, <1>3, <1>4, AddRowType, Running DEF RecordSession, TablesTypeOK
<1>6. Grows
  BY <1>3, Running DEF RecordSession, Grows, TablesTypeOK
<1>7. HandleOwned'
  BY DEF IInv, HandleOwned, RecordSession
<1>8. PassedIsEarned'
  <2>1. SUFFICES ASSUME NEW v \in Users, passed[v] # 0
                 PROVE  Earned(v, passed[v])'
    BY DEF PassedIsEarned, RecordSession
  <2>2. Earned(v, passed[v])
    BY <2>1 DEF IInv, PassedIsEarned
  <2>3. PICK n : n = passed[v]
    OBVIOUS
  <2>4. Earned(v, n)'
    BY <1>5, <1>6, <2>2, <2>3, EarnedKept, Running
  <2> QED
    BY <2>3, <2>4 DEF Earned, RecordSession
<1>9. target \in 0..10
  BY <1>1, StepRange
<1>10. req' = [req EXCEPT ![p] = q]
  BY Running DEF RecordSession
<1>11. LastSession(p) => sessions'[u][s] >= MaxSessions
  <2>1. req[p].sessions <= sessions[u][s]
    BY <1>1, Running DEF Stands, CountStands
  <2>2. sessions[u][s] \in Nat
    BY <1>1, <1>2
  <2>3. req[p].sessions \in 0..(MaxSessions - 1)
    BY <1>1 DEF Req
  <2>4. req[p].sessions \in Int /\ MaxSessions \in Nat
    BY <2>3, SocialAssumption
  <2> QED
    BY <1>3, <2>1, <2>2, <2>4 DEF LastSession
<1>12. PICK v \in Users, n \in 0..10 : v = u /\ n = target
  BY <1>1, <1>9
<1>13. n # 0 => Earned(v, n)'
  BY <1>1, <1>11, <1>12 DEF Earned
<1> HIDE DEF target
<1>14. q \in Req /\ q.pc = "modify" /\ q.user = v /\ q.step = s /\ q.target = n
  BY <1>1, <1>9, <1>12 DEF Req, PCs
<1>15. GoodReq(q)
  BY <1>1, <1>14 DEF GoodReq
<1>16. req'[p] = q
  BY <1>10, Running
<1> HIDE DEF q
<1>17. Stands(p)'
  BY <1>13, <1>14, <1>16 DEF Stands, CountStands, AccountStands, TargetStands,
       OldStands, RollbackStands, Earned
<1> QED
  BY <1>5, <1>6, <1>7, <1>8, <1>10, <1>15, <1>17, Move

LEMMA SaveSocialKYCStepStep ==
  ASSUME IInv, NEW p \in Procs, SaveSocialKYCStep(p)
  PROVE  IInv'
<1> DEFINE u == req[p].user
           s == req[p].step
           h == req[p].handle
           q == [req[p] EXCEPT !.pc = "modify", !.target = Completed(s)]
<1>1. req[p] \in Req /\ req[p].pc = "complete" /\ u \in Users /\ s \in Steps
      /\ h \in Handles /\ socials[h] = u
  BY Running DEF SaveSocialKYCStep, GoodReq, Stands, AccountStands
<1>2. CASE Finished(p) /\ completed' = completed
  BY <1>2, Running, IdleGood, OverStands, MoveOnly DEF Finished, SaveSocialKYCStep, tables
<1>3. CASE /\ completed[u][s] = None
           /\ completed' = [completed EXCEPT ![u][s] = h]
           /\ req' = [req EXCEPT ![p].pc = "modify", ![p].target = Completed(s)]
  <2> DEFINE f == [completed[u] EXCEPT ![s] = h]
  <2>1. completed \in [Users -> [Steps -> Handles \cup {None}]]
        /\ completed[u] \in [Steps -> Handles \cup {None}]
    BY <1>1, Running DEF TablesTypeOK
  <2>2. f \in [Steps -> Handles \cup {None}] /\ f[s] = h
        /\ \A z \in Steps : z # s => f[z] = completed[u][z]
    BY <1>1, <2>1
  <2>3. completed' = [completed EXCEPT ![u] = f]
    BY <1>3
  <2> HIDE DEF f
  <2>4. completed' \in [Users -> [Steps -> Handles \cup {None}]]
        /\ completed'[u][s] = h
        /\ \A v \in Users, z \in Steps :
             (v # u \/ z # s) => completed'[v][z] = completed[v][z]
    BY <1>1, <2>1, <2>2, <2>3
  <2>5. TablesTypeOK'
    BY <2>4, Running DEF TablesTypeOK, SaveSocialKYCStep
  <2>6. Grows
    BY <1>3, <2>4, Running DEF Grows, SaveSocialKYCStep, TablesTypeOK
  <2>7. HandleOwned'
    BY <1>1, <2>4 DEF IInv, HandleOwned, SaveSocialKYCStep
  <2>8. PassedIsEarned'
    <3>1. SUFFICES ASSUME NEW v \in Users, passed[v] # 0
                   PROVE  Earned(v, passed[v])'
      BY DEF PassedIsEarned, SaveSocialKYCStep
    <3>2. Earned(v, passed[v])
      BY <3>1 DEF IInv, PassedIsEarned
    <3>3. PICK n : n = passed[v]
      OBVIOUS
    <3>4. Earned(v, n)'
      BY <2>5, <2>6, <3>2, <3>3, EarnedKept, Running
    <3> QED
      BY <3>3, <3>4 DEF Earned, SaveSocialKYCStep
  <2>9. PICK v \in Users, n \in 0..10 : v = u /\ n = Completed(s)
    BY <1>1, StepRange
  <2>10. Earned(v, n)'
    BY <1>1, <2>4, <2>9, NoneIsNobody DEF Earned, Completed
  <2>11. q \in Req /\ q.pc = "modify" /\ q.user = v /\ q.target = n /\ q.step = s
    BY <1>1, <2>9 DEF Req, PCs
  <2>12. req' = [req EXCEPT ![p] = q]
    BY <1>3, Running
  <2>13. GoodReq(q)
    BY <1>1, <2>11 DEF GoodReq
  <2>14. req'[p] = q
    BY <2>12, Running
  <2> HIDE DEF q
  <2>15. Stands(p)'
    BY <2>10, <2>11, <2>14 DEF Stands, CountStands, AccountStands, TargetStands,
       OldStands, RollbackStands, Earned
  <2> QED
    BY <2>5, <2>6, <2>7, <2>8, <2>12, <2>13, <2>15, Move
<1> QED
  BY <1>2, <1>3 DEF SaveSocialKYCStep, Mine

LEMMA ReadUserStep ==
  ASSUME IInv, NEW p \in Procs, ReadUser(p)
  PROVE  IInv'
<1>1. UNCHANGED tables /\ now' = now /\ faults' = faults /\ conflict' = conflict
  BY DEF ReadUser
<1>2. req[p] \in Req /\ req[p].pc = "modify" /\ req[p].user \in Users
  BY Running DEF ReadUser
<1>3. passed[req[p].user] \in 0..10
  BY <1>2, Running DEF TablesTypeOK
<1> DEFINE q == [req[p] EXCEPT !.pc = "update", !.old = passed[req[p].user]]
<1>4. q \in Req /\ q.pc = "update" /\ q.user = req[p].user /\ q.step = req[p].step
      /\ q.target = req[p].target /\ q.old = passed[q.user]
  BY <1>2, <1>3 DEF Req, PCs
<1>5. req' = [req EXCEPT ![p] = q]
  BY Running DEF ReadUser
<1>6. GoodReq(q)
  BY <1>2, <1>4, Running DEF GoodReq
<1>7. req'[p] = q
  BY <1>5, Running
<1> HIDE DEF q
<1>8. q.old # 0 => Earned(q.user, q.old)
  BY <1>2, <1>4 DEF IInv, PassedIsEarned
<1>9. q.target # 0 => Earned(q.user, q.target)
  BY <1>2, <1>4, Running DEF Stands, TargetStands
<1>10. Stands(p)'
  BY <1>1, <1>4, <1>7, <1>8, <1>9 DEF Stands, CountStands, AccountStands, TargetStands,
       OldStands, RollbackStands, Earned, tables
<1> QED
  BY <1>1, <1>5, <1>6, <1>10, Running, MoveOnly

\* What genSQLUpdate writes is the new value, the old one, or nothing.
LEMMA RaisedBounds ==
  ASSUME NEW old \in 0..10, NEW new \in 0..10
  PROVE  /\ Raised(old, new) \in 0..10
         /\ Raised(old, new) \in {0, old, new}
         /\ new # 0 => Raised(old, new) >= old
<1>1. CASE new = 0
  BY <1>1 DEF Raised
<1>2. CASE new # 0
  <2>1. Raised(old, new) = Max({new, old})
    BY <1>2 DEF Raised
  <2>2. old \in Int /\ new \in Int
    OBVIOUS
  <2>3. Max({new, old}) \in {new, old} /\ Max({new, old}) >= old
    BY <2>2, MaxOfTwo
  <2> QED
    BY <2>1, <2>3
<1> QED
  BY <1>1, <1>2

\* kyc_step_passed of u becomes what genSQLUpdate makes of an earned value, and
\* no other table is written.
LEMMA WrittenIsEarned ==
  ASSUME IInv, NEW u \in Users, NEW n \in 0..10, n # 0 => Earned(u, n),
         \/ passed' = passed
         \/ passed' = [passed EXCEPT ![u] = Raised(passed[u], n)],
         UNCHANGED <<now, sessions, latest, attempts, socials, completed, faults, conflict>>
  PROVE  TablesTypeOK' /\ Grows /\ HandleOwned' /\ PassedIsEarned'
<1>1. TablesTypeOK
  BY DEF IInv
<1>2. passed \in [Users -> 0..10] /\ passed[u] \in 0..10
  BY <1>1 DEF TablesTypeOK
<1>3. Raised(passed[u], n) \in 0..10 /\ Raised(passed[u], n) \in {0, passed[u], n}
  BY <1>2, RaisedBounds
<1>4. passed' \in [Users -> 0..10]
      /\ \A v \in Users : \/ passed'[v] = passed[v]
                          \/ v = u /\ passed'[v] \in {0, n}
  BY <1>2, <1>3
<1>5. TablesTypeOK'
  BY <1>1, <1>4 DEF TablesTypeOK
<1>6. Grows
  BY <1>1 DEF Grows, TablesTypeOK
<1>7. HandleOwned'
  BY DEF IInv, HandleOwned
<1>8. PassedIsEarned'
  BY <1>4 DEF IInv, PassedIsEarned, Earned
<1> QED
  BY <1>5, <1>6, <1>7, <1>8

LEMMA UpdateUserStep ==
  ASSUME IInv, NEW p \in Procs, UpdateUser(p)
  PROVE  IInv'
<1> DEFINE q == [req[p] EXCEPT !.pc = "notify"]
<1>1. req[p] \in Req /\ req[p].pc = "update" /\ Stands(p)
  BY Running DEF UpdateUser
<1>2. PICK u \in Users, n \in 0..10 : u = req[p].user /\ n = req[p].target
  BY <1>1, Running DEF Req
<1>3. n # 0 => Earned(u, n)
  BY <1>1, <1>2 DEF Stands, TargetStands
<1>4. passed' = passed \/ passed' = [passed EXCEPT ![u] = Raised(passed[u], n)]
  BY <1>2 DEF UpdateUser
<1>5. TablesTypeOK' /\ Grows /\ HandleOwned' /\ PassedIsEarned'
  BY <1>3, <1>4, WrittenIsEarned DEF UpdateUser
<1>6. q \in Req /\ q.pc = "notify" /\ q.user = req[p].user /\ q.step = req[p].step
      /\ q.old = req[p].old
  BY <1>1 DEF Req, PCs
<1>7. req' = [req EXCEPT ![p] = q]
  BY DEF UpdateUser, Goto
<1>8. GoodReq(q)
  BY <1>1, <1>6, Running DEF GoodReq
<1>9. req'[p] = q
  BY <1>7, Running
<1> HIDE DEF q
<1>10. Stands(p)'
  BY <1>1, <1>6, <1>9 DEF Stands, CountStands, AccountStands, TargetStands,
       OldStands, RollbackStands, Earned, UpdateUser
<1> QED
  BY <1>5, <1>7, <1>8, <1>10, Move

LEMMA NotifyStep ==
  ASSUME IInv, NEW p \in Procs, Notify(p)
  PROVE  IInv'
<1>1. UNCHANGED tables /\ now' = now /\ conflict' = conflict
  BY DEF Notify
<1>2. faults' \in 0..MaxFaults /\ (faults # 0 => faults' # 0)
  BY Running DEF Notify, Fault
<1>3. CASE Finished(p)
  BY <1>1, <1>2, <1>3, Running, IdleGood, OverStands, MoveOnly DEF Finished
<1>4. CASE Fault /\ Goto(p, "rollback")
  <2> DEFINE q == [req[p] EXCEPT !.pc = "rollback"]
  <2>1. req[p] \in Req /\ req[p].pc = "notify" /\ Stands(p)
    BY Running DEF Notify
  <2>2. q \in Req /\ q.pc = "rollback" /\ q.user = req[p].user /\ q.step = req[p].step
        /\ q.old = req[p].old
    BY <2>1 DEF Req, PCs
  <2>3. req' = [req EXCEPT ![p] = q]
    BY <1>4 DEF Goto
  <2>4. GoodReq(q)
    BY <2>1, <2>2, Running DEF GoodReq
  <2>5. req'[p] = q
    BY <2>3, Running
  <2>6. faults' # 0
    BY <1>4, Running DEF Fault
  <2> HIDE DEF q
  <2>7. Stands(p)'
    BY <1>1, <2>1, <2>2, <2>5, <2>6 DEF Stands, CountStands, AccountStands, TargetStands,
       OldStands, RollbackStands, Earned, tables
  <2> QED
    BY <1>1, <1>2, <2>3, <2>4, <2>7, Running, MoveOnly
<1> QED
  BY <1>3, <1>4 DEF Notify

LEMMA RollBackUserStep ==
  ASSUME IInv, NEW p \in Procs, RollBackUser(p)
  PROVE  IInv'
<1>1. req[p] \in Req /\ req[p].pc = "rollback" /\ Stands(p)
  BY Running DEF RollBackUser
<1>2. PICK u \in Users, n \in 0..10 : u = req[p].user /\ n = req[p].old
  BY <1>1, Running DEF Req
<1>3. n # 0 => Earned(u, n)
  BY <1>1, <1>2 DEF Stands, OldStands
<1>4. passed' = [passed EXCEPT ![u] = Raised(passed[u], n)]
  BY <1>2 DEF RollBackUser
<1>5. TablesTypeOK' /\ Grows /\ HandleOwned' /\ PassedIsEarned'
  BY <1>3, <1>4, WrittenIsEarned DEF RollBackUser
<1>6. Finished(p) /\ Stands(p)'
  BY OverStands, Running DEF RollBackUser
<1> QED
  BY <1>5, <1>6, IdleGood, Move DEF Finished

LEMMA AbortStep ==
  ASSUME IInv, NEW p \in Procs, Abort(p)
  PROVE  IInv'
<1>1. UNCHANGED tables /\ now' = now /\ conflict' = conflict
  BY DEF Abort
<1>2. faults' \in 0..MaxFaults /\ (faults # 0 => faults' # 0)
  BY Running DEF Abort, Fault
<1>3. Finished(p) /\ Stands(p)'
  BY OverStands, Running DEF Abort
<1> QED
  BY <1>1, <1>2, <1>3, Running, IdleGood, MoveOnly DEF Finished

LEMMA TickStep ==
  ASSUME IInv, Tick
  PROVE  IInv'
<1>1. UNCHANGED tables /\ req' = req /\ faults' = faults /\ conflict' = conflict
  BY DEF Tick
<1>2. now' \in Times
  BY SocialAssumption DEF Tick, Times, IInv, TablesTypeOK
<1>3. TablesTypeOK' /\ Grows /\ HandleOwned' /\ PassedIsEarned'
  BY <1>1, <1>2, SameTables DEF IInv, TablesTypeOK
<1>4. ReqTypeOK'
  BY <1>1 DEF IInv, ReqTypeOK, GoodReq
<1>5. \A o \in Procs : Stands(o)'
  BY <1>1, <1>3, <1>4, StandsKept
<1> QED
  BY <1>3, <1>4, <1>5 DEF IInv

LEMMA InitIInv == Init => IInv
<1> SUFFICES ASSUME Init PROVE IInv
  OBVIOUS
<1>1. req \in [Procs -> Req] /\ \A p \in Procs : req[p] = IdleReq
  BY IdleGood DEF Init, GoodReq
<1>2. ReqTypeOK
  BY <1>1, IdleGood DEF ReqTypeOK
<1>3. TablesTypeOK
  BY SocialAssumption DEF Init, TablesTypeOK, Times
<1>4. HandleOwned /\ PassedIsEarned
  BY DEF Init, HandleOwned, PassedIsEarned
<1>5. \A p \in Procs : Stands(p)
  BY <1>1 DEF Stands, CountStands, AccountStands, TargetStands,
       OldStands, RollbackStands, IdleReq
<1> QED
  BY <1>2, <1>3, <1>4, <1>5 DEF IInv

LEMMA StepIInv ==
  ASSUME IInv, [Next]_vars
  PROVE  IInv'
<1>1. CASE UNCHANGED vars
  <2>1. UNCHANGED <<tables, now, req, faults, conflict>>
    BY <1>1 DEF vars, tables
  <2>2. TablesTypeOK' /\ Grows /\ HandleOwned' /\ PassedIsEarned'
    BY <2>1, SameTables DEF IInv, TablesTypeOK
  <2>3. ReqTypeOK'
    BY <2>1 DEF IInv, ReqTypeOK, GoodReq
  <2>4. \A o \in Procs : Stands(o)'
    BY <2>1, <2>2, <2>3, StandsKept
  <2> QED
    BY <2>2, <2>3, <2>4 DEF IInv
<1>2. CASE Tick
  BY <1>2, TickStep
<1>3. ASSUME NEW p \in Procs, Step(p)
      PROVE  IInv'
  BY <1>3, ValidateStep, VerifySkippedStep, CountAttemptsStep, VerifyStep,
     SaveSocialStep, RecordFailureStep, RecordSessionStep, SaveSocialKYCStepStep,
     ReadUserStep, UpdateUserStep, NotifyStep, RollBackUserStep, AbortStep
     DEF Step
<1> QED
  BY <1>1, <1>2, <1>3 DEF Next, Step
-----------------------------------------------------------------------------
(* The theorems.                                                           *)

LEMMA Invariant == Spec => []IInv
<1>1. Init => IInv
  BY InitIInv
<1>2. IInv /\ [Next]_vars => IInv'
  BY StepIInv
<1> QED
  BY <1>1, <1>2, PTL DEF Spec

\* The tables and the requests keep their types, whatever runs at once.
THEOREM TypeCorrect == Spec => []TypeOK
<1>1. IInv => TypeOK
  BY TypeOKSplit DEF IInv
<1> QED
  BY <1>1, Invariant, PTL

\* users.kyc_step_passed only ever holds a step that the recorded sessions or
\* the verified posts entitle to: concurrent requests, requests cut off, and
\* rollbacks that write back a value read long before do not change that.
THEOREM PassedIsEarnedHolds == Spec => []PassedIsEarned
<1>1. IInv => PassedIsEarned
  BY DEF IInv
<1> QED
  BY <1>1, Invariant, PTL

\* A completed step names an account that belongs to the user, whoever else
\* showed the account at the same time.
THEOREM HandleOwnedHolds == Spec => []HandleOwned
<1>1. IInv => HandleOwned
  BY DEF IInv
<1> QED
  BY <1>1, Invariant, PTL

\* Without a failed message no step lowers what a user has passed: the late
\* one of two requests cannot undo the other.
THEOREM PassedNeverLoweredHolds == Spec => PassedNeverLowered
<1>1. ASSUME IInv, [Next]_vars, faults' = 0, NEW u \in Users
      PROVE  passed'[u] >= passed[u]
  <2>1. passed \in [Users -> 0..10] /\ passed[u] >= passed[u]
    <3>1. passed \in [Users -> 0..10] /\ passed[u] \in 0..10
      BY <1>1 DEF IInv, TablesTypeOK
    <3> QED
      BY <3>1
  <2>2. CASE passed' = passed
    BY <2>1, <2>2
  <2>3. ASSUME NEW p \in Procs, UpdateUser(p)
        PROVE  passed'[u] >= passed[u]
    <3>1. req[p].user \in Users /\ req[p].target \in 0..10
      BY <1>1, <2>3, Running DEF UpdateUser, Req
    <3>2. passed[req[p].user] \in 0..10
      BY <2>1, <3>1
    <3>3. CASE req[p].target = 0
      BY <2>1, <2>3, <3>3 DEF UpdateUser
    <3>4. CASE req[p].target # 0
      <4>1. Raised(passed[req[p].user], req[p].target) >= passed[req[p].user]
        BY <3>1, <3>2, <3>4, RaisedBounds
      <4>2. passed' = [passed EXCEPT ![req[p].user] =
                         Raised(passed[req[p].user], req[p].target)]
        BY <2>3, <3>4 DEF UpdateUser
      <4> QED
        BY <2>1, <3>1, <4>1, <4>2
    <3> QED
      BY <3>3, <3>4
  <2>4. ASSUME NEW p \in Procs, RollBackUser(p)
        PROVE  FALSE
    <3>1. faults # 0
      BY <1>1, <2>4, Running DEF RollBackUser, Stands, RollbackStands
    <3> QED
      BY <1>1, <2>4, <3>1 DEF RollBackUser
  <2> QED
    BY <1>1, <2>2, <2>3, <2>4 DEF Next, vars, tables, Tick, ValidateKycStep,
       VerifySkipped, CountAttempts, Verify, SaveSocial, RecordFailure, RecordSession,
       SaveSocialKYCStep, ReadUser, Notify, Abort
<1>2. IInv /\ [Next]_vars =>
        [faults' = 0 => \A u \in Users : passed'[u] >= passed[u]]_vars
  BY <1>1
<1> QED
  BY <1>2, Invariant, PTL DEF Spec, PassedNeverLowered
-----------------------------------------------------------------------------
(* Sessions.  Each request has found one session left and may still use it *)
(* up: those that have been used and those that may be are bounded         *)
(* together, for a request that finds one left leaves room for the others. *)

MayUse(r, u, s) ==
  /\ r.user = u /\ r.step = s
  /\ r.pc \in {"attempts", "verify", "save", "fail", "session"}

MayUseUp(u, s) == {p \in Procs : MayUse(req[p], u, s)}

SessionsInv ==
  \A u \in Users, s \in Steps :
    sessions[u][s] + Cardinality(MayUseUp(u, s)) <= MaxSessions + Cardinality(Procs) - 1

LEMMA SubsetCounts ==
  ASSUME NEW S, NEW T, T \subseteq S, IsFiniteSet(S)
  PROVE  /\ IsFiniteSet(T) /\ Cardinality(T) \in Nat /\ Cardinality(S) \in Nat
         /\ Cardinality(T) <= Cardinality(S)
BY FS_Subset, FS_CardinalityType

\* No step adds a request to those that may use a session up, but VerifySkipped.
LEMMA FewerMayUse ==
  ASSUME IInv, SessionsInv, sessions' = sessions,
         NEW p \in Procs, \A q \in Procs \ {p} : req'[q] = req[q],
         \A u \in Users, s \in Steps : MayUse(req'[p], u, s) => MayUse(req[p], u, s)
  PROVE  SessionsInv'
<1> SUFFICES ASSUME NEW u \in Users, NEW s \in Steps
             PROVE  sessions[u][s] + Cardinality(MayUseUp(u, s)')
                      <= MaxSessions + Cardinality(Procs) - 1
  BY DEF SessionsInv
<1>1. MayUseUp(u, s)' \subseteq MayUseUp(u, s) /\ MayUseUp(u, s) \subseteq Procs
  BY DEF MayUseUp, MayUse
<1>2. IsFiniteSet(MayUseUp(u, s)) /\ Cardinality(Procs) \in Nat
  BY <1>1, SocialAssumption, SubsetCounts
<1>3. /\ Cardinality(MayUseUp(u, s)') <= Cardinality(MayUseUp(u, s))
      /\ Cardinality(MayUseUp(u, s)') \in Nat /\ Cardinality(MayUseUp(u, s)) \in Nat
  BY <1>1, <1>2, SubsetCounts
<1>4. sessions[u][s] + Cardinality(MayUseUp(u, s)) <= MaxSessions + Cardinality(Procs) - 1
  BY DEF SessionsInv
<1>5. sessions[u][s] \in Nat /\ MaxSessions \in Nat
  BY SocialAssumption DEF IInv, TablesTypeOK
<1> QED
  BY <1>2, <1>3, <1>4, <1>5

\* A request that goes on or is over is the same request.
LEMMA SameRequest ==
  ASSUME IInv, NEW p \in Procs, NEW pc, Goto(p, pc)
  PROVE  /\ \A q \in Procs \ {p} : req'[q] = req[q]
         /\ req'[p].pc = pc /\ req'[p].user = req[p].user /\ req'[p].step = req[p].step
<1>1. req \in [Procs -> Req] /\ req[p] \in Req
  BY DEF IInv, ReqTypeOK
<1> QED
  BY <1>1 DEF Goto, Req

LEMMA OverMayNot ==
  ASSUME IInv, NEW p \in Procs, Finished(p)
  PROVE  /\ \A q \in Procs \ {p} : req'[q] = req[q]
         /\ \A u, s : ~MayUse(req'[p], u, s)
<1>1. req \in [Procs -> Req]
  BY DEF IInv, ReqTypeOK
<1> QED
  BY <1>1 DEF Finished, IdleReq, MayUse

LEMMA OtherStepsSessions ==
  ASSUME IInv, SessionsInv, NEW p \in Procs, Step(p), ~VerifySkipped(p), ~RecordSession(p)
  PROVE  SessionsInv'
<1>1. sessions' = sessions
  BY DEF Step, tables, ValidateKycStep, VerifySkipped, CountAttempts, Verify, SaveSocial,
         RecordFailure, RecordSession, SaveSocialKYCStep, ReadUser, UpdateUser, Notify,
         RollBackUser, Abort
<1>2. req \in [Procs -> Req] /\ req[p] \in Req
  BY DEF IInv, ReqTypeOK
<1>3. CASE Finished(p)
  BY <1>1, <1>3, OverMayNot, FewerMayUse
<1>4. ASSUME NEW pc, Goto(p, pc),
             pc \in {"attempts", "verify", "save", "fail", "session"} =>
               req[p].pc \in {"attempts", "verify", "save", "fail", "session"}
      PROVE  SessionsInv'
  <2>1. \A u, s : MayUse(req'[p], u, s) => MayUse(req[p], u, s)
    BY <1>4, SameRequest DEF MayUse
  <2> QED
    BY <1>1, <1>4, <2>1, SameRequest, FewerMayUse
<1>5. CASE req' = req
  BY <1>1, <1>5, FewerMayUse
<1>6. ASSUME NEW u \in Users, NEW s \in Steps, NEW skip \in BOOLEAN, ValidateKycStep(p, u, s, skip)
      PROVE  SessionsInv'
  <2>1. CASE req' = [req EXCEPT ![p] = [IdleReq EXCEPT
               !.pc = "skipped", !.user = u, !.step = s, !.skip = skip, !.now = now]]
    <3>1. PICK x : x = [IdleReq EXCEPT
               !.pc = "skipped", !.user = u, !.step = s, !.skip = skip, !.now = now]
      OBVIOUS
    <3>2. x.pc = "skipped"
      BY <3>1 DEF IdleReq
    <3>3. req'[p] = x /\ \A q \in Procs \ {p} : req'[q] = req[q]
      BY <1>2, <2>1, <3>1
    <3> QED
      BY <1>1, <3>2, <3>3, FewerMayUse DEF MayUse
  <2> QED
    BY <1>5, <1>6, <2>1 DEF ValidateKycStep
<1>7. CASE CountAttempts(p)
  <2>1. CASE \E remaining : req' = [req EXCEPT ![p].pc = "verify", ![p].remaining = remaining]
    <3>1. /\ \A q \in Procs \ {p} : req'[q] = req[q]
          /\ req'[p].user = req[p].user /\ req'[p].step = req[p].step
      BY <1>2, <2>1 DEF Req
    <3>2. \A u, s : MayUse(req'[p], u, s) => MayUse(req[p], u, s)
      BY <1>7, <3>1 DEF MayUse, CountAttempts
    <3> QED
      BY <1>1, <3>1, <3>2, FewerMayUse
  <2> QED
    BY <1>3, <1>7, <2>1 DEF CountAttempts
<1>8. CASE Verify(p)
  <2>1. CASE \E h : req' = [req EXCEPT ![p].pc = "save", ![p].handle = h]
    <3>1. /\ \A q \in Procs \ {p} : req'[q] = req[q]
          /\ req'[p].user = req[p].user /\ req'[p].step = req[p].step
      BY <1>2, <2>1 DEF Req
    <3>2. \A u, s : MayUse(req'[p], u, s) => MayUse(req[p], u, s)
      BY <1>8, <3>1 DEF MayUse, Verify
    <3> QED
      BY <1>1, <3>1, <3>2, FewerMayUse
  <2> QED
    BY <1>4, <1>8, <2>1 DEF Verify
<1>9. CASE SaveSocial(p) \/ RecordFailure(p)
  BY <1>3, <1>4, <1>9 DEF SaveSocial, RecordFailure
<1>10. CASE SaveSocialKYCStep(p) \/ ReadUser(p)
  <2>1. CASE \/ \E t : req' = [req EXCEPT ![p].pc = "modify", ![p].target = t]
             \/ \E t : req' = [req EXCEPT ![p].pc = "update", ![p].old = t]
    <3>1. /\ \A q \in Procs \ {p} : req'[q] = req[q]
          /\ req'[p].pc \in {"modify", "update"}
      BY <1>2, <2>1 DEF Req
    <3> QED
      BY <1>1, <3>1, FewerMayUse DEF MayUse
  <2> QED
    BY <1>3, <1>10, <2>1 DEF SaveSocialKYCStep, ReadUser
<1>11. CASE UpdateUser(p) \/ Notify(p) \/ RollBackUser(p) \/ Abort(p)
  BY <1>3, <1>4, <1>11 DEF UpdateUser, Notify, RollBackUser, Abort
<1> QED
  BY <1>6, <1>7, <1>8, <1>9, <1>10, <1>11 DEF Step

LEMMA VerifySkippedSessions ==
  ASSUME IInv, SessionsInv, NEW p \in Procs, VerifySkipped(p)
  PROVE  SessionsInv'
<1>1. req \in [Procs -> Req] /\ req[p] \in Req /\ req[p].user \in Users /\ req[p].step \in Steps
  BY Running DEF VerifySkipped
<1>2. sessions' = sessions
  BY DEF VerifySkipped, tables
<1>3. CASE Finished(p)
  BY <1>2, <1>3, OverMayNot, FewerMayUse
<1>4. CASE /\ ~AllUsed(p)
           /\ \E n, pc : req' = [req EXCEPT ![p].sessions = n, ![p].pc = pc]
  <2>1. /\ \A q \in Procs \ {p} : req'[q] = req[q]
        /\ req'[p].user = req[p].user /\ req'[p].step = req[p].step
    BY <1>1, <1>4 DEF Req
  <2> SUFFICES ASSUME NEW u \in Users, NEW s \in Steps
               PROVE  sessions[u][s] + Cardinality(MayUseUp(u, s)')
                        <= MaxSessions + Cardinality(Procs) - 1
    BY <1>2 DEF SessionsInv
  <2>2. MayUseUp(u, s)' \subseteq Procs
    BY DEF MayUseUp
  <2>3. /\ Cardinality(MayUseUp(u, s)') <= Cardinality(Procs)
        /\ Cardinality(MayUseUp(u, s)') \in Nat /\ Cardinality(Procs) \in Nat
    BY <2>2, SocialAssumption, SubsetCounts
  <2>4. sessions[u][s] \in Nat /\ MaxSessions \in Nat
    BY SocialAssumption DEF IInv, TablesTypeOK
  <2>5. CASE u = req[p].user /\ s = req[p].step
    <3>1. ~(sessions[u][s] >= MaxSessions)
      BY <1>4, <2>5 DEF AllUsed, Mine
    <3> QED
      BY <2>3, <2>4, <3>1
  <2>6. CASE ~(u = req[p].user /\ s = req[p].step)
    <3>1. MayUseUp(u, s)' \subseteq MayUseUp(u, s) /\ IsFiniteSet(MayUseUp(u, s))
      <4>1. MayUseUp(u, s)' \subseteq MayUseUp(u, s) /\ MayUseUp(u, s) \subseteq Procs
        BY <2>1, <2>6 DEF MayUseUp, MayUse
      <4> QED
        BY <4>1, SocialAssumption, SubsetCounts
    <3>2. /\ Cardinality(MayUseUp(u, s)') <= Cardinality(MayUseUp(u, s))
          /\ Cardinality(MayUseUp(u, s)) \in Nat
      BY <3>1, SubsetCounts
    <3>3. sessions[u][s] + Cardinality(MayUseUp(u, s)) <= MaxSessions + Cardinality(Procs) - 1
      BY DEF SessionsInv
    <3> QED
      BY <2>3, <2>4, <3>2, <3>3
  <2> QED
    BY <2>5, <2>6
<1> QED
  BY <1>3, <1>4 DEF VerifySkipped

LEMMA RecordSessionSessions ==
  ASSUME IInv, SessionsInv, NEW p \in Procs, RecordSession(p)
  PROVE  SessionsInv'
<1>1. req \in [Procs -> Req] /\ req[p] \in Req /\ req[p].user \in Users /\ req[p].step \in Steps
      /\ req[p].pc = "session" /\ sessions \in [Users -> [Steps -> Nat]]
  BY Running DEF RecordSession, TablesTypeOK
<1>2. /\ \A q \in Procs \ {p} : req'[q] = req[q]
      /\ req'[p].pc = "modify"
  BY <1>1 DEF RecordSession, Req
<1> SUFFICES ASSUME NEW u \in Users, NEW s \in Steps
             PROVE  sessions'[u][s] + Cardinality(MayUseUp(u, s)')
                      <= MaxSessions + Cardinality(Procs) - 1
  BY DEF SessionsInv
<1>3. MayUseUp(u, s) \subseteq Procs /\ MayUseUp(u, s)' = MayUseUp(u, s) \ {p}
  BY <1>2 DEF MayUseUp, MayUse
<1>4. IsFiniteSet(MayUseUp(u, s)) /\ Cardinality(Procs) \in Nat
      /\ Cardinality(MayUseUp(u, s)) \in Nat
  BY <1>3, SocialAssumption, SubsetCounts
<1>5. sessions[u][s] + Cardinality(MayUseUp(u, s)) <= MaxSessions + Cardinality(Procs) - 1
  BY DEF SessionsInv
<1>6. sessions[u][s] \in Nat /\ MaxSessions \in Nat
  BY <1>1, SocialAssumption
<1>7. CASE u = req[p].user /\ s = req[p].step
  <2>1. p \in MayUseUp(u, s)
    BY <1>1, <1>7 DEF MayUseUp, MayUse
  <2>2. Cardinality(MayUseUp(u, s)') = Cardinality(MayUseUp(u, s)) - 1
    BY <1>3, <1>4, <2>1, FS_RemoveElement
  <2>3. sessions'[u][s] = sessions[u][s] + 1
    BY <1>1, <1>7 DEF RecordSession
  <2> QED
    BY <1>4, <1>5, <1>6, <2>2, <2>3
<1>8. CASE ~(u = req[p].user /\ s = req[p].step)
  <2>1. p \notin MayUseUp(u, s)
    BY <1>8 DEF MayUseUp, MayUse
  <2>2. MayUseUp(u, s)' = MayUseUp(u, s)
    BY <1>3, <2>1
  <2>3. sessions'[u][s] = sessions[u][s]
    BY <1>1, <1>8 DEF RecordSession
  <2> QED
    BY <1>5, <2>2, <2>3
<1> QED
  BY <1>7, <1>8

\* Requests that run at once have each found one session left: together they
\* use up at most one session more each, whatever their number.
THEOREM SessionsBoundedHolds == Spec => []SessionsBounded
<1>1. Init => SessionsInv
  <2> SUFFICES ASSUME Init, NEW u \in Users, NEW s \in Steps
               PROVE  0 + Cardinality(MayUseUp(u, s)) <= MaxSessions + Cardinality(Procs) - 1
    BY DEF SessionsInv, Init
  <2>1. MayUseUp(u, s) = {}
    BY DEF MayUseUp, MayUse, Init, IdleReq
  <2>2. Cardinality(MayUseUp(u, s)) = 0 /\ Cardinality(Procs) \in Nat
    BY <2>1, FS_EmptySet, SocialAssumption, FS_CardinalityType
  <2> QED
    BY <2>2, SocialAssumption
<1>2. IInv /\ SessionsInv /\ [Next]_vars => SessionsInv'
  <2> SUFFICES ASSUME IInv, SessionsInv, [Next]_vars
               PROVE  SessionsInv'
    OBVIOUS
  <2>1. CASE Tick \/ UNCHANGED vars
    BY <2>1 DEF Tick, vars, tables, SessionsInv, MayUseUp
  <2>2. ASSUME NEW p \in Procs, Step(p)
        PROVE  SessionsInv'
    BY <2>2, OtherStepsSessions, VerifySkippedSessions, RecordSessionSessions
  <2> QED
    BY <2>1, <2>2 DEF Next, Step
<1>3. IInv /\ SessionsInv => SessionsBounded
  <2> SUFFICES ASSUME IInv, SessionsInv, NEW u \in Users, NEW s \in Steps
               PROVE  sessions[u][s] <= MaxSessions + Cardinality(Procs) - 1
    BY DEF SessionsBounded
  <2>1. MayUseUp(u, s) \subseteq Procs
    BY DEF MayUseUp
  <2>2. Cardinality(MayUseUp(u, s)) \in Nat /\ Cardinality(Procs) \in Nat
    BY <2>1, SocialAssumption, SubsetCounts
  <2>3. sessions[u][s] \in Nat /\ MaxSessions \in Nat
    BY SocialAssumption DEF IInv, TablesTypeOK
  <2> QED
    BY <2>2, <2>3 DEF SessionsInv
<1> QED
  BY <1>1, <1>2, <1>3, Invariant, PTL DEF Spec
=============================================================================
