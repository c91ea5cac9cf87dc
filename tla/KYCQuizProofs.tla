---------------------------- MODULE KYCQuizProofs ----------------------------
(***************************************************************************)
(* Proofs about the quiz: a session gets one verdict, the step is passed   *)
(* only by a session that succeeded or by a reset, a reset is paid for,    *)
(* and the quiz closes, for any requests, attempts, resets, durations and  *)
(* faults.                                                                 *)
(*                                                                         *)
(* None of the four is inductive.  What an open transaction will write     *)
(* must fit what the tables say until it commits: whose verdict it holds,  *)
(* what it adds and what it moves.  The lock on the session's row, and the *)
(* failure of all but the first of the transactions that recorded anything *)
(* at once, keep it so.                                                    *)
(***************************************************************************)
EXTENDS KYCQuiz, FiniteSetTheorems, TLAPS

\* The sessions and skips that are on record as failed.
Recorded == AttemptIDs(failed) \cup history

\* Sessions are numbered; each failed one has one record, a session that runs or
\* has succeeded has none.
RecordsOK ==
  /\ Recorded \subseteq 1..rows
  /\ \A a, b \in failed : a.id = b.id => a = b
  /\ AttemptIDs(failed) \cap history = {}
  /\ session.status # "none" => session.id \in starts
  /\ session.status \in {"active", "success"} => session.id \notin Recorded
  /\ session.status = "active" => session.id \notin succeeded
  /\ succeeded \cap Recorded = {}
  /\ session.status = "failed" => session.id \in Recorded

\* The transaction that has locked the session's row gives the session that runs
\* its verdict, or only dates one that has failed.
HoldsSession(r) ==
  \/ /\ session.status = "active" /\ r.session.id = session.id
     /\ \/ r.session.status = "success" /\ r.success /\ r.added = {}
        \/ r.session.status = "failed" /\ ~r.success /\ AttemptIDs(r.added) = {session.id}
  \/ /\ session.status = "failed" /\ r.session = session
     /\ ~r.success /\ r.added = {}

\* A skip without a session records an attempt that is no session's.
HoldsSkip(r) ==
  /\ ~r.success
  /\ \E id \in 1..rows : AttemptIDs(r.added) = {id} /\ (session.status # "none" => session.id # id)

\* What the tables say of an attempt to add and of those to move, until another
\* transaction that recorded something has committed.
StillTrue(r) ==
  /\ AttemptIDs(r.added) \cap (Recorded \cup succeeded) = {}
  /\ r.moved \subseteq failed \cup r.added

TransactionOK(p, r) ==
  /\ r.pc \in {"modify", "update", "notify", "commit"}
  /\ \A a, b \in r.added : a = b
  /\ r.blocked <=> r.moved # {}
  /\ r.moved # {} => r.added \subseteq r.moved /\ (r.added # {} \/ r.success)
  /\ IF lock = p THEN HoldsSession(r) ELSE HoldsSkip(r)
  /\ ~r.doomed => StillTrue(r)

OutsideOK(p, r) ==
  /\ r.pc # "commit" /\ lock # p
  /\ ~r.success /\ r.added = {} /\ r.moved = {}
  /\ r.pc = "skip" => r.then = "idle"
  /\ r.then = "idle" => ~r.blocked
  /\ r.then = "enabled" => resets > 0

ReqsOK ==
  \A p \in Procs :
    /\ IF InTransaction(p) THEN TransactionOK(p, req[p]) ELSE OutsideOK(p, req[p])
    /\ req[p].pc = "update" /\ req[p].target = QuizKYCStep => req[p].success \/ req[p].blocked

IInv == TypeOK /\ RecordsOK /\ ReqsOK /\ PassedIsEarned
-----------------------------------------------------------------------------
LEMMA IdleType == IdleReq \in Request /\ NoSession \in Session
BY QuizAssumption DEF IdleReq, Request, PCs, Times, NoSession, Session, Attempt

LEMMA MaxOfTwo ==
  ASSUME NEW a \in Nat, NEW b \in Nat
  PROVE  Max({a, b}) = IF a >= b THEN a ELSE b
<1>1. PICK m : m = IF a >= b THEN a ELSE b
  OBVIOUS
<1>2. m \in {a, b} /\ \A y \in {a, b} : m >= y
  BY <1>1
<1>3. \A x \in {a, b} : (\A y \in {a, b} : x >= y) => x = m
  BY <1>1
<1> QED BY <1>1, <1>2, <1>3 DEF Max

LEMMA Changed ==
  ASSUME TypeOK, NEW p \in Procs, NEW x, req' = [req EXCEPT ![p] = x]
  PROVE  /\ DOMAIN req' = Procs
         /\ req'[p] = x
         /\ \A q \in Procs \ {p} : req'[q] = req[q]
BY DEF TypeOK

LEMMA EndedType ==
  ASSUME TypeOK, RecordsOK, session.status # "none",
         NEW s, s.id = session.id, NEW status \in {"failed", "success"}
  PROVE  /\ EndedAs(s, status) \in Session
         /\ EndedAs(s, status).status = status
         /\ EndedAs(s, status).id = session.id
         /\ EndedAs(s, status).since = now
         /\ FailedBy(EndedAs(s, status)) =
              IF status = "failed" THEN {Attempted(session.id)} ELSE {}
         /\ Attempted(session.id) \in Attempt
<1>1. session.id \in IDs /\ session.id \in 0..MaxRows /\ now \in Times
  <2>1. session.id \in 1..rows /\ rows \in 0..MaxRows /\ now \in Times
    BY DEF TypeOK, RecordsOK
  <2> QED BY <2>1, QuizAssumption DEF IDs
<1>2. EndedAs(s, status) = [status |-> status, id |-> session.id, since |-> now,
                            right |-> 0, wrong |-> 0]
  <2>1. PICK n : n = NoSession
    OBVIOUS
  <2>2. n = [status |-> "none", id |-> 0, since |-> 0, right |-> 0, wrong |-> 0]
    BY <2>1 DEF NoSession
  <2>3. EndedAs(s, status) = [n EXCEPT !.status = status, !.id = s.id, !.since = now]
    BY <2>1 DEF EndedAs
  <2> QED BY <2>2, <2>3
<1>3. 0 \in 0..Questions /\ 0 \in 0..MaxWrong
  BY QuizAssumption
<1> QED BY <1>1, <1>2, <1>3 DEF Session, Attempt, Attempted, FailedBy
-----------------------------------------------------------------------------
\* What another request has read and means to write, but for its being doomed.
SameButDoomed(new, old) ==
  /\ new \in Request
  /\ new.pc = old.pc /\ new.began = old.began /\ new.at = old.at /\ new.then = old.then
  /\ new.success = old.success /\ new.blocked = old.blocked
  /\ new.target = old.target
  /\ new.session = old.session /\ new.added = old.added /\ new.moved = old.moved
  /\ old.doomed => new.doomed

\* The request p goes on as x, and the others stay, and stay true.
GoesOn(p, x) ==
  /\ x \in Request
  /\ DOMAIN req' = Procs /\ req'[p] = x
  /\ \A q \in Procs \ {p} :
       /\ SameButDoomed(req'[q], req[q])
       /\ lock' = q <=> lock = q
       /\ InTransaction(q) /\ ~req'[q].doomed => StillTrue(req[q])'
  /\ \/ session' = session
     \/ /\ \A q \in Procs \ {p} : lock # q
        /\ \/ session'.id = rows + 1
           \/ session.status # "none" /\ session'.id = session.id
  /\ resets <= resets' /\ rows <= rows'

\* It does so in a state of its own that is right.
FitsIn(p, x) ==
  /\ (IF x.then = "commit" THEN TransactionOK(p, x) ELSE OutsideOK(p, x))'
  /\ x.pc = "update" /\ x.target = QuizKYCStep => x.success \/ x.blocked

LEMMA OthersKeep ==
  ASSUME TypeOK, TypeOK', ReqsOK, NEW p \in Procs, NEW x, GoesOn(p, x), FitsIn(p, x)
  PROVE  ReqsOK'
<1> SUFFICES ASSUME NEW q \in Procs \ {p}
             PROVE  /\ IF InTransaction(q)' THEN TransactionOK(q, req[q])'
                       ELSE OutsideOK(q, req[q])'
                    /\ (req[q].pc = "update" /\ req[q].target = QuizKYCStep
                          => req[q].success \/ req[q].blocked)'
  BY DEF ReqsOK, GoesOn, FitsIn, InTransaction
<1>1. PICK new, old : new = req'[q] /\ old = req[q]
  OBVIOUS
<1>2. /\ SameButDoomed(new, old) /\ (lock' = q <=> lock = q)
      /\ new.doomed \/ old.then # "commit" \/ StillTrue(new)'
  BY <1>1 DEF GoesOn, InTransaction, StillTrue
<1>3. (old.pc = "update" /\ old.target = QuizKYCStep => old.success \/ old.blocked)
      /\ IF old.then = "commit" THEN TransactionOK(q, old) ELSE OutsideOK(q, old)
  BY <1>1 DEF ReqsOK, InTransaction
<1>4. resets \in Nat /\ resets' \in Nat /\ rows \in Nat /\ rows' \in Nat
      /\ resets <= resets' /\ rows <= rows'
  BY QuizAssumption DEF TypeOK, GoesOn
<1>5. CASE old.then # "commit"
  BY <1>1, <1>2, <1>3, <1>4, <1>5 DEF InTransaction, OutsideOK, SameButDoomed
<1>6. CASE old.then = "commit"
  <2>1. CASE lock = q
    <3>1. session' = session
      BY <2>1 DEF GoesOn
    <3>2. HoldsSession(new)'
      BY <1>2, <1>3, <1>6, <2>1, <3>1 DEF TransactionOK, HoldsSession, SameButDoomed
    <3> QED BY <1>1, <1>2, <1>3, <1>6, <2>1, <3>2
            DEF InTransaction, TransactionOK, SameButDoomed, StillTrue
  <2>2. CASE lock # q
    <3>1. PICK id \in 1..rows : /\ AttemptIDs(old.added) = {id}
                                /\ session.status # "none" => session.id # id
      BY <1>3, <1>6, <2>2 DEF TransactionOK, HoldsSkip
    <3>2. id \in 1..rows' /\ id # rows + 1
      BY <1>4, <3>1
    <3>3. session'.status # "none" => session'.id # id
      BY <3>1, <3>2 DEF GoesOn
    <3>4. HoldsSkip(new)'
      BY <1>2, <1>3, <1>6, <2>2, <3>1, <3>2, <3>3 DEF TransactionOK, HoldsSkip, SameButDoomed
    <3> QED BY <1>1, <1>2, <1>3, <1>6, <2>2, <3>4
            DEF InTransaction, TransactionOK, SameButDoomed, StillTrue
  <2> QED BY <2>1, <2>2
<1> QED BY <1>5, <1>6

\* The step is passed, or stays passed, for what the request p does.
LEMMA EarnedKeeps ==
  ASSUME TypeOK, TypeOK', PassedIsEarned, NEW p \in Procs, NEW x, GoesOn(p, x),
         faults <= faults', succeeded # {} => succeeded' # {},
         passed' = QuizKYCStep =>
           \/ passed = QuizKYCStep
           \/ x.pc = "notify" /\ (x.success \/ x.blocked),
         req[p].pc \in {"notify", "commit"} /\ (req[p].success \/ req[p].blocked) =>
           \/ x.pc \in {"notify", "commit"} /\ (x.success \/ x.blocked)
           \/ succeeded' # {} \/ resets' > 0 \/ faults' > 0
  PROVE  PassedIsEarned'
<1>1. /\ {resets, resets', faults, faults'} \subseteq Nat
      /\ resets <= resets' /\ faults <= faults' /\ req'[p] = x
  BY QuizAssumption DEF TypeOK, GoesOn
<1>2. \A q \in Procs \ {p} : /\ req'[q].pc = req[q].pc
                             /\ req'[q].success = req[q].success
                             /\ req'[q].blocked = req[q].blocked
  BY DEF GoesOn, SameButDoomed
<1> QED BY <1>1, <1>2 DEF PassedIsEarned
-----------------------------------------------------------------------------
\* A step of p that adds no attempt and moves none.
LEMMA OthersStay ==
  ASSUME IInv, NEW p \in Procs, NEW x,
         req' = [req EXCEPT ![p] = x] \/ (req' = req /\ x = req[p]),
         failed' = failed, history' = history, succeeded' = succeeded
  PROVE  /\ DOMAIN req' = Procs /\ req'[p] = x
         /\ \A q \in Procs \ {p} :
              /\ req'[q] = req[q] /\ SameButDoomed(req'[q], req[q])
              /\ InTransaction(q) /\ ~req'[q].doomed => StillTrue(req[q])'
         /\ Recorded' = Recorded
<1>1. /\ DOMAIN req' = Procs /\ req'[p] = x
      /\ \A q \in Procs \ {p} : req'[q] = req[q]
  BY Changed DEF IInv, TypeOK
<1>2. Recorded' = Recorded
  BY DEF Recorded, AttemptIDs
<1>3. ASSUME NEW q \in Procs \ {p}
      PROVE  SameButDoomed(req'[q], req[q]) /\ (InTransaction(q) /\ ~req'[q].doomed => StillTrue(req[q])')
  <2>1. PICK old : old = req[q]
    OBVIOUS
  <2>2. old \in Request /\ SameButDoomed(old, old) /\ req'[q] = old
    BY <1>1, <2>1 DEF SameButDoomed, IInv, TypeOK
  <2>3. old.then = "commit" /\ ~old.doomed => StillTrue(old)
    BY <2>1 DEF IInv, ReqsOK, TransactionOK, InTransaction
  <2>4. old.then = "commit" /\ ~old.doomed => StillTrue(old)'
    BY <1>2, <2>3 DEF StillTrue
  <2> QED BY <2>1, <2>2, <2>4 DEF StillTrue, InTransaction
<1> QED BY <1>1, <1>2, <1>3

\* A step of p that leaves the quiz tables alone, and may give up the lock.
QuietStep(p, x) ==
  /\ x \in Request
  /\ req' = [req EXCEPT ![p] = x]
  /\ session' = session /\ failed' = failed /\ history' = history /\ resets' = resets
  /\ rows' = rows /\ starts' = starts /\ replaced' = replaced /\ succeeded' = succeeded
  /\ now' \in Times /\ passed' \in 0..QuizKYCStep /\ updated' \in Times
  /\ panicked' \in BOOLEAN /\ faults' \in 0..MaxFaults /\ faults <= faults'
  /\ lock' = lock \/ Release(p)
  /\ passed' = QuizKYCStep =>
       \/ passed = QuizKYCStep
       \/ x.pc = "notify" /\ (x.success \/ x.blocked)
  /\ req[p].pc \in {"notify", "commit"} /\ (req[p].success \/ req[p].blocked) =>
       \/ x.pc \in {"notify", "commit"} /\ (x.success \/ x.blocked)
       \/ succeeded # {} \/ resets > 0 \/ faults' > 0

LEMMA QuietKeeps ==
  ASSUME IInv, NEW p \in Procs, NEW x, QuietStep(p, x), FitsIn(p, x)
  PROVE  IInv'
<1> USE DEF IInv, QuietStep
<1>1. /\ DOMAIN req' = Procs /\ req'[p] = x
      /\ \A q \in Procs \ {p} :
           /\ req'[q] = req[q] /\ SameButDoomed(req'[q], req[q])
           /\ InTransaction(q) /\ ~req'[q].doomed => StillTrue(req[q])'
  BY OthersStay
<1>2. lock' \in Procs \cup {None} /\ \A q \in Procs \ {p} : lock' = q <=> lock = q
  BY QuizAssumption DEF TypeOK, Release
<1>3. TypeOK'
  BY <1>1, <1>2 DEF TypeOK
<1>4. RecordsOK'
  BY DEF RecordsOK, Recorded, AttemptIDs
<1>5. GoesOn(p, x)
  BY <1>1, <1>2, QuizAssumption DEF GoesOn, TypeOK
<1>6. ReqsOK'
  BY <1>3, <1>5, OthersKeep
<1>7. PassedIsEarned'
  BY <1>3, <1>5, EarnedKeeps
<1> QED BY <1>3, <1>4, <1>6, <1>7

\* What x means to write is what r meant to write.
Carries(x, r) ==
  /\ x \in Request
  /\ x.then = r.then /\ x.success = r.success /\ x.blocked = r.blocked
  /\ x.session = r.session /\ x.added = r.added /\ x.moved = r.moved
  /\ x.doomed = r.doomed

LEMMA CarriesFits ==
  ASSUME IInv, NEW p \in Procs, NEW r, r = req[p], NEW x, Carries(x, r),
         session' = session, failed' = failed, history' = history, resets' = resets,
         rows' = rows, lock' = lock, succeeded' = succeeded,
         r.then = "commit" => x.pc \in {"modify", "update", "notify", "commit"},
         r.then # "commit" => x.pc \notin {"commit", "skip"},
         x.pc = "update" /\ x.target = QuizKYCStep => x.success \/ x.blocked
  PROVE  FitsIn(p, x)
<1>1. IF r.then = "commit" THEN TransactionOK(p, r) ELSE OutsideOK(p, r)
  BY DEF IInv, ReqsOK, InTransaction
<1>2. CASE r.then = "commit"
  <2>1. HoldsSession(r) => HoldsSession(x)'
    BY DEF Carries, HoldsSession
  <2>2. HoldsSkip(r) => HoldsSkip(x)'
    BY DEF Carries, HoldsSkip
  <2>3. StillTrue(r) => StillTrue(x)'
    BY DEF Carries, StillTrue, Recorded, AttemptIDs
  <2> QED BY <1>1, <1>2, <2>1, <2>2, <2>3 DEF FitsIn, TransactionOK, Carries
<1>3. CASE r.then # "commit"
  BY <1>1, <1>3 DEF FitsIn, OutsideOK, Carries
<1> QED BY <1>2, <1>3

\* A request that is served is free for the next.
LEMMA FinishedFits ==
  ASSUME NEW p \in Procs, lock' # p
  PROVE  /\ IdleReq \in Request /\ FitsIn(p, IdleReq)
         /\ IdleReq.pc = "idle"
BY IdleType, QuizAssumption DEF IdleReq, FitsIn, OutsideOK, Times

\* One that begins outside a transaction has nothing to write.
LEMMA BeginFits ==
  ASSUME IInv, NEW p \in Procs, NEW pc \in {"count", "enabled", "skip"}, Begin(p, pc)
  PROVE  \E x \in Request :
           /\ req' = [req EXCEPT ![p] = x]
           /\ x.pc = pc /\ x.began = now /\ x.then = "idle"
           /\ lock' = lock => FitsIn(p, x)
<1>1. PICK i : i = IdleReq
  OBVIOUS
<1>2. i = [pc |-> "idle", began |-> 0, at |-> 0, then |-> "idle", success |-> FALSE,
           blocked |-> FALSE, target |-> 0, old |-> 0, session |-> NoSession,
           added |-> {}, moved |-> {}, doomed |-> FALSE]
  BY <1>1 DEF IdleReq
<1>3. PICK x : x = [i EXCEPT !.pc = pc, !.began = now]
  OBVIOUS
<1>4. x = [pc |-> pc, began |-> now, at |-> 0, then |-> "idle", success |-> FALSE,
           blocked |-> FALSE, target |-> 0, old |-> 0, session |-> NoSession,
           added |-> {}, moved |-> {}, doomed |-> FALSE]
  BY <1>2, <1>3
<1>5. x \in Request /\ x.pc = pc /\ x.began = now /\ x.then = "idle"
  <2>1. now \in Times /\ 0 \in Times /\ NoSession \in Session
    BY IdleType, QuizAssumption DEF IInv, TypeOK, Times
  <2> QED BY <1>4, <2>1 DEF Request, PCs
<1>6. lock # p
  BY DEF Begin, IInv, ReqsOK, TransactionOK, OutsideOK, InTransaction
<1>7. lock' = lock => FitsIn(p, x)
  BY <1>4, <1>6 DEF FitsIn, OutsideOK
<1> QED BY <1>1, <1>3, <1>5, <1>7 DEF Begin

LEMMA CountFailedKeeps ==
  ASSUME IInv, NEW p \in Procs, CountFailed(p)
  PROVE  IInv'
<1>1. PICK r : r = req[p]
  OBVIOUS
<1>2. r \in Request /\ r.pc = "count" /\ OutsideOK(p, r) /\ lock' = lock
  BY <1>1 DEF CountFailed, IInv, TypeOK, ReqsOK, TransactionOK, InTransaction
<1>3. PICK x : /\ req' = [req EXCEPT ![p] = x]
               /\ \/ x = [r EXCEPT !.pc = "move"]
                  \/ x = [r EXCEPT !.pc = "modify", !.blocked = FALSE, !.then = "idle"]
  <2>1. CASE Exhausted(failed)
    BY <1>1, <2>1 DEF CountFailed, Goto
  <2>2. CASE ~Exhausted(failed)
    BY <1>1, <2>2 DEF CountFailed, Modify
  <2> QED BY <2>1, <2>2
<1>4. x \in Request /\ x.pc \in {"move", "modify"}
  BY <1>2, <1>3 DEF Request, PCs
<1>5. FitsIn(p, x)
  <2>1. resets' = resets
    BY DEF CountFailed, quiz, observed
  <2>2. /\ x.then = r.then \/ x.then = "idle"
        /\ x.success = r.success /\ x.added = r.added /\ x.moved = r.moved
        /\ x.then = "idle" => x.blocked = r.blocked \/ ~x.blocked
        /\ r.then # "commit"
    BY <1>1, <1>2, <1>3 DEF Request, IInv, ReqsOK, TransactionOK, InTransaction
  <2>3. x.then = "idle" => ~x.blocked
    BY <1>2, <1>3 DEF Request, OutsideOK
  <2> QED BY <1>2, <1>4, <2>1, <2>2, <2>3 DEF FitsIn, OutsideOK
<1>6. QuietStep(p, x)
  BY <1>1, <1>2, <1>3, <1>4, QuizAssumption
     DEF QuietStep, CountFailed, IInv, TypeOK, user, quiz, observed
<1> QED BY <1>5, <1>6, QuietKeeps

LEMMA EnabledKeeps ==
  ASSUME IInv, NEW p \in Procs, IsQuizEnabledForUser(p) \/ CheckUserKYC(p) \/ BeginSkip(p)
  PROVE  IInv'
<1>1. PICK r : r = req[p]
  OBVIOUS
<1>2. r \in Request /\ r.pc \in {"idle", "enabled", "kyc"} /\ OutsideOK(p, r) /\ lock' = lock
      /\ r.then # "commit"
  BY <1>1 DEF IsQuizEnabledForUser, CheckUserKYC, BeginSkip, Begin,
              IInv, TypeOK, ReqsOK, TransactionOK, InTransaction
<1>3. session' = session /\ failed' = failed /\ history' = history /\ resets' = resets
      /\ rows' = rows /\ succeeded' = succeeded
  BY DEF IsQuizEnabledForUser, CheckUserKYC, BeginSkip, quiz, observed
<1>4. ASSUME NEW x \in Request, req' = [req EXCEPT ![p] = x], FitsIn(p, x)
      PROVE  IInv'
  <2>1. QuietStep(p, x)
    BY <1>1, <1>2, <1>3, <1>4, QuizAssumption
       DEF QuietStep, IsQuizEnabledForUser, CheckUserKYC, BeginSkip, IInv, TypeOK, user, observed
  <2> QED BY <1>4, <2>1, QuietKeeps
<1>5. CASE BeginSkip(p)
  BY <1>2, <1>4, <1>5, BeginFits DEF BeginSkip
<1>6. CASE Finished(p)
  BY <1>2, <1>4, <1>6, FinishedFits DEF OutsideOK, Finished
<1>7. ASSUME NEW pc \in {"kyc", "new"}, Goto(p, pc)
      PROVE  IInv'
  <2>1. PICK x : x = [r EXCEPT !.pc = pc]
    OBVIOUS
  <2>2. Carries(x, r) /\ x.pc = pc
    BY <1>2, <2>1 DEF Carries, Request, PCs
  <2>3. FitsIn(p, x)
    BY <1>1, <1>2, <1>3, <2>2, CarriesFits
  <2> QED BY <1>1, <1>4, <1>7, <2>1, <2>2, <2>3 DEF Goto, Carries
<1> QED BY <1>5, <1>6, <1>7 DEF IsQuizEnabledForUser, CheckUserKYC

LEMMA ReadUserKeeps ==
  ASSUME IInv, NEW p \in Procs, ReadUser(p)
  PROVE  IInv'
<1>1. PICK r : r = req[p]
  OBVIOUS
<1>2. r \in Request /\ r.pc = "modify" /\ lock' = lock /\ updated \in Times
  BY <1>1 DEF ReadUser, IInv, TypeOK
<1>3. PICK t \in {0, QuizKYCStep} : t = IF Passes(r) THEN QuizKYCStep ELSE 0
  OBVIOUS
<1>4. PICK x : /\ req' = [req EXCEPT ![p] = x]
               /\ x = [r EXCEPT !.pc = "update", !.old = updated, !.target = t]
  BY <1>1, <1>3 DEF ReadUser
<1>5. Carries(x, r) /\ x.pc = "update" /\ x.target = t
  BY <1>2, <1>4 DEF Carries, Request, PCs
<1>6. t = QuizKYCStep => r.success \/ r.blocked
  BY <1>3 DEF Passes, QuizKYCStep
<1>7. /\ session' = session /\ failed' = failed /\ history' = history /\ resets' = resets
      /\ rows' = rows /\ starts' = starts /\ replaced' = replaced /\ succeeded' = succeeded /\ now' = now /\ passed' = passed
      /\ updated' = updated /\ panicked' = panicked /\ faults' = faults
  BY DEF ReadUser, quiz, user, observed
<1>8. FitsIn(p, x)
  BY <1>1, <1>2, <1>5, <1>6, <1>7, CarriesFits DEF Carries
<1>9. QuietStep(p, x)
  BY <1>1, <1>2, <1>4, <1>5, <1>7, QuizAssumption
     DEF Carries, QuietStep, IInv, TypeOK
<1> QED BY <1>8, <1>9, QuietKeeps

LEMMA UpdateUserKeeps ==
  ASSUME IInv, NEW p \in Procs, UpdateUser(p)
  PROVE  IInv'
<1>1. PICK r : r = req[p]
  OBVIOUS
<1>2. r \in Request /\ r.pc = "update" /\ lock' = lock /\ passed \in 0..QuizKYCStep
  BY <1>1 DEF UpdateUser, IInv, TypeOK
<1>3. PICK x : req' = [req EXCEPT ![p] = x] /\ x = [r EXCEPT !.pc = "notify"]
  BY <1>1 DEF UpdateUser, Goto
<1>4. Carries(x, r) /\ x.pc = "notify"
  BY <1>2, <1>3 DEF Carries, Request, PCs
<1>5. passed' = IF passed >= r.target THEN passed ELSE r.target
  <2>1. passed \in Nat /\ r.target \in Nat
    BY <1>2 DEF Request, QuizKYCStep
  <2> QED BY <1>1, <2>1, MaxOfTwo DEF UpdateUser
<1>6. passed' \in 0..QuizKYCStep
      /\ (passed' = QuizKYCStep => passed = QuizKYCStep \/ r.success \/ r.blocked)
  <2>1. r.target \in {0, QuizKYCStep} /\ (r.target = QuizKYCStep => r.success \/ r.blocked)
    BY <1>1, <1>2 DEF Request, IInv, ReqsOK
  <2> QED BY <1>2, <1>5, <2>1 DEF QuizKYCStep
<1>7. session' = session /\ failed' = failed /\ history' = history /\ resets' = resets
      /\ rows' = rows /\ succeeded' = succeeded
  BY DEF UpdateUser, quiz, observed
<1>8. FitsIn(p, x)
  BY <1>1, <1>4, <1>2, <1>7, CarriesFits
<1>9. QuietStep(p, x)
  BY <1>1, <1>2, <1>3, <1>4, <1>6, <1>7, QuizAssumption
     DEF Carries, QuietStep, UpdateUser, IInv, TypeOK, observed
<1> QED BY <1>8, <1>9, QuietKeeps

LEMMA NotifyKeeps ==
  ASSUME IInv, NEW p \in Procs, Notify(p)
  PROVE  IInv'
<1>1. PICK r : r = req[p]
  OBVIOUS
<1>2. r \in Request /\ r.pc = "notify" /\ r.then \in {"idle", "enabled", "commit"}
  BY <1>1 DEF Notify, IInv, TypeOK, Request
<1>3. IF r.then = "commit" THEN TransactionOK(p, r) ELSE OutsideOK(p, r)
  BY <1>1 DEF IInv, ReqsOK, InTransaction
<1>4. /\ session' = session /\ failed' = failed /\ history' = history /\ resets' = resets
      /\ rows' = rows /\ starts' = starts /\ replaced' = replaced /\ succeeded' = succeeded /\ now' = now /\ passed' = passed
      /\ panicked' = panicked
  BY DEF Notify, quiz, observed
<1>5. /\ updated' \in Times /\ faults' \in 0..MaxFaults /\ faults <= faults'
      /\ lock' = lock \/ Release(p)
  BY <1>1, <1>2, QuizAssumption DEF Notify, Fault, IInv, TypeOK, Request
<1>6. ASSUME NEW x \in Request, req' = [req EXCEPT ![p] = x], FitsIn(p, x),
             r.success \/ r.blocked =>
               \/ x.pc \in {"notify", "commit"} /\ (x.success \/ x.blocked)
               \/ resets > 0 \/ faults' > 0
      PROVE  IInv'
  <2>1. QuietStep(p, x)
    BY <1>1, <1>4, <1>5, <1>6 DEF QuietStep, IInv, TypeOK
  <2> QED BY <1>6, <2>1, QuietKeeps
<1>7. CASE Fault
  <2>1. CASE Finished(p) /\ Release(p)
    <3>1. lock' # p
      BY <2>1, QuizAssumption DEF Release
    <3>2. faults' > 0
      BY <1>7, QuizAssumption DEF Fault, IInv, TypeOK
    <3> QED BY <1>6, <2>1, <3>1, <3>2, FinishedFits DEF Finished
  <2>2. CASE faults' = faults
    BY <1>7, <2>2 DEF Fault, IInv, TypeOK
  <2> QED BY <1>7, <2>1, <2>2 DEF Notify
<1>8. CASE r.then = "idle" /\ Finished(p) /\ lock' = lock
  BY <1>3, <1>6, <1>8, FinishedFits DEF Finished, OutsideOK
<1>9. CASE r.then # "idle" /\ Goto(p, r.then) /\ lock' = lock
  <2>1. PICK x : x = [r EXCEPT !.pc = r.then]
    OBVIOUS
  <2>2. Carries(x, r) /\ x.pc = r.then
    BY <1>2, <1>9, <2>1 DEF Carries, Request, PCs
  <2>3. FitsIn(p, x)
    BY <1>1, <1>2, <1>4, <1>9, <2>2, CarriesFits
  <2>4. r.success \/ r.blocked => (x.pc = "commit" /\ (x.success \/ x.blocked)) \/ resets > 0
    BY <1>2, <1>3, <1>9, <2>2 DEF OutsideOK, Carries
  <2> QED BY <1>1, <1>6, <1>9, <2>1, <2>2, <2>3, <2>4 DEF Goto, Carries
<1> QED BY <1>1, <1>7, <1>8, <1>9 DEF Notify

LEMMA AbortKeeps ==
  ASSUME IInv, NEW p \in Procs, Abort(p)
  PROVE  IInv'
<1>1. lock' # p
  BY QuizAssumption DEF Abort, Release
<1>2. FitsIn(p, IdleReq) /\ IdleReq \in Request
  BY <1>1, FinishedFits
<1>3. PICK x \in Request : x = IdleReq
  BY <1>2
<1>4. /\ session' = session /\ failed' = failed /\ history' = history /\ resets' = resets
      /\ rows' = rows /\ starts' = starts /\ replaced' = replaced /\ succeeded' = succeeded /\ now' = now /\ passed' = passed
      /\ updated' = updated /\ panicked' = panicked /\ Release(p)
      /\ req' = [req EXCEPT ![p] = x] /\ faults' = faults + 1 /\ faults < MaxFaults
  BY <1>3 DEF Abort, quiz, user, Fault, Finished, observed
<1>5. QuietStep(p, x)
  BY <1>4, QuizAssumption DEF QuietStep, IInv, TypeOK
<1> QED BY <1>2, <1>3, <1>5, QuietKeeps

\* The clock and the step before touch neither the requests nor the quiz.
LEMMA OutsideKeeps ==
  ASSUME IInv, \/ PassSocial1 \/ Tick \/ UNCHANGED vars
  PROVE  IInv'
<1>1. /\ session' = session /\ failed' = failed /\ history' = history /\ resets' = resets
      /\ rows' = rows /\ starts' = starts /\ replaced' = replaced /\ succeeded' = succeeded /\ panicked' = panicked /\ faults' = faults
      /\ req' = req /\ lock' = lock /\ updated' = updated
  BY DEF PassSocial1, Tick, vars, quiz, user, observed
<1>2. now' \in Times /\ passed' \in 0..QuizKYCStep
  BY QuizAssumption DEF PassSocial1, Tick, vars, quiz, user, IInv, TypeOK, Times, QuizKYCStep, observed
<1>3. passed' = QuizKYCStep => passed = QuizKYCStep
  BY DEF PassSocial1, Tick, vars, user, QuizKYCStep, observed
<1>4. TypeOK' /\ RecordsOK'
  BY <1>1, <1>2 DEF IInv, TypeOK, RecordsOK, Recorded, AttemptIDs
<1>5. ReqsOK'
  <2>1. ASSUME NEW p \in Procs
        PROVE  (IF InTransaction(p) THEN TransactionOK(p, req[p]) ELSE OutsideOK(p, req[p]))'
    <3>1. IF InTransaction(p) THEN TransactionOK(p, req[p]) ELSE OutsideOK(p, req[p])
      BY DEF IInv, ReqsOK
    <3> QED BY <1>1, <3>1 DEF InTransaction, TransactionOK, OutsideOK, HoldsSession, HoldsSkip,
               StillTrue, Recorded, AttemptIDs
  <2> QED BY <1>1, <2>1 DEF ReqsOK, IInv
<1>6. PassedIsEarned'
  BY <1>1, <1>3 DEF IInv, PassedIsEarned
<1> QED BY <1>4, <1>5, <1>6 DEF IInv

-----------------------------------------------------------------------------
LEMMA IDsOf ==
  /\ \A a, b : AttemptIDs(a \cup b) = AttemptIDs(a) \cup AttemptIDs(b)
  /\ AttemptIDs({}) = {}
  /\ \A id : AttemptIDs({Attempted(id)}) = {id}
  /\ \A a, b : a \subseteq b => AttemptIDs(a) \subseteq AttemptIDs(b)
BY DEF AttemptIDs, Attempted

\* Failing the session that runs, while no transaction has locked it.
LEMMA FinishActiveKeeps ==
  ASSUME IInv, NEW p \in Procs, FinishUnfinishedSession(p), session.status = "active"
  PROVE  IInv'
<1> USE DEF IInv
<1>1. /\ lock = None /\ lock' = lock /\ Begin(p, "count")
      /\ session' = EndedAs(session, "failed") /\ failed' = failed \cup FailedBy(session')
      /\ history' = history /\ resets' = resets /\ rows' = rows /\ starts' = starts /\ replaced' = replaced /\ succeeded' = succeeded
      /\ now' = now /\ passed' = passed /\ updated' = updated
      /\ panicked' = panicked /\ faults' = faults
  BY DEF FinishUnfinishedSession, Unlocked, user, observed
<1>2. /\ session' \in Session /\ session'.status = "failed" /\ session'.id = session.id
      /\ failed' = failed \cup {Attempted(session.id)} /\ Attempted(session.id) \in Attempt
  BY <1>1, EndedType
<1>3. PICK x \in Request : req' = [req EXCEPT ![p] = x] /\ x.pc = "count" /\ FitsIn(p, x)
  BY <1>1, BeginFits
<1>4. DOMAIN req' = Procs /\ req'[p] = x /\ \A q \in Procs \ {p} : req'[q] = req[q]
  BY <1>3, Changed
<1>5. TypeOK'
  BY <1>1, <1>2, <1>4 DEF TypeOK
<1>6. Recorded' = Recorded \cup {session.id} /\ AttemptIDs(failed') = AttemptIDs(failed) \cup {session.id}
  <2>1. AttemptIDs(failed)' = AttemptIDs(failed) \cup {session.id}
    BY <1>2 DEF AttemptIDs, Attempted
  <2>2. AttemptIDs(failed)' = AttemptIDs(failed')
    BY DEF AttemptIDs
  <2> QED BY <1>1, <2>1, <2>2 DEF Recorded
<1>7. session.id \notin Recorded \cup succeeded /\ session.id \in 1..rows
  BY DEF RecordsOK, TypeOK
<1>8. \A a \in failed : a.id # session.id
  BY <1>7 DEF Recorded, AttemptIDs
<1>9. RecordsOK'
  <2>1. \A a, b \in failed' : a.id = b.id => a = b
    BY <1>2, <1>8 DEF RecordsOK, Attempted
  <2>2. AttemptIDs(failed)' = AttemptIDs(failed) \cup {session.id}
    BY <1>6 DEF AttemptIDs
  <2>3. (AttemptIDs(failed) \cap history)' = {}
    BY <1>1, <1>7, <2>2 DEF RecordsOK, Recorded
  <2>4. (succeeded \cap Recorded)' = {} /\ Recorded' \subseteq 1..rows
    BY <1>1, <1>6, <1>7 DEF RecordsOK
  <2>5. session'.id \in starts /\ session'.id \in Recorded'
    BY <1>2, <1>6 DEF RecordsOK
  <2> QED BY <1>1, <1>2, <2>1, <2>3, <2>4, <2>5 DEF RecordsOK
<1>10. ASSUME NEW q \in Procs \ {p}
       PROVE  SameButDoomed(req'[q], req[q]) /\ (InTransaction(q) /\ ~req'[q].doomed => StillTrue(req[q])')
  <2>1. PICK old : old = req[q]
    OBVIOUS
  <2>2. old \in Request /\ SameButDoomed(old, old) /\ req'[q] = old
    BY <1>4, <2>1 DEF SameButDoomed, TypeOK
  <2>3. old.then = "commit" /\ ~old.doomed => StillTrue(old) /\ HoldsSkip(old)
    BY <1>1, <2>1, QuizAssumption DEF ReqsOK, TransactionOK, InTransaction
  <2>4. old.then = "commit" /\ ~old.doomed => StillTrue(old)'
    BY <1>1, <1>2, <1>6, <2>3 DEF StillTrue, HoldsSkip
  <2> QED BY <2>1, <2>2, <2>4 DEF StillTrue, InTransaction
<1>11. GoesOn(p, x)
  BY <1>1, <1>2, <1>3, <1>4, <1>10, QuizAssumption DEF GoesOn, TypeOK
<1>12. ReqsOK'
  BY <1>3, <1>5, <1>11, OthersKeep
<1>13. req[p].pc = "idle"
  BY <1>1 DEF Begin
<1>14. PassedIsEarned'
  BY <1>1, <1>5, <1>11, <1>13, EarnedKeeps, QuizAssumption DEF TypeOK
<1> QED BY <1>5, <1>9, <1>12, <1>14

LEMMA FinishUnfinishedKeeps ==
  ASSUME IInv, NEW p \in Procs, FinishUnfinishedSession(p)
  PROVE  IInv'
<1>1. CASE session.status = "active"
  BY <1>1, FinishActiveKeeps
<1>2. CASE session.status # "active"
  <2>1. /\ Begin(p, "enabled") /\ lock' = lock
        /\ session' = session /\ failed' = failed /\ history' = history /\ resets' = resets
        /\ rows' = rows /\ starts' = starts /\ replaced' = replaced /\ succeeded' = succeeded /\ now' = now /\ passed' = passed
        /\ updated' = updated /\ panicked' = panicked /\ faults' = faults
    BY <1>2 DEF FinishUnfinishedSession, user, observed
  <2>2. PICK x \in Request : req' = [req EXCEPT ![p] = x] /\ x.pc = "enabled" /\ FitsIn(p, x)
    BY <2>1, BeginFits
  <2>3. req[p].pc = "idle"
    BY <2>1 DEF Begin
  <2>4. QuietStep(p, x)
    BY <2>1, <2>2, <2>3, QuizAssumption DEF QuietStep, IInv, TypeOK
  <2> QED BY <2>2, <2>4, QuietKeeps
<1> QED BY <1>1, <1>2

LEMMA MoveFailedKeeps ==
  ASSUME IInv, NEW p \in Procs, MoveFailed(p)
  PROVE  IInv'
<1> USE DEF IInv
<1>1. PICK r : r = req[p]
  OBVIOUS
<1>2. r \in Request /\ r.pc = "move" /\ r.then # "commit" /\ OutsideOK(p, r)
  BY <1>1 DEF MoveFailed, TypeOK, ReqsOK, TransactionOK, InTransaction
<1>3. /\ failed' = {} /\ history' = history \cup AttemptIDs(failed)
      /\ session' = session /\ resets' = resets /\ rows' = rows /\ starts' = starts /\ replaced' = replaced /\ succeeded' = succeeded
      /\ now' = now /\ passed' = passed /\ updated' = updated /\ lock' = lock
      /\ panicked' = panicked /\ faults' = faults
      /\ \A q \in Procs : req[q].moved = {}
  BY DEF MoveFailed, user, Moving, observed
<1>4. PICK x : req' = [req EXCEPT ![p] = x] /\ x = [r EXCEPT !.pc = "reset"]
  BY <1>1 DEF MoveFailed, Goto
<1>5. Carries(x, r) /\ x.pc = "reset"
  BY <1>2, <1>4 DEF Carries, Request, PCs
<1>6. FitsIn(p, x)
  BY <1>2, <1>3, <1>5 DEF FitsIn, OutsideOK, Carries
<1>7. DOMAIN req' = Procs /\ req'[p] = x /\ \A q \in Procs \ {p} : req'[q] = req[q]
  BY <1>4, Changed
<1>8. AttemptIDs(failed) \subseteq IDs /\ AttemptIDs(failed)' = {} /\ Recorded' = Recorded
  BY <1>3 DEF TypeOK, AttemptIDs, Attempt, Recorded
<1>9. TypeOK'
  BY <1>3, <1>5, <1>7, <1>8 DEF TypeOK, Carries
<1>10. RecordsOK'
  BY <1>3, <1>8 DEF RecordsOK
<1>11. ASSUME NEW q \in Procs \ {p}
       PROVE  SameButDoomed(req'[q], req[q]) /\ (InTransaction(q) /\ ~req'[q].doomed => StillTrue(req[q])')
  <2>1. PICK old : old = req[q]
    OBVIOUS
  <2>2. old \in Request /\ SameButDoomed(old, old) /\ req'[q] = old /\ old.moved = {}
    BY <1>3, <1>7, <2>1 DEF SameButDoomed, TypeOK
  <2>3. old.then = "commit" /\ ~old.doomed => StillTrue(old)
    BY <2>1 DEF ReqsOK, TransactionOK, InTransaction
  <2>4. old.then = "commit" /\ ~old.doomed => StillTrue(old)'
    BY <1>3, <1>8, <2>2, <2>3 DEF StillTrue
  <2> QED BY <2>1, <2>2, <2>4 DEF StillTrue, InTransaction
<1>12. GoesOn(p, x)
  BY <1>3, <1>5, <1>7, <1>11, QuizAssumption DEF GoesOn, TypeOK, Carries
<1>13. ReqsOK'
  BY <1>6, <1>9, <1>12, OthersKeep
<1>14. PassedIsEarned'
  BY <1>1, <1>2, <1>3, <1>9, <1>12, EarnedKeeps, QuizAssumption DEF TypeOK
<1> QED BY <1>9, <1>10, <1>13, <1>14

LEMMA AppendResetKeeps ==
  ASSUME IInv, NEW p \in Procs, AppendReset(p)
  PROVE  IInv'
<1> USE DEF IInv
<1>1. PICK r : r = req[p]
  OBVIOUS
<1>2. r \in Request /\ r.pc = "reset" /\ r.then # "commit" /\ OutsideOK(p, r)
  BY <1>1 DEF AppendReset, TypeOK, ReqsOK, TransactionOK, InTransaction
<1>3. /\ failed' = failed /\ history' = history
      /\ session' = session /\ resets' = resets + 1 /\ rows' = rows /\ starts' = starts /\ replaced' = replaced /\ succeeded' = succeeded
      /\ now' = now /\ passed' = passed /\ updated' = updated /\ lock' = lock
      /\ panicked' = panicked /\ faults' = faults
  BY DEF AppendReset, user, observed
<1>4. PICK x : req' = [req EXCEPT ![p] = x]
               /\ x = [r EXCEPT !.pc = "modify", !.blocked = TRUE, !.then = "enabled"]
  BY <1>1 DEF AppendReset, Modify
<1>5. x \in Request /\ x.pc = "modify" /\ x.then = "enabled"
      /\ x.success = r.success /\ x.added = r.added /\ x.moved = r.moved
  BY <1>2, <1>4 DEF Request, PCs
<1>6. resets \in Nat /\ resets' \in Nat /\ resets' > 0
  BY <1>3 DEF TypeOK
<1>7. FitsIn(p, x)
  BY <1>2, <1>3, <1>5, <1>6 DEF FitsIn, OutsideOK
<1>8. /\ DOMAIN req' = Procs /\ req'[p] = x /\ Recorded' = Recorded
      /\ \A q \in Procs \ {p} :
           /\ req'[q] = req[q] /\ SameButDoomed(req'[q], req[q])
           /\ InTransaction(q) /\ ~req'[q].doomed => StillTrue(req[q])'
  BY <1>3, <1>4, OthersStay
<1>9. TypeOK'
  BY <1>3, <1>5, <1>6, <1>8 DEF TypeOK
<1>10. RecordsOK'
  BY <1>3 DEF RecordsOK, Recorded, AttemptIDs
<1>11. GoesOn(p, x)
  BY <1>3, <1>5, <1>6, <1>8, QuizAssumption DEF GoesOn, TypeOK
<1>12. ReqsOK'
  BY <1>7, <1>9, <1>11, OthersKeep
<1>13. PassedIsEarned'
  BY <1>1, <1>2, <1>3, <1>9, <1>11, EarnedKeeps, QuizAssumption DEF TypeOK
<1> QED BY <1>9, <1>10, <1>12, <1>13

\* What the statement of a start has seen is all that the request keeps of it.
LEMMA StartNewKeeps ==
  ASSUME IInv, NEW p \in Procs, StartNewSession(p)
  PROVE  IInv'
<1>1. PICK r : r = req[p]
  OBVIOUS
<1>2. r \in Request /\ r.pc = "new" /\ OutsideOK(p, r) /\ lock' = lock /\ r.then # "commit"
  BY <1>1 DEF StartNewSession, IInv, TypeOK, ReqsOK, TransactionOK, InTransaction
<1>3. /\ session' = session /\ failed' = failed /\ history' = history /\ resets' = resets
      /\ rows' = rows /\ succeeded' = succeeded
  BY DEF StartNewSession, quiz, observed
<1>4. ASSUME NEW x \in Request, req' = [req EXCEPT ![p] = x], FitsIn(p, x)
      PROVE  IInv'
  <2>1. QuietStep(p, x)
    BY <1>1, <1>2, <1>3, <1>4, QuizAssumption
       DEF QuietStep, StartNewSession, IInv, TypeOK, user, observed
  <2> QED BY <1>4, <2>1, QuietKeeps
<1>5. CASE Finished(p)
  BY <1>2, <1>4, <1>5, FinishedFits DEF OutsideOK, Finished
<1>6. ASSUME NEW pc \in {"insert", "replace"},
             req' = [req EXCEPT ![p].pc = pc, ![p].at = now]
      PROVE  IInv'
  <2>1. PICK x : x = [r EXCEPT !.pc = pc, !.at = now]
    OBVIOUS
  <2>2. now \in Times
    BY DEF IInv, TypeOK
  <2>3. Carries(x, r) /\ x.pc = pc
    BY <1>2, <2>1, <2>2 DEF Carries, Request, PCs
  <2>4. FitsIn(p, x)
    BY <1>1, <1>2, <1>3, <2>3, CarriesFits
  <2> QED BY <1>1, <1>4, <1>6, <2>1, <2>3, <2>4 DEF Carries
<1> QED BY <1>5, <1>6 DEF StartNewSession

\* A session that starts is numbered like nothing before it.
LEMMA StartedKeeps ==
  ASSUME IInv, NEW p \in Procs, UpsertSession(p), Finished(p), lock = None, lock' = lock,
         req[p].pc \in {"insert", "replace"},
         failed' = failed, history' = history, resets' = resets,
         now' = now, passed' = passed, updated' = updated, faults' = faults,
         panicked' = panicked, succeeded' = succeeded,
         \/ replaced' = replaced
         \/ session.status # "none" /\ replaced' = replaced \cup {session.id}
  PROVE  IInv'
<1> USE DEF IInv
<1>1. PICK x \in Request : x = IdleReq
  BY IdleType
<1>2. PICK t : t = req[p].at
  OBVIOUS
<1>3. /\ rows < MaxRows /\ rows' = rows + 1 /\ starts' = starts \cup {rows + 1}
      /\ session' = [NoSession EXCEPT !.status = "active", !.id = rows + 1, !.since = t]
      /\ req' = [req EXCEPT ![p] = x]
  BY <1>1, <1>2 DEF UpsertSession, Finished
<1>4. FitsIn(p, x)
  BY <1>1, FinishedFits, QuizAssumption
<1>5. /\ session' \in Session /\ session'.status = "active" /\ session'.id = rows + 1
  <2>1. PICK n : n = NoSession
    OBVIOUS
  <2>2. session' = [n EXCEPT !.status = "active", !.id = rows + 1, !.since = t]
    BY <1>3, <2>1
  <2>3. session' = [status |-> "active", id |-> rows + 1, since |-> t, right |-> 0, wrong |-> 0]
    BY <2>1, <2>2 DEF NoSession
  <2>4. rows + 1 \in 0..MaxRows /\ t \in Times /\ 0 \in 0..Questions /\ 0 \in 0..MaxWrong
    BY <1>2, <1>3, QuizAssumption DEF TypeOK, Request
  <2> QED BY <2>3, <2>4 DEF Session
<1>6. /\ DOMAIN req' = Procs /\ req'[p] = x /\ Recorded' = Recorded
      /\ \A q \in Procs \ {p} :
           /\ req'[q] = req[q] /\ SameButDoomed(req'[q], req[q])
           /\ InTransaction(q) /\ ~req'[q].doomed => StillTrue(req[q])'
  BY <1>3, OthersStay
<1>7. /\ rows \in Nat /\ rows' \in 0..MaxRows /\ starts' \subseteq 1..rows'
      /\ replaced' \subseteq starts' /\ succeeded' \subseteq starts'
      /\ rows + 1 \notin succeeded
  BY <1>3, QuizAssumption DEF TypeOK, RecordsOK
<1>8. TypeOK'
  BY <1>3, <1>5, <1>6, <1>7 DEF TypeOK
<1>9. RecordsOK'
  <2>1. rows + 1 \notin Recorded /\ Recorded \subseteq 1..rows' /\ rows + 1 \in starts'
    BY <1>3, <1>7 DEF RecordsOK
  <2>2. /\ \A a, b \in failed' : a.id = b.id => a = b
        /\ (AttemptIDs(failed) \cap history)' = {}
    BY DEF RecordsOK, AttemptIDs
  <2> QED BY <1>5, <1>6, <1>7, <2>1, <2>2 DEF RecordsOK
<1>10. GoesOn(p, x)
  BY <1>3, <1>5, <1>6, <1>7, QuizAssumption DEF GoesOn, TypeOK
<1>11. ReqsOK'
  BY <1>4, <1>8, <1>10, OthersKeep
<1>12. PassedIsEarned'
  BY <1>8, <1>10, EarnedKeeps, QuizAssumption DEF TypeOK
<1> QED BY <1>8, <1>9, <1>11, <1>12

LEMMA StartKeeps ==
  ASSUME IInv, NEW p \in Procs, StartFirst(p) \/ StartNext(p)
  PROVE  IInv'
<1>1. CASE StartFirst(p)
  BY <1>1, StartedKeeps DEF StartFirst, Unlocked, user
<1>2. CASE StartNext(p)
  <2>1. CASE UpsertSession(p) /\ panicked' = panicked
    BY <1>2, <2>1, StartedKeeps DEF StartNext, Unlocked, user
  <2>2. CASE UNCHANGED <<session, rows, starts>> /\ panicked' \in BOOLEAN
    <3>1. PICK x \in Request : x = IdleReq
      BY IdleType
    <3>2. /\ lock = None /\ lock' = lock /\ req' = [req EXCEPT ![p] = x] /\ req[p].pc = "replace"
          /\ failed' = failed /\ history' = history /\ resets' = resets
          /\ replaced' = replaced /\ succeeded' = succeeded
          /\ now' = now /\ passed' = passed /\ updated' = updated /\ faults' = faults
      BY <1>2, <3>1 DEF StartNext, Unlocked, Finished, user
    <3>3. FitsIn(p, x)
      BY <3>1, <3>2, FinishedFits, QuizAssumption
    <3>4. QuietStep(p, x)
      BY <2>2, <3>2, QuizAssumption DEF QuietStep, IInv, TypeOK
    <3> QED BY <3>3, <3>4, QuietKeeps
  <2> QED BY <1>2, <2>1, <2>2 DEF StartNext, IInv, TypeOK
<1> QED BY <1>1, <1>2

\* A transaction that marks a session, or records a skip, holds what it should.
LEMMA MarkKeeps ==
  ASSUME IInv, NEW p \in Procs, NEW s \in Session, NEW added \in SUBSET Attempt,
         NEW success \in BOOLEAN, Mark(p, s, added, success),
         \A a, b \in added : a = b, AttemptIDs(added) \cap (Recorded \cup succeeded) = {},
         added # {} \/ success,
         lock = None, lock' \in {p, None}, req[p].pc \in {"idle", "skip"},
         session' = session, failed' = failed, history' = history, resets' = resets,
         now' = now, passed' = passed, updated' = updated, faults' = faults,
         panicked' = panicked, starts' = starts /\ replaced' = replaced /\ succeeded' = succeeded,
         rows' \in 0..MaxRows, rows <= rows',
         \A x : x.session = s /\ x.added = added /\ x.success = success =>
           (IF lock = p THEN HoldsSession(x) ELSE HoldsSkip(x))'
  PROVE  IInv'
<1> USE DEF IInv
<1>1. PICK i, moved : /\ i = IdleReq
                      /\ moved = IF Exhausted(failed \cup added) THEN failed \cup added ELSE {}
  OBVIOUS
<1>2. PICK x : /\ req' = [req EXCEPT ![p] = x]
               /\ x = [i EXCEPT !.pc = "modify", !.began = now, !.then = "commit",
                         !.success = success, !.blocked = moved # {}, !.session = s,
                         !.added = added, !.moved = moved]
  BY <1>1 DEF Mark, observed
<1>3. x = [pc |-> "modify", began |-> now, at |-> 0, then |-> "commit", success |-> success,
           blocked |-> moved # {}, target |-> 0, old |-> 0, session |-> s,
           added |-> added, moved |-> moved, doomed |-> FALSE]
  <2>1. i = [pc |-> "idle", began |-> 0, at |-> 0, then |-> "idle", success |-> FALSE,
             blocked |-> FALSE, target |-> 0, old |-> 0, session |-> NoSession,
             added |-> {}, moved |-> {}, doomed |-> FALSE]
    BY <1>1 DEF IdleReq
  <2> QED BY <1>2, <2>1
<1>4. moved = {} \/ moved = failed \cup added
  BY <1>1
<1>5. x \in Request
  <2>1. now \in Times /\ 0 \in Times /\ moved \in SUBSET Attempt /\ (moved # {}) \in BOOLEAN
    BY <1>4, QuizAssumption DEF TypeOK, Times
  <2> QED BY <1>3, <2>1 DEF Request, PCs
<1>6. /\ DOMAIN req' = Procs /\ req'[p] = x /\ Recorded' = Recorded
      /\ \A q \in Procs \ {p} :
           /\ req'[q] = req[q] /\ SameButDoomed(req'[q], req[q])
           /\ InTransaction(q) /\ ~req'[q].doomed => StillTrue(req[q])'
  BY <1>2, OthersStay
<1>7. TypeOK'
  <2>1. lock' \in Procs \cup {None}
    OBVIOUS
  <2>2. starts' \subseteq 1..rows'
    BY QuizAssumption DEF TypeOK
  <2> QED BY <1>5, <1>6, <2>1, <2>2 DEF TypeOK
<1>8. RecordsOK'
  <2>1. Recorded \subseteq 1..rows' /\ (session.status # "none" => session.id \in starts')
    BY QuizAssumption DEF RecordsOK, TypeOK
  <2>2. (AttemptIDs(failed) \cap history)' = {}
    BY DEF RecordsOK, AttemptIDs
  <2> QED BY <1>6, <2>1, <2>2 DEF RecordsOK
<1>9. FitsIn(p, x)
  <2>1. (IF lock = p THEN HoldsSession(x) ELSE HoldsSkip(x))'
    BY <1>3
  <2>2. StillTrue(x)'
    BY <1>3, <1>4, <1>6 DEF StillTrue
  <2> QED BY <1>3, <1>4, <2>1, <2>2 DEF FitsIn, TransactionOK
<1>10. GoesOn(p, x)
  <2>1. \A q \in Procs \ {p} : lock' = q <=> lock = q
    BY QuizAssumption
  <2> QED BY <1>5, <1>6, <2>1, QuizAssumption DEF GoesOn, TypeOK
<1>11. ReqsOK'
  BY <1>7, <1>9, <1>10, OthersKeep
<1>12. PassedIsEarned'
  BY <1>7, <1>10, EarnedKeeps, QuizAssumption DEF TypeOK
<1> QED BY <1>7, <1>8, <1>11, <1>12

\* The session that runs gets its verdict, under the lock.
LEMMA MarkSessionKeeps ==
  ASSUME IInv, NEW p \in Procs, NEW s, s.id = session.id,
         NEW status \in {"failed", "success"}, MarkSession(p, s, status),
         session.status = "active", lock = None, req[p].pc \in {"idle", "skip"},
         failed' = failed, history' = history, resets' = resets,
         now' = now, passed' = passed, updated' = updated, faults' = faults,
         panicked' = panicked, starts' = starts /\ replaced' = replaced /\ succeeded' = succeeded, rows' = rows
  PROVE  IInv'
<1>1. PICK done, added, success :
        /\ done = EndedAs(s, status) /\ added = FailedBy(done) /\ success = (status = "success")
        /\ done \in Session /\ done.status = status /\ done.id = session.id
        /\ added = IF status = "failed" THEN {Attempted(session.id)} ELSE {}
        /\ Attempted(session.id) \in Attempt
  BY EndedType DEF IInv, observed
<1>2. Mark(p, done, added, success) /\ lock' = p /\ session' = session
  BY <1>1 DEF MarkSession
<1>3. added \in SUBSET Attempt /\ success \in BOOLEAN /\ (added # {} \/ success)
      /\ \A a, b \in added : a = b
  BY <1>1
<1>4. AttemptIDs(added) = IF status = "failed" THEN {session.id} ELSE {}
  BY <1>1 DEF AttemptIDs, Attempted
<1>5. session.id \notin Recorded \cup succeeded
  BY DEF IInv, RecordsOK
<1>6. \A x : x.session = done /\ x.added = added /\ x.success = success =>
              (IF lock = p THEN HoldsSession(x) ELSE HoldsSkip(x))'
  BY <1>1, <1>2, <1>4 DEF HoldsSession
<1>7. rows' \in 0..MaxRows /\ rows <= rows' /\ lock' \in {p, None}
  BY <1>2, QuizAssumption DEF IInv, TypeOK
<1>8. AttemptIDs(added) \cap (Recorded \cup succeeded) = {} /\ done \in Session
  BY <1>1, <1>4, <1>5
<1> QED BY <1>2, <1>3, <1>6, <1>7, <1>8, MarkKeeps, Zenon

LEMMA ContinueKeeps ==
  ASSUME IInv, NEW p \in Procs, NEW right \in BOOLEAN, ContinueQuizSession(p, right)
  PROVE  IInv'
<1> USE DEF IInv
<1>1. PICK s : s = Answered(right)
  OBVIOUS
<1>2. /\ lock = None /\ req[p].pc = "idle" /\ session.status = "active"
      /\ failed' = failed /\ history' = history /\ resets' = resets
      /\ now' = now /\ passed' = passed /\ updated' = updated /\ faults' = faults
      /\ panicked' = panicked /\ starts' = starts /\ replaced' = replaced /\ succeeded' = succeeded /\ rows' = rows
  BY DEF ContinueQuizSession, Unlocked, user, observed
<1>3. s.id = session.id /\ s.status = "active"
      /\ s = [status |-> session.status, id |-> session.id, since |-> session.since,
              right |-> IF right THEN session.right + 1 ELSE session.right,
              wrong |-> IF right THEN session.wrong ELSE session.wrong + 1]
  BY <1>1, <1>2 DEF Answered, TypeOK, Session
<1>4. CASE \E t \in {s, session}, status \in {"failed", "success"} : MarkSession(p, t, status)
  BY <1>2, <1>3, <1>4, MarkSessionKeeps
<1>5. CASE /\ ~TooManyWrong(s) /\ s.right + s.wrong < Questions
           /\ session' = s /\ req' = req /\ lock' = lock
  <2>1. session' \in Session
    <3>1. /\ session.right \in Nat /\ session.wrong \in Nat /\ s.wrong <= MaxWrong
      BY <1>3, <1>5, QuizAssumption DEF TypeOK, Session, TooManyWrong
    <3>2. s.right \in 0..Questions /\ s.wrong \in 0..MaxWrong
      BY <1>3, <1>5, <3>1, QuizAssumption
    <3> QED BY <1>3, <1>5, <3>2 DEF TypeOK, Session
  <2>2. PICK x : x = req[p]
    OBVIOUS
  <2>3. req' = req /\ x = req[p] /\ x \in Request
    BY <1>5, <2>2 DEF TypeOK
  <2>4. /\ DOMAIN req' = Procs /\ req'[p] = x /\ Recorded' = Recorded
        /\ \A q \in Procs \ {p} :
             /\ req'[q] = req[q] /\ SameButDoomed(req'[q], req[q])
             /\ InTransaction(q) /\ ~req'[q].doomed => StillTrue(req[q])'
    BY <1>2, <2>3, OthersStay
  <2>5. TypeOK'
    BY <1>2, <1>5, <2>1 DEF TypeOK
  <2>6. RecordsOK'
    <3>1. (AttemptIDs(failed) \cap history)' = {}
      BY <1>2 DEF RecordsOK, AttemptIDs
    <3> QED BY <1>2, <1>3, <1>5, <2>4, <3>1 DEF RecordsOK
  <2>7. x.then # "commit" /\ OutsideOK(p, x) /\ x.pc = "idle"
    BY <1>2, <2>2 DEF ReqsOK, TransactionOK, InTransaction
  <2>8. FitsIn(p, x)
    BY <1>2, <1>5, <2>7 DEF FitsIn, OutsideOK
  <2>9. GoesOn(p, x)
    BY <1>2, <1>3, <1>5, <2>3, <2>4, QuizAssumption DEF GoesOn, TypeOK
  <2>10. ReqsOK'
    BY <2>5, <2>8, <2>9, OthersKeep
  <2>11. PassedIsEarned'
    BY <1>2, <2>5, <2>9, EarnedKeeps, QuizAssumption DEF TypeOK
  <2> QED BY <2>5, <2>6, <2>10, <2>11
<1> QED BY <1>1, <1>4, <1>5 DEF ContinueQuizSession

LEMMA SkipKeeps ==
  ASSUME IInv, NEW p \in Procs, SkipQuizSession(p)
  PROVE  IInv'
<1> USE DEF IInv
<1>1. PICK r : r = req[p]
  OBVIOUS
<1>2. /\ lock = None /\ r.pc = "skip"
      /\ session' = session /\ failed' = failed /\ history' = history /\ resets' = resets
      /\ now' = now /\ passed' = passed /\ updated' = updated /\ faults' = faults
      /\ panicked' = panicked /\ starts' = starts /\ replaced' = replaced /\ succeeded' = succeeded
  BY <1>1 DEF SkipQuizSession, Unlocked, quiz, user, observed
<1>3. /\ r \in Request /\ r.then = "idle" /\ OutsideOK(p, r)
      /\ ~r.success /\ ~r.blocked /\ r.added = {} /\ r.moved = {}
  BY <1>1, <1>2 DEF TypeOK, ReqsOK, TransactionOK, OutsideOK, InTransaction
<1>4. CASE /\ session.status = "none" /\ rows < MaxRows /\ rows' = rows + 1
           /\ Mark(p, session, {Attempted(rows + 1)}, FALSE) /\ lock' = lock
  <2>1. rows \in Nat /\ rows' \in 0..MaxRows /\ rows <= rows' /\ rows + 1 \in 1..rows'
        /\ rows + 1 \in IDs /\ now \in Times
    BY <1>4, QuizAssumption DEF TypeOK, IDs
  <2>2. PICK added : added = {Attempted(rows + 1)}
    OBVIOUS
  <2>3. added \in SUBSET Attempt /\ added # {} /\ \A a, b \in added : a = b
    BY <2>1, <2>2 DEF Attempt, Attempted
  <2>4. AttemptIDs(added) = {rows + 1} /\ rows + 1 \notin Recorded \cup succeeded
    BY <2>1, <2>2 DEF AttemptIDs, Attempted, RecordsOK, TypeOK
  <2>5. \A x : x.session = session /\ x.added = added /\ x.success = FALSE =>
                (IF lock = p THEN HoldsSession(x) ELSE HoldsSkip(x))'
    BY <1>2, <1>4, <2>1, <2>4, QuizAssumption DEF HoldsSkip
  <2>6. /\ session \in Session /\ lock' \in {p, None} /\ FALSE \in BOOLEAN
        /\ AttemptIDs(added) \cap (Recorded \cup succeeded) = {} /\ Mark(p, session, added, FALSE)
        /\ added # {} \/ FALSE
        /\ req[p].pc \in {"idle", "skip"}
    BY <1>1, <1>2, <1>4, <2>2, <2>3, <2>4 DEF TypeOK
  <2> QED BY <1>2, <2>1, <2>3, <2>5, <2>6, MarkKeeps, Zenon
<1>5. CASE session.status = "success" /\ Finished(p) /\ lock' = lock /\ rows' = rows
  <2>1. PICK x \in Request : x = IdleReq
    BY IdleType
  <2>2. FitsIn(p, x) /\ req' = [req EXCEPT ![p] = x]
    BY <1>2, <1>5, <2>1, FinishedFits, QuizAssumption DEF Finished
  <2>3. QuietStep(p, x)
    BY <1>1, <1>2, <1>5, <2>2, QuizAssumption DEF QuietStep, TypeOK
  <2> QED BY <2>2, <2>3, QuietKeeps
<1>6. CASE /\ session.status = "failed" /\ lock' = p /\ rows' = rows
           /\ req' = [req EXCEPT ![p].pc = "modify", ![p].then = "commit", ![p].session = session]
  <2>1. PICK x : x = [r EXCEPT !.pc = "modify", !.then = "commit", !.session = session]
    OBVIOUS
  <2>2. req' = [req EXCEPT ![p] = x]
    BY <1>1, <1>6, <2>1
  <2>3. /\ x \in Request /\ x.pc = "modify" /\ x.then = "commit" /\ x.session = session
        /\ ~x.success /\ ~x.blocked /\ x.added = {} /\ x.moved = {}
    BY <1>3, <2>1 DEF Request, PCs, TypeOK
  <2>4. /\ DOMAIN req' = Procs /\ req'[p] = x /\ Recorded' = Recorded
        /\ \A q \in Procs \ {p} :
             /\ req'[q] = req[q] /\ SameButDoomed(req'[q], req[q])
             /\ InTransaction(q) /\ ~req'[q].doomed => StillTrue(req[q])'
    BY <1>2, <2>2, OthersStay
  <2>5. TypeOK'
    BY <1>2, <1>6, <2>3, <2>4 DEF TypeOK
  <2>6. RecordsOK'
    <3>1. (AttemptIDs(failed) \cap history)' = {}
      BY <1>2 DEF RecordsOK, AttemptIDs
    <3> QED BY <1>2, <1>6, <2>4, <3>1 DEF RecordsOK
  <2>7. FitsIn(p, x)
    BY <1>2, <1>6, <2>3 DEF FitsIn, TransactionOK, HoldsSession, StillTrue, AttemptIDs
  <2>8. GoesOn(p, x)
    <3>1. \A q \in Procs \ {p} : lock' = q <=> lock = q
      BY <1>2, <1>6, QuizAssumption
    <3> QED BY <1>2, <1>6, <2>3, <2>4, <3>1, QuizAssumption DEF GoesOn, TypeOK
  <2>9. ReqsOK'
    BY <2>5, <2>7, <2>8, OthersKeep
  <2>10. PassedIsEarned'
    BY <1>1, <1>2, <2>5, <2>8, EarnedKeeps, QuizAssumption DEF TypeOK
  <2> QED BY <2>5, <2>6, <2>9, <2>10
<1>7. CASE session.status = "active" /\ MarkSession(p, session, "failed") /\ rows' = rows
  BY <1>1, <1>2, <1>7, MarkSessionKeeps
<1> QED BY <1>1, <1>4, <1>5, <1>6, <1>7 DEF SkipQuizSession

\* What the commit writes is true of the tables it finds.
LEMMA CommitKeeps ==
  ASSUME IInv, NEW p \in Procs, Commit(p)
  PROVE  IInv'
<1> USE DEF IInv
<1>1. PICK r : r = req[p]
  OBVIOUS
<1>2. /\ r \in Request /\ r.pc = "commit" /\ ~r.doomed
      /\ session' = IF lock = p THEN r.session ELSE session
      /\ failed' = (failed \cup r.added) \ r.moved
      /\ history' = history \cup AttemptIDs(r.moved)
      /\ resets' = IF r.moved = {} THEN resets ELSE resets + 1
      /\ lock' = IF lock = p THEN None ELSE lock
      /\ now' = now /\ passed' = passed /\ updated' = updated /\ rows' = rows
      /\ starts' = starts /\ replaced' = replaced /\ panicked' = panicked /\ faults' = faults
      /\ succeeded' = IF r.success THEN succeeded \cup {r.session.id} ELSE succeeded
  BY <1>1 DEF Commit, TypeOK, Release, user, observed
<1>3. req' = [q \in Procs |-> IF q = p THEN IdleReq ELSE
               [req[q] EXCEPT !.doomed = @ \/ (InTransaction(q) /\ (r.added # {} \/ r.success))]]
  BY <1>1 DEF Commit
<1>4. TransactionOK(p, r) /\ StillTrue(r) /\ r.then = "commit"
  BY <1>1, <1>2 DEF ReqsOK, OutsideOK, TransactionOK, InTransaction
<1>5. r.session \in Session /\ r.added \subseteq Attempt /\ r.moved \subseteq Attempt
      /\ AttemptIDs(r.moved) \subseteq IDs
  BY <1>2 DEF Request, AttemptIDs, Attempt
<1>6. PICK x \in Request : x = IdleReq
  BY IdleType
<1>7. DOMAIN req' = Procs /\ req'[p] = x
  BY <1>3, <1>6
<1>8. ASSUME NEW q \in Procs \ {p}
      PROVE  /\ SameButDoomed(req'[q], req[q])
             /\ InTransaction(q) /\ (r.added # {} \/ r.success) => req'[q].doomed
  <2>1. PICK old : old = req[q]
    OBVIOUS
  <2>2. PICK new : /\ new = req'[q]
                   /\ new = [old EXCEPT !.doomed = @ \/ (InTransaction(q) /\ (r.added # {} \/ r.success))]
    BY <1>3, <2>1
  <2>3. old \in Request
    BY <2>1 DEF TypeOK
  <2>4. new \in Request
    BY <2>2, <2>3 DEF Request
  <2>5. SameButDoomed(new, old) /\ (InTransaction(q) /\ (r.added # {} \/ r.success) => new.doomed)
    BY <2>2, <2>3, <2>4 DEF SameButDoomed, Request
  <2> QED BY <2>1, <2>2, <2>5
<1>9. /\ AttemptIDs(failed)' = AttemptIDs((failed \cup r.added) \ r.moved)
      /\ Recorded' = Recorded \cup AttemptIDs(r.added)
  <2>1. r.moved \subseteq failed \cup r.added
    BY <1>4 DEF StillTrue
  <2> QED BY <1>2, <2>1 DEF Recorded, AttemptIDs
<1>10. /\ \A a, b \in failed' : a.id = b.id => a = b
       /\ (AttemptIDs(failed) \cap history)' = {}
  <2>1. \A a, b \in failed \cup r.added : a.id = b.id => a = b
    BY <1>4 DEF RecordsOK, TransactionOK, StillTrue, AttemptIDs, Recorded
  <2>2. r.moved \subseteq failed \cup r.added
    BY <1>4 DEF StillTrue
  <2>3. \A a \in failed \cup r.added : a.id \notin history
    BY <1>4 DEF RecordsOK, StillTrue, AttemptIDs, Recorded
  <2>4. \A a \in (failed \cup r.added) \ r.moved : a.id \notin AttemptIDs(r.moved)
    BY <2>1, <2>2 DEF AttemptIDs
  <2> QED BY <1>2, <2>1, <2>3, <2>4 DEF AttemptIDs
<1>11. /\ RecordsOK' /\ session' \in Session /\ lock' \in Procs \cup {None}
       /\ (r.success => succeeded' # {}) /\ succeeded' \subseteq starts
       /\ \A q \in Procs \ {p} : lock' = q <=> lock = q
       /\ \/ session' = session
          \/ /\ \A q \in Procs \ {p} : lock # q
             /\ session.status # "none" /\ session'.id = session.id
  <2>1. CASE lock = p
    <3>1. HoldsSession(r) /\ session' = r.session /\ session.status # "none"
          /\ session'.id = session.id
      BY <1>2, <1>4, <2>1 DEF TransactionOK, HoldsSession
    <3>2. session' \in Session /\ session'.status \in {"failed", "success"}
      BY <1>5, <3>1 DEF HoldsSession
    <3>3. /\ session'.status = "success" => session.id \notin Recorded'
          /\ session'.status = "failed" => session.id \in Recorded'
          /\ Recorded' \subseteq 1..rows
      <4>1. session.id \in 1..rows /\ Recorded \subseteq 1..rows
        BY <3>1 DEF RecordsOK, TypeOK
      <4> QED BY <1>9, <3>1, <4>1 DEF HoldsSession, RecordsOK, AttemptIDs
    <3>4. (succeeded \cap Recorded)' = {}
      <4>1. r.success => AttemptIDs(r.added) = {} /\ session.id \notin Recorded
        BY <3>1 DEF HoldsSession, RecordsOK, AttemptIDs
      <4>2. succeeded \cap (Recorded \cup AttemptIDs(r.added)) = {}
        BY <1>4 DEF RecordsOK, StillTrue
      <4> QED BY <1>2, <1>9, <3>1, <4>1, <4>2
    <3>5. RecordsOK'
      BY <1>2, <1>10, <3>1, <3>2, <3>3, <3>4 DEF RecordsOK, TypeOK
    <3>6. (r.success => succeeded' # {}) /\ succeeded' \subseteq starts
      BY <1>2, <3>1 DEF RecordsOK, TypeOK
    <3>7. \A q \in Procs \ {p} : lock # q /\ lock' # q
      BY <1>2, <2>1, QuizAssumption
    <3> QED BY <1>2, <2>1, <3>1, <3>2, <3>5, <3>6, <3>7
  <2>2. CASE lock # p
    <3>1. PICK id \in 1..rows : /\ AttemptIDs(r.added) = {id}
                                /\ session.status # "none" => session.id # id
      BY <1>4, <2>2 DEF TransactionOK, HoldsSkip
    <3>2. session' = session /\ lock' = lock /\ ~r.success
      BY <1>2, <1>4, <2>2 DEF TransactionOK, HoldsSkip
    <3>3. succeeded' = succeeded /\ Recorded' = Recorded \cup {id} /\ id \notin succeeded
      BY <1>2, <1>4, <1>9, <3>1, <3>2 DEF StillTrue
    <3>4. RecordsOK'
      BY <1>2, <1>10, <3>1, <3>2, <3>3 DEF RecordsOK
    <3> QED BY <1>4, <2>2, <3>2, <3>3, <3>4 DEF TypeOK, TransactionOK, HoldsSkip
  <2> QED BY <2>1, <2>2
<1>12. resets' \in Nat /\ resets <= resets' /\ (r.blocked => resets' > 0)
  BY <1>2, <1>4 DEF TypeOK, TransactionOK
<1>13. TypeOK'
  <2>1. \A q \in Procs : req'[q] \in Request
    BY <1>7, <1>8 DEF SameButDoomed
  <2>2. failed' \subseteq Attempt /\ history' \subseteq IDs
    BY <1>2, <1>5 DEF TypeOK
  <2> QED BY <1>2, <1>7, <1>11, <1>12, <2>1, <2>2 DEF TypeOK
<1>14. ASSUME NEW q \in Procs \ {p}, InTransaction(q), ~req'[q].doomed
       PROVE  StillTrue(req[q])'
  <2>1. PICK old, new : old = req[q] /\ new = req'[q]
    OBVIOUS
  <2>2. r.added = {} /\ ~r.success /\ r.moved = {}
    BY <1>4, <1>8, <1>14 DEF TransactionOK
  <2>3. old.then = "commit" /\ ~old.doomed
    BY <1>8, <1>14, <2>1 DEF SameButDoomed, InTransaction
  <2>4. StillTrue(old)
    BY <2>1, <2>3 DEF ReqsOK, TransactionOK, InTransaction
  <2>5. failed' = failed /\ Recorded' = Recorded /\ succeeded' = succeeded
    BY <1>2, <1>9, <2>2 DEF AttemptIDs
  <2> QED BY <1>8, <2>1, <2>4, <2>5 DEF StillTrue, SameButDoomed
<1>15. GoesOn(p, x)
  BY <1>2, <1>7, <1>8, <1>11, <1>12, <1>14, QuizAssumption DEF GoesOn, TypeOK
<1>16. FitsIn(p, x)
  <2>1. lock' # p
    BY <1>2, QuizAssumption
  <2> QED BY <1>6, <2>1, FinishedFits
<1>17. ReqsOK'
  BY <1>13, <1>15, <1>16, OthersKeep
<1>18. PassedIsEarned'
  <2>1. faults <= faults'
    BY <1>2, QuizAssumption DEF TypeOK
  <2> QED BY <1>1, <1>2, <1>11, <1>12, <1>13, <1>15, <2>1, EarnedKeeps
<1> QED BY <1>11, <1>13, <1>17, <1>18

-----------------------------------------------------------------------------
LEMMA InitHolds == Init => IInv
<1> SUFFICES ASSUME Init PROVE IInv
  OBVIOUS
<1>1. IdleReq \in Request /\ NoSession \in Session /\ NoSession.status = "none"
  BY IdleType DEF NoSession
<1>2. DOMAIN req = Procs /\ \A p \in Procs : req[p] = IdleReq
  BY DEF Init
<1>3. TypeOK
  <2>1. 1 \in Times /\ 0 \in Times /\ 0 \in 0..MaxRows /\ 0 \in 0..MaxFaults
        /\ 2 \in 0..QuizKYCStep
    BY QuizAssumption DEF Times, QuizKYCStep
  <2> QED BY <1>1, <1>2, <2>1 DEF Init, TypeOK
<1>4. RecordsOK
  BY <1>1 DEF Init, RecordsOK, Recorded, AttemptIDs
<1>5. ASSUME NEW p \in Procs, NEW r, r = IdleReq
      PROVE  r.then # "commit" /\ OutsideOK(p, r) /\ r.pc # "update"
  BY <1>5, QuizAssumption DEF Init, IdleReq, OutsideOK
<1>6. ReqsOK
  BY <1>2, <1>5 DEF ReqsOK, InTransaction
<1> QED BY <1>3, <1>4, <1>6 DEF IInv, PassedIsEarned, Init, QuizKYCStep

LEMMA StepKeeps == IInv /\ [Next]_vars => IInv'
<1> SUFFICES ASSUME IInv, [Next]_vars PROVE IInv'
  OBVIOUS
<1>1. CASE PassSocial1 \/ Tick \/ UNCHANGED vars
  BY <1>1, OutsideKeeps
<1>2. ASSUME NEW p \in Procs, StartOrContinueKYCStep4Session(p)
      PROVE  IInv'
  BY <1>2, FinishUnfinishedKeeps, ContinueKeeps DEF StartOrContinueKYCStep4Session
<1>3. ASSUME NEW p \in Procs, \/ CountFailed(p) \/ MoveFailed(p) \/ AppendReset(p)
      PROVE  IInv'
  BY <1>3, CountFailedKeeps, MoveFailedKeeps, AppendResetKeeps
<1>4. ASSUME NEW p \in Procs, \/ IsQuizEnabledForUser(p) \/ CheckUserKYC(p)
                              \/ StartNewSession(p) \/ StartFirst(p) \/ StartNext(p)
                              \/ BeginSkip(p)
      PROVE  IInv'
  BY <1>4, EnabledKeeps, StartNewKeeps, StartKeeps
<1>5. ASSUME NEW p \in Procs, \/ SkipQuizSession(p) \/ Commit(p)
      PROVE  IInv'
  BY <1>5, SkipKeeps, CommitKeeps
<1>6. ASSUME NEW p \in Procs, \/ ReadUser(p) \/ UpdateUser(p) \/ Notify(p) \/ Abort(p)
      PROVE  IInv'
  BY <1>6, ReadUserKeeps, UpdateUserKeeps, NotifyKeeps, AbortKeeps
<1> QED BY <1>1, <1>2, <1>3, <1>4, <1>5, <1>6 DEF Next

LEMMA Always == Spec => []IInv
BY InitHolds, StepKeeps, PTL DEF Spec

\* The tables, the requests and what their transactions hold stay of their type.
THEOREM TypeOKHolds == Spec => []TypeOK
<1>1. IInv => TypeOK
  BY DEF IInv
<1> QED BY <1>1, Always, PTL

\* kyc/quiz: a session is failed once, succeeds once, and never both, whatever
\* requests answer, skip and start at once.
THEOREM VerdictOnceHolds == Spec => []VerdictOnce
<1>1. IInv => VerdictOnce
  BY DEF IInv, RecordsOK, Recorded, VerdictOnce
<1> QED BY <1>1, Always, PTL

\* kyc/quiz: the step is passed by a session that succeeded or by a reset.
THEOREM PassedIsEarnedHolds == Spec => []PassedIsEarned
<1>1. IInv => PassedIsEarned
  BY DEF IInv
<1> QED BY <1>1, Always, PTL
-----------------------------------------------------------------------------
(* A reset is paid for.  What separates the statements of                  *)
(* moveFailedAttempts, outside a transaction, is covered by the time a     *)
(* request may take: until it has ended, the cool down of the session it   *)
(* has failed keeps every other request from failing another.              *)

Counting(r) == r.pc \in {"count", "move", "reset"}

\* 1 while attempts are moved and their reset is not yet appended.
Pending == IF \E p \in Procs : req[p].pc = "reset" THEN 1 ELSE 0

InTime ==
  \A p \in Procs :
    /\ req[p].pc # "idle" => req[p].began <= now /\ now <= req[p].began + 1
    /\ req[p].pc \in {"insert", "replace"} => req[p].began <= req[p].at /\ req[p].at <= now

\* Unless a first start has written over the session of another.
OneCounts ==
  replaced = {} =>
    /\ \A p \in Procs : Counting(req[p]) =>
         session.status = "failed" /\ session.since = req[p].began
    /\ \A p, q \in Procs : Counting(req[p]) /\ Counting(req[q]) => p = q

\* What a transaction moves is enough for a reset; a skip is not a session.
PaysFor(p, r) ==
  /\ r.moved # {} => Cardinality(r.moved) >= MaxAttempts
  /\ lock # p => AttemptIDs(r.added) \cap starts = {}

PaidSoFar ==
  history \subseteq starts /\ replaced = {} =>
    /\ \A p \in Procs : req[p].pc = "move" => Exhausted(failed)
    /\ Cardinality(history) >= MaxAttempts * (resets + Pending)

PaidInv ==
  /\ IsFiniteSet(failed)
  /\ InTime /\ OneCounts /\ PaidSoFar
  /\ \A p \in Procs : InTransaction(p) => PaysFor(p, req[p])

LEMMA Scale ==
  ASSUME NEW a \in Nat, NEW b \in Nat
  PROVE  /\ a * b \in Nat
         /\ a * (b + 1) = a * b + a
         /\ a * b <= a * (b + 1)
<1>1. a * b \in Nat
  OBVIOUS
<1>2. a * (b + 1) = a * b + a
  BY SMT
<1> QED BY <1>1, <1>2

LEMMA HistoryFinite ==
  ASSUME IInv
  PROVE  IsFiniteSet(history) /\ Cardinality(history) \in Nat
<1>1. history \subseteq 1..rows /\ rows \in Int /\ 1 \in Int
  BY QuizAssumption DEF IInv, RecordsOK, Recorded, TypeOK
<1>2. IsFiniteSet(1..rows)
  BY <1>1, FS_Interval
<1>3. IsFiniteSet(history)
  BY <1>1, <1>2, FS_Subset
<1> QED BY <1>3, FS_CardinalityType

\* A step of p that leaves the tables alone and starts to count nothing.
PassiveStep(p, x) ==
  /\ req' = [req EXCEPT ![p] = x]
  /\ session' = session /\ failed' = failed /\ history' = history /\ resets' = resets
  /\ starts' = starts /\ replaced' = replaced /\ succeeded' = succeeded /\ now' = now
  /\ lock' = lock \/ (lock \in {p, None} /\ lock' \in {p, None})
  /\ x.pc # "idle" => x.began <= now /\ now <= x.began + 1
  /\ x.pc \in {"insert", "replace"} => x.began <= x.at /\ x.at <= now
  /\ Counting(x) => Counting(req[p]) /\ x.began = req[p].began
  /\ x.pc = "move" => Exhausted(failed)
  /\ x.pc # "reset"
  /\ x.then = "commit" => PaysFor(p, x)'

LEMMA PassiveKeeps ==
  ASSUME IInv, PaidInv, NEW p \in Procs, NEW x, PassiveStep(p, x)
  PROVE  PaidInv'
<1> USE DEF PassiveStep
<1>1. /\ req'[p] = x
      /\ \A q \in Procs \ {p} : req'[q] = req[q] /\ (lock' = q <=> lock = q)
  <2>1. req'[p] = x /\ \A q \in Procs \ {p} : req'[q] = req[q]
    BY Changed DEF IInv, observed
  <2> QED BY <2>1, QuizAssumption
<1>2. InTime' /\ OneCounts'
  BY <1>1 DEF PaidInv, InTime, OneCounts, Counting
<1>3. ASSUME NEW q \in Procs, InTransaction(q)'
      PROVE  PaysFor(q, req[q])'
  BY <1>1, <1>3 DEF PaidInv, PaysFor, InTransaction, AttemptIDs
<1>4. PaidSoFar'
  <2> SUFFICES ASSUME history \subseteq starts, replaced = {}
               PROVE  /\ \A q \in Procs : req'[q].pc = "move" => Exhausted(failed)
                      /\ Cardinality(history) >= MaxAttempts * (resets + Pending')
    BY DEF PaidSoFar, Exhausted
  <2>1. \A q \in Procs : req'[q].pc = "move" => Exhausted(failed)
    BY <1>1 DEF PaidInv, PaidSoFar
  <2>2. Pending' = Pending \/ (Pending' = 0 /\ Pending = 1)
    BY <1>1 DEF Pending
  <2>3. Cardinality(history) >= MaxAttempts * (resets + Pending)
    BY DEF PaidInv, PaidSoFar
  <2>4. Cardinality(history) >= MaxAttempts * (resets + Pending')
    <3>1. resets \in Nat /\ MaxAttempts \in Nat
      BY QuizAssumption DEF IInv, TypeOK
    <3>2. CASE Pending' = 0 /\ Pending = 1
      BY <2>3, <3>1, <3>2, HistoryFinite, Scale
    <3> QED BY <2>2, <2>3, <3>2
  <2> QED BY <2>1, <2>4
<1> QED BY <1>2, <1>3, <1>4 DEF PaidInv

LEMMA IdlePasses ==
  ASSUME IInv, NEW p \in Procs, Finished(p),
         session' = session, failed' = failed, history' = history, resets' = resets,
         starts' = starts /\ replaced' = replaced /\ succeeded' = succeeded, now' = now, lock' = lock \/ Release(p)
  PROVE  \E x : PassiveStep(p, x)
<1>1. PICK x : x = IdleReq
  OBVIOUS
<1>2. x.pc = "idle" /\ x.then = "idle"
  BY <1>1 DEF IdleReq, observed
<1>3. lock' = lock \/ (lock \in {p, None} /\ lock' \in {p, None})
  BY DEF Release
<1> QED BY <1>1, <1>2, <1>3 DEF PassiveStep, Counting, Finished

LEMMA BeginPasses ==
  ASSUME IInv, NEW p \in Procs, NEW pc \in {"enabled", "skip"}, Begin(p, pc),
         session' = session, failed' = failed, history' = history, resets' = resets,
         starts' = starts /\ replaced' = replaced /\ succeeded' = succeeded, now' = now, lock' = lock
  PROVE  \E x : PassiveStep(p, x)
<1>1. PICK x \in Request : req' = [req EXCEPT ![p] = x] /\ x.pc = pc /\ x.began = now
                           /\ x.then = "idle"
  BY BeginFits
<1>2. x.began <= now /\ now <= x.began + 1
  <2>1. now \in Int
    BY QuizAssumption DEF IInv, TypeOK, Times
  <2> QED BY <1>1, <2>1
<1>3. ~Counting(x) /\ x.pc \notin {"move", "reset", "insert", "replace"} /\ x.then # "commit"
  BY <1>1 DEF Counting
<1>4. PassiveStep(p, x)
  BY <1>1, <1>2, <1>3 DEF PassiveStep
<1> QED BY <1>4

\* What goes on as it was passes; "move" needs what CountFailed has counted.
LEMMA CarriesPasses ==
  ASSUME IInv, PaidInv, NEW p \in Procs, NEW r, r = req[p], r.pc # "idle",
         NEW x, Carries(x, r), x.began = r.began, req' = [req EXCEPT ![p] = x],
         Counting(x) => Counting(r), x.pc = "move" => Exhausted(failed),
         x.pc \notin {"reset", "insert", "replace"},
         session' = session, failed' = failed, history' = history, resets' = resets,
         starts' = starts /\ replaced' = replaced /\ succeeded' = succeeded, now' = now, lock' = lock
  PROVE  PassiveStep(p, x)
<1>1. r.began <= now /\ now <= r.began + 1
  BY DEF PaidInv, InTime, observed
<1>2. r.then = "commit" => PaysFor(p, r)
  BY DEF PaidInv, InTransaction
<1>3. r.then = "commit" => PaysFor(p, x)'
  BY <1>2 DEF PaysFor, Carries
<1> QED BY <1>1, <1>3 DEF PassiveStep, Carries

LEMMA CountFailedPaid ==
  ASSUME IInv, PaidInv, NEW p \in Procs, CountFailed(p)
  PROVE  PaidInv'
<1>1. PICK r : r = req[p]
  OBVIOUS
<1>2. r \in Request /\ r.pc = "count" /\ r.began <= now /\ now <= r.began + 1
  BY <1>1 DEF CountFailed, IInv, TypeOK, PaidInv, InTime
<1>3. PICK x : /\ req' = [req EXCEPT ![p] = x]
               /\ \/ x = [r EXCEPT !.pc = "move"] /\ Exhausted(failed)
                  \/ x = [r EXCEPT !.pc = "modify", !.blocked = FALSE, !.then = "idle"]
  <2>1. CASE Exhausted(failed)
    BY <1>1, <2>1 DEF CountFailed, Goto
  <2>2. CASE ~Exhausted(failed)
    BY <1>1, <2>2 DEF CountFailed, Modify
  <2> QED BY <2>1, <2>2
<1>4. /\ x.pc \in {"move", "modify"} /\ x.began = r.began /\ x.then # "commit"
      /\ x.pc = "move" => Exhausted(failed)
  <2>1. r.then # "commit"
    BY <1>1, <1>2 DEF IInv, ReqsOK, InTransaction, TransactionOK
  <2> QED BY <1>2, <1>3, <2>1 DEF Request
<1>5. /\ session' = session /\ failed' = failed /\ history' = history /\ resets' = resets
      /\ starts' = starts /\ replaced' = replaced /\ succeeded' = succeeded /\ now' = now /\ lock' = lock
  BY DEF CountFailed, quiz, observed
<1>6. PassiveStep(p, x)
  BY <1>1, <1>2, <1>3, <1>4, <1>5 DEF PassiveStep, Counting
<1> QED BY <1>6, PassiveKeeps

LEMMA GotoPaid ==
  ASSUME IInv, PaidInv, NEW p \in Procs,
         \/ IsQuizEnabledForUser(p) \/ CheckUserKYC(p) \/ BeginSkip(p)
         \/ ReadUser(p) \/ UpdateUser(p) \/ Notify(p) \/ Abort(p)
  PROVE  PaidInv'
<1>1. PICK r : r = req[p]
  OBVIOUS
<1>2. /\ session' = session /\ failed' = failed /\ history' = history /\ resets' = resets
      /\ starts' = starts /\ replaced' = replaced /\ succeeded' = succeeded /\ now' = now
  BY DEF IsQuizEnabledForUser, CheckUserKYC, BeginSkip, ReadUser, UpdateUser, Notify, Abort, quiz, observed
<1>3. r \in Request
  BY <1>1 DEF IInv, TypeOK
<1>4. CASE Finished(p) /\ (lock' = lock \/ Release(p))
  BY <1>2, <1>4, IdlePasses, PassiveKeeps
<1>5. CASE Begin(p, "skip") /\ lock' = lock
  BY <1>2, <1>5, BeginPasses, PassiveKeeps
<1>6. ASSUME NEW pc \in {"kyc", "new", "notify", "enabled", "commit"}, Goto(p, pc), lock' = lock,
             r.pc # "idle"
      PROVE  PaidInv'
  <2>1. PICK x : x = [r EXCEPT !.pc = pc]
    OBVIOUS
  <2>2. Carries(x, r) /\ x.pc = pc /\ x.began = r.began
    BY <1>3, <2>1 DEF Carries, Request, PCs
  <2>3. req' = [req EXCEPT ![p] = x]
    BY <1>1, <1>6, <2>1 DEF Goto
  <2>4. PassiveStep(p, x)
    BY <1>1, <1>2, <1>6, <2>2, <2>3, CarriesPasses DEF Counting
  <2> QED BY <2>4, PassiveKeeps
<1>7. CASE ReadUser(p)
  <2>1. PICK t \in {0, QuizKYCStep} : t = IF Passes(r) THEN QuizKYCStep ELSE 0
    OBVIOUS
  <2>2. PICK x : req' = [req EXCEPT ![p] = x]
                 /\ x = [r EXCEPT !.pc = "update", !.old = updated, !.target = t]
    BY <1>1, <1>7, <2>1 DEF ReadUser
  <2>3. updated \in Times /\ lock' = lock /\ r.pc # "idle"
    BY <1>1, <1>7 DEF IInv, TypeOK, ReadUser
  <2>4. Carries(x, r) /\ x.pc = "update" /\ x.began = r.began
    BY <1>3, <2>2, <2>3 DEF Carries, Request, PCs
  <2>5. PassiveStep(p, x)
    BY <1>1, <1>2, <2>2, <2>3, <2>4, CarriesPasses DEF Counting
  <2> QED BY <2>5, PassiveKeeps
<1>8. CASE IsQuizEnabledForUser(p) \/ CheckUserKYC(p)
  BY <1>1, <1>4, <1>6, <1>8 DEF IsQuizEnabledForUser, CheckUserKYC
<1>9. CASE UpdateUser(p)
  BY <1>1, <1>6, <1>9 DEF UpdateUser
<1>10. CASE Notify(p)
  <2>1. r.then \in {"idle", "enabled", "commit"} /\ r.pc = "notify"
    BY <1>1, <1>3, <1>10 DEF Request, Notify
  <2> QED BY <1>1, <1>4, <1>6, <1>10, <2>1 DEF Notify
<1> QED BY <1>4, <1>5, <1>7, <1>8, <1>9, <1>10 DEF BeginSkip, Abort

LEMMA FinishUnfinishedPaid ==
  ASSUME IInv, PaidInv, NEW p \in Procs, FinishUnfinishedSession(p)
  PROVE  PaidInv'
<1>1. CASE session.status # "active"
  <2>1. /\ Begin(p, "enabled") /\ lock' = lock /\ session' = session /\ failed' = failed
        /\ history' = history /\ resets' = resets /\ starts' = starts /\ replaced' = replaced /\ succeeded' = succeeded /\ now' = now
    BY <1>1 DEF FinishUnfinishedSession, observed
  <2> QED BY <2>1, BeginPasses, PassiveKeeps
<1>2. CASE session.status = "active"
  <2>1. /\ Begin(p, "count") /\ lock' = lock /\ session' = EndedAs(session, "failed")
        /\ failed' = failed \cup FailedBy(session')
        /\ history' = history /\ resets' = resets /\ starts' = starts /\ replaced' = replaced /\ succeeded' = succeeded /\ now' = now
    BY <1>2 DEF FinishUnfinishedSession, observed
  <2>2. /\ session'.status = "failed" /\ session'.since = now
        /\ failed' = failed \cup {Attempted(session.id)}
    BY <1>2, <2>1, EndedType DEF IInv
  <2>3. PICK x \in Request : req' = [req EXCEPT ![p] = x] /\ x.pc = "count" /\ x.began = now
                             /\ x.then = "idle"
    BY <2>1, BeginFits
  <2>4. req'[p] = x /\ \A q \in Procs \ {p} : req'[q] = req[q]
    BY <2>3, Changed DEF IInv
  <2>5. replaced = {} => \A q \in Procs : ~Counting(req[q])
    BY <1>2 DEF PaidInv, OneCounts
  <2>6. now \in Int
    BY QuizAssumption DEF IInv, TypeOK, Times
  <2>7. InTime'
    BY <2>1, <2>3, <2>4, <2>6 DEF PaidInv, InTime
  <2>8. OneCounts'
    BY <2>1, <2>2, <2>3, <2>4, <2>5 DEF OneCounts, Counting
  <2>9. IsFiniteSet(failed')
    BY <2>2, FS_AddElement DEF PaidInv
  <2>10. PaidSoFar'
    <3> SUFFICES ASSUME replaced = {} PROVE PaidSoFar'
      BY <2>1 DEF PaidSoFar
    <3>1. \A q \in Procs : req[q].pc \notin {"move", "reset"} /\ req'[q].pc \notin {"move", "reset"}
      BY <2>3, <2>4, <2>5 DEF Counting
    <3>2. Pending = 0 /\ Pending' = 0
      BY <3>1 DEF Pending
    <3> QED BY <2>1, <3>1, <3>2 DEF PaidInv, PaidSoFar
  <2>11. ASSUME NEW q \in Procs, InTransaction(q)'
         PROVE  PaysFor(q, req[q])'
    BY <2>1, <2>3, <2>4, <2>11 DEF PaidInv, PaysFor, InTransaction, AttemptIDs
  <2> QED BY <2>7, <2>8, <2>9, <2>10, <2>11 DEF PaidInv
<1> QED BY <1>1, <1>2

\* Failed sessions are told apart by their numbers.
LEMMA CountIDs ==
  ASSUME NEW S, IsFiniteSet(S), \A a, b \in S : a.id = b.id => a = b
  PROVE  /\ IsFiniteSet(AttemptIDs(S))
         /\ Cardinality(AttemptIDs(S)) = Cardinality(S)
<1>1. PICK f : f = [a \in S |-> a.id]
  OBVIOUS
<1>2. f \in Bijection(S, AttemptIDs(S))
  <2>1. f \in [S -> AttemptIDs(S)]
    BY <1>1 DEF AttemptIDs
  <2>2. f \in Injection(S, AttemptIDs(S))
    BY <1>1, <2>1 DEF Injection, IsInjective
  <2>3. f \in Surjection(S, AttemptIDs(S))
    BY <1>1, <2>1 DEF Surjection, AttemptIDs
  <2> QED BY <2>2, <2>3 DEF Bijection
<1>3. ExistsBijection(S, AttemptIDs(S))
  BY <1>2 DEF ExistsBijection
<1> QED BY <1>3, FS_Bijection

\* Attempts that are moved count in full.
LEMMA MovedCount ==
  ASSUME IInv, NEW S, IsFiniteSet(S), \A a, b \in S : a.id = b.id => a = b,
         AttemptIDs(S) \cap history = {}
  PROVE  Cardinality(history \cup AttemptIDs(S)) = Cardinality(history) + Cardinality(S)
<1>1. /\ IsFiniteSet(history) /\ IsFiniteSet(AttemptIDs(S))
      /\ Cardinality(AttemptIDs(S)) = Cardinality(S)
      /\ Cardinality(history) \in Nat /\ Cardinality(S) \in Nat
  BY HistoryFinite, CountIDs, FS_CardinalityType
<1>2. Cardinality(history \cap AttemptIDs(S)) = 0
  <2>1. history \cap AttemptIDs(S) = {}
    OBVIOUS
  <2> QED BY <2>1, FS_EmptySet
<1>3. Cardinality(history \cup AttemptIDs(S)) =
        Cardinality(history) + Cardinality(AttemptIDs(S)) - Cardinality(history \cap AttemptIDs(S))
  BY <1>1, FS_Union
<1> QED BY <1>1, <1>2, <1>3

LEMMA MoveFailedPaid ==
  ASSUME IInv, PaidInv, NEW p \in Procs, MoveFailed(p)
  PROVE  PaidInv'
<1>1. PICK r : r = req[p]
  OBVIOUS
<1>2. r \in Request /\ r.pc = "move" /\ Counting(r) /\ r.then # "commit"
  BY <1>1 DEF MoveFailed, IInv, TypeOK, ReqsOK, InTransaction, TransactionOK, Counting
<1>3. /\ failed' = {} /\ history' = history \cup AttemptIDs(failed)
      /\ session' = session /\ resets' = resets /\ starts' = starts /\ replaced' = replaced /\ succeeded' = succeeded /\ now' = now /\ lock' = lock
  BY DEF MoveFailed, observed
<1>4. PICK x : req' = [req EXCEPT ![p] = x] /\ x = [r EXCEPT !.pc = "reset"]
  BY <1>1 DEF MoveFailed, Goto
<1>5. x.pc = "reset" /\ x.began = r.began /\ x.then = r.then /\ Counting(x)
  BY <1>2, <1>4 DEF Request, Counting
<1>6. req'[p] = x /\ \A q \in Procs \ {p} : req'[q] = req[q]
  BY <1>4, Changed DEF IInv
<1>7. InTime' /\ OneCounts'
  BY <1>1, <1>2, <1>3, <1>5, <1>6 DEF PaidInv, InTime, OneCounts
<1>8. replaced = {} => \A q \in Procs \ {p} : ~Counting(req[q])
  BY <1>1, <1>2 DEF PaidInv, OneCounts
<1>9. replaced = {} => Pending = 0 /\ Pending' = 1 /\ \A q \in Procs : req'[q].pc # "move"
  BY <1>1, <1>2, <1>5, <1>6, <1>8 DEF Pending, Counting
<1>10. PaidSoFar'
  <2> SUFFICES ASSUME history' \subseteq starts, replaced = {}
               PROVE  Cardinality(history') >= MaxAttempts * (resets + 1)
    BY <1>3, <1>9 DEF PaidSoFar
  <2>1. history \subseteq starts
    BY <1>3
  <2>2. Cardinality(failed) >= MaxAttempts /\ Cardinality(history) >= MaxAttempts * resets
    <3>1. resets + Pending = resets
      BY <1>9 DEF IInv, TypeOK
    <3> QED BY <1>1, <1>2, <2>1, <3>1 DEF PaidInv, PaidSoFar, Exhausted
  <2>3. Cardinality(history') = Cardinality(history) + Cardinality(failed)
    BY <1>3, MovedCount DEF PaidInv, IInv, RecordsOK
  <2>4. /\ MaxAttempts * (resets + 1) = MaxAttempts * resets + MaxAttempts
        /\ MaxAttempts * resets \in Nat /\ MaxAttempts \in Nat
    BY QuizAssumption, Scale DEF IInv, TypeOK
  <2>5. Cardinality(failed) \in Nat /\ Cardinality(history) \in Nat
    BY HistoryFinite, FS_CardinalityType DEF PaidInv
  <2> QED BY <2>2, <2>3, <2>4, <2>5
<1>11. ASSUME NEW q \in Procs, InTransaction(q)'
       PROVE  PaysFor(q, req[q])'
  BY <1>2, <1>3, <1>5, <1>6, <1>11 DEF PaidInv, PaysFor, InTransaction, AttemptIDs
<1>12. IsFiniteSet(failed')
  BY <1>3, FS_EmptySet
<1> QED BY <1>7, <1>10, <1>11, <1>12 DEF PaidInv

LEMMA AppendResetPaid ==
  ASSUME IInv, PaidInv, NEW p \in Procs, AppendReset(p)
  PROVE  PaidInv'
<1>1. PICK r : r = req[p]
  OBVIOUS
<1>2. r \in Request /\ r.pc = "reset" /\ Counting(r)
  BY <1>1 DEF AppendReset, IInv, TypeOK, Counting
<1>3. /\ failed' = failed /\ history' = history /\ resets' = resets + 1
      /\ session' = session /\ starts' = starts /\ replaced' = replaced /\ succeeded' = succeeded /\ now' = now /\ lock' = lock
  BY DEF AppendReset, observed
<1>4. PICK x : req' = [req EXCEPT ![p] = x]
               /\ x = [r EXCEPT !.pc = "modify", !.blocked = TRUE, !.then = "enabled"]
  BY <1>1 DEF AppendReset, Modify
<1>5. x.pc = "modify" /\ x.began = r.began /\ x.then = "enabled" /\ ~Counting(x)
  BY <1>2, <1>4 DEF Request, Counting
<1>6. req'[p] = x /\ \A q \in Procs \ {p} : req'[q] = req[q]
  BY <1>4, Changed DEF IInv
<1>7. InTime' /\ OneCounts'
  BY <1>1, <1>2, <1>3, <1>5, <1>6 DEF PaidInv, InTime, OneCounts
<1>8. replaced = {} => \A q \in Procs \ {p} : ~Counting(req[q])
  BY <1>1, <1>2 DEF PaidInv, OneCounts
<1>9. replaced = {} => Pending = 1 /\ Pending' = 0 /\ \A q \in Procs : req'[q].pc # "move"
  BY <1>1, <1>2, <1>5, <1>6, <1>8 DEF Pending, Counting
<1>10. PaidSoFar'
  <2> SUFFICES ASSUME replaced = {} PROVE PaidSoFar'
    BY <1>3 DEF PaidSoFar
  <2>1. resets' + Pending' = resets + Pending
    BY <1>3, <1>9 DEF IInv, TypeOK
  <2> QED BY <1>3, <1>9, <2>1 DEF PaidInv, PaidSoFar
<1>11. ASSUME NEW q \in Procs, InTransaction(q)'
       PROVE  PaysFor(q, req[q])'
  BY <1>3, <1>5, <1>6, <1>11 DEF PaidInv, PaysFor, InTransaction, AttemptIDs
<1> QED BY <1>3, <1>7, <1>10, <1>11 DEF PaidInv

\* While a session is being counted, it is not replaced.
LEMMA NotReplaced ==
  ASSUME IInv, PaidInv, replaced = {}, NEW p \in Procs, Counting(req[p]), NEW t \in Times, t <= now
  PROVE  ~Replaceable(session, t) /\ session.status = "failed"
<1>1. /\ session.status = "failed" /\ session.since = req[p].began
      /\ req[p].pc # "idle"
  BY DEF PaidInv, OneCounts, Counting
<1>2. now <= session.since + 1
  BY <1>1 DEF PaidInv, InTime
<1>3. now \in Int /\ t \in Int /\ session.since \in Int /\ Cooldown \in Int /\ Cooldown > 1
  BY QuizAssumption DEF IInv, TypeOK, Session, Times
<1> QED BY <1>1, <1>2, <1>3 DEF Replaceable

\* What the statement has seen is dated.
LEMMA StartNewPaid ==
  ASSUME IInv, PaidInv, NEW p \in Procs, StartNewSession(p)
  PROVE  PaidInv'
<1>1. PICK r : r = req[p]
  OBVIOUS
<1>2. /\ r \in Request /\ r.pc = "new" /\ r.then # "commit"
      /\ session' = session /\ failed' = failed /\ history' = history /\ resets' = resets
      /\ starts' = starts /\ replaced' = replaced /\ succeeded' = succeeded
      /\ now' = now /\ lock' = lock
  BY <1>1 DEF StartNewSession, IInv, TypeOK, ReqsOK, TransactionOK, InTransaction, quiz, observed
<1>3. CASE Finished(p)
  BY <1>2, <1>3, IdlePasses, PassiveKeeps
<1>4. ASSUME NEW pc \in {"insert", "replace"},
             req' = [req EXCEPT ![p].pc = pc, ![p].at = now]
      PROVE  PaidInv'
  <2>1. PICK x : x = [r EXCEPT !.pc = pc, !.at = now]
    OBVIOUS
  <2>2. x.pc = pc /\ x.at = now /\ x.began = r.began /\ x.then = r.then
    BY <1>2, <2>1 DEF Request
  <2>3. r.began <= now /\ now <= r.began + 1 /\ now <= now
    BY <1>1, <1>2, QuizAssumption DEF PaidInv, InTime, IInv, TypeOK, Times
  <2>4. req' = [req EXCEPT ![p] = x]
    BY <1>1, <1>4, <2>1
  <2>5. PassiveStep(p, x)
    BY <1>2, <2>2, <2>3, <2>4 DEF PassiveStep, Counting
  <2> QED BY <2>5, PassiveKeeps
<1> QED BY <1>3, <1>4 DEF StartNewSession

\* Nobody counts while a session is started.
LEMMA StartPaid ==
  ASSUME IInv, PaidInv, NEW p \in Procs, StartFirst(p) \/ StartNext(p)
  PROVE  PaidInv'
<1>1. PICK t : t = req[p].at
  OBVIOUS
<1>2. /\ lock = None /\ lock' = lock /\ Finished(p) /\ req[p].pc \in {"insert", "replace"}
      /\ failed' = failed /\ history' = history /\ resets' = resets /\ now' = now
      /\ replaced' = {} => replaced = {}
  BY DEF StartFirst, StartNext, Unlocked
<1>3. t \in Times /\ t <= now
  BY <1>1, <1>2 DEF IInv, TypeOK, Request, PaidInv, InTime
<1>4. CASE UNCHANGED <<session, rows, starts>> /\ StartNext(p)
  BY <1>2, <1>4, IdlePasses, PassiveKeeps DEF StartNext
<1>5. CASE starts' = starts \cup {rows + 1} /\ (replaced' = {} => session.status = "none" \/ Replaceable(session, t))
  <2>1. PICK x : req' = [req EXCEPT ![p] = x] /\ x.pc = "idle" /\ x.then = "idle"
    <3>1. PICK x : x = IdleReq
      OBVIOUS
    <3>2. x.pc = "idle" /\ x.then = "idle" /\ req' = [req EXCEPT ![p] = x]
      BY <1>2, <3>1 DEF Finished, IdleReq
    <3> QED BY <3>2
  <2>2. req'[p] = x /\ \A q \in Procs \ {p} : req'[q] = req[q]
    BY <2>1, Changed DEF IInv
  <2>3. ASSUME replaced' = {}
        PROVE  \A q \in Procs : ~Counting(req[q])
    <3>1. CASE session.status = "none"
      BY <1>2, <2>3, <3>1 DEF PaidInv, OneCounts
    <3>2. CASE Replaceable(session, t)
      BY <1>2, <1>3, <2>3, <3>2, NotReplaced
    <3> QED BY <1>5, <2>3, <3>1, <3>2
  <2>4. replaced' = {} => \A q \in Procs : ~Counting(req'[q])
    BY <2>1, <2>2, <2>3 DEF Counting
  <2>5. InTime' /\ OneCounts'
    BY <1>2, <2>1, <2>2, <2>4 DEF PaidInv, InTime, OneCounts
  <2>6. rows + 1 \notin 1..rows
    BY QuizAssumption DEF IInv, TypeOK
  <2>7. PaidSoFar'
    <3> SUFFICES ASSUME replaced' = {} PROVE PaidSoFar'
      BY DEF PaidSoFar
    <3>1. history' \subseteq starts' => history \subseteq starts
      BY <1>2, <1>5, <2>6 DEF IInv, RecordsOK, Recorded
    <3>2. Pending = 0 /\ Pending' = 0 /\ \A q \in Procs : req'[q].pc # "move"
      BY <2>3, <2>4 DEF Counting, Pending
    <3> QED BY <1>2, <3>1, <3>2 DEF PaidInv, PaidSoFar
  <2>8. ASSUME NEW q \in Procs, InTransaction(q)'
        PROVE  PaysFor(q, req[q])'
    <3>1. q # p /\ req'[q] = req[q] /\ InTransaction(q)
      BY <2>1, <2>2, <2>8 DEF InTransaction
    <3>2. AttemptIDs(req[q].added) \subseteq 1..rows
      BY <1>2, <3>1, QuizAssumption DEF IInv, ReqsOK, TransactionOK, HoldsSkip
    <3> QED BY <1>2, <1>5, <2>6, <3>1, <3>2 DEF PaidInv, PaysFor, AttemptIDs
  <2> QED BY <1>2, <2>5, <2>7, <2>8 DEF PaidInv
<1> QED BY <1>1, <1>4, <1>5 DEF StartFirst, StartNext, UpsertSession

LEMMA MarkPasses ==
  ASSUME IInv, NEW p \in Procs, NEW s, NEW added, NEW success, Mark(p, s, added, success),
         session' = session, failed' = failed, history' = history, resets' = resets,
         starts' = starts /\ replaced' = replaced /\ succeeded' = succeeded, now' = now, lock = None,
         lock' = p \/ (lock' = None /\ AttemptIDs(added) \cap starts = {})
  PROVE  \E x : PassiveStep(p, x)
<1>1. PICK i, moved : /\ i = IdleReq
                      /\ moved = IF Exhausted(failed \cup added) THEN failed \cup added ELSE {}
  OBVIOUS
<1>2. PICK x : /\ req' = [req EXCEPT ![p] = x]
               /\ x = [i EXCEPT !.pc = "modify", !.began = now, !.then = "commit",
                         !.success = success, !.blocked = moved # {}, !.session = s,
                         !.added = added, !.moved = moved]
  BY <1>1 DEF Mark, observed
<1>3. x.pc = "modify" /\ x.began = now /\ x.added = added /\ x.moved = moved
  BY <1>1, <1>2 DEF IdleReq
<1>4. x.began <= now /\ now <= x.began + 1
  <2>1. now \in Int
    BY QuizAssumption DEF IInv, TypeOK, Times
  <2> QED BY <1>3, <2>1
<1>5. PaysFor(p, x)'
  BY <1>1, <1>3 DEF PaysFor, Exhausted, AttemptIDs
<1> QED BY <1>2, <1>3, <1>4, <1>5 DEF PassiveStep, Counting

LEMMA ContinuePaid ==
  ASSUME IInv, PaidInv, NEW p \in Procs, NEW right \in BOOLEAN, ContinueQuizSession(p, right)
  PROVE  PaidInv'
<1>1. /\ lock = None /\ session.status = "active"
      /\ failed' = failed /\ history' = history /\ resets' = resets
      /\ now' = now /\ starts' = starts /\ replaced' = replaced /\ succeeded' = succeeded
  BY DEF ContinueQuizSession, Unlocked, observed
<1>2. ASSUME NEW s, NEW status, MarkSession(p, s, status)
      PROVE  PaidInv'
  BY <1>1, <1>2, MarkPasses, PassiveKeeps DEF MarkSession
<1>3. CASE session' = Answered(right) /\ req' = req /\ lock' = lock
  <2>1. replaced = {} => \A q \in Procs : ~Counting(req[q])
    BY <1>1 DEF PaidInv, OneCounts
  <2>2. InTime' /\ OneCounts'
    BY <1>1, <1>3, <2>1 DEF PaidInv, InTime, OneCounts, Counting
  <2>3. Pending' = Pending
    BY <1>3 DEF Pending
  <2>4. PaidSoFar'
    BY <1>1, <1>3, <2>3 DEF PaidInv, PaidSoFar, Exhausted
  <2>5. \A q \in Procs : InTransaction(q)' => PaysFor(q, req[q])'
    BY <1>1, <1>3 DEF PaidInv, PaysFor, InTransaction, AttemptIDs
  <2> QED BY <1>1, <2>2, <2>4, <2>5 DEF PaidInv
<1> QED BY <1>2, <1>3 DEF ContinueQuizSession

LEMMA SkipPaid ==
  ASSUME IInv, PaidInv, NEW p \in Procs, SkipQuizSession(p)
  PROVE  PaidInv'
<1>1. PICK r : r = req[p]
  OBVIOUS
<1>2. /\ lock = None /\ r.pc = "skip"
      /\ session' = session /\ failed' = failed /\ history' = history /\ resets' = resets
      /\ now' = now /\ starts' = starts /\ replaced' = replaced /\ succeeded' = succeeded
  BY <1>1 DEF SkipQuizSession, Unlocked, quiz, observed
<1>3. r \in Request /\ r.began <= now /\ now <= r.began + 1 /\ r.added = {} /\ r.moved = {}
  BY <1>1, <1>2 DEF IInv, TypeOK, ReqsOK, TransactionOK, OutsideOK, InTransaction, PaidInv, InTime
<1>4. CASE Mark(p, session, {Attempted(rows + 1)}, FALSE) /\ lock' = lock
  <2>1. rows + 1 \notin starts
    BY QuizAssumption DEF IInv, TypeOK
  <2>2. PICK added : added = {Attempted(rows + 1)}
    OBVIOUS
  <2>3. AttemptIDs(added) \cap starts = {}
    BY <2>1, <2>2 DEF AttemptIDs, Attempted
  <2> QED BY <1>2, <1>4, <2>2, <2>3, MarkPasses, PassiveKeeps
<1>5. CASE Finished(p) /\ lock' = lock
  BY <1>2, <1>5, IdlePasses, PassiveKeeps
<1>6. CASE /\ lock' = p
           /\ req' = [req EXCEPT ![p].pc = "modify", ![p].then = "commit", ![p].session = session]
  <2>1. PICK x : x = [r EXCEPT !.pc = "modify", !.then = "commit", !.session = session]
    OBVIOUS
  <2>2. req' = [req EXCEPT ![p] = x]
    BY <1>1, <1>6, <2>1
  <2>3. x.pc = "modify" /\ x.began = r.began /\ x.added = {} /\ x.moved = {}
    BY <1>3, <2>1 DEF Request
  <2>4. PaysFor(p, x)'
    BY <2>3 DEF PaysFor, AttemptIDs
  <2>5. PassiveStep(p, x)
    BY <1>2, <1>3, <1>6, <2>2, <2>3, <2>4 DEF PassiveStep, Counting
  <2> QED BY <2>5, PassiveKeeps
<1>7. CASE MarkSession(p, session, "failed")
  BY <1>2, <1>7, MarkPasses, PassiveKeeps DEF MarkSession
<1> QED BY <1>1, <1>4, <1>5, <1>6, <1>7 DEF SkipQuizSession

\* A commit that moves attempts pays for its reset, unless a skip before the
\* first session is among them.
LEMMA CommitPaid ==
  ASSUME IInv, PaidInv, NEW p \in Procs, Commit(p)
  PROVE  PaidInv'
<1>1. PICK r : r = req[p]
  OBVIOUS
<1>2. /\ r \in Request /\ r.pc = "commit" /\ ~r.doomed
      /\ session' = IF lock = p THEN r.session ELSE session
      /\ failed' = (failed \cup r.added) \ r.moved
      /\ history' = history \cup AttemptIDs(r.moved)
      /\ resets' = IF r.moved = {} THEN resets ELSE resets + 1
      /\ lock' = IF lock = p THEN None ELSE lock
      /\ now' = now /\ starts' = starts /\ replaced' = replaced
  BY <1>1 DEF Commit, IInv, TypeOK, Release, observed
<1>3. TransactionOK(p, r) /\ StillTrue(r) /\ PaysFor(p, r)
  BY <1>1, <1>2 DEF IInv, ReqsOK, OutsideOK, TransactionOK, InTransaction, PaidInv
<1>4. /\ req'[p] = IdleReq
      /\ \A q \in Procs \ {p} :
           req'[q] = [req[q] EXCEPT !.doomed = @ \/ (InTransaction(q) /\ (r.added # {} \/ r.success))]
  BY <1>1 DEF Commit
<1>5. req'[p].pc = "idle" /\ req'[p].then = "idle"
  BY <1>4 DEF IdleReq
<1>6. ASSUME NEW q \in Procs \ {p}
      PROVE  /\ req'[q].pc = req[q].pc /\ req'[q].began = req[q].began /\ req'[q].at = req[q].at
             /\ req'[q].then = req[q].then
             /\ req'[q].added = req[q].added /\ req'[q].moved = req[q].moved
             /\ lock' = q <=> lock = q
  <2>1. req[q] \in Request
    BY DEF IInv, TypeOK
  <2>2. /\ req'[q].pc = req[q].pc /\ req'[q].began = req[q].began /\ req'[q].at = req[q].at
        /\ req'[q].then = req[q].then
        /\ req'[q].added = req[q].added /\ req'[q].moved = req[q].moved
    BY <1>4, <2>1 DEF Request
  <2> QED BY <1>2, <2>2, QuizAssumption
<1>7. IsFiniteSet(failed \cup r.added) /\ IsFiniteSet(failed')
  <2>1. IsFiniteSet(r.added)
    <3>1. r.added = {} \/ \E a : r.added = {a}
      BY <1>3 DEF TransactionOK
    <3> QED BY <3>1, FS_EmptySet, FS_Singleton
  <2>2. IsFiniteSet(failed \cup r.added)
    BY <2>1, FS_Union DEF PaidInv
  <2> QED BY <1>2, <2>2, FS_Subset
<1>8. InTime'
  BY <1>2, <1>5, <1>6 DEF PaidInv, InTime
<1>9. \A q \in Procs : Counting(req'[q]) => q # p /\ Counting(req[q])
  BY <1>5, <1>6 DEF Counting
<1>10. ASSUME replaced = {}, NEW q \in Procs, Counting(req[q])
       PROVE  session' = session /\ (lock = p => r.moved = {})
  <2>1. session.status = "failed"
    BY <1>10 DEF PaidInv, OneCounts
  <2> QED BY <1>2, <1>3, <2>1 DEF TransactionOK, HoldsSession
<1>11. OneCounts'
  BY <1>2, <1>6, <1>9, <1>10 DEF PaidInv, OneCounts
<1>12. ASSUME NEW q \in Procs, InTransaction(q)'
       PROVE  PaysFor(q, req[q])'
  BY <1>2, <1>5, <1>6, <1>12 DEF PaidInv, PaysFor, InTransaction, AttemptIDs
<1>13. Pending' = Pending
  BY <1>1, <1>2, <1>5, <1>6 DEF Pending
<1>14. PaidSoFar'
  <2> SUFFICES ASSUME history' \subseteq starts, replaced = {}
               PROVE  /\ \A q \in Procs : req'[q].pc = "move" => Exhausted(failed')
                      /\ Cardinality(history') >= MaxAttempts * (resets' + Pending)
    BY <1>2, <1>13 DEF PaidSoFar, Exhausted
  <2>1. history \subseteq starts /\ r.moved \subseteq failed \cup r.added
    BY <1>2, <1>3 DEF StillTrue
  <2>2. /\ \A q \in Procs : req[q].pc = "move" => Exhausted(failed)
        /\ Cardinality(history) >= MaxAttempts * (resets + Pending)
    BY <2>1 DEF PaidInv, PaidSoFar
  <2>3. CASE r.moved = {}
    <3>1. history' = history /\ resets' = resets /\ failed' = failed \cup r.added
      BY <1>2, <2>3 DEF AttemptIDs
    <3>2. Exhausted(failed) => Exhausted(failed')
      <4>1. /\ Cardinality(failed) <= Cardinality(failed')
            /\ Cardinality(failed) \in Nat /\ Cardinality(failed') \in Nat
        BY <1>7, <3>1, FS_Subset, FS_CardinalityType
      <4> QED BY <4>1, QuizAssumption DEF Exhausted
    <3> QED BY <1>5, <1>6, <2>2, <3>1, <3>2
  <2>4. CASE r.moved # {}
    <3>1. lock = p
      <4>1. r.added \subseteq r.moved /\ (r.added # {} \/ r.success)
        BY <1>3, <2>4 DEF TransactionOK
      <4>2. AttemptIDs(r.added) \subseteq starts
        BY <1>2, <4>1 DEF AttemptIDs
      <4>3. lock # p => \E id \in 1..rows : AttemptIDs(r.added) = {id} /\ AttemptIDs(r.added) \cap starts = {}
        BY <1>3 DEF TransactionOK, HoldsSkip, PaysFor
      <4> QED BY <4>2, <4>3
    <3>2. \A q \in Procs : ~Counting(req[q])
      BY <1>10, <2>4, <3>1
    <3>3. \A q \in Procs : req'[q].pc # "move"
      BY <1>9, <3>2 DEF Counting
    <3>4. Pending = 0
      BY <3>2 DEF Pending, Counting
    <3>5. IsFiniteSet(r.moved) /\ Cardinality(r.moved) >= MaxAttempts
      BY <1>3, <1>7, <2>1, <2>4, FS_Subset DEF PaysFor
    <3>6. \A a, b \in r.moved : a.id = b.id => a = b
      BY <1>3, <2>1 DEF IInv, RecordsOK, TransactionOK, StillTrue, AttemptIDs, Recorded
    <3>7. AttemptIDs(r.moved) \cap history = {}
      BY <1>3, <2>1 DEF IInv, RecordsOK, StillTrue, AttemptIDs, Recorded
    <3>8. Cardinality(history') = Cardinality(history) + Cardinality(r.moved)
      BY <1>2, <3>5, <3>6, <3>7, MovedCount
    <3>9. resets \in Nat /\ MaxAttempts \in Nat /\ MaxAttempts * resets \in Nat
          /\ MaxAttempts * (resets + 1) = MaxAttempts * resets + MaxAttempts
      BY QuizAssumption, Scale DEF IInv, TypeOK
    <3>10. Cardinality(history) \in Nat /\ Cardinality(r.moved) \in Nat
      BY <3>5, HistoryFinite, FS_CardinalityType
    <3>11. Cardinality(history') >= MaxAttempts * (resets + 1)
      <4>1. resets + Pending = resets
        BY <3>4, <3>9
      <4> QED BY <2>2, <3>5, <3>8, <3>9, <3>10, <4>1
    <3>12. resets' + Pending = resets + 1
      BY <1>2, <2>4, <3>4, <3>9
    <3> QED BY <3>3, <3>11, <3>12
  <2> QED BY <2>3, <2>4
<1> QED BY <1>7, <1>8, <1>11, <1>12, <1>14 DEF PaidInv

LEMMA PaidAtFirst == Init => PaidInv
<1> SUFFICES ASSUME Init PROVE PaidInv
  OBVIOUS
<1>1. \A p \in Procs : req[p].pc = "idle" /\ req[p].then = "idle"
  BY DEF Init, IdleReq
<1>2. IsFiniteSet(failed) /\ Cardinality(history) = 0
  BY FS_EmptySet DEF Init
<1>3. Pending = 0
  BY <1>1 DEF Pending
<1>4. Cardinality(history) >= MaxAttempts * (resets + Pending)
  <2>1. resets + Pending = 0 /\ MaxAttempts \in Nat
    BY <1>3, QuizAssumption DEF Init
  <2>2. MaxAttempts * 0 = 0
    BY <2>1
  <2> QED BY <1>2, <2>1, <2>2
<1> QED BY <1>1, <1>2, <1>4 DEF PaidInv, InTime, OneCounts, PaidSoFar, Counting, InTransaction

LEMMA StepPays == IInv /\ PaidInv /\ [Next]_vars => PaidInv'
<1> SUFFICES ASSUME IInv, PaidInv, [Next]_vars PROVE PaidInv'
  OBVIOUS
<1>1. CASE PassSocial1 \/ Tick \/ UNCHANGED vars
  <2>1. /\ session' = session /\ failed' = failed /\ history' = history /\ resets' = resets
        /\ starts' = starts /\ replaced' = replaced /\ succeeded' = succeeded /\ req' = req /\ lock' = lock
    BY <1>1 DEF PassSocial1, Tick, vars, quiz, observed
  <2>2. InTime'
    <3>1. CASE Tick
      <4>1. \A p \in Procs : req[p].pc # "idle" => req[p].began = now
        BY <3>1 DEF Tick
      <4>2. now' = now + 1 /\ now \in Int /\ \A p \in Procs : req[p].at \in Int
        BY <3>1, QuizAssumption DEF Tick, IInv, TypeOK, Times, Request
      <4> QED BY <2>1, <4>1, <4>2 DEF PaidInv, InTime
    <3>2. CASE now' = now
      BY <2>1, <3>2 DEF PaidInv, InTime
    <3> QED BY <1>1, <3>1, <3>2 DEF PassSocial1, vars, observed
  <2>3. OneCounts' /\ Pending' = Pending
    BY <2>1 DEF PaidInv, OneCounts, Counting, Pending
  <2>4. PaidSoFar'
    BY <2>1, <2>3 DEF PaidInv, PaidSoFar, Exhausted
  <2>5. \A q \in Procs : InTransaction(q)' => PaysFor(q, req[q])'
    BY <2>1 DEF PaidInv, PaysFor, InTransaction, AttemptIDs
  <2> QED BY <2>1, <2>2, <2>3, <2>4, <2>5 DEF PaidInv
<1>2. ASSUME NEW p \in Procs, StartOrContinueKYCStep4Session(p)
      PROVE  PaidInv'
  BY <1>2, FinishUnfinishedPaid, ContinuePaid DEF StartOrContinueKYCStep4Session
<1>3. ASSUME NEW p \in Procs, \/ CountFailed(p) \/ MoveFailed(p) \/ AppendReset(p)
      PROVE  PaidInv'
  BY <1>3, CountFailedPaid, MoveFailedPaid, AppendResetPaid
<1>4. ASSUME NEW p \in Procs, \/ StartNewSession(p) \/ StartFirst(p) \/ StartNext(p)
             \/ SkipQuizSession(p) \/ Commit(p)
      PROVE  PaidInv'
  BY <1>4, StartNewPaid, StartPaid, SkipPaid, CommitPaid
<1>5. ASSUME NEW p \in Procs,
             \/ IsQuizEnabledForUser(p) \/ CheckUserKYC(p) \/ BeginSkip(p)
             \/ ReadUser(p) \/ UpdateUser(p) \/ Notify(p) \/ Abort(p)
      PROVE  PaidInv'
  BY <1>5, GotoPaid
<1> QED BY <1>1, <1>2, <1>3, <1>4, <1>5 DEF Next

\* kyc/quiz: each reset has moved MaxAttempts failed sessions of its own to the
\* history, unless a skip before the first session is among them or a first
\* start has written over the session of another.
THEOREM ResetsPaidHolds == Spec => []ResetsPaid
<1>1. IInv /\ PaidInv => ResetsPaid
  <2> SUFFICES ASSUME IInv, PaidInv, history \subseteq starts, replaced = {}
               PROVE  Cardinality(history) >= MaxAttempts * resets
    BY DEF ResetsPaid
  <2>1. Cardinality(history) >= MaxAttempts * (resets + Pending)
    BY DEF PaidInv, PaidSoFar
  <2>2. /\ MaxAttempts * resets <= MaxAttempts * (resets + 1)
        /\ MaxAttempts * resets \in Nat /\ MaxAttempts * (resets + 1) \in Nat
    BY QuizAssumption, Scale DEF IInv, TypeOK
  <2>3. resets + Pending \in {resets, resets + 1}
    BY DEF Pending, IInv, TypeOK
  <2> QED BY <2>1, <2>2, <2>3, HistoryFinite
<1> QED BY <1>1, Always, PaidAtFirst, StepPays, PTL DEF Spec
-----------------------------------------------------------------------------
(* The quiz closes.  The sessions on record are at most MaxAttempts for    *)
(* each reset and each fault, and a full count until the next reset; a     *)
(* session is started only when everything before it is on record and the  *)
(* resets were not yet used up when the request looked.  Only a first      *)
(* start that is late does not look: it takes the place of the session it  *)
(* writes over, and there are no more of them than other requests.         *)

\* The sessions that no first start wrote over.
Kept == starts \ replaced

\* The first starts that have found no row.
Late == {p \in Procs : req[p].pc = "insert"}

\* The request may still start a session.
Starting(r) ==
  /\ r.pc # "idle"
  /\ r.pc \in {"count", "move", "reset", "enabled", "kyc", "new", "replace"} \/ r.then = "enabled"

\* The quiz was open when the request looked, or what has closed it since cools
\* down for longer than the request may take.
StillOpen(r) ==
  \/ resets <= MaxResets
  \/ session.status \in {"none", "active", "success"}
  \/ session.status = "failed" /\ r.began <= session.since + 1

\* A session that runs may be dated by a request that is a tick behind.
EndsAfter(r) ==
  session.status # "none" =>
    r.began <= session.since + IF session.status = "active" THEN 1 ELSE 0

\* A transaction gives its verdict on what it saw when it began; nobody starts to
\* count, or to record a skip, while it has the session locked.
MarkedIn(r) ==
  session.status = "active" =>
    /\ session.since <= r.began /\ r.session.since = r.began
    /\ \A q \in Procs : InTransaction(q) \/ Counting(req[q]) => req[q].began <= r.began

StartInv ==
  /\ session.since <= now
  /\ \A p \in Procs :
       /\ Starting(req[p]) /\ session.status = "active" => req[p].began <= session.since + 1
       /\ req[p].pc \in {"kyc", "new", "replace"} => StillOpen(req[p])
       /\ InTransaction(p) => IF lock = p THEN MarkedIn(req[p]) ELSE EndsAfter(req[p])
       /\ Counting(req[p]) => EndsAfter(req[p])

AllRecorded ==
  /\ starts \subseteq Recorded \cup replaced \cup
       (IF session.status \in {"active", "success"} THEN {session.id} ELSE {})
  /\ IF session.status = "none" THEN starts = {}
     ELSE /\ session.id \notin replaced
          /\ Cardinality(replaced) + Cardinality(Late) <= Cardinality(Procs) - 1

\* A transaction that fails the session and moves nothing leaves attempts.
LeavesSome(r) == r.added # {} /\ r.moved = {} /\ ~r.doomed => ~Exhausted(failed \cup r.added)

Allowed == MaxAttempts * (resets + faults)

\* 1 unless a session that has failed is still being counted.
Free == IF session.status = "failed" /\ \E p \in Procs : Counting(req[p]) THEN 0 ELSE 1

BoundInv ==
  /\ \A p \in Procs : InTransaction(p) /\ lock = p => LeavesSome(req[p])
  /\ Cardinality(history \cap Kept) <=
       Allowed + IF \E p \in Procs : req[p].pc = "reset" THEN MaxAttempts ELSE 0
  /\ Cardinality(Recorded \cap Kept) + Free <= Allowed + MaxAttempts
  /\ Cardinality(Kept) <= MaxAttempts * (MaxResets + 1 + faults)

ClosingInv == StartInv /\ AllRecorded /\ BoundInv
-----------------------------------------------------------------------------
LEMMA Clocks ==
  ASSUME IInv
  PROVE  /\ now \in Int /\ session.since \in Int
         /\ \A p \in Procs : req[p].began \in Int /\ req[p].at \in Int
         /\ Duration \in Int /\ Duration > 1 /\ Cooldown \in Int /\ Cooldown > 1
         /\ resets \in Nat /\ faults \in Nat /\ MaxResets \in Nat
         /\ MaxAttempts \in Nat /\ MaxAttempts > 0 /\ rows \in Nat
         /\ Cardinality(Procs) \in Nat
<1>1. /\ now \in Int /\ resets \in Nat /\ faults \in Nat /\ MaxResets \in Nat
      /\ Duration \in Int /\ Duration > 1 /\ Cooldown \in Int /\ Cooldown > 1
      /\ MaxAttempts \in Nat /\ MaxAttempts > 0 /\ rows \in Nat
  BY QuizAssumption DEF IInv, TypeOK, Times
<1>2. session.since \in Int
  BY QuizAssumption DEF IInv, TypeOK, Session, Times
<1>3. \A p \in Procs : req[p].began \in Int /\ req[p].at \in Int
  BY QuizAssumption DEF IInv, TypeOK, Request, Times
<1>4. Cardinality(Procs) \in Nat
  BY QuizAssumption, FS_CardinalityType
<1> QED BY <1>1, <1>2, <1>3, <1>4

LEMMA AllowedGrows ==
  ASSUME IInv
  PROVE  /\ Allowed \in Nat
         /\ resets' + faults' = resets + faults => Allowed' = Allowed
         /\ resets' + faults' = resets + faults + 1 => Allowed' = Allowed + MaxAttempts
<1>1. PICK n \in Nat : n = resets + faults
  BY Clocks
<1>2. MaxAttempts * n \in Nat /\ MaxAttempts * (n + 1) = MaxAttempts * n + MaxAttempts
  BY Clocks, Scale
<1> QED BY <1>1, <1>2 DEF Allowed

LEMMA CountGrows ==
  ASSUME NEW S, NEW T, IsFiniteSet(S)
  PROVE  /\ Cardinality(S) \in Nat
         /\ T \subseteq S => Cardinality(T) \in Nat /\ Cardinality(T) <= Cardinality(S)
         /\ \A e : T \subseteq S \cup {e} =>
              Cardinality(T) \in Nat /\ Cardinality(T) <= Cardinality(S) + 1
<1>1. ASSUME NEW U, IsFiniteSet(U), T \subseteq U
      PROVE  Cardinality(T) \in Nat /\ Cardinality(T) <= Cardinality(U)
  BY <1>1, FS_Subset, FS_CardinalityType
<1>2. ASSUME NEW e, T \subseteq S \cup {e}
      PROVE  Cardinality(T) \in Nat /\ Cardinality(T) <= Cardinality(S) + 1
  <2>1. IsFiniteSet(S \cup {e}) /\ Cardinality(S) \in Nat /\ Cardinality(S \cup {e}) \in Nat
    BY FS_AddElement, FS_CardinalityType
  <2>2. Cardinality(S \cup {e}) <= Cardinality(S) + 1
    BY <2>1, FS_AddElement
  <2>3. Cardinality(T) \in Nat /\ Cardinality(T) <= Cardinality(S \cup {e})
    BY <1>1, <1>2, <2>1
  <2> QED BY <2>1, <2>2, <2>3
<1> QED BY <1>1, <1>2, FS_CardinalityType

LEMMA StartsFinite ==
  ASSUME IInv, NEW S, S \subseteq starts
  PROVE  IsFiniteSet(S) /\ Cardinality(S) \in Nat
<1>1. starts \subseteq 1..rows /\ IsFiniteSet(1..rows)
  BY Clocks, FS_Interval DEF IInv, TypeOK
<1> QED BY <1>1, FS_Subset, FS_CardinalityType

\* The sessions on record were moved, or are among those that failed.
LEMMA TwoParts ==
  ASSUME NEW A, NEW B, NEW S, IsFiniteSet(S), IsFiniteSet(B),
         \A a, b \in B : a.id = b.id => a = b
  PROVE  LET n == Cardinality((AttemptIDs(B) \cup A) \cap S)
             h == Cardinality(A \cap S)
         IN  n \in Nat /\ h \in Nat /\ Cardinality(B) \in Nat /\ h <= n /\ n <= h + Cardinality(B)
<1>1. PICK H, N, F : /\ H = A \cap S /\ N = (AttemptIDs(B) \cup A) \cap S
                     /\ F = AttemptIDs(B) \cap S
  OBVIOUS
<1>2. IsFiniteSet(H) /\ IsFiniteSet(N) /\ IsFiniteSet(F) /\ H \subseteq N /\ N = H \cup F
  BY <1>1, FS_Subset
<1>3. Cardinality(H) \in Nat /\ Cardinality(N) \in Nat /\ Cardinality(F) \in Nat
      /\ Cardinality(H) <= Cardinality(N) /\ Cardinality(H \cap F) \in Nat
  <2>1. IsFiniteSet(H \cap F)
    BY <1>2, FS_Subset
  <2> QED BY <1>2, <2>1, FS_CardinalityType, FS_Subset
<1>4. Cardinality(N) = Cardinality(H) + Cardinality(F) - Cardinality(H \cap F)
  BY <1>2, FS_Union
<1>5. Cardinality(F) <= Cardinality(B) /\ Cardinality(B) \in Nat
  <2>1. /\ IsFiniteSet(AttemptIDs(B)) /\ Cardinality(AttemptIDs(B)) = Cardinality(B)
        /\ Cardinality(B) \in Nat
    BY CountIDs, FS_CardinalityType
  <2> QED BY <1>1, <2>1, FS_Subset
<1> QED BY <1>1, <1>3, <1>4, <1>5

LEMMA OnRecord ==
  ASSUME IInv, IsFiniteSet(failed)
  PROVE  /\ Cardinality(history \cap Kept) \in Nat /\ Cardinality(Recorded \cap Kept) \in Nat
         /\ Cardinality(failed) \in Nat
         /\ Cardinality(history \cap Kept) <= Cardinality(Recorded \cap Kept)
         /\ Cardinality(Recorded \cap Kept) <= Cardinality(history \cap Kept) + Cardinality(failed)
<1>1. IsFiniteSet(Kept)
  BY StartsFinite DEF Kept
<1> QED BY <1>1, TwoParts DEF Recorded, IInv, RecordsOK

\* Where the first starts are, while no request begins another.
LEMMA LateShrinks ==
  ASSUME IInv, \A q \in Procs : req'[q].pc = "insert" => req[q].pc = "insert"
  PROVE  /\ Cardinality(Late) \in Nat /\ Cardinality(Late') \in Nat
         /\ Cardinality(Late') <= Cardinality(Late)
<1>1. IsFiniteSet(Late) /\ Late' \subseteq Late
  <2>1. Late \subseteq Procs
    BY DEF Late
  <2>2. IsFiniteSet(Late)
    BY <2>1, QuizAssumption, FS_Subset
  <2> QED BY <2>2 DEF Late
<1> QED BY <1>1, FS_Subset, FS_CardinalityType
-----------------------------------------------------------------------------
\* A step of p that leaves the tables alone.
ClosingStep(p, x) ==
  /\ req' = [req EXCEPT ![p] = x]
  /\ session' = session /\ failed' = failed /\ history' = history /\ resets' = resets
  /\ starts' = starts /\ replaced' = replaced /\ now' = now /\ faults' \in {faults, faults + 1}
  /\ lock' = lock \/ (lock \in {p, None} /\ lock' \in {p, None})
  /\ x.began \in Int
  /\ Starting(x) /\ session.status = "active" => x.began <= session.since + 1
  /\ x.pc \in {"kyc", "new", "replace"} => StillOpen(x)
  /\ x.pc = "insert" => session.status = "none"
  /\ x.then = "commit" => IF lock' = p THEN MarkedIn(x) /\ LeavesSome(x) ELSE EndsAfter(x)
  /\ x.then = "commit" \/ Counting(x) =>
       \/ lock = None
       \/ (InTransaction(p) \/ Counting(req[p])) /\ x.began = req[p].began
  /\ Counting(x) => Counting(req[p]) /\ x.began = req[p].began
  /\ x.pc # "reset"
  /\ Counting(req[p]) => \/ faults' = faults + 1
                         \/ req[p].pc # "reset" /\ (Counting(x) \/ ~Exhausted(failed))

LEMMA RoomLeft ==
  ASSUME NEW n \in Nat, NEW u \in {0, 1}, NEW v \in {0, 1}, NEW a \in Nat, NEW m \in Nat,
         m > 0, n + u <= a + m
  PROVE  n + v <= a + m + m
OBVIOUS

LEMMA RoomToBegin ==
  ASSUME NEW a \in Nat, NEW m \in Nat, m > 0
  PROVE  0 + 1 <= a + m
OBVIOUS

LEMMA ClosingKeeps ==
  ASSUME IInv, PaidInv, ClosingInv, NEW p \in Procs, NEW x, ClosingStep(p, x)
  PROVE  ClosingInv'
<1> USE DEF ClosingStep
<1>1. /\ req'[p] = x
      /\ \A q \in Procs \ {p} : req'[q] = req[q] /\ (lock' = q <=> lock = q)
  <2>1. req'[p] = x /\ \A q \in Procs \ {p} : req'[q] = req[q]
    BY Changed DEF IInv
  <2> QED BY <2>1, QuizAssumption
<1>2. Recorded' = Recorded /\ Kept' = Kept
  BY DEF Recorded, AttemptIDs, Kept
<1>3. AllRecorded'
  <2>1. CASE session.status = "none"
    BY <1>2, <2>1 DEF ClosingInv, AllRecorded
  <2>2. CASE session.status # "none"
    <3>1. /\ Cardinality(Late) \in Nat /\ Cardinality(Late') \in Nat
          /\ Cardinality(Late') <= Cardinality(Late)
      BY <1>1, <2>2, LateShrinks
    <3>2. Cardinality(replaced) \in Nat /\ Cardinality(Procs) \in Nat
      BY StartsFinite, Clocks DEF IInv, TypeOK
    <3> QED BY <1>2, <2>2, <3>1, <3>2 DEF ClosingInv, AllRecorded
  <2> QED BY <2>1, <2>2
<1>4. StartInv'
  <2>1. ASSUME NEW q \in Procs, InTransaction(q)', lock' = q
        PROVE  MarkedIn(req[q])'
    <3>1. PICK new : new = req'[q]
      OBVIOUS
    <3>2. MarkedIn(new)
      BY <1>1, <2>1, <3>1 DEF ClosingInv, StartInv, InTransaction
    <3>3. (x.then = "commit" \/ Counting(x)) /\ session.status = "active" => x.began <= new.began
      <4>1. CASE q = p
        <5>1. new = x /\ x.began \in Int
          BY <1>1, <3>1, <4>1
        <5> QED BY <5>1
      <4>2. CASE q # p
        <5>1. lock = q /\ lock # None
          BY <1>1, <2>1, <4>2, QuizAssumption
        <5> QED BY <3>2, <5>1 DEF MarkedIn
      <4> QED BY <4>1, <4>2
    <3>4. MarkedIn(new)'
      BY <1>1, <3>2, <3>3 DEF MarkedIn, InTransaction
    <3> QED BY <3>1, <3>4 DEF MarkedIn
  <2>2. ASSUME NEW q \in Procs, InTransaction(q)', lock' # q
        PROVE  EndsAfter(req[q])'
    BY <1>1, <2>2 DEF ClosingInv, StartInv, EndsAfter, InTransaction
  <2>3. ASSUME NEW q \in Procs, Counting(req'[q])
        PROVE  EndsAfter(req[q])'
    BY <1>1, <2>3 DEF ClosingInv, StartInv, EndsAfter
  <2> QED BY <1>1, <2>1, <2>2, <2>3 DEF ClosingInv, StartInv, StillOpen
<1>5. \A q \in Procs : InTransaction(q)' /\ lock' = q => LeavesSome(req[q])'
  BY <1>1 DEF ClosingInv, BoundInv, LeavesSome, InTransaction, Exhausted
<1>6. PICK h, n, f \in Nat : /\ h = Cardinality(history \cap Kept)
                             /\ n = Cardinality(Recorded \cap Kept)
                             /\ f = Cardinality(failed) /\ h <= n /\ n <= h + f
  BY OnRecord DEF PaidInv
<1>7. PICK a, b \in Nat : a = Allowed /\ b = Allowed'
                          /\ b = IF faults' = faults THEN a ELSE a + MaxAttempts
  BY Clocks, AllowedGrows
<1>8. /\ h <= a + IF \E q \in Procs : req[q].pc = "reset" THEN MaxAttempts ELSE 0
      /\ n + Free <= a + MaxAttempts
  BY <1>6, <1>7 DEF ClosingInv, BoundInv
<1>9. /\ MaxAttempts \in Nat /\ MaxAttempts > 0 /\ faults \in Nat
      /\ Free \in {0, 1} /\ Free' \in {0, 1}
  BY Clocks DEF Free
<1>10. h <= b + IF \E q \in Procs : req'[q].pc = "reset" THEN MaxAttempts ELSE 0
  <2>1. CASE faults' = faults
    <3>1. (\E q \in Procs : req'[q].pc = "reset") <=> (\E q \in Procs : req[q].pc = "reset")
      BY <1>1, <1>9, <2>1 DEF Counting
    <3> QED BY <1>7, <1>8, <2>1, <3>1
  <2>2. CASE faults' = faults + 1
    BY <1>7, <1>8, <1>9, <2>2
  <2> QED BY <2>1, <2>2
<1>11. n + Free' <= b + MaxAttempts
  <2>1. CASE faults' = faults /\ Free' = Free
    BY <1>7, <1>8, <2>1
  <2>2. CASE faults' = faults /\ Free' # Free
    <3>1. /\ Counting(req[p]) /\ ~Counting(x)
          /\ \A q \in Procs : ~Counting(req'[q])
      BY <1>1, <2>2 DEF Free
    <3>2. req[p].pc # "reset" /\ ~Exhausted(failed)
      BY <1>9, <2>2, <3>1
    <3>3. \A q \in Procs : req[q].pc # "reset"
      BY <1>1, <3>1, <3>2 DEF Counting
    <3>4. f < MaxAttempts
      BY <1>6, <1>9, <3>2 DEF Exhausted
    <3> QED BY <1>6, <1>7, <1>8, <1>9, <2>2, <3>3, <3>4
  <2>3. CASE faults' = faults + 1
    <3>1. n + Free <= a + MaxAttempts
      BY <1>8
    <3>2. n + Free' <= a + MaxAttempts + MaxAttempts
      BY <1>9, <3>1, RoomLeft
    <3>3. faults' # faults
      BY <1>9, <2>3
    <3>4. b = a + MaxAttempts
      BY <1>7, <3>3
    <3> QED BY <3>2, <3>4
  <2> QED BY <2>1, <2>2, <2>3
<1>12. Cardinality(Kept) <= MaxAttempts * (MaxResets + 1 + faults')
  <2>1. MaxResets + 1 + faults \in Nat /\ MaxResets + 1 + faults' \in Nat
    BY Clocks
  <2>2. MaxAttempts * (MaxResets + 1 + faults) <= MaxAttempts * (MaxResets + 1 + faults')
    <3>1. CASE faults' = faults
      BY <1>9, <2>1, <3>1, Scale
    <3>2. CASE faults' = faults + 1
      <4>1. MaxResets + 1 + faults' = (MaxResets + 1 + faults) + 1
        BY <3>2, Clocks
      <4> QED BY <1>9, <2>1, <4>1, Scale
    <3> QED BY <3>1, <3>2
  <2>3. /\ MaxAttempts * (MaxResets + 1 + faults) \in Nat
        /\ MaxAttempts * (MaxResets + 1 + faults') \in Nat /\ Cardinality(Kept) \in Nat
    BY <1>9, <2>1, Scale, StartsFinite DEF Kept
  <2> QED BY <2>2, <2>3 DEF ClosingInv, BoundInv
<1> QED BY <1>2, <1>3, <1>4, <1>5, <1>6, <1>7, <1>10, <1>11, <1>12 DEF ClosingInv, BoundInv

LEMMA IdleCloses ==
  ASSUME IInv, NEW p \in Procs, Finished(p),
         session' = session, failed' = failed, history' = history, resets' = resets,
         starts' = starts, replaced' = replaced, now' = now, faults' \in {faults, faults + 1},
         lock' = lock \/ Release(p),
         Counting(req[p]) => faults' = faults + 1
  PROVE  \E x : ClosingStep(p, x)
<1>1. PICK x : x = IdleReq
  OBVIOUS
<1>2. x.pc = "idle" /\ x.then = "idle" /\ x.began = 0
  BY <1>1 DEF IdleReq
<1>3. lock' = lock \/ (lock \in {p, None} /\ lock' \in {p, None})
  BY DEF Release
<1>4. ClosingStep(p, x)
  BY <1>1, <1>2, <1>3 DEF ClosingStep, Counting, Finished, Starting
<1> QED BY <1>4

LEMMA BeginCloses ==
  ASSUME IInv, NEW p \in Procs, NEW pc \in {"enabled", "skip"}, Begin(p, pc),
         session' = session, failed' = failed, history' = history, resets' = resets,
         starts' = starts, replaced' = replaced, now' = now, faults' = faults, lock' = lock,
         pc = "enabled" => session.status # "active"
  PROVE  \E x : ClosingStep(p, x)
<1>1. PICK x \in Request : req' = [req EXCEPT ![p] = x] /\ x.pc = pc /\ x.began = now
                           /\ x.then = "idle"
  BY BeginFits
<1>2. ~Counting(req[p])
  BY DEF Begin, Counting
<1>3. ClosingStep(p, x)
  BY <1>1, <1>2, Clocks DEF ClosingStep, Counting, Starting
<1> QED BY <1>3

\* What goes on as it was can do no more than before.
LEMMA CarriesCloses ==
  ASSUME IInv, ClosingInv, NEW p \in Procs, NEW r, r = req[p],
         NEW x, Carries(x, r), x.began = r.began, req' = [req EXCEPT ![p] = x],
         ~Counting(r), ~Counting(x), Starting(x) => Starting(r),
         x.pc \in {"kyc", "new"} => StillOpen(r), x.pc \notin {"insert", "replace"},
         session' = session, failed' = failed, history' = history, resets' = resets,
         starts' = starts, replaced' = replaced, now' = now, faults' = faults, lock' = lock
  PROVE  ClosingStep(p, x)
<1>1. r.then = "commit" => IF lock = p THEN MarkedIn(r) /\ LeavesSome(r) ELSE EndsAfter(r)
  BY DEF ClosingInv, StartInv, BoundInv, InTransaction
<1>2. x.then = "commit" => IF lock' = p THEN MarkedIn(x) /\ LeavesSome(x) ELSE EndsAfter(x)
  BY <1>1 DEF Carries, MarkedIn, LeavesSome, EndsAfter
<1>3. Starting(r) /\ session.status = "active" => r.began <= session.since + 1
  BY DEF ClosingInv, StartInv
<1>4. x.pc \in {"kyc", "new"} => StillOpen(x)
  BY DEF StillOpen
<1> QED BY <1>2, <1>3, <1>4, Clocks DEF ClosingStep, Counting, Carries, InTransaction

LEMMA GotoCloses ==
  ASSUME IInv, PaidInv, ClosingInv, NEW p \in Procs,
         \/ IsQuizEnabledForUser(p) \/ CheckUserKYC(p) \/ BeginSkip(p)
         \/ ReadUser(p) \/ UpdateUser(p) \/ Notify(p) \/ Abort(p)
  PROVE  ClosingInv'
<1>1. PICK r : r = req[p]
  OBVIOUS
<1>2. /\ session' = session /\ failed' = failed /\ history' = history /\ resets' = resets
      /\ starts' = starts /\ replaced' = replaced /\ succeeded' = succeeded /\ now' = now
  BY DEF IsQuizEnabledForUser, CheckUserKYC, BeginSkip, ReadUser, UpdateUser, Notify, Abort, quiz, observed
<1>3. r \in Request
  BY <1>1 DEF IInv, TypeOK
<1>4. CASE /\ Finished(p) /\ (lock' = lock \/ Release(p)) /\ faults' \in {faults, faults + 1}
           /\ Counting(r) => faults' = faults + 1
  BY <1>1, <1>2, <1>4, IdleCloses, ClosingKeeps
<1>5. CASE Begin(p, "skip") /\ lock' = lock /\ faults' = faults
  BY <1>2, <1>5, BeginCloses, ClosingKeeps
<1>6. ASSUME NEW pc \in {"kyc", "new", "notify", "enabled", "commit"}, Goto(p, pc), lock' = lock,
             faults' = faults, ~Counting(r), r.pc # "idle",
             pc \in {"kyc", "new", "enabled"} => Starting(r), pc \in {"kyc", "new"} => StillOpen(r)
      PROVE  ClosingInv'
  <2>1. PICK x : x = [r EXCEPT !.pc = pc]
    OBVIOUS
  <2>2. Carries(x, r) /\ x.pc = pc /\ x.began = r.began
    BY <1>3, <2>1 DEF Carries, Request, PCs
  <2>3. req' = [req EXCEPT ![p] = x]
    BY <1>1, <1>6, <2>1 DEF Goto
  <2>4. ~Counting(x) /\ (Starting(x) => Starting(r))
    BY <1>6, <2>2 DEF Counting, Starting, Carries
  <2>5. ClosingStep(p, x)
    BY <1>1, <1>2, <1>6, <2>2, <2>3, <2>4, CarriesCloses
  <2> QED BY <2>5, ClosingKeeps
<1>7. CASE ReadUser(p)
  <2>1. PICK t \in {0, QuizKYCStep} : t = IF Passes(r) THEN QuizKYCStep ELSE 0
    OBVIOUS
  <2>2. PICK x : req' = [req EXCEPT ![p] = x]
                 /\ x = [r EXCEPT !.pc = "update", !.old = updated, !.target = t]
    BY <1>1, <1>7, <2>1 DEF ReadUser
  <2>3. updated \in Times /\ lock' = lock /\ faults' = faults /\ r.pc = "modify"
    BY <1>1, <1>7 DEF IInv, TypeOK, ReadUser
  <2>4. Carries(x, r) /\ x.pc = "update" /\ x.began = r.began
    BY <1>3, <2>2, <2>3 DEF Carries, Request, PCs
  <2>5. ~Counting(r) /\ ~Counting(x) /\ (Starting(x) => Starting(r))
    BY <2>3, <2>4 DEF Counting, Starting, Carries
  <2>6. ClosingStep(p, x)
    BY <1>1, <1>2, <2>2, <2>3, <2>4, <2>5, CarriesCloses
  <2> QED BY <2>6, ClosingKeeps
<1>8. CASE IsQuizEnabledForUser(p)
  <2>1. /\ r.pc = "enabled" /\ lock' = lock /\ faults' = faults
        /\ \/ resets <= MaxResets /\ Goto(p, "kyc")
           \/ Finished(p)
    BY <1>1, <1>8 DEF IsQuizEnabledForUser, IsQuizEnabled
  <2>2. ~Counting(r) /\ Starting(r) /\ (resets <= MaxResets => StillOpen(r))
    BY <2>1 DEF Counting, Starting, StillOpen
  <2> QED BY <1>4, <1>6, <2>1, <2>2
<1>9. CASE CheckUserKYC(p)
  <2>1. /\ r.pc = "kyc" /\ lock' = lock /\ faults' = faults
        /\ Goto(p, "new") \/ Finished(p)
    BY <1>1, <1>9 DEF CheckUserKYC
  <2>2. ~Counting(r) /\ Starting(r) /\ StillOpen(r)
    BY <1>1, <2>1 DEF Counting, Starting, ClosingInv, StartInv
  <2> QED BY <1>4, <1>6, <2>1, <2>2
<1>10. CASE UpdateUser(p)
  <2>1. r.pc = "update" /\ lock' = lock /\ faults' = faults /\ Goto(p, "notify")
    BY <1>1, <1>10 DEF UpdateUser
  <2>2. ~Counting(r)
    BY <2>1 DEF Counting
  <2> QED BY <1>6, <2>1, <2>2
<1>11. CASE Notify(p)
  <2>1. r.then \in {"idle", "enabled", "commit"} /\ r.pc = "notify"
    BY <1>1, <1>3, <1>11 DEF Request, Notify
  <2>2. ~Counting(r) /\ (r.then = "enabled" => Starting(r))
    BY <2>1 DEF Counting, Starting
  <2> QED BY <1>1, <1>4, <1>6, <1>11, <2>1, <2>2 DEF Notify, Fault
<1>12. CASE Abort(p)
  BY <1>4, <1>12 DEF Abort, Fault
<1> QED BY <1>5, <1>7, <1>8, <1>9, <1>10, <1>11, <1>12 DEF BeginSkip

LEMMA CountFailedCloses ==
  ASSUME IInv, PaidInv, ClosingInv, NEW p \in Procs, CountFailed(p)
  PROVE  ClosingInv'
<1>1. PICK r : r = req[p]
  OBVIOUS
<1>2. r \in Request /\ r.pc = "count" /\ Counting(r) /\ Starting(r)
  BY <1>1 DEF CountFailed, IInv, TypeOK, Counting, Starting
<1>3. PICK x : /\ req' = [req EXCEPT ![p] = x]
               /\ \/ x = [r EXCEPT !.pc = "move"]
                  \/ /\ x = [r EXCEPT !.pc = "modify", !.blocked = FALSE, !.then = "idle"]
                     /\ ~Exhausted(failed)
  BY <1>1 DEF CountFailed, Goto, Modify
<1>4. r.then # "commit"
  BY <1>1, <1>2 DEF IInv, ReqsOK, InTransaction, TransactionOK
<1>5. /\ x.began = r.began /\ x.then # "commit"
      /\ \/ x.pc = "move"
         \/ x.pc = "modify" /\ x.then = "idle" /\ ~Exhausted(failed)
  BY <1>2, <1>3, <1>4 DEF Request
<1>6. /\ session' = session /\ failed' = failed /\ history' = history /\ resets' = resets
      /\ starts' = starts /\ replaced' = replaced /\ succeeded' = succeeded /\ now' = now /\ lock' = lock /\ faults' = faults
  BY DEF CountFailed, quiz, observed
<1>7. Starting(r) /\ session.status = "active" => r.began <= session.since + 1
  BY <1>1 DEF ClosingInv, StartInv
<1>8. ClosingStep(p, x)
  BY <1>1, <1>2, <1>3, <1>5, <1>6, <1>7, Clocks DEF ClosingStep, Counting, Starting
<1> QED BY <1>8, ClosingKeeps

\* A transaction that marks the session, or records a skip without one.
LEMMA MarkCloses ==
  ASSUME IInv, PaidInv, ClosingInv, NEW p \in Procs, NEW s, NEW added, NEW success,
         Mark(p, s, added, success), ~Counting(req[p]),
         session' = session, failed' = failed, history' = history, resets' = resets,
         starts' = starts, replaced' = replaced, now' = now, faults' = faults, lock = None,
         \/ lock' = p /\ s.since = now
         \/ lock' = None /\ session.status = "none"
  PROVE  ClosingInv'
<1>1. PICK i, moved : /\ i = IdleReq
                      /\ moved = IF Exhausted(failed \cup added) THEN failed \cup added ELSE {}
  OBVIOUS
<1>2. PICK x : /\ req' = [req EXCEPT ![p] = x]
               /\ x = [i EXCEPT !.pc = "modify", !.began = now, !.then = "commit",
                         !.success = success, !.blocked = moved # {}, !.session = s,
                         !.added = added, !.moved = moved]
  BY <1>1 DEF Mark
<1>3. /\ x.pc = "modify" /\ x.began = now /\ x.then = "commit" /\ x.session = s
      /\ x.added = added /\ x.moved = moved
  BY <1>1, <1>2 DEF IdleReq
<1>4. ~Starting(x) /\ ~Counting(x)
  BY <1>3 DEF Starting, Counting
<1>5. IF lock' = p THEN MarkedIn(x) ELSE EndsAfter(x)
  <2>1. ASSUME NEW q \in Procs, InTransaction(q) \/ Counting(req[q])
        PROVE  req[q].began <= now
    <3>1. req[q].pc # "idle"
      BY <2>1 DEF IInv, ReqsOK, TransactionOK, Counting
    <3> QED BY <3>1 DEF PaidInv, InTime
  <2> QED BY <1>3, <2>1, QuizAssumption DEF MarkedIn, EndsAfter, ClosingInv, StartInv
<1>6. LeavesSome(x)
  BY <1>1, <1>3 DEF LeavesSome
<1>7. ClosingStep(p, x)
  BY <1>2, <1>3, <1>4, <1>5, <1>6, Clocks DEF ClosingStep
<1> QED BY <1>7, ClosingKeeps

LEMMA MarkSessionCloses ==
  ASSUME IInv, PaidInv, ClosingInv, NEW p \in Procs, NEW s, NEW status,
         MarkSession(p, s, status), ~Counting(req[p]), lock = None,
         failed' = failed, history' = history, resets' = resets,
         starts' = starts, replaced' = replaced, now' = now, faults' = faults
  PROVE  ClosingInv'
<1>1. PICK n : n = NoSession
  OBVIOUS
<1>2. n = [status |-> "none", id |-> 0, since |-> 0, right |-> 0, wrong |-> 0]
  BY <1>1 DEF NoSession
<1>3. PICK done : done = [n EXCEPT !.status = status, !.id = s.id, !.since = now]
  OBVIOUS
<1>4. done = EndedAs(s, status) /\ done.since = now
  BY <1>1, <1>2, <1>3 DEF EndedAs
<1>5. Mark(p, done, FailedBy(done), status = "success") /\ lock' = p /\ session' = session
  BY <1>4 DEF MarkSession
<1>6. PICK success : success = (status = "success")
  OBVIOUS
<1>7. Mark(p, done, FailedBy(done), success)
  BY <1>5, <1>6
<1> QED BY <1>4, <1>5, <1>7, MarkCloses

LEMMA SkipCloses ==
  ASSUME IInv, PaidInv, ClosingInv, NEW p \in Procs, SkipQuizSession(p)
  PROVE  ClosingInv'
<1>1. PICK r : r = req[p]
  OBVIOUS
<1>2. /\ lock = None /\ r.pc = "skip"
      /\ session' = session /\ failed' = failed /\ history' = history /\ resets' = resets
      /\ now' = now /\ starts' = starts /\ replaced' = replaced /\ succeeded' = succeeded /\ faults' = faults
  BY <1>1 DEF SkipQuizSession, Unlocked, quiz, observed
<1>3. r \in Request /\ r.added = {} /\ ~Counting(r)
  BY <1>1, <1>2 DEF IInv, TypeOK, ReqsOK, TransactionOK, OutsideOK, InTransaction, Counting
<1>4. CASE Mark(p, session, {Attempted(rows + 1)}, FALSE) /\ lock' = lock /\ session.status = "none"
  BY <1>1, <1>2, <1>3, <1>4, MarkCloses
<1>5. CASE Finished(p) /\ lock' = lock
  BY <1>1, <1>2, <1>3, <1>5, IdleCloses, ClosingKeeps
<1>6. CASE /\ lock' = p /\ session.status = "failed"
           /\ req' = [req EXCEPT ![p].pc = "modify", ![p].then = "commit", ![p].session = session]
  <2>1. PICK x : x = [r EXCEPT !.pc = "modify", !.then = "commit", !.session = session]
    OBVIOUS
  <2>2. req' = [req EXCEPT ![p] = x]
    BY <1>1, <1>6, <2>1
  <2>3. x.pc = "modify" /\ x.then = "commit" /\ x.added = {} /\ x.began = r.began
    BY <1>3, <2>1 DEF Request
  <2>4. /\ ~Starting(x) /\ ~Counting(x)
        /\ LeavesSome(x) /\ MarkedIn(x)
    BY <1>2, <1>6, <2>3 DEF Starting, Counting, LeavesSome, MarkedIn
  <2>5. ClosingStep(p, x)
    BY <1>1, <1>2, <1>3, <1>6, <2>2, <2>3, <2>4, Clocks DEF ClosingStep
  <2> QED BY <2>5, ClosingKeeps
<1>7. CASE MarkSession(p, session, "failed")
  BY <1>1, <1>2, <1>3, <1>7, MarkSessionCloses
<1> QED BY <1>1, <1>4, <1>5, <1>6, <1>7 DEF SkipQuizSession

LEMMA ContinueCloses ==
  ASSUME IInv, PaidInv, ClosingInv, NEW p \in Procs, NEW right \in BOOLEAN,
         ContinueQuizSession(p, right)
  PROVE  ClosingInv'
<1>1. /\ lock = None /\ session.status = "active" /\ req[p].pc = "idle" /\ ~Counting(req[p])
      /\ failed' = failed /\ history' = history /\ resets' = resets
      /\ now' = now /\ starts' = starts /\ replaced' = replaced /\ succeeded' = succeeded /\ faults' = faults
  BY DEF ContinueQuizSession, Unlocked, Counting, observed
<1>2. ASSUME NEW s, NEW status, MarkSession(p, s, status)
      PROVE  ClosingInv'
  BY <1>1, <1>2, MarkSessionCloses
<1>3. CASE session' = Answered(right) /\ req' = req /\ lock' = lock
  <2>1. PICK s : s = session
    OBVIOUS
  <2>2. s \in Session
    BY <2>1 DEF IInv, TypeOK
  <2>3. session' \in {[s EXCEPT !.right = @ + 1], [s EXCEPT !.wrong = @ + 1]}
    BY <1>3, <2>1 DEF Answered
  <2>4. session'.status = s.status /\ session'.id = s.id /\ session'.since = s.since
    BY <2>2, <2>3 DEF Session
  <2>5. StartInv'
    BY <1>1, <1>3, <2>1, <2>4
       DEF ClosingInv, StartInv, StillOpen, MarkedIn, EndsAfter, InTransaction
  <2>6. AllRecorded'
    BY <1>1, <1>3, <2>1, <2>4 DEF ClosingInv, AllRecorded, Recorded, AttemptIDs, Late
  <2>7. BoundInv'
    BY <1>1, <1>3, <2>1, <2>4 DEF ClosingInv, BoundInv, LeavesSome, Allowed, Free, Kept, Recorded,
                                  InTransaction, Exhausted, AttemptIDs
  <2> QED BY <2>5, <2>6, <2>7 DEF ClosingInv
<1> QED BY <1>2, <1>3 DEF ContinueQuizSession

LEMMA TimeCloses ==
  ASSUME IInv, PaidInv, ClosingInv, PassSocial1 \/ Tick \/ UNCHANGED vars
  PROVE  ClosingInv'
<1>1. /\ session' = session /\ failed' = failed /\ history' = history /\ resets' = resets
      /\ starts' = starts /\ replaced' = replaced /\ succeeded' = succeeded /\ faults' = faults /\ req' = req /\ lock' = lock
  BY DEF PassSocial1, Tick, vars, quiz, observed
<1>2. session'.since <= now'
  <2>1. now' = now \/ now' = now + 1
    BY DEF PassSocial1, Tick, vars, observed
  <2> QED BY <1>1, <2>1, Clocks DEF ClosingInv, StartInv
<1>3. StartInv'
  BY <1>1, <1>2 DEF ClosingInv, StartInv, StillOpen, MarkedIn, EndsAfter, InTransaction
<1>4. AllRecorded'
  BY <1>1 DEF ClosingInv, AllRecorded, Recorded, AttemptIDs, Late
<1>5. BoundInv'
  BY <1>1 DEF ClosingInv, BoundInv, LeavesSome, Allowed, Free, Kept, Recorded,
              InTransaction, Exhausted, AttemptIDs
<1> QED BY <1>3, <1>4, <1>5 DEF ClosingInv

\* A session that is failed on the way counts until its request has counted it.
LEMMA FinishUnfinishedCloses ==
  ASSUME IInv, PaidInv, ClosingInv, NEW p \in Procs, FinishUnfinishedSession(p)
  PROVE  ClosingInv'
<1>1. CASE session.status # "active"
  <2>1. /\ Begin(p, "enabled") /\ lock' = lock /\ session' = session /\ failed' = failed
        /\ history' = history /\ resets' = resets /\ starts' = starts /\ replaced' = replaced /\ succeeded' = succeeded /\ now' = now
        /\ faults' = faults
    BY <1>1 DEF FinishUnfinishedSession, observed
  <2> QED BY <1>1, <2>1, BeginCloses, ClosingKeeps
<1>2. CASE session.status = "active"
  <2>1. /\ lock = None /\ Begin(p, "count") /\ lock' = lock
        /\ session' = EndedAs(session, "failed")
        /\ failed' = failed \cup FailedBy(session')
        /\ history' = history /\ resets' = resets /\ starts' = starts /\ replaced' = replaced /\ succeeded' = succeeded /\ now' = now
        /\ faults' = faults
    BY <1>2 DEF FinishUnfinishedSession, Unlocked, observed
  <2>2. /\ session'.status = "failed" /\ session'.since = now
        /\ failed' = failed \cup {Attempted(session.id)}
    BY <1>2, <2>1, EndedType DEF IInv
  <2>3. PICK x \in Request : req' = [req EXCEPT ![p] = x] /\ x.pc = "count" /\ x.began = now
                             /\ x.then = "idle"
    BY <2>1, BeginFits
  <2>4. req'[p] = x /\ \A q \in Procs \ {p} : req'[q] = req[q]
    BY <2>3, Changed DEF IInv
  <2>5. /\ req[p].pc = "idle" /\ Kept' = Kept /\ Free = 1
        /\ \A q \in Procs : req'[q].pc = "insert" <=> req[q].pc = "insert"
        /\ (\E q \in Procs : req'[q].pc = "reset") <=> \E q \in Procs : req[q].pc = "reset"
    BY <1>2, <2>1, <2>3, <2>4 DEF Begin, Kept, Free
  <2>6. Recorded' = Recorded \cup {session.id}
    <3>1. PICK a : a.id = session.id /\ failed' = failed \cup {a}
      BY <2>2 DEF Attempted
    <3>2. AttemptIDs(failed)' = AttemptIDs(failed) \cup {session.id}
      BY <3>1 DEF AttemptIDs
    <3> QED BY <2>1, <3>2 DEF Recorded
  <2>7. ASSUME NEW q \in Procs, req[q].pc # "idle"
        PROVE  req[q].began <= now /\ req[q].began <= now + 1
    BY <2>7, Clocks DEF PaidInv, InTime
  <2>8. StartInv'
    <3>1. session'.since <= now'
      BY <2>1, <2>2, Clocks
    <3>2. ASSUME NEW q \in Procs, req'[q].pc \in {"kyc", "new", "replace"}
          PROVE  StillOpen(req[q])'
      BY <2>2, <2>3, <2>4, <2>7, <3>2 DEF StillOpen
    <3>3. ASSUME NEW q \in Procs, InTransaction(q)'
          PROVE  lock' # q /\ EndsAfter(req[q])'
      <4>1. q # p /\ req'[q] = req[q] /\ InTransaction(q)
        BY <2>3, <2>4, <3>3 DEF InTransaction
      <4>2. req[q].pc # "idle"
        BY <4>1 DEF IInv, ReqsOK, TransactionOK
      <4> QED BY <2>1, <2>2, <2>7, <4>1, <4>2, QuizAssumption, Clocks DEF EndsAfter
    <3>4. ASSUME NEW q \in Procs, Counting(req'[q])
          PROVE  EndsAfter(req[q])'
      BY <2>2, <2>3, <2>4, <2>7, <3>4, Clocks DEF EndsAfter, Counting
    <3> QED BY <2>2, <3>1, <3>2, <3>3, <3>4 DEF StartInv
  <2>9. AllRecorded'
    <3>1. session'.id = session.id /\ Late' = Late
      BY <1>2, <2>1, <2>5, EndedType DEF Late, IInv
    <3> QED BY <1>2, <2>1, <2>2, <2>6, <3>1 DEF ClosingInv, AllRecorded
  <2>10. BoundInv'
    <3>1. \A q \in Procs : lock' # q
      BY <2>1, QuizAssumption
    <3>2. Free' = 0
      BY <2>2, <2>3, <2>4 DEF Counting, Free
    <3>3. IsFiniteSet(Recorded \cap Kept)
      BY StartsFinite DEF Kept
    <3>4. /\ Cardinality(Recorded \cap Kept) \in Nat
          /\ Cardinality((Recorded \cap Kept)') \in Nat
          /\ Cardinality((Recorded \cap Kept)') <= Cardinality(Recorded \cap Kept) + 1
      <4>1. (Recorded \cap Kept)' \subseteq (Recorded \cap Kept) \cup {session.id}
        BY <2>5, <2>6
      <4> QED BY <3>3, <4>1, CountGrows
    <3>5. Allowed' = Allowed /\ Allowed \in Nat /\ MaxAttempts \in Nat
      BY <2>1, Clocks, AllowedGrows DEF Allowed
    <3>6. Cardinality(Recorded \cap Kept) + 1 <= Allowed + MaxAttempts
      BY <2>5 DEF ClosingInv, BoundInv
    <3>7. Cardinality((Recorded \cap Kept)') + 0 <= Allowed + MaxAttempts
      BY <3>4, <3>5, <3>6
    <3>8. (Cardinality(Kept) <= MaxAttempts * (MaxResets + 1 + faults))'
      BY <2>1, <2>5 DEF ClosingInv, BoundInv
    <3>9. (Cardinality(history \cap Kept) <=
             Allowed + IF \E q \in Procs : req[q].pc = "reset" THEN MaxAttempts ELSE 0)'
      BY <2>1, <2>5, <3>5 DEF ClosingInv, BoundInv
    <3> QED BY <3>1, <3>2, <3>5, <3>7, <3>8, <3>9 DEF BoundInv
  <2> QED BY <2>8, <2>9, <2>10 DEF ClosingInv
<1> QED BY <1>1, <1>2

LEMMA MoveFailedCloses ==
  ASSUME IInv, PaidInv, ClosingInv, NEW p \in Procs, MoveFailed(p)
  PROVE  ClosingInv'
<1>1. PICK r : r = req[p]
  OBVIOUS
<1>2. r \in Request /\ r.pc = "move" /\ Counting(r) /\ Starting(r) /\ r.then # "commit"
  BY <1>1 DEF MoveFailed, IInv, TypeOK, ReqsOK, InTransaction, TransactionOK, Counting, Starting
<1>3. /\ failed' = {} /\ history' = history \cup AttemptIDs(failed)
      /\ session' = session /\ resets' = resets /\ starts' = starts /\ replaced' = replaced /\ succeeded' = succeeded /\ now' = now /\ lock' = lock
      /\ faults' = faults
  BY DEF MoveFailed, observed
<1>4. PICK x : req' = [req EXCEPT ![p] = x] /\ x = [r EXCEPT !.pc = "reset"]
  BY <1>1 DEF MoveFailed, Goto
<1>5. x.pc = "reset" /\ x.began = r.began /\ x.then = r.then /\ Counting(x) /\ Starting(x)
  BY <1>2, <1>4 DEF Request, Counting, Starting
<1>6. req'[p] = x /\ \A q \in Procs \ {p} : req'[q] = req[q]
  BY <1>4, Changed DEF IInv
<1>7. Free' = Free /\ Kept' = Kept /\ Late' = Late
  BY <1>1, <1>2, <1>3, <1>5, <1>6 DEF Free, Kept, Late
<1>8. Recorded' = Recorded /\ history' = Recorded
  BY <1>3 DEF Recorded, AttemptIDs
<1>9. StartInv'
  <2>1. ASSUME NEW q \in Procs, InTransaction(q)'
        PROVE  IF lock = q THEN MarkedIn(req[q])' ELSE EndsAfter(req[q])'
    <3>1. PICK old : old = req[q]
      OBVIOUS
    <3>2. q # p /\ req'[q] = old /\ old.then = "commit"
      BY <1>2, <1>5, <1>6, <2>1, <3>1 DEF InTransaction
    <3>3. IF lock = q THEN MarkedIn(old) ELSE EndsAfter(old)
      BY <3>1, <3>2 DEF ClosingInv, StartInv, InTransaction
    <3>4. MarkedIn(old) => MarkedIn(old)'
      BY <1>1, <1>2, <1>3, <1>5, <1>6 DEF MarkedIn, InTransaction
    <3>5. EndsAfter(old) => EndsAfter(old)'
      BY <1>3 DEF EndsAfter
    <3> QED BY <3>2, <3>3, <3>4, <3>5 DEF MarkedIn, EndsAfter
  <2>2. ASSUME NEW q \in Procs, Counting(req'[q])
        PROVE  EndsAfter(req[q])'
    BY <1>1, <1>2, <1>3, <1>5, <1>6, <2>2 DEF ClosingInv, StartInv, EndsAfter
  <2> QED BY <1>1, <1>2, <1>3, <1>5, <1>6, <2>1, <2>2 DEF ClosingInv, StartInv, StillOpen
<1>10. AllRecorded'
  BY <1>3, <1>7, <1>8 DEF ClosingInv, AllRecorded
<1>11. BoundInv'
  <2>1. ASSUME NEW q \in Procs, InTransaction(q)', lock' = q
        PROVE  LeavesSome(req[q])'
    <3>1. q # p /\ req'[q] = req[q] /\ InTransaction(q) /\ lock = q
      BY <1>2, <1>3, <1>5, <1>6, <2>1 DEF InTransaction
    <3>2. PICK added : added = req[q].added
      OBVIOUS
    <3>3. IsFiniteSet(failed \cup added) /\ added \subseteq failed \cup added
      <4>0. \A b, c \in added : b = c
        BY <3>1, <3>2 DEF IInv, ReqsOK, TransactionOK, InTransaction
      <4>1. IsFiniteSet(added)
        <5>1. CASE added = {}
          BY <5>1, FS_EmptySet
        <5>2. CASE added # {}
          <6>1. PICK b : b \in added
            BY <5>2
          <6>2. added = {b}
            BY <4>0, <6>1
          <6> QED BY <6>2, FS_Singleton
        <5> QED BY <5>1, <5>2
      <4> QED BY <4>1, FS_Union DEF PaidInv
    <3>4. /\ Cardinality(added) \in Nat /\ Cardinality(failed \cup added) \in Nat
          /\ Cardinality(added) <= Cardinality(failed \cup added)
      BY <3>3, FS_Subset, FS_CardinalityType
    <3>5. Exhausted(added) => Exhausted(failed \cup added)
      BY <3>4, Clocks DEF Exhausted
    <3>6. LeavesSome(req[q])
      BY <3>1 DEF ClosingInv, BoundInv
    <3>7. failed' \cup added = added
      BY <1>3
    <3> QED BY <3>1, <3>2, <3>5, <3>6, <3>7 DEF LeavesSome, Exhausted
  <2>2. Allowed' = Allowed /\ Allowed \in Nat /\ MaxAttempts \in Nat
    BY <1>3, Clocks, AllowedGrows DEF Allowed
  <2>3. /\ Cardinality(Recorded \cap Kept) + Free <= Allowed + MaxAttempts
        /\ Cardinality(Recorded \cap Kept) \in Nat /\ Free \in {0, 1}
    BY StartsFinite DEF ClosingInv, BoundInv, Free, Kept
  <2>4. (Cardinality(history \cap Kept) <=
           Allowed + IF \E q \in Procs : req[q].pc = "reset" THEN MaxAttempts ELSE 0)'
    <3>1. (history \cap Kept)' = Recorded \cap Kept
      BY <1>7, <1>8
    <3>2. (\E q \in Procs : req[q].pc = "reset")'
      BY <1>5, <1>6
    <3>3. PICK n, a, m \in Nat : /\ n = Cardinality(Recorded \cap Kept) /\ a = Allowed
                                /\ m = MaxAttempts
      BY <2>2, <2>3
    <3>4. n <= a + m
      BY <2>3, <3>3
    <3> QED BY <2>2, <3>1, <3>2, <3>3, <3>4
  <2>5. (Cardinality(Recorded \cap Kept) + Free <= Allowed + MaxAttempts)'
    BY <1>7, <1>8, <2>2, <2>3
  <2>6. (Cardinality(Kept) <= MaxAttempts * (MaxResets + 1 + faults))'
    BY <1>3, <1>7 DEF ClosingInv, BoundInv
  <2> QED BY <2>1, <2>4, <2>5, <2>6 DEF BoundInv
<1> QED BY <1>9, <1>10, <1>11 DEF ClosingInv

LEMMA AppendResetCloses ==
  ASSUME IInv, PaidInv, ClosingInv, NEW p \in Procs, AppendReset(p)
  PROVE  ClosingInv'
<1>1. PICK r : r = req[p]
  OBVIOUS
<1>2. r \in Request /\ r.pc = "reset" /\ Counting(r)
  BY <1>1 DEF AppendReset, IInv, TypeOK, Counting
<1>3. /\ failed' = failed /\ history' = history /\ resets' = resets + 1
      /\ session' = session /\ starts' = starts /\ replaced' = replaced /\ succeeded' = succeeded /\ now' = now /\ lock' = lock /\ faults' = faults
  BY DEF AppendReset, observed
<1>4. PICK x : req' = [req EXCEPT ![p] = x]
               /\ x = [r EXCEPT !.pc = "modify", !.blocked = TRUE, !.then = "enabled"]
  BY <1>1 DEF AppendReset, Modify
<1>5. x.pc = "modify" /\ x.began = r.began /\ x.then = "enabled" /\ ~Counting(x)
  BY <1>2, <1>4 DEF Request, Counting
<1>6. req'[p] = x /\ \A q \in Procs \ {p} : req'[q] = req[q]
  BY <1>4, Changed DEF IInv
<1>7. /\ now <= r.began + 1 /\ Starting(r)
      /\ session.status = "failed" => r.began <= session.since
  BY <1>1, <1>2, Clocks DEF ClosingInv, StartInv, EndsAfter, PaidInv, InTime, Starting
<1>8. Recorded' = Recorded /\ Kept' = Kept /\ Late' = Late
  BY <1>1, <1>2, <1>3, <1>5, <1>6 DEF Recorded, AttemptIDs, Kept, Late
<1>9. StartInv'
  <2>1. ASSUME NEW q \in Procs, req'[q].pc \in {"kyc", "new", "replace"}
        PROVE  StillOpen(req[q])'
    <3>1. q # p /\ req'[q] = req[q]
      BY <1>5, <1>6, <2>1
    <3>2. req[q].began <= now
      BY <2>1, <3>1 DEF PaidInv, InTime
    <3>3. session.status = "failed" => req[q].began <= session.since + 1
      BY <1>1, <1>7, <3>2, Clocks
    <3>4. session.status \in {"none", "active", "failed", "success"}
      BY DEF IInv, TypeOK, Session
    <3> QED BY <1>3, <3>1, <3>3, <3>4 DEF StillOpen
  <2>2. ASSUME NEW q \in Procs, InTransaction(q)'
        PROVE  IF lock = q THEN MarkedIn(req[q])' ELSE EndsAfter(req[q])'
    <3>1. PICK old : old = req[q]
      OBVIOUS
    <3>2. q # p /\ req'[q] = old /\ old.then = "commit"
      BY <1>2, <1>5, <1>6, <2>2, <3>1 DEF InTransaction
    <3>3. IF lock = q THEN MarkedIn(old) ELSE EndsAfter(old)
      BY <3>1, <3>2 DEF ClosingInv, StartInv, InTransaction
    <3>4. MarkedIn(old) => MarkedIn(old)'
      BY <1>3, <1>5, <1>6 DEF MarkedIn, InTransaction
    <3>5. EndsAfter(old) => EndsAfter(old)'
      BY <1>3 DEF EndsAfter
    <3> QED BY <3>2, <3>3, <3>4, <3>5 DEF MarkedIn, EndsAfter
  <2>3. ASSUME NEW q \in Procs, Counting(req'[q])
        PROVE  EndsAfter(req[q])'
    BY <1>3, <1>5, <1>6, <2>3 DEF ClosingInv, StartInv, EndsAfter
  <2>4. ASSUME NEW q \in Procs, Starting(req'[q]), session.status = "active"
        PROVE  req'[q].began <= session.since + 1
    BY <1>1, <1>5, <1>6, <1>7, <2>4 DEF ClosingInv, StartInv
  <2> QED BY <1>3, <2>1, <2>2, <2>3, <2>4 DEF ClosingInv, StartInv
<1>10. AllRecorded'
  BY <1>3, <1>8 DEF ClosingInv, AllRecorded
<1>11. BoundInv'
  <2>1. ASSUME NEW q \in Procs, InTransaction(q)', lock' = q
        PROVE  LeavesSome(req[q])'
    <3>1. q # p /\ req'[q] = req[q] /\ InTransaction(q) /\ lock = q
      BY <1>3, <1>5, <1>6, <2>1 DEF InTransaction
    <3> QED BY <1>3, <3>1 DEF LeavesSome, Exhausted, ClosingInv, BoundInv
  <2>2. /\ Allowed' = Allowed + MaxAttempts /\ Allowed \in Nat
        /\ MaxAttempts \in Nat /\ MaxAttempts > 0
    <3>1. resets' + faults' = resets + faults + 1
      BY <1>3, Clocks
    <3> QED BY <3>1, Clocks, AllowedGrows
  <2>3. /\ Cardinality(Recorded \cap Kept) + Free <= Allowed + MaxAttempts
        /\ Cardinality(history \cap Kept) <= Allowed + MaxAttempts
    BY <1>1, <1>2 DEF ClosingInv, BoundInv
  <2>4. /\ Cardinality(Recorded \cap Kept) \in Nat /\ Cardinality(history \cap Kept) \in Nat
        /\ Free \in {0, 1} /\ Free' \in {0, 1}
    BY StartsFinite DEF Kept, Free
  <2>5. (Cardinality(history \cap Kept) <=
           Allowed + IF \E q \in Procs : req[q].pc = "reset" THEN MaxAttempts ELSE 0)'
    BY <1>3, <1>8, <2>2, <2>3, <2>4
  <2>6. (Cardinality(Recorded \cap Kept) + Free <= Allowed + MaxAttempts)'
    BY <1>8, <2>2, <2>3, <2>4
  <2>7. (Cardinality(Kept) <= MaxAttempts * (MaxResets + 1 + faults))'
    BY <1>3, <1>8 DEF ClosingInv, BoundInv
  <2> QED BY <2>1, <2>5, <2>6, <2>7 DEF BoundInv
<1> QED BY <1>9, <1>10, <1>11 DEF ClosingInv

LEMMA ScaleUp ==
  ASSUME NEW a \in Nat, NEW b \in Nat, NEW c \in Nat, b <= c
  PROVE  a * b <= a * c
<1>1. PICK d \in Nat : c = b + d
  <2>1. c - b \in Nat /\ c = b + (c - b)
    OBVIOUS
  <2> QED BY <2>1
<1>2. a * (b + d) = a * b + a * d /\ a * d \in Nat /\ a * b \in Nat
  BY SMT
<1> QED BY <1>1, <1>2

\* What the statement has seen keeps the request where it was.
LEMMA StartNewCloses ==
  ASSUME IInv, PaidInv, ClosingInv, NEW p \in Procs, StartNewSession(p)
  PROVE  ClosingInv'
<1>1. PICK r : r = req[p]
  OBVIOUS
<1>2. /\ r \in Request /\ r.pc = "new" /\ r.then # "commit" /\ lock # p
      /\ ~Counting(r) /\ Starting(r) /\ StillOpen(r)
      /\ session.status = "active" => r.began <= session.since + 1
  BY <1>1 DEF StartNewSession, IInv, TypeOK, ReqsOK, TransactionOK, OutsideOK, InTransaction,
              ClosingInv, StartInv, Starting, Counting
<1>3. /\ session' = session /\ failed' = failed /\ history' = history /\ resets' = resets
      /\ starts' = starts /\ replaced' = replaced /\ now' = now /\ lock' = lock /\ faults' = faults
  BY DEF StartNewSession, quiz, observed
<1>4. CASE Finished(p)
  BY <1>1, <1>2, <1>3, <1>4, IdleCloses, ClosingKeeps
<1>5. ASSUME NEW pc \in {"insert", "replace"}, pc = "insert" => session.status = "none",
             req' = [req EXCEPT ![p].pc = pc, ![p].at = now]
      PROVE  ClosingInv'
  <2>1. PICK x : x = [r EXCEPT !.pc = pc, !.at = now]
    OBVIOUS
  <2>2. x.pc = pc /\ x.began = r.began /\ x.then = r.then
    BY <1>2, <2>1 DEF Request
  <2>3. ~Counting(x) /\ (x.pc \in {"kyc", "new", "replace"} => StillOpen(x))
    BY <1>2, <2>2 DEF Counting, StillOpen
  <2>4. req' = [req EXCEPT ![p] = x]
    BY <1>1, <1>5, <2>1
  <2>5. ClosingStep(p, x)
    BY <1>1, <1>2, <1>3, <1>5, <2>2, <2>3, <2>4, Clocks DEF ClosingStep
  <2> QED BY <2>5, ClosingKeeps
<1> QED BY <1>4, <1>5 DEF StartNewSession

\* A session that starts is on no record, and takes a number of its own.
Started(p) ==
  /\ starts' = starts \cup {rows + 1}
  /\ session'.status = "active" /\ session'.id = rows + 1
  /\ failed' = failed /\ history' = history /\ resets' = resets /\ faults' = faults
  /\ req'[p].pc = "idle"
  /\ \A q \in Procs \ {p} : req'[q].pc = req[q].pc

\* There is still an attempt to give away for the session that runs.
RoomForOne ==
  /\ Cardinality(Recorded \cap Kept) + 1 <= Allowed + MaxAttempts
  /\ Cardinality(Kept) <= MaxAttempts * (MaxResets + 1 + faults)

LEMMA NewNumber ==
  ASSUME IInv, NEW p \in Procs, Started(p)
  PROVE  /\ Recorded' = Recorded /\ Allowed' = Allowed /\ Allowed \in Nat
         /\ rows + 1 \notin Recorded /\ rows + 1 \notin starts /\ rows + 1 \notin replaced
<1>1. Recorded' = Recorded /\ Allowed' = Allowed
  BY DEF Started, Recorded, AttemptIDs, Allowed
<1>2. rows + 1 \notin 1..rows
  BY Clocks
<1> QED BY <1>1, <1>2, Clocks, AllowedGrows DEF IInv, TypeOK, RecordsOK, Allowed

\* The very first session.
LEMMA FirstStarts ==
  ASSUME IInv, ClosingInv, NEW p \in Procs, Started(p), session.status = "none",
         replaced' = replaced
  PROVE  AllRecorded' /\ RoomForOne'
<1>1. starts = {} /\ replaced' = {} /\ replaced = {} /\ starts' = {rows + 1}
  BY DEF ClosingInv, AllRecorded, Started, IInv, TypeOK
<1>2. Kept' = {rows + 1} /\ (Recorded \cap Kept)' = {}
  BY <1>1, NewNumber DEF Kept
<1>3. AllRecorded'
  <2>1. /\ IsFiniteSet(Procs \ {p}) /\ Cardinality(Procs \ {p}) = Cardinality(Procs) - 1
        /\ Cardinality(Procs \ {p}) \in Nat
    BY QuizAssumption, FS_RemoveElement, FS_CardinalityType
  <2>2. Late' \subseteq Procs \ {p}
    BY DEF Late, Started
  <2>3. Cardinality(Late') <= Cardinality(Procs) - 1 /\ Cardinality(Late') \in Nat
    <3>1. IsFiniteSet(Late') /\ Cardinality(Late') <= Cardinality(Procs \ {p})
      BY <2>1, <2>2, FS_Subset
    <3> QED BY <2>1, <3>1, FS_CardinalityType
  <2>4. Cardinality(replaced') = 0
    BY <1>1, FS_EmptySet
  <2>5. Cardinality(replaced') + Cardinality(Late') <= Cardinality(Procs) - 1
    BY <2>3, <2>4
  <2> QED BY <1>1, <2>5 DEF AllRecorded, Started
<1>4. RoomForOne'
  <2>1. Cardinality(Kept') = 1 /\ Cardinality((Recorded \cap Kept)') = 0
    BY <1>2, FS_Singleton, FS_EmptySet
  <2>2. Allowed' \in Nat /\ MaxAttempts \in Nat /\ MaxAttempts > 0 /\ faults' = faults
    BY NewNumber, Clocks DEF Started
  <2>3. PICK m \in Nat : m = MaxResets + 1 + faults /\ 1 <= m
    BY Clocks
  <2>4. MaxAttempts * 1 <= MaxAttempts * m /\ MaxAttempts * 1 = MaxAttempts /\ MaxAttempts * m \in Nat
    BY <2>2, <2>3, ScaleUp, Scale
  <2>5. 0 + 1 <= Allowed' + MaxAttempts
    BY <2>2, RoomToBegin
  <2>6. 1 <= MaxAttempts * m
    <3>1. PICK k, t \in Nat : k = MaxAttempts /\ k > 0 /\ t = MaxAttempts * m /\ k <= t
      BY <2>2, <2>4
    <3> QED BY <3>1
  <2>7. (MaxAttempts * (MaxResets + 1 + faults))' = MaxAttempts * m
    BY <2>2, <2>3
  <2> QED BY <2>1, <2>5, <2>6, <2>7 DEF RoomForOne
<1> QED BY <1>3, <1>4

\* A late first start takes the place of the session it writes over.
LEMMA LateStarts ==
  ASSUME IInv, ClosingInv, NEW p \in Procs, Started(p), session.status # "none",
         req[p].pc = "insert", replaced' = replaced \cup {session.id}
  PROVE  AllRecorded' /\ RoomForOne'
<1>1. PICK id : id = session.id
  OBVIOUS
<1>2. id \in starts /\ id \in Kept /\ id \notin replaced /\ id # rows + 1
  BY <1>1, NewNumber DEF IInv, RecordsOK, Kept, ClosingInv, AllRecorded
<1>3. Kept' = (Kept \ {id}) \cup {rows + 1} /\ (Recorded \cap Kept)' = (Recorded \cap Kept) \ {id}
  <2>1. Kept' = (Kept \ {id}) \cup {rows + 1}
    BY <1>1, <1>2, NewNumber DEF Kept, Started
  <2> QED BY <2>1, NewNumber
<1>4. /\ IsFiniteSet(Kept) /\ Cardinality(Kept) \in Nat /\ IsFiniteSet(replaced)
      /\ IsFiniteSet(Recorded \cap Kept) /\ Cardinality(Recorded \cap Kept) \in Nat
      /\ Cardinality(replaced) \in Nat
  <2>1. Kept \subseteq starts /\ replaced \subseteq starts /\ Recorded \cap Kept \subseteq starts
    BY DEF Kept, IInv, TypeOK
  <2> QED BY <2>1, StartsFinite
<1>5. AllRecorded'
  <2>1. /\ IsFiniteSet(Late) /\ Cardinality(Late) \in Nat /\ p \in Late /\ Late' = Late \ {p}
    <3>1. Late \subseteq Procs
      BY DEF Late
    <3>2. IsFiniteSet(Late)
      BY <3>1, QuizAssumption, FS_Subset
    <3>3. p \in Late /\ Late' = Late \ {p}
      BY DEF Late, Started
    <3> QED BY <3>2, <3>3, FS_CardinalityType
  <2>2. Cardinality(Late') = Cardinality(Late) - 1
    BY <2>1, FS_RemoveElement
  <2>3. Cardinality(replaced') = Cardinality(replaced) + 1
    BY <1>1, <1>2, <1>4, FS_AddElement
  <2>4. Cardinality(replaced) + Cardinality(Late) <= Cardinality(Procs) - 1
    BY DEF ClosingInv, AllRecorded
  <2>5. Cardinality(replaced') + Cardinality(Late') <= Cardinality(Procs) - 1
    BY <1>4, <2>1, <2>2, <2>3, <2>4, Clocks
  <2>6. starts' \subseteq Recorded' \cup replaced' \cup {rows + 1} /\ rows + 1 \notin replaced'
    BY <1>1, <1>2, NewNumber DEF ClosingInv, AllRecorded, Started
  <2> QED BY <2>5, <2>6 DEF AllRecorded, Started
<1>6. RoomForOne'
  <2>1. Cardinality(Kept') = Cardinality(Kept)
    <3>1. /\ IsFiniteSet(Kept \ {id}) /\ Cardinality(Kept \ {id}) = Cardinality(Kept) - 1
          /\ rows + 1 \notin Kept \ {id}
      BY <1>2, <1>4, NewNumber, FS_RemoveElement DEF Kept
    <3>2. Cardinality((Kept \ {id}) \cup {rows + 1}) = Cardinality(Kept \ {id}) + 1
      BY <3>1, FS_AddElement
    <3> QED BY <1>3, <1>4, <3>1, <3>2
  <2>2. /\ Cardinality(Recorded \cap Kept) + Free <= Allowed + MaxAttempts
        /\ Cardinality(Kept) <= MaxAttempts * (MaxResets + 1 + faults)
    BY DEF ClosingInv, BoundInv
  <2>3. /\ Allowed' = Allowed /\ Allowed \in Nat /\ MaxAttempts \in Nat /\ faults' = faults
        /\ Free \in {0, 1}
    BY NewNumber, Clocks DEF Free, Started
  <2>4. Cardinality((Recorded \cap Kept)') + 1 <= Allowed + MaxAttempts
    <3>0. PICK n, a, m, u \in Nat : /\ n = Cardinality(Recorded \cap Kept) /\ a = Allowed
                                   /\ m = MaxAttempts /\ u = Free /\ n + u <= a + m
      BY <1>4, <2>2, <2>3
    <3>1. CASE session.status = "failed"
      <4>1. id \in Recorded \cap Kept
        BY <1>1, <1>2, <3>1 DEF IInv, RecordsOK
      <4>2. Cardinality((Recorded \cap Kept) \ {id}) = Cardinality(Recorded \cap Kept) - 1
        BY <1>4, <4>1, FS_RemoveElement
      <4>3. n - 1 + 1 <= a + m
        BY <3>0
      <4> QED BY <1>3, <3>0, <4>2, <4>3
    <3>2. CASE session.status # "failed"
      <4>1. /\ Cardinality((Recorded \cap Kept) \ {id}) <= Cardinality(Recorded \cap Kept)
            /\ Cardinality((Recorded \cap Kept) \ {id}) \in Nat
        <5>1. (Recorded \cap Kept) \ {id} \subseteq Recorded \cap Kept
          OBVIOUS
        <5> QED BY <1>4, <5>1, CountGrows
      <4>2. Free = 1
        BY <3>2 DEF Free
      <4>3. PICK k \in Nat : k = Cardinality((Recorded \cap Kept) \ {id}) /\ k + 1 <= a + m
        BY <3>0, <4>1, <4>2
      <4> QED BY <1>3, <3>0, <4>3
    <3> QED BY <3>1, <3>2
  <2> QED BY <2>1, <2>2, <2>3, <2>4 DEF RoomForOne
<1> QED BY <1>5, <1>6

\* A request that has looked was let in while the quiz was open, and it still is;
\* no session that runs is replaced.
LEMMA OpenToStart ==
  ASSUME IInv, PaidInv, ClosingInv, NEW p \in Procs, req[p].pc = "replace",
         Replaceable(session, req[p].at)
  PROVE  /\ session.status = "failed" /\ resets <= MaxResets
         /\ \A q \in Procs : ~Counting(req[q])
<1>1. PICK r : r = req[p]
  OBVIOUS
<1>2. /\ r.pc = "replace" /\ Starting(r) /\ StillOpen(r)
      /\ session.status = "active" => r.began <= session.since + 1
      /\ r.began <= now /\ now <= r.began + 1 /\ r.began <= r.at /\ r.at <= now
  BY <1>1 DEF ClosingInv, StartInv, PaidInv, InTime, Starting
<1>3. /\ r.began \in Int /\ r.at \in Int /\ now \in Int /\ session.since \in Int
      /\ Duration \in Int /\ Duration > 1 /\ Cooldown \in Int /\ Cooldown > 1
  BY <1>1, Clocks
<1>4. session.status # "active"
  BY <1>1, <1>2, <1>3 DEF Replaceable, Expired
<1>5. session.status = "failed" /\ session.since + Cooldown < r.at
  BY <1>1, <1>4 DEF Replaceable
<1>6. resets <= MaxResets
  BY <1>2, <1>3, <1>5 DEF StillOpen
<1>7. ASSUME NEW q \in Procs, Counting(req[q])
      PROVE  FALSE
  <2>1. req[q].began <= session.since /\ req[q].began \in Int
    BY <1>3, <1>5, <1>7, Clocks DEF ClosingInv, StartInv, EndsAfter
  <2>2. now <= req[q].began + 1
    BY <1>7 DEF PaidInv, InTime, Counting
  <2> QED BY <1>2, <1>3, <1>5, <2>1, <2>2
<1> QED BY <1>5, <1>6, <1>7

LEMMA NextStarts ==
  ASSUME IInv, PaidInv, ClosingInv, NEW p \in Procs, Started(p), req[p].pc = "replace",
         Replaceable(session, req[p].at), replaced' = replaced
  PROVE  AllRecorded' /\ RoomForOne'
<1>1. /\ session.status = "failed" /\ resets <= MaxResets
      /\ \A q \in Procs : ~Counting(req[q])
  BY OpenToStart
<1>2. starts \subseteq Recorded \cup replaced
  BY <1>1 DEF ClosingInv, AllRecorded
<1>3. /\ Kept' = Kept \cup {rows + 1} /\ Recorded \cap Kept = Kept
      /\ (Recorded \cap Kept)' = Kept
  BY <1>2, NewNumber DEF Kept, Started
<1>4. AllRecorded'
  <2>1. Late' = Late
    BY DEF Late, Started
  <2>2. starts' \subseteq Recorded' \cup replaced' \cup {rows + 1} /\ rows + 1 \notin replaced'
    BY <1>2, NewNumber DEF Started
  <2> QED BY <1>1, <2>1, <2>2 DEF ClosingInv, AllRecorded, Started
<1>5. RoomForOne'
  <2>1. Cardinality(Kept) + 1 <= Allowed + MaxAttempts
    BY <1>1, <1>3 DEF ClosingInv, BoundInv, Free
  <2>2. /\ Cardinality(Kept) \in Nat /\ Cardinality(Kept') \in Nat
        /\ Cardinality(Kept') <= Cardinality(Kept) + 1
    <3>1. IsFiniteSet(Kept)
      BY StartsFinite DEF Kept
    <3> QED BY <1>3, <3>1, CountGrows
  <2>3. PICK most \in Nat : most = MaxResets + 1 + faults
    BY Clocks
  <2>4. PICK n \in Nat : n = resets + faults /\ n + 1 <= most /\ n + 1 \in Nat
    BY <1>1, <2>3, Clocks
  <2>5. Allowed + MaxAttempts = MaxAttempts * (n + 1) /\ MaxAttempts \in Nat
    BY <2>4, Clocks, Scale DEF Allowed
  <2>6. /\ MaxAttempts * (n + 1) <= MaxAttempts * most
        /\ MaxAttempts * (n + 1) \in Nat /\ MaxAttempts * most \in Nat
    BY <2>3, <2>4, Clocks, ScaleUp, Scale
  <2>7. Cardinality(Kept') <= MaxAttempts * most
    BY <2>1, <2>2, <2>5, <2>6
  <2>8. Allowed' = Allowed /\ faults' = faults
    BY NewNumber DEF Started
  <2> QED BY <1>3, <2>1, <2>3, <2>7, <2>8 DEF RoomForOne
<1> QED BY <1>4, <1>5

\* A session that starts is dated no earlier than a tick before.
LEMMA StartedCloses ==
  ASSUME IInv, PaidInv, ClosingInv, NEW p \in Procs, Finished(p), UpsertSession(p),
         req[p].pc \in {"insert", "replace"}, lock = None, lock' = lock, now' = now,
         replaced \subseteq replaced', failed' = failed, history' = history, resets' = resets, faults' = faults,
         Started(p) => AllRecorded' /\ RoomForOne'
  PROVE  ClosingInv'
<1>1. PICK x, t : x = IdleReq /\ t = req[p].at
  OBVIOUS
<1>2. x.pc = "idle" /\ x.then = "idle" /\ req' = [req EXCEPT ![p] = x]
  BY <1>1 DEF Finished, IdleReq
<1>3. req'[p] = x /\ \A q \in Procs \ {p} : req'[q] = req[q]
  BY <1>2, Changed DEF IInv
<1>4. session'.status = "active" /\ session'.id = rows + 1 /\ session'.since = t
  <2>1. PICK n : n = NoSession
    OBVIOUS
  <2>2. n = [status |-> "none", id |-> 0, since |-> 0, right |-> 0, wrong |-> 0]
    BY <2>1 DEF NoSession
  <2>3. session' = [n EXCEPT !.status = "active", !.id = rows + 1, !.since = t]
    BY <1>1, <2>1 DEF UpsertSession
  <2> QED BY <2>2, <2>3
<1>5. Started(p)
  BY <1>2, <1>3, <1>4 DEF Started, UpsertSession
<1>6. /\ t \in Int /\ now \in Int /\ t <= now /\ now <= t + 1
  <2>1. /\ req[p].began <= t /\ t <= now /\ now <= req[p].began + 1
    BY <1>1 DEF PaidInv, InTime
  <2> QED BY <1>1, <2>1, Clocks
<1>7. ASSUME NEW q \in Procs, req'[q].pc # "idle"
      PROVE  req'[q].began <= t + 1
  BY <1>2, <1>3, <1>6, <1>7, Clocks DEF PaidInv, InTime
<1>8. StartInv'
  <2>1. ASSUME NEW q \in Procs, InTransaction(q)'
        PROVE  lock' # q /\ EndsAfter(req[q])'
    <3>1. q # p /\ req'[q] = req[q] /\ InTransaction(q)
      BY <1>2, <1>3, <2>1 DEF InTransaction
    <3>2. req[q].pc # "idle"
      BY <3>1 DEF IInv, ReqsOK, TransactionOK
    <3> QED BY <1>4, <1>7, <3>1, <3>2, QuizAssumption DEF EndsAfter
  <2>2. ASSUME NEW q \in Procs, Counting(req'[q])
        PROVE  EndsAfter(req[q])'
    BY <1>4, <1>7, <2>2 DEF EndsAfter, Counting
  <2>3. \A q \in Procs : Starting(req'[q]) => req'[q].began <= session'.since + 1
    BY <1>4, <1>7 DEF Starting
  <2>4. session'.since <= now'
    BY <1>4, <1>6
  <2> QED BY <1>4, <2>1, <2>2, <2>3, <2>4 DEF StartInv, StillOpen
<1>9. BoundInv'
  <2>1. \A q \in Procs : lock' # q
    BY QuizAssumption
  <2>2. (\E q \in Procs : req'[q].pc = "reset") <=> \E q \in Procs : req[q].pc = "reset"
    BY <1>2, <1>3
  <2>3. Free' = 1
    BY <1>4 DEF Free
  <2>4. (history \cap Kept)' \subseteq history \cap Kept
    <3>1. rows + 1 \notin history
      BY <1>5, NewNumber DEF Recorded
    <3>2. starts' \ replaced' \subseteq (starts \ replaced) \cup {rows + 1}
      BY <1>5 DEF Started
    <3> QED BY <3>1, <3>2 DEF Kept
  <2>5. /\ Cardinality((history \cap Kept)') <= Cardinality(history \cap Kept)
        /\ Cardinality((history \cap Kept)') \in Nat /\ Cardinality(history \cap Kept) \in Nat
    <3>1. IsFiniteSet(history \cap Kept)
      BY StartsFinite DEF Kept
    <3> QED BY <2>4, <3>1, CountGrows
  <2>6. Allowed' = Allowed /\ Allowed \in Nat /\ MaxAttempts \in Nat
    BY <1>5, NewNumber, Clocks
  <2>7. (Cardinality(history \cap Kept) <=
           Allowed + IF \E q \in Procs : req[q].pc = "reset" THEN MaxAttempts ELSE 0)'
    BY <2>2, <2>5, <2>6 DEF ClosingInv, BoundInv
  <2> QED BY <1>5, <2>1, <2>3, <2>7 DEF BoundInv, RoomForOne
<1> QED BY <1>5, <1>8, <1>9 DEF ClosingInv

LEMMA StartCloses ==
  ASSUME IInv, PaidInv, ClosingInv, NEW p \in Procs, StartFirst(p) \/ StartNext(p)
  PROVE  ClosingInv'
<1>1. /\ lock = None /\ lock' = lock /\ Finished(p) /\ req[p].pc \in {"insert", "replace"}
      /\ failed' = failed /\ history' = history /\ resets' = resets /\ now' = now
      /\ faults' = faults
  BY DEF StartFirst, StartNext, Unlocked
<1>2. CASE UNCHANGED <<session, rows, starts>> /\ StartNext(p)
  <2>1. replaced' = replaced /\ ~Counting(req[p]) /\ lock' # p
    BY <1>1, <1>2, QuizAssumption DEF StartNext, Counting
  <2> QED BY <1>1, <1>2, <2>1, IdleCloses, ClosingKeeps
<1>3. CASE StartFirst(p)
  <2>1. UpsertSession(p) /\ replaced \subseteq replaced' /\ req[p].pc = "insert"
    BY <1>3 DEF StartFirst
  <2>2. Started(p) => AllRecorded' /\ RoomForOne'
    BY <1>3, FirstStarts, LateStarts DEF StartFirst
  <2> QED BY <1>1, <2>1, <2>2, StartedCloses
<1>4. CASE StartNext(p) /\ Replaceable(session, req[p].at)
  <2>1. UpsertSession(p) /\ replaced' = replaced /\ req[p].pc = "replace"
    BY <1>4 DEF StartNext
  <2>2. Started(p) => AllRecorded' /\ RoomForOne'
    BY <1>4, <2>1, NextStarts
  <2> QED BY <1>1, <2>1, <2>2, StartedCloses
<1> QED BY <1>2, <1>3, <1>4 DEF StartNext

\* A commit that counts an attempt leaves some, or appends a reset.
LEMMA CommitCloses ==
  ASSUME IInv, PaidInv, ClosingInv, NEW p \in Procs, Commit(p)
  PROVE  ClosingInv'
<1>1. PICK r : r = req[p]
  OBVIOUS
<1>2. /\ r \in Request /\ r.pc = "commit" /\ ~r.doomed
      /\ session' = IF lock = p THEN r.session ELSE session
      /\ failed' = (failed \cup r.added) \ r.moved
      /\ history' = history \cup AttemptIDs(r.moved)
      /\ resets' = IF r.moved = {} THEN resets ELSE resets + 1
      /\ lock' = IF lock = p THEN None ELSE lock
      /\ now' = now /\ starts' = starts /\ replaced' = replaced /\ faults' = faults
  BY <1>1 DEF Commit, IInv, TypeOK, Release, observed
<1>3. /\ r.then = "commit" /\ TransactionOK(p, r) /\ StillTrue(r) /\ PaysFor(p, r)
      /\ IF lock = p THEN MarkedIn(r) /\ LeavesSome(r) ELSE EndsAfter(r)
      /\ r.began <= now /\ now <= r.began + 1
  BY <1>1, <1>2 DEF IInv, ReqsOK, OutsideOK, TransactionOK, InTransaction, PaidInv, InTime,
                    ClosingInv, StartInv, BoundInv
<1>4. req'[p].pc = "idle" /\ req'[p].then = "idle"
  BY <1>1 DEF Commit, IdleReq
<1>5. ASSUME NEW q \in Procs \ {p}
      PROVE  /\ req'[q].pc = req[q].pc /\ req'[q].began = req[q].began
             /\ req'[q].then = req[q].then /\ req'[q].session = req[q].session
             /\ lock' = q <=> lock = q
             /\ InTransaction(q) /\ (r.added # {} \/ r.success) => req'[q].doomed
  <2>1. PICK old : old = req[q]
    OBVIOUS
  <2>2. PICK new : /\ new = req'[q]
                   /\ new = [old EXCEPT !.doomed = @ \/ (InTransaction(q) /\ (r.added # {} \/ r.success))]
    BY <1>1, <2>1 DEF Commit
  <2>3. old \in Request
    BY <2>1 DEF IInv, TypeOK
  <2>4. /\ new.pc = old.pc /\ new.began = old.began /\ new.then = old.then
        /\ new.session = old.session
        /\ InTransaction(q) /\ (r.added # {} \/ r.success) => new.doomed
    BY <2>2, <2>3 DEF Request
  <2> QED BY <1>2, <2>1, <2>2, <2>4, QuizAssumption
<1>6. Recorded' = Recorded \cup AttemptIDs(r.added)
  <2>1. AttemptIDs(failed)' = AttemptIDs((failed \cup r.added) \ r.moved)
    BY <1>2 DEF AttemptIDs
  <2>2. r.moved \subseteq failed \cup r.added
    BY <1>3 DEF StillTrue
  <2> QED BY <1>2, <2>1, <2>2 DEF Recorded, AttemptIDs
<1>61. /\ Kept' = Kept /\ Late' = Late
       /\ (\E q \in Procs : req'[q].pc = "reset") <=> \E q \in Procs : req[q].pc = "reset"
       /\ (\E q \in Procs : Counting(req'[q])) <=> \E q \in Procs : Counting(req[q])
  BY <1>1, <1>2, <1>4, <1>5 DEF Kept, Late, Counting
<1>62. ASSUME NEW q \in Procs, InTransaction(q)' \/ Counting(req'[q])
       PROVE  /\ q # p /\ InTransaction(q)' = InTransaction(q)
              /\ Counting(req'[q]) = Counting(req[q]) /\ req'[q].began = req[q].began
  BY <1>4, <1>5, <1>62 DEF InTransaction, Counting
<1>63. ASSUME NEW q \in Procs, Starting(req'[q]) \/ req'[q].pc \in {"kyc", "new", "replace"}
       PROVE  /\ q # p /\ Starting(req'[q]) = Starting(req[q])
              /\ req'[q].pc = req[q].pc /\ req'[q].began = req[q].began
  BY <1>4, <1>5, <1>63 DEF Starting
<1>7. CASE lock = p /\ session.status = "failed"
           /\ r.session = session /\ r.added = {} /\ ~r.success
  <2>1. r.moved = {} /\ session' = session /\ resets' = resets
    BY <1>2, <1>3, <1>7 DEF TransactionOK
  <2>2. failed' = failed /\ history' = history /\ Recorded' = Recorded
    BY <1>2, <1>6, <1>7, <2>1 DEF AttemptIDs
  <2>3. \A q \in Procs : lock' # q
    BY <1>2, <1>7, QuizAssumption
  <2>4. \A q \in Procs \ {p} : lock # q
    BY <1>7
  <2>5. StartInv'
    <3>1. ASSUME NEW q \in Procs, InTransaction(q)'
          PROVE  EndsAfter(req[q])'
      BY <1>62, <2>1, <2>4, <3>1 DEF EndsAfter, ClosingInv, StartInv
    <3>2. ASSUME NEW q \in Procs, Counting(req'[q])
          PROVE  EndsAfter(req[q])'
      BY <1>62, <2>1, <3>2 DEF EndsAfter, ClosingInv, StartInv
    <3>3. ASSUME NEW q \in Procs, req'[q].pc \in {"kyc", "new", "replace"}
          PROVE  StillOpen(req[q])'
      BY <1>63, <2>1, <3>3 DEF StillOpen, ClosingInv, StartInv
    <3> QED BY <1>2, <1>7, <2>1, <2>3, <3>1, <3>2, <3>3 DEF ClosingInv, StartInv
  <2>6. AllRecorded'
    BY <1>2, <1>61, <2>1, <2>2 DEF ClosingInv, AllRecorded
  <2>7. BoundInv'
    <3>1. Allowed' = Allowed /\ Free' = Free
      BY <1>2, <1>61, <2>1 DEF Allowed, Free
    <3> QED BY <1>2, <1>61, <2>2, <2>3, <3>1 DEF ClosingInv, BoundInv
  <2> QED BY <2>5, <2>6, <2>7 DEF ClosingInv
<1>8. CASE lock = p /\ session.status = "active" /\ r.session.id = session.id
           /\ \/ r.session.status = "success" /\ r.success /\ r.added = {}
              \/ r.session.status = "failed" /\ ~r.success /\ AttemptIDs(r.added) = {session.id}
  <2>1. /\ session' = r.session /\ session'.since = r.began /\ session.since <= r.began
        /\ session'.status \in {"success", "failed"}
    BY <1>2, <1>3, <1>8 DEF MarkedIn
  <2>2. \A q \in Procs : lock' # q
    BY <1>2, <1>8, QuizAssumption
  <2>3. /\ Free = 1 /\ Free' \in {0, 1}
        /\ r.added # {} /\ (\E q \in Procs : Counting(req[q])) => Free' = 0
    <3>1. r.added # {} => session'.status = "failed"
      BY <1>8, <2>1, IDsOf DEF AttemptIDs
    <3> QED BY <1>8, <1>61, <3>1 DEF Free
  <2>4. StartInv'
    <3>1. ASSUME NEW q \in Procs, InTransaction(q)' \/ Counting(req'[q])
          PROVE  EndsAfter(req[q])'
      <4>1. req'[q].began <= r.began /\ r.began \in Int
        BY <1>1, <1>3, <1>8, <1>62, <3>1, Clocks DEF MarkedIn
      <4> QED BY <2>1, <4>1 DEF EndsAfter
    <3>2. ASSUME NEW q \in Procs, req'[q].pc \in {"kyc", "new", "replace"}
          PROVE  StillOpen(req[q])'
      <4>1. q # p /\ req'[q].began <= now
        BY <1>4, <1>5, <3>2 DEF PaidInv, InTime
      <4>2. req'[q].began <= r.began + 1
        BY <1>1, <1>3, <1>5, <4>1, Clocks
      <4> QED BY <2>1, <4>2 DEF StillOpen
    <3>3. session'.since <= now'
      BY <1>2, <1>3, <2>1
    <3> QED BY <2>1, <2>2, <3>1, <3>2, <3>3 DEF StartInv
  <2>5. AllRecorded'
    BY <1>2, <1>6, <1>8, <1>61, <2>1 DEF ClosingInv, AllRecorded
  <2>6. BoundInv'
    <3>1. IsFiniteSet(failed') /\ IsFiniteSet(Kept')
          /\ \A a, b \in failed' : a.id = b.id => a = b
      <4>1. IInv' /\ PaidInv'
        BY CommitKeeps, CommitPaid
      <4> QED BY <1>61, <4>1, StartsFinite DEF IInv, RecordsOK, PaidInv, Kept
    <3>2. PICK h, n, a \in Nat : /\ h = Cardinality(history \cap Kept)
                                 /\ n = Cardinality(Recorded \cap Kept) /\ a = Allowed
      BY StartsFinite, Clocks, AllowedGrows DEF Kept
    <3>3. PICK hh, nn, f \in Nat : /\ hh = Cardinality((history \cap Kept)')
                                   /\ nn = Cardinality((Recorded \cap Kept)')
                                   /\ f = Cardinality(failed') /\ hh <= nn /\ nn <= hh + f
      <4>1. PICK A, B, S : A = history' /\ B = failed' /\ S = Kept'
        OBVIOUS
      <4>2. (Recorded \cap Kept)' = (AttemptIDs(B) \cup A) \cap S
        BY <4>1 DEF Recorded, AttemptIDs
      <4>3. /\ Cardinality((AttemptIDs(B) \cup A) \cap S) \in Nat
            /\ Cardinality(A \cap S) \in Nat /\ Cardinality(B) \in Nat
            /\ Cardinality(A \cap S) <= Cardinality((AttemptIDs(B) \cup A) \cap S)
            /\ Cardinality((AttemptIDs(B) \cup A) \cap S) <= Cardinality(A \cap S) + Cardinality(B)
        BY <3>1, <4>1, TwoParts
      <4> QED BY <4>1, <4>2, <4>3
    <3>4. nn <= n + 1
      <4>1. (Recorded \cap Kept)' \subseteq (Recorded \cap Kept) \cup {session.id}
        BY <1>6, <1>8, <1>61, IDsOf
      <4>2. IsFiniteSet(Recorded \cap Kept)
        BY StartsFinite DEF Kept
      <4> QED BY <3>2, <3>3, <4>1, <4>2, CountGrows
    <3>5. /\ MaxAttempts \in Nat /\ MaxAttempts > 0 /\ resets \in Nat /\ faults \in Nat
      BY Clocks
    <3>6. PICK m \in {0, MaxAttempts} :
            /\ m = IF \E q \in Procs : req[q].pc = "reset" THEN MaxAttempts ELSE 0
            /\ m = IF \E q \in Procs : req'[q].pc = "reset" THEN MaxAttempts ELSE 0
      BY <1>61
    <3>7. h <= a + m /\ n + 1 <= a + MaxAttempts
      BY <2>3, <3>2, <3>6 DEF ClosingInv, BoundInv
    <3>8. hh <= Allowed' + m /\ nn + Free' <= Allowed' + MaxAttempts /\ Allowed' \in Nat
      <4>1. CASE r.moved # {}
        <5>1. resets' + faults' = resets + faults + 1
          BY <1>2, <3>5, <4>1
        <5>2. Allowed' = a + MaxAttempts
          BY <3>2, <5>1, AllowedGrows
        <5> QED BY <2>3, <3>3, <3>4, <3>5, <3>6, <3>7, <5>2
      <4>2. CASE r.moved = {}
        <5>1. Allowed' = a /\ hh = h
          <6>1. history' = history /\ resets' = resets
            BY <1>2, <4>2 DEF AttemptIDs
          <6> QED BY <1>2, <1>61, <3>2, <3>3, <6>1 DEF Allowed
        <5>2. CASE r.added = {}
          <6>1. Recorded' = Recorded
            BY <1>6, <5>2 DEF AttemptIDs
          <6> QED BY <1>61, <2>3, <3>2, <3>3, <3>5, <3>6, <3>7, <5>1, <6>1
        <5>3. CASE r.added # {} /\ Free' = 0
          BY <3>2, <3>3, <3>4, <3>5, <3>6, <3>7, <5>1, <5>3
        <5>4. CASE r.added # {} /\ Free' # 0
          <6>0. \A q \in Procs : ~Counting(req[q])
            BY <2>3, <5>4
          <6>1. ~Exhausted(failed \cup r.added) /\ failed' = failed \cup r.added
            BY <1>2, <1>3, <1>8, <4>2, <5>4 DEF LeavesSome
          <6>2. f < MaxAttempts
            BY <3>3, <3>5, <6>1 DEF Exhausted
          <6>3. m = 0
            BY <3>6, <6>0 DEF Counting
          <6> QED BY <2>3, <3>3, <3>5, <3>7, <5>1, <6>2, <6>3
        <5> QED BY <5>2, <5>3, <5>4
      <4> QED BY <4>1, <4>2
    <3>9. (Cardinality(Kept) <= MaxAttempts * (MaxResets + 1 + faults))'
      BY <1>2, <1>61 DEF ClosingInv, BoundInv
    <3> QED BY <2>2, <3>3, <3>6, <3>8, <3>9 DEF BoundInv
  <2> QED BY <2>4, <2>5, <2>6 DEF ClosingInv
<1>9. CASE lock # p
  <2>1. /\ session' = session /\ lock' = lock /\ AttemptIDs(r.added) \cap starts = {}
        /\ r.added # {} /\ (session.status = "failed" => r.began <= session.since)
    <3>1. session.status = "failed" => r.began <= session.since
      BY <1>1, <1>3, <1>9, Clocks DEF EndsAfter
    <3> QED BY <1>2, <1>3, <1>9, <3>1, IDsOf DEF TransactionOK, HoldsSkip, PaysFor
  <2>2. StartInv'
    <3>1. ASSUME NEW q \in Procs, InTransaction(q)'
          PROVE  IF lock = q THEN MarkedIn(req[q])' ELSE EndsAfter(req[q])'
      <4>1. q # p /\ InTransaction(q) /\ req'[q].began = req[q].began
            /\ req'[q].session = req[q].session
        BY <1>5, <1>62, <3>1
      <4>2. IF lock = q THEN MarkedIn(req[q]) ELSE EndsAfter(req[q])
        BY <4>1 DEF ClosingInv, StartInv
      <4>3. CASE lock = q
        BY <1>62, <2>1, <4>1, <4>2, <4>3 DEF MarkedIn
      <4>4. CASE lock # q
        BY <2>1, <4>1, <4>2, <4>4 DEF EndsAfter
      <4> QED BY <4>3, <4>4
    <3>2. ASSUME NEW q \in Procs, req'[q].pc \in {"kyc", "new", "replace"}
          PROVE  StillOpen(req[q])'
      <4>1. q # p /\ req[q].began <= now /\ req'[q].began = req[q].began
        BY <1>4, <1>5, <3>2 DEF PaidInv, InTime
      <4>2. session.status \in {"none", "active", "failed", "success"}
        BY DEF IInv, TypeOK, Session
      <4>3. session.status = "failed" => req[q].began <= session.since + 1
        BY <1>1, <1>3, <2>1, <4>1, Clocks
      <4> QED BY <2>1, <4>1, <4>2, <4>3 DEF StillOpen
    <3>3. ASSUME NEW q \in Procs, Starting(req'[q]), session'.status = "active"
          PROVE  req'[q].began <= session'.since + 1
      BY <1>63, <2>1, <3>3 DEF ClosingInv, StartInv
    <3>4. ASSUME NEW q \in Procs, Counting(req'[q])
          PROVE  EndsAfter(req[q])'
      BY <1>62, <2>1, <3>4 DEF EndsAfter, ClosingInv, StartInv
    <3> QED BY <1>2, <2>1, <3>1, <3>2, <3>3, <3>4 DEF ClosingInv, StartInv
  <2>3. AllRecorded'
    BY <1>2, <1>6, <1>61, <2>1 DEF ClosingInv, AllRecorded
  <2>4. BoundInv'
    <3>1. ASSUME NEW q \in Procs, InTransaction(q)', lock' = q
          PROVE  LeavesSome(req[q])'
      <4>1. q # p /\ InTransaction(q)
        BY <1>4, <1>5, <3>1 DEF InTransaction
      <4> QED BY <1>5, <2>1, <4>1 DEF LeavesSome
    <3>2. (Recorded \cap Kept)' = Recorded \cap Kept
      BY <1>6, <1>61, <2>1 DEF Kept
    <3>3. Free' = Free /\ Free \in {0, 1}
      BY <1>61, <2>1 DEF Free
    <3>4. PICK h, n, a \in Nat : /\ h = Cardinality(history \cap Kept)
                                 /\ n = Cardinality(Recorded \cap Kept) /\ a = Allowed
      BY StartsFinite, Clocks, AllowedGrows DEF Kept
    <3>5. PICK hh \in Nat : hh = Cardinality((history \cap Kept)') /\ hh <= n
      <4>1. (history \cap Kept)' \subseteq Recorded \cap Kept
        BY <3>2 DEF Recorded
      <4>2. IsFiniteSet(Recorded \cap Kept)
        BY StartsFinite DEF Kept
      <4> QED BY <3>4, <4>1, <4>2, CountGrows
    <3>6. PICK m \in Nat : m = MaxAttempts /\ m > 0
      BY Clocks
    <3>7. PICK b \in Nat : b = Allowed' /\ b = IF r.moved = {} THEN a ELSE a + m
      <4>1. resets' + faults' = resets + faults + (IF r.moved = {} THEN 0 ELSE 1)
        BY <1>2, Clocks
      <4> QED BY <3>4, <3>6, <4>1, Clocks, AllowedGrows
    <3>8. /\ h <= a + IF \E q \in Procs : req[q].pc = "reset" THEN m ELSE 0
          /\ n + Free <= a + m
      BY <3>4, <3>6 DEF ClosingInv, BoundInv
    <3>9. hh <= b + IF \E q \in Procs : req'[q].pc = "reset" THEN m ELSE 0
      <4>1. CASE r.moved = {}
        <5>1. hh = h
          BY <1>2, <1>61, <3>4, <3>5, <4>1, IDsOf
        <5> QED BY <1>61, <3>7, <3>8, <4>1, <5>1
      <4>2. CASE r.moved # {}
        BY <3>3, <3>5, <3>6, <3>7, <3>8, <4>2
      <4> QED BY <4>1, <4>2
    <3>10. n + Free' <= b + m
      BY <3>3, <3>6, <3>7, <3>8
    <3>11. (Cardinality(Kept) <= MaxAttempts * (MaxResets + 1 + faults))'
      BY <1>2, <1>61 DEF ClosingInv, BoundInv
    <3> QED BY <3>1, <3>2, <3>4, <3>5, <3>6, <3>7, <3>9, <3>10, <3>11 DEF BoundInv
  <2> QED BY <2>2, <2>3, <2>4 DEF ClosingInv
<1> QED BY <1>3, <1>7, <1>8, <1>9 DEF TransactionOK, HoldsSession

LEMMA ClosingAtFirst == Init => ClosingInv
<1> SUFFICES ASSUME Init PROVE ClosingInv
  OBVIOUS
<1>1. \A p \in Procs : req[p].pc = "idle" /\ req[p].then = "idle"
  BY DEF Init, IdleReq
<1>2. session.since = 0 /\ session.status = "none" /\ now = 1 /\ starts = {} /\ faults = 0
      /\ resets = 0 /\ lock = None
  BY DEF Init, NoSession
<1>3. StartInv /\ AllRecorded
  BY <1>1, <1>2 DEF StartInv, AllRecorded, Starting, Counting, InTransaction
<1>4. Free = 1 /\ \A p \in Procs : req[p].pc # "reset"
  BY <1>1, <1>2 DEF Free
<1>5. /\ Kept = {} /\ history \cap Kept = {} /\ Recorded \cap Kept = {} /\ Cardinality({}) = 0
  BY <1>2, FS_EmptySet DEF Kept
<1>6. PICK m \in Nat : m = MaxAttempts /\ m > 0
  BY QuizAssumption
<1>7. Allowed = 0
  <2>1. MaxAttempts * 0 = 0 /\ resets + faults = 0
    BY <1>2, <1>6
  <2> QED BY <2>1 DEF Allowed
<1>8. Cardinality(Kept) <= MaxAttempts * (MaxResets + 1 + faults)
  <2>1. MaxResets + 1 + faults \in Nat
    BY <1>2, QuizAssumption
  <2>2. MaxAttempts * (MaxResets + 1 + faults) \in Nat
    BY <1>6, <2>1, Scale
  <2> QED BY <1>5, <2>2
<1>9. BoundInv
  <2>1. \A p \in Procs : ~InTransaction(p)
    BY <1>1 DEF InTransaction
  <2> QED BY <1>4, <1>5, <1>6, <1>7, <1>8, <2>1 DEF BoundInv
<1> QED BY <1>3, <1>9 DEF ClosingInv

LEMMA StepCloses == IInv /\ PaidInv /\ ClosingInv /\ [Next]_vars => ClosingInv'
<1> SUFFICES ASSUME IInv, PaidInv, ClosingInv, [Next]_vars PROVE ClosingInv'
  OBVIOUS
<1>1. CASE PassSocial1 \/ Tick \/ UNCHANGED vars
  BY <1>1, TimeCloses
<1>2. ASSUME NEW p \in Procs, StartOrContinueKYCStep4Session(p)
      PROVE  ClosingInv'
  BY <1>2, FinishUnfinishedCloses, ContinueCloses DEF StartOrContinueKYCStep4Session
<1>3. ASSUME NEW p \in Procs, \/ CountFailed(p) \/ MoveFailed(p) \/ AppendReset(p)
      PROVE  ClosingInv'
  BY <1>3, CountFailedCloses, MoveFailedCloses, AppendResetCloses
<1>4. ASSUME NEW p \in Procs, \/ StartNewSession(p) \/ StartFirst(p) \/ StartNext(p)
             \/ SkipQuizSession(p) \/ Commit(p)
      PROVE  ClosingInv'
  BY <1>4, StartNewCloses, StartCloses, SkipCloses, CommitCloses
<1>5. ASSUME NEW p \in Procs,
             \/ IsQuizEnabledForUser(p) \/ CheckUserKYC(p) \/ BeginSkip(p)
             \/ ReadUser(p) \/ UpdateUser(p) \/ Notify(p) \/ Abort(p)
      PROVE  ClosingInv'
  BY <1>5, GotoCloses
<1> QED BY <1>1, <1>2, <1>3, <1>4, <1>5 DEF Next

\* kyc/quiz: the quiz closes; no more sessions are started than the attempts of
\* the allowed resets, MaxAttempts more for each fault, and one more for each
\* other request that may make a first start.
THEOREM StartsBoundedHolds == Spec => []StartsBounded
<1>1. IInv /\ ClosingInv => StartsBounded
  <2> SUFFICES ASSUME IInv, ClosingInv PROVE StartsBounded
    OBVIOUS
  <2>1. /\ IsFiniteSet(Kept) /\ IsFiniteSet(replaced) /\ starts = Kept \cup replaced
        /\ Kept \cap replaced = {}
    BY StartsFinite DEF Kept, IInv, TypeOK
  <2>2. /\ Cardinality(starts) = Cardinality(Kept) + Cardinality(replaced)
        /\ Cardinality(Kept) \in Nat /\ Cardinality(replaced) \in Nat
    <3>1. /\ Cardinality(starts) =
                Cardinality(Kept) + Cardinality(replaced) - Cardinality(Kept \cap replaced)
          /\ Cardinality(Kept \cap replaced) = 0
      BY <2>1, FS_Union, FS_EmptySet
    <3> QED BY <2>1, <3>1, FS_CardinalityType
  <2>3. PICK most \in Nat : most = MaxAttempts * (MaxResets + 1 + faults) /\ most > 0
    <3>1. PICK n \in Nat : n = MaxResets + 1 + faults /\ 1 <= n
      BY Clocks
    <3>2. MaxAttempts * 1 <= MaxAttempts * n /\ MaxAttempts * 1 = MaxAttempts /\ MaxAttempts * n \in Nat
      BY <3>1, Clocks, ScaleUp, Scale
    <3> QED BY <3>1, <3>2, Clocks
  <2>4. Cardinality(Kept) <= most
    BY <2>3 DEF ClosingInv, BoundInv
  <2>5. CASE session.status = "none"
    <3>1. Cardinality(starts) = 0
      BY <2>5, FS_EmptySet DEF ClosingInv, AllRecorded
    <3> QED BY <2>3, <3>1, Clocks DEF StartsBounded
  <2>6. CASE session.status # "none"
    <3>1. Cardinality(replaced) + Cardinality(Late) <= Cardinality(Procs) - 1
      BY <2>6 DEF ClosingInv, AllRecorded
    <3>2. Cardinality(Late) \in Nat
      <4>1. Late \subseteq Procs
        BY DEF Late
      <4> QED BY <4>1, QuizAssumption, FS_Subset, FS_CardinalityType
    <3> QED BY <2>2, <2>3, <2>4, <3>1, <3>2, Clocks DEF StartsBounded
  <2> QED BY <2>5, <2>6
<1> QED BY <1>1, Always, PaidAtFirst, StepPays, ClosingAtFirst, StepCloses, PTL DEF Spec
=============================================================================
