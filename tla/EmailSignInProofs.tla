-------------------------- MODULE EmailSignInProofs -------------------------
(***************************************************************************)
(* Theorems about EmailSignIn, for any devices, requests, codes and bounds.*)
(***************************************************************************)
EXTENDS EmailSignIn, FiniteSetTheorems, TLAPS

\* The steps of one request, as Next lists them.
Step(p) ==
  \/ \E d \in Devices : ValidateEmailSignIn(p, d)
  \/ UpsertEmailLinkSignIn(p)
  \/ \E d \in Devices, code \in Codes : ResolveUser(p, d, code)
  \/ ReadSignIn(p)
  \/ IncreaseWrongAttempts(p)
  \/ FinishAuthProcess(p)
  \/ ResetLoginSession(p)
  \/ \E t \in tokens : RefreshToken(p, t)
  \/ Reply(p)
  \/ Crash(p)

\* A request as TypeOK wants it, and a request variable after one request moved.
GoodReq(q) ==
  /\ q \in Req
  /\ q.pc # "idle" => q.dev \in Devices
  /\ q.pc \notin {"idle", "upsert"} => q.uid \in UserIDs

ReqTypeOK == req \in [Procs -> Req] /\ \A p \in Procs : GoodReq(req[p])

LEMMA ReqUpdate ==
  ASSUME ReqTypeOK, NEW p \in Procs, NEW q, GoodReq(q),
         req' = [req EXCEPT ![p] = q]
  PROVE  ReqTypeOK'
<1>1. q \in Req
  BY DEF GoodReq
<1>2. req' \in [Procs -> Req]
  BY <1>1 DEF ReqTypeOK
<1>3. \A o \in Procs : req'[o] = IF o = p THEN q ELSE req[o]
  BY DEF ReqTypeOK
<1>4. \A o \in Procs : GoodReq(req'[o])
  BY <1>3 DEF ReqTypeOK
<1>5. \A o \in Procs : GoodReq(req[o])'
  BY <1>4 DEF GoodReq
<1> QED
  BY <1>2, <1>5 DEF ReqTypeOK

LEMMA IdleGood == GoodReq(IdleReq)
BY LimitsAssumption DEF GoodReq, IdleReq, Req, PCs

LEMMA TypeOKSplit ==
  TypeOK <=> /\ ReqTypeOK
             /\ now \in 1..(MaxTime + 1)
             /\ account \in UserIDs \cup {None}
             /\ row \in [Devices -> Row]
             /\ replica \in [Devices -> Row]
             /\ session \in [Devices -> Nat]
             /\ tokens \subseteq Token
             /\ exchanged \in [Devices -> Nat]
             /\ guesses \in [Devices -> Nat]
             /\ lapses \in [Devices -> Nat]
             /\ late \in [Devices -> Nat]
BY DEF TypeOK, ReqTypeOK, GoodReq
-----------------------------------------------------------------------------
(* What the statements make of a row.                                      *)

\* A token number of a row: accepted ones are at least prev, and prev follows
\* the last exchange, whichever branch of the CASE in the UPDATE was taken.
LEMMA RefreshBounds ==
  ASSUME NEW r \in Row, NEW uid \in UserIDs, NEW seq \in Nat
  PROVE  /\ Refreshed(r, uid, seq) \in Row
         /\ Refreshed(r, uid, seq).issued = r.issued + 1
         /\ Refreshed(r, uid, seq).prev = seq
         /\ CanRefresh(r, uid, seq) /\ r.prev <= r.issued => r.prev <= seq
<1> DEFINE new == [r EXCEPT !.user = uid, !.issued = r.issued + 1, !.prev = seq]
<1>1. r.issued + 1 \in Nat /\ r.prev \in Nat
  BY DEF Row
<1>2. Refreshed(r, uid, seq) = new
  BY DEF Refreshed
<1>3. new \in Row /\ new.issued = r.issued + 1 /\ new.prev = seq
  BY <1>1 DEF Row
<1>4. CanRefresh(r, uid, seq) /\ r.prev <= r.issued => r.prev <= seq
  BY <1>1 DEF CanRefresh, Row
<1> QED
  BY <1>2, <1>3, <1>4

\* finishAuthProcess: the new number is both the newest and the oldest one.
LEMMA SessionStartedBounds ==
  ASSUME NEW r \in Row, NEW uid \in UserIDs
  PROVE  LET new == [SessionStarted(r) EXCEPT !.user = uid]
         IN  new \in Row /\ new.issued = r.issued + 1 /\ new.prev = r.issued + 1
<1>1. r.issued + 1 \in Nat
  BY DEF Row
<1>2. /\ SessionStarted(r) \in Row
      /\ SessionStarted(r).issued = r.issued + 1
      /\ SessionStarted(r).prev = r.issued + 1
  BY <1>1 DEF SessionStarted, Row
<1> QED
  BY <1>2 DEF Row

\* upsertEmailLinkSignIn replaces the code and keeps the token numbers.
LEMMA NewCodeBounds ==
  ASSUME NEW r \in Row, NEW code \in Codes, r.gen < MaxGen, now \in Nat
  PROVE  /\ WithNewCode(r, code) \in Row
         /\ WithNewCode(r, code).issued = r.issued
         /\ WithNewCode(r, code).prev = r.prev
<1>1. MaxGen \in Nat /\ r.gen \in 0..MaxGen
  BY LimitsAssumption DEF Row
<1>2. r.gen + 1 \in 0..MaxGen
  BY <1>1
<1> QED
  BY <1>2 DEF WithNewCode, Row
-----------------------------------------------------------------------------
(* Type correctness.                                                       *)

LEMMA ValidateType ==
  ASSUME TypeOK, NEW p \in Procs, NEW d \in Devices, ValidateEmailSignIn(p, d)
  PROVE  TypeOK'
<1> DEFINE q == [req[p] EXCEPT !.pc = "upsert", !.dev = d]
<1>1. ReqTypeOK /\ req[p] \in Req
  BY TypeOKSplit DEF ReqTypeOK
<1>2. GoodReq(q)
  BY <1>1 DEF GoodReq, Req, PCs
<1>3. req' = [req EXCEPT ![p] = q]
  BY DEF ValidateEmailSignIn
<1>4. ReqTypeOK'
  BY <1>1, <1>2, <1>3, ReqUpdate
<1> QED
  BY <1>4 DEF TypeOK, ValidateEmailSignIn, Ghosts, ReqTypeOK, GoodReq

LEMMA UpsertType ==
  ASSUME TypeOK, NEW p \in Procs, UpsertEmailLinkSignIn(p)
  PROVE  TypeOK'
<1> DEFINE d == req[p].dev
<1>1. ReqTypeOK /\ d \in Devices
  BY TypeOKSplit DEF ReqTypeOK, GoodReq, UpsertEmailLinkSignIn
<1>2. ReqTypeOK'
  BY <1>1, IdleGood, ReqUpdate DEF UpsertEmailLinkSignIn, Finished
<1>3. now \in Nat /\ row[d] \in Row /\ row[d].gen < MaxGen
  BY <1>1, LimitsAssumption DEF TypeOK, UpsertEmailLinkSignIn
<1>4. row' \in [Devices -> Row]
  <2>1. PICK code \in Codes :
          row' \in {row, [row EXCEPT ![d] = WithNewCode(row[d], code)]}
    BY DEF UpsertEmailLinkSignIn, Drawable
  <2>2. WithNewCode(row[d], code) \in Row
    BY <1>3, NewCodeBounds
  <2> QED
    BY <2>1, <2>2 DEF TypeOK
<1>5. session' \in [Devices -> Nat]
  BY <1>3, LimitsAssumption DEF TypeOK, UpsertEmailLinkSignIn
<1>6. /\ guesses' \in [Devices -> Nat]
      /\ lapses' \in [Devices -> Nat]
      /\ late' \in [Devices -> Nat]
  BY DEF TypeOK, UpsertEmailLinkSignIn
<1> QED
  BY <1>2, <1>4, <1>5, <1>6 DEF TypeOK, UpsertEmailLinkSignIn, ReqTypeOK, GoodReq

LEMMA ResolveType ==
  ASSUME TypeOK, NEW p \in Procs, NEW d \in Devices, NEW code \in Codes,
         ResolveUser(p, d, code)
  PROVE  TypeOK'
<1>1. ReqTypeOK /\ req[p] \in Req
  BY TypeOKSplit DEF ReqTypeOK
<1>2. ResolvableIDs \subseteq UserIDs
  BY DEF ResolvableIDs, FreshIDs, Readable, TypeOK, Row
<1>3. PICK uid \in UserIDs :
        req' = [req EXCEPT ![p] = [req[p] EXCEPT !.pc = "read", !.dev = d,
                                                 !.code = code, !.uid = uid]]
  BY <1>2 DEF ResolveUser
<1> DEFINE q == [req[p] EXCEPT !.pc = "read", !.dev = d, !.code = code, !.uid = uid]
<1>4. GoodReq(q)
  BY <1>1 DEF GoodReq, Req, PCs
<1>5. ReqTypeOK'
  BY <1>1, <1>3, <1>4, ReqUpdate
<1> QED
  BY <1>5 DEF TypeOK, ResolveUser, Ghosts, ReqTypeOK, GoodReq

LEMMA ReadType ==
  ASSUME TypeOK, NEW p \in Procs, ReadSignIn(p)
  PROVE  TypeOK'
<1>1. ReqTypeOK /\ GoodReq(req[p]) /\ req[p] \in Req /\ req[p].dev \in Devices
  BY TypeOKSplit DEF ReqTypeOK, GoodReq, ReadSignIn
<1>2. PICK r \in Row, block \in BOOLEAN :
        \/ req' = [req EXCEPT ![p] = IdleReq]
        \/ req' = [req EXCEPT ![p] = [req[p] EXCEPT !.pc = "wrong", !.gen = r.gen,
                                                    !.block = block]]
        \/ req' = [req EXCEPT ![p] = [req[p] EXCEPT !.pc = "finish", !.gen = r.gen,
                                                    !.seq = r.issued]]
  <2>1. PICK r \in Readable(req[p].dev) :
        \/ Finished(p)
        \/ req' = [req EXCEPT ![p].pc = "wrong", ![p].gen = r.gen,
                              ![p].block = r.wrong + 1 >= MaxWrong]
        \/ req' = [req EXCEPT ![p].pc = "finish", ![p].gen = r.gen,
                              ![p].seq = r.issued]
    BY DEF ReadSignIn
  <2>2. r \in Row
    BY <1>1 DEF Readable, TypeOK
  <2> DEFINE b == r.wrong + 1 >= MaxWrong
  <2>3. b \in BOOLEAN
    OBVIOUS
  <2>4. \/ req' = [req EXCEPT ![p] = IdleReq]
        \/ req' = [req EXCEPT ![p] = [req[p] EXCEPT !.pc = "wrong", !.gen = r.gen,
                                                    !.block = b]]
        \/ req' = [req EXCEPT ![p] = [req[p] EXCEPT !.pc = "finish", !.gen = r.gen,
                                                    !.seq = r.issued]]
    BY <2>1 DEF Finished
  <2> HIDE DEF b
  <2> QED
    BY <2>2, <2>3, <2>4
<1>3. /\ GoodReq([req[p] EXCEPT !.pc = "wrong", !.gen = r.gen, !.block = block])
      /\ GoodReq([req[p] EXCEPT !.pc = "finish", !.gen = r.gen, !.seq = r.issued])
  <2>1. req[p].uid \in UserIDs
    BY <1>1 DEF GoodReq, ReadSignIn
  <2> QED
    BY <1>1, <2>1 DEF GoodReq, Req, PCs, Row
<1>4. ReqTypeOK'
  BY <1>1, <1>2, <1>3, IdleGood, ReqUpdate
<1>5. guesses' \in [Devices -> Nat]
  BY DEF TypeOK, ReadSignIn
<1> QED
  BY <1>4, <1>5 DEF TypeOK, ReadSignIn, ReqTypeOK, GoodReq

LEMMA WrongType ==
  ASSUME TypeOK, NEW p \in Procs, IncreaseWrongAttempts(p)
  PROVE  TypeOK'
<1> DEFINE d == req[p].dev
           r == row[d]
<1>1. ReqTypeOK /\ d \in Devices /\ r \in Row /\ now \in Nat
  BY TypeOKSplit DEF ReqTypeOK, GoodReq, IncreaseWrongAttempts
<1>2. ReqTypeOK'
  BY <1>1, IdleGood, ReqUpdate DEF IncreaseWrongAttempts, Finished
<1>3. \A b \in Nat : [r EXCEPT !.wrong = @ + 1, !.blocked = b] \in Row
  <2> r.wrong + 1 \in Nat
    BY <1>1 DEF Row
  <2> QED
    BY <1>1 DEF Row
<1>4. row' \in [Devices -> Row]
  <2> DEFINE b == IF req[p].block THEN now + BlockDuration ELSE r.blocked
  <2>1. b \in Nat
    BY <1>1, LimitsAssumption DEF Row
  <2> DEFINE new == [r EXCEPT !.wrong = r.wrong + 1, !.blocked = b]
  <2>2. new \in Row
    BY <1>3, <2>1
  <2>3. row' = [row EXCEPT ![d] = new]
    BY <1>1 DEF IncreaseWrongAttempts, TypeOK
  <2> HIDE DEF new
  <2> QED
    BY <1>1, <2>2, <2>3 DEF TypeOK
<1> QED
  BY <1>2, <1>4 DEF TypeOK, IncreaseWrongAttempts, Ghosts, ReqTypeOK, GoodReq

LEMMA FinishType ==
  ASSUME TypeOK, NEW p \in Procs, FinishAuthProcess(p)
  PROVE  TypeOK'
<1> DEFINE d == req[p].dev
           new == [SessionStarted(row[d]) EXCEPT !.user = req[p].uid]
           q == [req[p] EXCEPT !.pc = "reset", !.seq = row[d].issued + 1]
<1>1. ReqTypeOK /\ req[p] \in Req /\ d \in Devices /\ row[d] \in Row
      /\ req[p].uid \in UserIDs
  BY TypeOKSplit DEF ReqTypeOK, GoodReq, FinishAuthProcess
<1>2. CASE ~ CanFinish(row[d], req[p])
  <2>1. ReqTypeOK'
    BY <1>1, <1>2, IdleGood, ReqUpdate DEF FinishAuthProcess, Finished
  <2> QED
    BY <1>2, <2>1 DEF TypeOK, FinishAuthProcess, ReqTypeOK, GoodReq
<1>3. CASE CanFinish(row[d], req[p])
  <2>1. row[d].issued + 1 \in Nat
    BY <1>1 DEF Row
  <2>2. GoodReq(q)
    BY <1>1, <2>1 DEF GoodReq, Req, PCs
  <2>3. req' = [req EXCEPT ![p] = q]
    BY <1>3 DEF FinishAuthProcess
  <2>4. ReqTypeOK'
    BY <1>1, <2>2, <2>3, ReqUpdate
  <2>5. new \in Row
    BY <1>1, SessionStartedBounds
  <2>6. row' \in [Devices -> Row]
    BY <1>1, <1>3, <2>5 DEF TypeOK, FinishAuthProcess
  <2>7. exchanged' \in [Devices -> Nat] /\ late' \in [Devices -> Nat]
    BY <1>3, <2>1 DEF TypeOK, FinishAuthProcess
  <2> QED
    BY <1>3, <2>4, <2>6, <2>7 DEF TypeOK, FinishAuthProcess, ReqTypeOK, GoodReq
<1> QED
  BY <1>2, <1>3

LEMMA ResetType ==
  ASSUME TypeOK, NEW p \in Procs, ResetLoginSession(p)
  PROVE  TypeOK'
<1> DEFINE d == req[p].dev
           q == [req[p] EXCEPT !.pc = "reply"]
<1>1. ReqTypeOK /\ req[p] \in Req /\ d \in Devices /\ row[d] \in Row
      /\ req[p].uid \in UserIDs
  BY TypeOKSplit DEF ReqTypeOK, GoodReq, ResetLoginSession
<1>2. GoodReq(q)
  BY <1>1 DEF GoodReq, Req, PCs
<1>3. ReqTypeOK'
  BY <1>1, <1>2, ReqUpdate DEF ResetLoginSession, Goto
<1>4. [row[d] EXCEPT !.code = req[p].uid] \in Row
  BY <1>1 DEF Row
<1>5. row' \in [Devices -> Row]
  BY <1>4 DEF TypeOK, ResetLoginSession
<1> QED
  BY <1>3, <1>5 DEF TypeOK, ResetLoginSession, Ghosts, ReqTypeOK, GoodReq

LEMMA RefreshType ==
  ASSUME TypeOK, NEW p \in Procs, NEW t \in tokens, RefreshToken(p, t)
  PROVE  TypeOK'
<1> DEFINE d == t.dev
           q == [req[p] EXCEPT !.pc = "reply", !.dev = d, !.uid = t.uid,
                               !.seq = row[d].issued + 1]
<1>1. ReqTypeOK /\ req[p] \in Req
  BY TypeOKSplit DEF ReqTypeOK
<1>2. d \in Devices /\ t.uid \in UserIDs /\ t.seq \in Nat /\ row[d] \in Row
  BY DEF TypeOK, Token
<1>3. row[d].issued + 1 \in Nat
  BY <1>2 DEF Row
<1>4. GoodReq(q)
  BY <1>1, <1>2, <1>3 DEF GoodReq, Req, PCs
<1>5. ReqTypeOK'
  BY <1>1, <1>4, ReqUpdate DEF RefreshToken
<1>6. row' \in [Devices -> Row]
  BY <1>2, RefreshBounds DEF TypeOK, RefreshToken
<1>7. exchanged' \in [Devices -> Nat]
  BY <1>2 DEF TypeOK, RefreshToken
<1> QED
  BY <1>5, <1>6, <1>7 DEF TypeOK, RefreshToken, ReqTypeOK, GoodReq

LEMMA ReplyType ==
  ASSUME TypeOK, NEW p \in Procs, Reply(p)
  PROVE  TypeOK'
<1>1. ReqTypeOK /\ GoodReq(req[p]) /\ req[p] \in Req
  BY TypeOKSplit DEF ReqTypeOK
<1>2. ReqTypeOK'
  BY <1>1, IdleGood, ReqUpdate DEF Reply, Finished
<1>3. tokens' \subseteq Token
  BY <1>1 DEF TypeOK, Reply, GoodReq, Token, Req
<1> QED
  BY <1>2, <1>3 DEF TypeOK, Reply, Ghosts, ReqTypeOK, GoodReq

LEMMA CrashType ==
  ASSUME TypeOK, NEW p \in Procs, Crash(p)
  PROVE  TypeOK'
<1>1. ReqTypeOK /\ req[p].dev \in Devices
  BY TypeOKSplit DEF ReqTypeOK, GoodReq, Crash, Idle
<1>2. ReqTypeOK'
  BY <1>1, IdleGood, ReqUpdate DEF Crash, Finished
<1>3. lapses' \in [Devices -> Nat]
  <2> DEFINE d == req[p].dev
             n == IF req[p].pc = "wrong" /\ req[p].gen = row[d].gen
                  THEN lapses[d] + 1 ELSE lapses[d]
  <2>1. n \in Nat
    BY <1>1 DEF TypeOK
  <2>2. lapses' = [lapses EXCEPT ![d] = n]
    BY DEF Crash
  <2> HIDE DEF n
  <2> QED
    BY <1>1, <2>1, <2>2 DEF TypeOK
<1> QED
  BY <1>2, <1>3 DEF TypeOK, Crash, ReqTypeOK, GoodReq

LEMMA TypeStep == TypeOK /\ [Next]_vars => TypeOK'
<1> SUFFICES ASSUME TypeOK, [Next]_vars PROVE TypeOK' OBVIOUS
<1>1. CASE UNCHANGED vars
  BY <1>1 DEF vars, TypeOK
<1>2. ASSUME NEW t \in tokens, CreateUser(t) PROVE TypeOK'
  BY <1>2 DEF TypeOK, CreateUser, Token, Ghosts
<1>3. ASSUME NEW d \in Devices, Replicate(d) PROVE TypeOK'
  BY <1>3 DEF TypeOK, Replicate, Ghosts
<1>4. CASE Tick
  BY <1>4, LimitsAssumption DEF TypeOK, Tick, Ghosts
<1>5. ASSUME NEW p \in Procs, Step(p) PROVE TypeOK'
  BY <1>5, ValidateType, UpsertType, ResolveType, ReadType, WrongType,
     FinishType, ResetType, RefreshType, ReplyType, CrashType DEF Step
<1> QED
  BY <1>1, <1>2, <1>3, <1>4, <1>5 DEF Next, Step

LEMMA TypeInit == Init => TypeOK
<1> SUFFICES ASSUME Init PROVE TypeOK OBVIOUS
<1>1. NewRow \in Row
  BY LimitsAssumption DEF Row, NewRow
<1>2. 1 \in 1..(MaxTime + 1)
  BY LimitsAssumption
<1>3. ReqTypeOK
  BY IdleGood DEF Init, ReqTypeOK, GoodReq
<1> QED
  BY <1>1, <1>2, <1>3, TypeOKSplit DEF Init

\* Type correctness of the sign-in tables and of the requests in flight.
THEOREM TypeCorrect == Spec => []TypeOK
BY TypeInit, TypeStep, PTL DEF Spec
-----------------------------------------------------------------------------
(* Token numbers.                                                          *)

\* A step that gives out no number and forgets none: requests may end.
Quiet ==
  /\ tokens' = tokens /\ exchanged' = exchanged
  /\ \A d \in Devices : row'[d].issued = row[d].issued /\ row'[d].prev = row[d].prev
  /\ \A p \in Procs : Granted(p)' =>
       Granted(p) /\ req'[p].dev = req[p].dev /\ req'[p].seq = req[p].seq

LEMMA QuietKeeps ==
  ASSUME TypeOK, SeqInvariant, Quiet
  PROVE  SeqInvariant'
<1>1. \A p \in Procs : Granted(p) => req[p].dev \in Devices
  BY DEF TypeOK, Granted
<1>2. \A t \in tokens : t.dev \in Devices
  BY DEF TypeOK, Token
<1>3. SeqGrantedOnce'
  <2> SUFFICES ASSUME NEW p \in Procs, Granted(p)'
               PROVE  /\ \A q \in Procs \ {p} : Granted(q)' =>
                           <<req[p].dev, req[p].seq>>' # <<req[q].dev, req[q].seq>>'
                      /\ \A t \in tokens' : <<t.dev, t.seq>> # <<req[p].dev, req[p].seq>>'
    BY DEF SeqGrantedOnce
  <2> QED
    BY DEF Quiet, SeqInvariant, SeqGrantedOnce
<1>4. \A d \in Devices : exchanged'[d] = row'[d].prev /\ row'[d].prev <= row'[d].issued
  BY DEF Quiet, SeqInvariant
<1>5. \A t \in tokens' : t.seq <= row'[t.dev].issued
  BY <1>2 DEF Quiet, SeqInvariant
<1>6. \A p \in Procs : Granted(p)' => req'[p].seq <= row'[req'[p].dev].issued
  BY <1>1 DEF Quiet, SeqInvariant
<1> QED
  BY <1>3, <1>4, <1>5, <1>6 DEF SeqInvariant

\* A step that gives request p the next number of device d.
Grants(p, d, oldest) ==
  /\ tokens' = tokens
  /\ exchanged' = [exchanged EXCEPT ![d] = oldest]
  /\ \E r \in Row : /\ row' = [row EXCEPT ![d] = r]
                    /\ r.issued = row[d].issued + 1
                    /\ r.prev = oldest
  /\ \E q \in Req : /\ req' = [req EXCEPT ![p] = q]
                    /\ q.dev = d
                    /\ q.seq = row[d].issued + 1

LEMMA GrantsKeeps ==
  ASSUME TypeOK, SeqInvariant, NEW p \in Procs, ~ Granted(p) \/ req[p].pc = "finish",
         NEW d \in Devices, NEW oldest \in Nat,
         oldest <= row[d].issued + 1, Grants(p, d, oldest)
  PROVE  SeqInvariant'
<1>1. PICK r \in Row : /\ row' = [row EXCEPT ![d] = r]
                       /\ r.issued = row[d].issued + 1
                       /\ r.prev = oldest
  BY DEF Grants
<1>2. PICK q \in Req : /\ req' = [req EXCEPT ![p] = q]
                       /\ q.dev = d
                       /\ q.seq = row[d].issued + 1
  BY DEF Grants
<1>3. /\ \A e \in Devices : row'[e] = IF e = d THEN r ELSE row[e]
      /\ \A o \in Procs : req'[o] = IF o = p THEN q ELSE req[o]
      /\ \A e \in Devices : exchanged'[e] = IF e = d THEN oldest ELSE exchanged[e]
      /\ tokens' = tokens
  BY <1>1, <1>2 DEF TypeOK, Grants
<1>4. /\ \A e \in Devices : row[e].issued \in Nat /\ row[e].prev \in Nat
      /\ \A t \in tokens : t.dev \in Devices /\ t.seq \in Nat
      /\ \A o \in Procs : req[o].seq \in Nat
      /\ \A o \in Procs : Granted(o) => req[o].dev \in Devices
  BY DEF TypeOK, Row, Token, Req, Granted
<1>5. \A o \in Procs \ {p} : Granted(o)' <=> Granted(o)
  BY <1>3 DEF Granted
<1>6. SeqGrantedOnce'
  <2>1. ASSUME NEW o \in Procs \ {p}, Granted(o)
        PROVE  <<req[o].dev, req[o].seq>> # <<d, row[d].issued + 1>>
    BY <2>1, <1>4 DEF SeqInvariant
  <2>2. \A t \in tokens : <<t.dev, t.seq>> # <<d, row[d].issued + 1>>
    BY <1>4 DEF SeqInvariant
  <2>3. ASSUME NEW a \in Procs, Granted(a)'
        PROVE  /\ \A b \in Procs \ {a} : Granted(b)' =>
                    <<req'[a].dev, req'[a].seq>> # <<req'[b].dev, req'[b].seq>>
               /\ \A t \in tokens' : <<t.dev, t.seq>> # <<req'[a].dev, req'[a].seq>>
    <3>1. CASE a = p
      BY <3>1, <1>2, <1>3, <1>5, <2>1, <2>2
    <3>2. CASE a # p
      <4>1. Granted(a) /\ req'[a] = req[a]
        BY <3>2, <2>3, <1>3, <1>5
      <4>2. ASSUME NEW b \in Procs \ {a}, Granted(b)'
            PROVE  <<req'[a].dev, req'[a].seq>> # <<req'[b].dev, req'[b].seq>>
        <5>1. CASE b = p
          BY <5>1, <4>1, <3>2, <1>2, <1>3, <2>1
        <5>2. CASE b # p
          BY <5>2, <4>1, <4>2, <1>3, <1>5 DEF SeqInvariant, SeqGrantedOnce
        <5> QED
          BY <5>1, <5>2
      <4>3. \A t \in tokens' : <<t.dev, t.seq>> # <<req'[a].dev, req'[a].seq>>
        BY <4>1, <1>3 DEF SeqInvariant, SeqGrantedOnce
      <4> QED
        BY <4>2, <4>3
    <3> QED
      BY <3>1, <3>2
  <2> QED
    BY <2>3 DEF SeqGrantedOnce
<1>7. \A e \in Devices : exchanged'[e] = row'[e].prev /\ row'[e].prev <= row'[e].issued
  BY <1>1, <1>3 DEF SeqInvariant
<1>8. \A t \in tokens' : t.seq <= row'[t.dev].issued
  BY <1>1, <1>3, <1>4 DEF SeqInvariant
<1>9. \A o \in Procs : Granted(o)' => req'[o].seq <= row'[req'[o].dev].issued
  BY <1>1, <1>2, <1>3, <1>4, <1>5 DEF SeqInvariant
<1> QED
  BY <1>6, <1>7, <1>8, <1>9 DEF SeqInvariant

LEMMA FinishSeq ==
  ASSUME TypeOK, SeqInvariant, NEW p \in Procs, FinishAuthProcess(p)
  PROVE  /\ SeqInvariant'
         /\ \A d \in Devices : exchanged'[d] >= exchanged[d]
<1> DEFINE d == req[p].dev
           new == [SessionStarted(row[d]) EXCEPT !.user = req[p].uid]
           q == [req[p] EXCEPT !.pc = "reset", !.seq = row[d].issued + 1]
<1>1. /\ d \in Devices /\ row[d] \in Row /\ req[p] \in Req
      /\ req[p].uid \in UserIDs /\ req[p].pc = "finish"
  BY DEF TypeOK, FinishAuthProcess
<1>2. row[d].issued \in Nat /\ row[d].prev \in Nat /\ row[d].issued + 1 \in Nat
  BY <1>1 DEF Row
<1>3. \A e \in Devices : exchanged[e] \in Nat
  BY DEF TypeOK
<1>4. CASE ~ CanFinish(row[d], req[p])
  <2>1. Quiet
    BY <1>4 DEF Quiet, FinishAuthProcess, Finished, IdleReq, Granted, TypeOK
  <2> QED
    BY <2>1, <1>3, QuietKeeps DEF Quiet
<1>5. CASE CanFinish(row[d], req[p])
  <2>1. new \in Row /\ new.issued = row[d].issued + 1 /\ new.prev = row[d].issued + 1
    BY <1>1, SessionStartedBounds
  <2>2. q \in Req /\ q.dev = d /\ q.seq = row[d].issued + 1
    BY <1>1, <1>2 DEF Req, PCs
  <2>3. /\ tokens' = tokens
        /\ exchanged' = [exchanged EXCEPT ![d] = row[d].issued + 1]
        /\ row' = [row EXCEPT ![d] = new]
        /\ req' = [req EXCEPT ![p] = q]
    BY <1>5 DEF FinishAuthProcess
  <2> HIDE DEF new, q
  <2>4. Grants(p, d, row[d].issued + 1)
    BY <2>1, <2>2, <2>3 DEF Grants
  <2>5. SeqInvariant'
    BY <1>1, <1>2, <2>4, GrantsKeeps
  <2>6. exchanged[d] <= row[d].issued
    BY <1>1, <1>2 DEF SeqInvariant
  <2> QED
    BY <1>1, <1>2, <1>3, <2>3, <2>5, <2>6 DEF TypeOK
<1> QED
  BY <1>4, <1>5

LEMMA RefreshSeq ==
  ASSUME TypeOK, SeqInvariant, NEW p \in Procs, NEW t \in tokens, RefreshToken(p, t)
  PROVE  /\ SeqInvariant'
         /\ \A d \in Devices : exchanged'[d] >= exchanged[d]
<1> DEFINE d == t.dev
           new == Refreshed(row[d], t.uid, t.seq)
           q == [req[p] EXCEPT !.pc = "reply", !.dev = d, !.uid = t.uid,
                               !.seq = row[d].issued + 1]
<1>1. /\ d \in Devices /\ t.uid \in UserIDs /\ t.seq \in Nat
      /\ row[d] \in Row /\ req[p] \in Req /\ req[p].pc = "idle"
  BY DEF TypeOK, Token, RefreshToken, Idle
<1>2. row[d].issued \in Nat /\ row[d].prev \in Nat /\ row[d].issued + 1 \in Nat
  BY <1>1 DEF Row
<1>3. \A e \in Devices : exchanged[e] \in Nat
  BY DEF TypeOK
<1>4. t.seq <= row[d].issued /\ exchanged[d] = row[d].prev /\ row[d].prev <= row[d].issued
  BY <1>1 DEF SeqInvariant
<1>5. /\ new \in Row /\ new.issued = row[d].issued + 1 /\ new.prev = t.seq
      /\ row[d].prev <= t.seq
  BY <1>1, <1>4, RefreshBounds DEF RefreshToken
<1>6. q \in Req /\ q.dev = d /\ q.seq = row[d].issued + 1
  BY <1>1, <1>2 DEF Req, PCs
<1>7. /\ tokens' = tokens
      /\ exchanged' = [exchanged EXCEPT ![d] = t.seq]
      /\ row' = [row EXCEPT ![d] = new]
      /\ req' = [req EXCEPT ![p] = q]
  BY DEF RefreshToken
<1> HIDE DEF new, q
<1>8. Grants(p, d, t.seq)
  BY <1>5, <1>6, <1>7 DEF Grants
<1>9. SeqInvariant'
  BY <1>1, <1>2, <1>4, <1>8, GrantsKeeps DEF Granted
<1> QED
  BY <1>1, <1>3, <1>4, <1>5, <1>7, <1>9 DEF TypeOK

LEMMA ReplySeq ==
  ASSUME TypeOK, SeqInvariant, NEW p \in Procs, Reply(p)
  PROVE  SeqInvariant' /\ exchanged' = exchanged
<1> DEFINE new == [dev |-> req[p].dev, uid |-> req[p].uid, seq |-> req[p].seq]
<1>1. Granted(p) /\ row' = row /\ exchanged' = exchanged /\ tokens' = tokens \cup {new}
  BY DEF Reply, Granted, Ghosts
<1>2. \A o \in Procs : req'[o] = IF o = p THEN IdleReq ELSE req[o]
  BY DEF Reply, Finished, TypeOK
<1>3. \A o \in Procs : Granted(o)' => o # p /\ Granted(o) /\ req'[o] = req[o]
  BY <1>2 DEF Granted, IdleReq
<1>4. SeqGrantedOnce'
  <2>1. ASSUME NEW a \in Procs, Granted(a)'
        PROVE  /\ \A b \in Procs \ {a} : Granted(b)' =>
                    <<req'[a].dev, req'[a].seq>> # <<req'[b].dev, req'[b].seq>>
               /\ \A t \in tokens' : <<t.dev, t.seq>> # <<req'[a].dev, req'[a].seq>>
    <3>1. a # p /\ Granted(a) /\ req'[a] = req[a]
      BY <2>1, <1>3
    <3>2. \A b \in Procs \ {a} : Granted(b)' =>
            <<req'[a].dev, req'[a].seq>> # <<req'[b].dev, req'[b].seq>>
      BY <3>1, <1>3 DEF SeqInvariant, SeqGrantedOnce
    <3>3. \A t \in tokens : <<t.dev, t.seq>> # <<req[a].dev, req[a].seq>>
      BY <3>1 DEF SeqInvariant, SeqGrantedOnce
    <3>4. <<new.dev, new.seq>> # <<req[a].dev, req[a].seq>>
      BY <3>1, <1>1 DEF SeqInvariant, SeqGrantedOnce
    <3> QED
      BY <3>1, <3>2, <3>3, <3>4, <1>1
  <2> QED
    BY <2>1 DEF SeqGrantedOnce
<1>5. \A t \in tokens' : t.seq <= row'[t.dev].issued
  BY <1>1 DEF SeqInvariant
<1>6. \A o \in Procs : Granted(o)' => req'[o].seq <= row'[req'[o].dev].issued
  BY <1>1, <1>3 DEF SeqInvariant
<1> QED
  BY <1>1, <1>4, <1>5, <1>6 DEF SeqInvariant

\* The other steps of a request.
LEMMA OtherSeq ==
  ASSUME TypeOK, SeqInvariant, NEW p \in Procs,
         \/ \E d \in Devices : ValidateEmailSignIn(p, d)
         \/ UpsertEmailLinkSignIn(p)
         \/ \E d \in Devices, code \in Codes : ResolveUser(p, d, code)
         \/ ReadSignIn(p)
         \/ IncreaseWrongAttempts(p)
         \/ ResetLoginSession(p)
         \/ Crash(p)
  PROVE  Quiet
<1>1. ASSUME NEW d \in Devices, ValidateEmailSignIn(p, d) PROVE Quiet
  <2>1. req[p] \in Req /\ \A o \in Procs :
          req'[o] = IF o = p THEN [req[p] EXCEPT !.pc = "upsert", !.dev = d] ELSE req[o]
    BY <1>1 DEF ValidateEmailSignIn, TypeOK
  <2>2. req'[p].pc = "upsert"
    BY <2>1 DEF Req
  <2> QED
    BY <1>1, <2>1, <2>2 DEF ValidateEmailSignIn, Quiet, Granted, Ghosts
<1>2. CASE UpsertEmailLinkSignIn(p)
  <2> DEFINE d == req[p].dev
  <2>1. d \in Devices /\ now \in Nat /\ row[d] \in Row /\ row[d].gen < MaxGen
    BY <1>2, LimitsAssumption DEF TypeOK, UpsertEmailLinkSignIn
  <2>2. PICK code \in Codes :
          row' \in {row, [row EXCEPT ![d] = WithNewCode(row[d], code)]}
    BY <1>2 DEF UpsertEmailLinkSignIn, Drawable
  <2>3. /\ WithNewCode(row[d], code).issued = row[d].issued
        /\ WithNewCode(row[d], code).prev = row[d].prev
    BY <2>1, NewCodeBounds
  <2>4. \A e \in Devices : row'[e].issued = row[e].issued /\ row'[e].prev = row[e].prev
    BY <2>2, <2>3 DEF TypeOK
  <2> QED
    BY <1>2, <2>4 DEF UpsertEmailLinkSignIn, Finished, IdleReq, Quiet, Granted, TypeOK
<1>3. ASSUME NEW d \in Devices, NEW code \in Codes, ResolveUser(p, d, code)
      PROVE  Quiet
  <2>1. PICK uid \in ResolvableIDs :
          req' = [req EXCEPT ![p].pc = "read", ![p].dev = d,
                             ![p].code = code, ![p].uid = uid]
    BY <1>3 DEF ResolveUser
  <2>2. req \in [Procs -> Req] /\ req[p] \in Req
    BY DEF TypeOK
  <2>3. req'[p].pc = "read" /\ \A o \in Procs : o # p => req'[o] = req[o]
    BY <2>1, <2>2 DEF Req
  <2> QED
    BY <1>3, <2>3 DEF ResolveUser, Quiet, Granted, Ghosts
<1>4. CASE ReadSignIn(p)
  <2>1. PICK r \in Readable(req[p].dev) :
          \/ Finished(p)
          \/ req' = [req EXCEPT ![p].pc = "wrong", ![p].gen = r.gen,
                                ![p].block = r.wrong + 1 >= MaxWrong]
          \/ req' = [req EXCEPT ![p].pc = "finish", ![p].gen = r.gen, ![p].seq = r.issued]
    BY <1>4 DEF ReadSignIn
  <2>2. req \in [Procs -> Req] /\ req[p] \in Req
    BY DEF TypeOK
  <2>3. \A o \in Procs : o # p => req'[o] = req[o]
    BY <2>1, <2>2 DEF Finished
  <2>4. req'[p].pc \in {"idle", "wrong", "finish"}
    BY <2>1, <2>2 DEF Finished, IdleReq, Req
  <2>5. row' = row /\ tokens' = tokens /\ exchanged' = exchanged
    BY <1>4 DEF ReadSignIn
  <2> QED
    BY <2>3, <2>4, <2>5 DEF Quiet, Granted
<1>5. CASE IncreaseWrongAttempts(p)
  <2>1. \A e \in Devices : row'[e].issued = row[e].issued /\ row'[e].prev = row[e].prev
    BY <1>5 DEF IncreaseWrongAttempts, TypeOK, Row
  <2> QED
    BY <1>5, <2>1 DEF IncreaseWrongAttempts, Finished, IdleReq, Quiet, Granted, Ghosts, TypeOK
<1>6. CASE ResetLoginSession(p)
  <2>1. \A e \in Devices : row'[e].issued = row[e].issued /\ row'[e].prev = row[e].prev
    BY <1>6 DEF ResetLoginSession, TypeOK, Row
  <2>2. \A o \in Procs : req'[o] = IF o = p THEN [req[p] EXCEPT !.pc = "reply"] ELSE req[o]
    BY <1>6 DEF ResetLoginSession, Goto, TypeOK
  <2>3. \A o \in Procs : Granted(o)' =>
          Granted(o) /\ req'[o].dev = req[o].dev /\ req'[o].seq = req[o].seq
    BY <1>6, <2>2 DEF ResetLoginSession, Granted, TypeOK, Req
  <2> QED
    BY <1>6, <2>1, <2>3 DEF ResetLoginSession, Quiet, Ghosts
<1>7. CASE Crash(p)
  BY <1>7 DEF Crash, Finished, IdleReq, Quiet, Granted, TypeOK
<1> QED
  BY <1>1, <1>2, <1>3, <1>4, <1>5, <1>6, <1>7

LEMMA SeqStep ==
  TypeOK /\ SeqInvariant /\ [Next]_vars =>
    SeqInvariant' /\ \A d \in Devices : exchanged'[d] >= exchanged[d]
<1> SUFFICES ASSUME TypeOK, SeqInvariant, [Next]_vars
             PROVE  SeqInvariant' /\ \A d \in Devices : exchanged'[d] >= exchanged[d]
  OBVIOUS
<1>1. \A d \in Devices : exchanged[d] \in Nat
  BY DEF TypeOK
<1>2. CASE Quiet
  BY <1>1, <1>2, QuietKeeps DEF Quiet
<1>3. CASE UNCHANGED vars
  BY <1>2, <1>3 DEF vars, Quiet, Granted
<1>4. ASSUME NEW t \in tokens, CreateUser(t) PROVE Quiet
  BY <1>4 DEF CreateUser, Quiet, Granted, Ghosts
<1>5. ASSUME NEW d \in Devices, Replicate(d) PROVE Quiet
  BY <1>5 DEF Replicate, Quiet, Granted, Ghosts
<1>6. CASE Tick
  BY <1>2, <1>6 DEF Tick, Quiet, Granted, Ghosts
<1>7. ASSUME NEW p \in Procs, Step(p)
      PROVE  SeqInvariant' /\ \A d \in Devices : exchanged'[d] >= exchanged[d]
  BY <1>1, <1>2, <1>7, FinishSeq, RefreshSeq, ReplySeq, OtherSeq DEF Step
<1> QED
  BY <1>2, <1>3, <1>4, <1>5, <1>6, <1>7 DEF Next, Step

LEMMA SeqInit == Init => SeqInvariant
BY DEF Init, SeqInvariant, SeqGrantedOnce, Granted, IdleReq, NewRow

\* Every token number goes to one sign-in or refresh only, however many of
\* them run at once and whatever the replica shows them.
THEOREM SeqCorrect == Spec => []SeqInvariant
<1>1. Init => TypeOK /\ SeqInvariant
  BY TypeInit, SeqInit
<1>2. TypeOK /\ SeqInvariant /\ [Next]_vars => (TypeOK /\ SeqInvariant)'
  BY TypeStep, SeqStep
<1> QED
  BY <1>1, <1>2, PTL DEF Spec

\* A token pair that was superseded is never exchanged again.
THEOREM NoOlderTokenExchangedHolds == Spec => NoOlderTokenExchanged
<1>1. TypeOK /\ SeqInvariant /\ [Next]_vars =>
        [\A d \in Devices : exchanged'[d] >= exchanged[d]]_vars
  BY SeqStep
<1> QED
  BY <1>1, TypeCorrect, SeqCorrect, PTL DEF Spec, NoOlderTokenExchanged
-----------------------------------------------------------------------------
(* What each statement does to the row of its device, field by field, and to *)
(* the requests.                                                             *)

LEMMA OthersStay ==
  ASSUME TypeOK, NEW p \in Procs, Step(p)
  PROVE  \A o \in Procs \ {p} : req'[o] = req[o]
<1>1. \A x : req' = [req EXCEPT ![p] = x] => \A o \in Procs \ {p} : req'[o] = req[o]
  BY DEF TypeOK
<1>2. \E x : req' = [req EXCEPT ![p] = x]
  <2>1. CASE ReadSignIn(p)
    BY <2>1 DEF ReadSignIn, Finished
  <2>2. CASE \E d \in Devices, code \in Codes : ResolveUser(p, d, code)
    BY <2>2 DEF ResolveUser
  <2>3. CASE (\E d \in Devices : ValidateEmailSignIn(p, d)) \/ UpsertEmailLinkSignIn(p)
             \/ IncreaseWrongAttempts(p)
    BY <2>3 DEF ValidateEmailSignIn, UpsertEmailLinkSignIn, IncreaseWrongAttempts, Finished
  <2>4. CASE FinishAuthProcess(p)
    BY <2>4 DEF FinishAuthProcess, Finished
  <2>5. CASE ResetLoginSession(p) \/ Reply(p) \/ Crash(p)
             \/ \E t \in tokens : RefreshToken(p, t)
    BY <2>5 DEF ResetLoginSession, Goto, Reply, Crash, Finished, RefreshToken
  <2> QED BY <2>1, <2>2, <2>3, <2>4, <2>5 DEF Step
<1> QED BY <1>1, <1>2

\* A row's other fields when some of them are changed.
LEMMA RowKeeps ==
  ASSUME NEW r \in Row, NEW code, NEW wrong, NEW blocked
  PROVE  /\ LET new == [r EXCEPT !.code = code]
            IN  /\ new.code = code /\ new.gen = r.gen /\ new.created = r.created
                /\ new.wrong = r.wrong /\ new.blocked = r.blocked /\ new.user = r.user
                /\ new.issued = r.issued /\ new.prev = r.prev
         /\ LET new == [r EXCEPT !.wrong = wrong, !.blocked = blocked]
            IN  /\ new.code = r.code /\ new.gen = r.gen /\ new.created = r.created
                /\ new.wrong = wrong /\ new.blocked = blocked /\ new.user = r.user
                /\ new.issued = r.issued /\ new.prev = r.prev
BY DEF Row

LEMMA UpsertEffect ==
  ASSUME TypeOK, NEW p \in Procs, UpsertEmailLinkSignIn(p)
  PROVE  LET d == req[p].dev
         IN  /\ d \in Devices /\ req'[p] = IdleReq
             /\ \A e \in Devices \ {d} :
                  /\ row'[e] = row[e] /\ guesses'[e] = guesses[e]
                  /\ lapses'[e] = lapses[e] /\ late'[e] = late[e]
             /\ \/ /\ row'[d] = row[d] /\ guesses'[d] = guesses[d]
                   /\ lapses'[d] = lapses[d] /\ late'[d] = late[d]
                \/ /\ guesses'[d] = 0 /\ lapses'[d] = 0 /\ late'[d] = 0
                   /\ row'[d].code \in Drawable(row[d]) /\ row'[d].created = now
                   /\ row'[d].wrong = 0 /\ row'[d].user = None
                   /\ row'[d].issued = row[d].issued /\ row'[d].prev = row[d].prev
<1> DEFINE d == req[p].dev
<1>1. d \in Devices /\ now \in Nat /\ row[d] \in Row
  BY LimitsAssumption DEF TypeOK, UpsertEmailLinkSignIn
<1>2. req'[p] = IdleReq
  BY DEF UpsertEmailLinkSignIn, Finished, TypeOK
<1>3. PICK code \in Drawable(row[d]) :
        \/ UNCHANGED <<row, guesses, lapses, late>>
        \/ /\ row' = [row EXCEPT ![d] = WithNewCode(row[d], code)]
           /\ guesses' = [guesses EXCEPT ![d] = 0]
           /\ lapses' = [lapses EXCEPT ![d] = 0]
           /\ late' = [late EXCEPT ![d] = 0]
  BY DEF UpsertEmailLinkSignIn
<1>4. PICK new : new = WithNewCode(row[d], code)
  OBVIOUS
<1>5. /\ new.code = code /\ new.created = now /\ new.wrong = 0 /\ new.user = None
      /\ new.issued = row[d].issued /\ new.prev = row[d].prev
  BY <1>1, <1>4 DEF WithNewCode, Row
<1> HIDE DEF d
<1>6. \A e \in Devices \ {d} :
        /\ row'[e] = row[e] /\ guesses'[e] = guesses[e]
        /\ lapses'[e] = lapses[e] /\ late'[e] = late[e]
  BY <1>3 DEF TypeOK
<1>7. \/ /\ row'[d] = row[d] /\ guesses'[d] = guesses[d]
         /\ lapses'[d] = lapses[d] /\ late'[d] = late[d]
      \/ guesses'[d] = 0 /\ lapses'[d] = 0 /\ late'[d] = 0 /\ row'[d] = new
  BY <1>1, <1>3, <1>4 DEF TypeOK
<1> QED BY <1>1, <1>2, <1>5, <1>6, <1>7 DEF d

LEMMA WrongEffect ==
  ASSUME TypeOK, NEW p \in Procs, IncreaseWrongAttempts(p)
  PROVE  LET d == req[p].dev
         IN  /\ d \in Devices /\ req'[p] = IdleReq
             /\ \A e \in Devices \ {d} : row'[e] = row[e]
             /\ row'[d].wrong = row[d].wrong + 1
             /\ row'[d].blocked = IF req[p].block THEN now + BlockDuration ELSE row[d].blocked
             /\ row'[d].code = row[d].code /\ row'[d].gen = row[d].gen
             /\ row'[d].created = row[d].created /\ row'[d].user = row[d].user
             /\ row'[d].issued = row[d].issued /\ row'[d].prev = row[d].prev
<1> DEFINE d == req[p].dev
           until == IF req[p].block THEN now + BlockDuration ELSE row[d].blocked
<1>1. d \in Devices /\ row[d] \in Row
  BY DEF TypeOK, IncreaseWrongAttempts
<1>2. req'[p] = IdleReq
  BY DEF IncreaseWrongAttempts, Finished, TypeOK
<1>3. row' = [row EXCEPT ![d] = [row[d] EXCEPT !.wrong = row[d].wrong + 1, !.blocked = until]]
  BY DEF IncreaseWrongAttempts
<1> HIDE DEF until
<1>4. /\ \A e \in Devices \ {d} : row'[e] = row[e]
      /\ row'[d] = [row[d] EXCEPT !.wrong = row[d].wrong + 1, !.blocked = until]
  BY <1>1, <1>3 DEF TypeOK
<1>5. /\ row'[d].wrong = row[d].wrong + 1 /\ row'[d].blocked = until
      /\ row'[d].code = row[d].code /\ row'[d].gen = row[d].gen
      /\ row'[d].created = row[d].created /\ row'[d].user = row[d].user
      /\ row'[d].issued = row[d].issued /\ row'[d].prev = row[d].prev
  BY <1>1, <1>4 DEF Row
<1> QED BY <1>1, <1>2, <1>4, <1>5 DEF until

\* A request ends, has a wrong code to count, or may finish.
LEMMA ReadEffect ==
  ASSUME TypeOK, NEW p \in Procs, ReadSignIn(p)
  PROVE  LET d == req[p].dev
         IN  /\ d \in Devices
             /\ \E r \in Readable(d) :
                  LET guess == /\ r.code \notin {None, req[p].uid} /\ ~ AttemptsExhausted(r)
                               /\ r.code # req[p].code /\ r.gen = row[d].gen
                  IN  /\ \/ req'[p] = IdleReq /\ ~ guess
                         \/ /\ req'[p].pc = "wrong" /\ req'[p].dev = d /\ req'[p].gen = r.gen
                            /\ req'[p].code = req[p].code
                            /\ req'[p].block = (r.wrong + 1 >= MaxWrong)
                         \/ /\ ~ guess /\ req'[p].pc = "finish" /\ req'[p].dev = d
                            /\ req'[p].gen = r.gen /\ req'[p].seq = r.issued
                            /\ req'[p].code = req[p].code /\ r.code = req[p].code
                            /\ r.code # None
                      /\ guesses' = [guesses EXCEPT ![d] = IF guess THEN @ + 1 ELSE @]
<1>1. req[p].dev \in Devices /\ req[p] \in Req /\ req \in [Procs -> Req]
  BY DEF TypeOK, ReadSignIn
<1> DEFINE d == req[p].dev
           Guess(r) == /\ r.code \notin {None, req[p].uid} /\ ~ AttemptsExhausted(r)
                       /\ r.code # req[p].code /\ r.gen = row[d].gen
<1>2. PICK r \in Readable(d) :
        /\ \/ req' = [req EXCEPT ![p] = IdleReq] /\ ~ Guess(r)
           \/ req' = [req EXCEPT ![p].pc = "wrong", ![p].gen = r.gen,
                                 ![p].block = r.wrong + 1 >= MaxWrong]
           \/ /\ ~ Guess(r) /\ r.code = req[p].code /\ r.code # None
              /\ req' = [req EXCEPT ![p].pc = "finish", ![p].gen = r.gen,
                                    ![p].seq = r.issued]
        /\ guesses' = [guesses EXCEPT ![d] = IF Guess(r) THEN @ + 1 ELSE @]
  BY DEF ReadSignIn, Finished
<1>3. PICK b : b = (r.wrong + 1 >= MaxWrong)
  OBVIOUS
<1>4. \/ req'[p] = IdleReq /\ ~ Guess(r)
      \/ req'[p] = [req[p] EXCEPT !.pc = "wrong", !.gen = r.gen, !.block = b]
      \/ /\ ~ Guess(r) /\ r.code = req[p].code /\ r.code # None
         /\ req'[p] = [req[p] EXCEPT !.pc = "finish", !.gen = r.gen, !.seq = r.issued]
  BY <1>1, <1>2, <1>3
<1>5. ASSUME NEW x, x = [req[p] EXCEPT !.pc = "wrong", !.gen = r.gen, !.block = b]
      PROVE  /\ x.pc = "wrong" /\ x.gen = r.gen /\ x.block = b
             /\ x.dev = d /\ x.code = req[p].code
  BY <1>1, <1>5 DEF Req
<1>6. ASSUME NEW x, x = [req[p] EXCEPT !.pc = "finish", !.gen = r.gen, !.seq = r.issued]
      PROVE  /\ x.pc = "finish" /\ x.gen = r.gen /\ x.seq = r.issued
             /\ x.dev = d /\ x.code = req[p].code
  BY <1>1, <1>6 DEF Req
<1> HIDE DEF Guess
<1>7. \/ req'[p] = IdleReq /\ ~ Guess(r)
      \/ /\ req'[p].pc = "wrong" /\ req'[p].dev = d /\ req'[p].gen = r.gen
         /\ req'[p].code = req[p].code /\ req'[p].block = (r.wrong + 1 >= MaxWrong)
      \/ /\ ~ Guess(r) /\ req'[p].pc = "finish" /\ req'[p].dev = d
         /\ req'[p].gen = r.gen /\ req'[p].seq = r.issued
         /\ req'[p].code = req[p].code /\ r.code = req[p].code /\ r.code # None
  BY <1>3, <1>4, <1>5, <1>6
<1> QED BY <1>1, <1>2, <1>7 DEF Guess

\* A row whose token numbers move: the rest of it stays.
LEMMA StartedFields ==
  ASSUME NEW r \in Row, NEW uid
  PROVE  LET new == [SessionStarted(r) EXCEPT !.user = uid]
         IN  /\ new.code = r.code /\ new.gen = r.gen /\ new.created = r.created
             /\ new.wrong = r.wrong /\ new.blocked = r.blocked /\ new.user = uid
             /\ new.issued = r.issued + 1 /\ new.prev = r.issued + 1
BY DEF SessionStarted, Row

LEMMA RefreshedFields ==
  ASSUME NEW r \in Row, NEW uid, NEW seq
  PROVE  LET new == Refreshed(r, uid, seq)
         IN  /\ new.code = r.code /\ new.gen = r.gen /\ new.created = r.created
             /\ new.wrong = r.wrong /\ new.blocked = r.blocked /\ new.user = uid
             /\ new.issued = r.issued + 1 /\ new.prev = seq
<1>1. (IF r.issued = seq THEN r.issued ELSE seq) = seq
  OBVIOUS
<1>2. Refreshed(r, uid, seq) = [r EXCEPT !.user = uid, !.issued = r.issued + 1, !.prev = seq]
  BY <1>1 DEF Refreshed
<1> QED BY <1>2 DEF Row

\* The part of a row the wrong codes and the block are kept in.
SameFence(r, s) ==
  r.gen = s.gen /\ r.created = s.created /\ r.wrong = s.wrong /\ r.blocked = s.blocked

LEMMA FinishEffect ==
  ASSUME TypeOK, NEW p \in Procs, FinishAuthProcess(p)
  PROVE  LET d == req[p].dev
         IN  /\ d \in Devices
             /\ \A e \in Devices \ {d} : row'[e] = row[e] /\ late'[e] = late[e]
             /\ SameFence(row'[d], row[d]) /\ row'[d].code = row[d].code
             /\ \/ req'[p] = IdleReq /\ row'[d] = row[d] /\ late'[d] = late[d]
                \/ /\ row[d].issued = req[p].seq
                   /\ row'[d].issued = row[d].issued + 1 /\ row'[d].prev = row[d].issued + 1
                   /\ row'[d].user = req[p].uid
                   /\ req'[p].pc = "reset" /\ req'[p].dev = d /\ req'[p].uid = req[p].uid
                   /\ req'[p].seq = row[d].issued + 1 /\ req'[p].code = req[p].code
                   /\ late'[d] = IF row[d].code \in UserIDs /\ row[d].gen = req[p].gen
                                 THEN late[d] + 1 ELSE late[d]
<1> DEFINE d == req[p].dev
<1>1. d \in Devices /\ row[d] \in Row /\ req[p] \in Req
  BY DEF TypeOK, FinishAuthProcess
<1>2. CASE ~ CanFinish(row[d], req[p])
  BY <1>1, <1>2 DEF FinishAuthProcess, Finished, TypeOK, SameFence
<1>3. CASE CanFinish(row[d], req[p])
  <2>1. PICK new : new = [SessionStarted(row[d]) EXCEPT !.user = req[p].uid]
    OBVIOUS
  <2>2. /\ SameFence(new, row[d]) /\ new.code = row[d].code /\ new.user = req[p].uid
        /\ new.issued = row[d].issued + 1 /\ new.prev = row[d].issued + 1
    BY <1>1, <2>1, StartedFields DEF SameFence
  <2>3. row' = [row EXCEPT ![d] = new]
    BY <1>3, <2>1 DEF FinishAuthProcess
  <2>4. row'[d] = new /\ \A e \in Devices \ {d} : row'[e] = row[e]
    BY <1>1, <2>3 DEF TypeOK
  <2>5. PICK n : n = row[d].issued + 1
    OBVIOUS
  <2>6. req'[p] = [req[p] EXCEPT !.pc = "reset", !.seq = n]
    BY <1>3, <2>5 DEF FinishAuthProcess, TypeOK
  <2>7. /\ req'[p].pc = "reset" /\ req'[p].dev = d /\ req'[p].uid = req[p].uid
        /\ req'[p].seq = n /\ req'[p].code = req[p].code
    BY <1>1, <2>6 DEF Req
  <2>8. /\ late'[d] = IF row[d].code \in UserIDs /\ row[d].gen = req[p].gen
                      THEN late[d] + 1 ELSE late[d]
        /\ \A e \in Devices \ {d} : late'[e] = late[e]
    BY <1>1, <1>3 DEF FinishAuthProcess, TypeOK
  <2>9. row[d].issued = req[p].seq
    BY <1>3 DEF CanFinish
  <2> QED BY <1>1, <2>2, <2>4, <2>5, <2>7, <2>8, <2>9
<1> QED BY <1>2, <1>3

LEMMA ResetEffect ==
  ASSUME TypeOK, NEW p \in Procs, ResetLoginSession(p)
  PROVE  LET d == req[p].dev
         IN  /\ d \in Devices /\ req[p].pc = "reset"
             /\ req'[p].pc = "reply" /\ req'[p].dev = d /\ req'[p].uid = req[p].uid
             /\ req'[p].seq = req[p].seq /\ req'[p].code = req[p].code
             /\ \A e \in Devices \ {d} : row'[e] = row[e]
             /\ SameFence(row'[d], row[d]) /\ row'[d].user = row[d].user
             /\ row'[d].issued = row[d].issued /\ row'[d].prev = row[d].prev
             /\ \/ row'[d].code = row[d].code
                \/ /\ row[d].code = req[p].code /\ row[d].issued = req[p].seq
                   /\ row'[d].code = req[p].uid
<1> DEFINE d == req[p].dev
<1>1. d \in Devices /\ row[d] \in Row /\ req[p] \in Req /\ req[p].pc = "reset"
  BY DEF TypeOK, ResetLoginSession
<1>2. req'[p] = [req[p] EXCEPT !.pc = "reply"]
  BY DEF ResetLoginSession, Goto, TypeOK
<1>3. /\ req'[p].pc = "reply" /\ req'[p].dev = d /\ req'[p].uid = req[p].uid
      /\ req'[p].seq = req[p].seq /\ req'[p].code = req[p].code
  BY <1>1, <1>2 DEF Req
<1>4. PICK new : new = [row[d] EXCEPT !.code = req[p].uid]
  OBVIOUS
<1>5. /\ SameFence(new, row[d]) /\ new.code = req[p].uid /\ new.user = row[d].user
      /\ new.issued = row[d].issued /\ new.prev = row[d].prev
  BY <1>1, <1>4 DEF SameFence, Row
<1>6. /\ \A e \in Devices \ {d} : row'[e] = row[e]
      /\ \/ row'[d] = row[d]
         \/ row'[d] = new /\ CanReset(row[d], req[p])
  BY <1>1, <1>4 DEF ResetLoginSession, TypeOK
<1> QED BY <1>1, <1>3, <1>5, <1>6 DEF SameFence, CanReset

LEMMA RefreshEffect ==
  ASSUME TypeOK, NEW p \in Procs, NEW t \in tokens, RefreshToken(p, t)
  PROVE  LET d == t.dev
         IN  /\ d \in Devices /\ req[p].pc = "idle" /\ CanRefresh(row[d], t.uid, t.seq)
             /\ req'[p].pc = "reply" /\ req'[p].dev = d /\ req'[p].uid = t.uid
             /\ req'[p].seq = row[d].issued + 1
             /\ \A e \in Devices \ {d} : row'[e] = row[e]
             /\ SameFence(row'[d], row[d]) /\ row'[d].code = row[d].code
             /\ row'[d].user = t.uid
             /\ row'[d].issued = row[d].issued + 1 /\ row'[d].prev = t.seq
<1> DEFINE d == t.dev
<1>1. d \in Devices /\ row[d] \in Row /\ req[p] \in Req /\ req[p].pc = "idle"
  BY DEF TypeOK, Token, RefreshToken, Idle
<1>2. PICK n : n = row[d].issued + 1
  OBVIOUS
<1>3. req'[p] = [req[p] EXCEPT !.pc = "reply", !.dev = d, !.uid = t.uid, !.seq = n]
  BY <1>2 DEF RefreshToken, TypeOK
<1>4. /\ req'[p].pc = "reply" /\ req'[p].dev = d /\ req'[p].uid = t.uid /\ req'[p].seq = n
  BY <1>1, <1>3 DEF Req
<1>5. PICK new : new = Refreshed(row[d], t.uid, t.seq)
  OBVIOUS
<1>6. /\ SameFence(new, row[d]) /\ new.code = row[d].code /\ new.user = t.uid
      /\ new.issued = n /\ new.prev = t.seq
  BY <1>1, <1>2, <1>5, RefreshedFields DEF SameFence
<1>7. row' = [row EXCEPT ![d] = new]
  BY <1>5 DEF RefreshToken
<1>8. row'[d] = new /\ \A e \in Devices \ {d} : row'[e] = row[e]
  BY <1>1, <1>7 DEF TypeOK
<1> QED BY <1>1, <1>2, <1>4, <1>6, <1>8 DEF RefreshToken

\* A request that starts.
LEMMA StartEffect ==
  ASSUME TypeOK, NEW p \in Procs, NEW d \in Devices,
         ValidateEmailSignIn(p, d) \/ \E code \in Codes : ResolveUser(p, d, code)
  PROVE  /\ req[p].pc = "idle" /\ req'[p].pc \in {"upsert", "read"} /\ req'[p].dev = d
         /\ req'[p].pc = "read" => req'[p].code \in Codes
         /\ UNCHANGED <<now, account, row, replica, session, tokens, Ghosts>>
<1>1. req[p] \in Req /\ req[p].pc = "idle"
  BY DEF TypeOK, ValidateEmailSignIn, ResolveUser, Idle
<1>2. CASE ValidateEmailSignIn(p, d)
  <2>1. req'[p] = [req[p] EXCEPT !.pc = "upsert", !.dev = d]
    BY <1>2 DEF ValidateEmailSignIn, TypeOK
  <2>2. req'[p].pc = "upsert" /\ req'[p].dev = d
    BY <1>1, <2>1 DEF Req
  <2> QED BY <1>1, <1>2, <2>2 DEF ValidateEmailSignIn
<1>3. ASSUME NEW code \in Codes, ResolveUser(p, d, code)
      PROVE  /\ req'[p].pc = "read" /\ req'[p].dev = d /\ req'[p].code \in Codes
             /\ UNCHANGED <<now, account, row, replica, session, tokens, Ghosts>>
  <2>1. PICK uid : req' = [req EXCEPT ![p].pc = "read", ![p].dev = d,
                                      ![p].code = code, ![p].uid = uid]
    BY <1>3 DEF ResolveUser
  <2>2. req'[p] = [req[p] EXCEPT !.pc = "read", !.dev = d, !.code = code, !.uid = uid]
    BY <2>1 DEF TypeOK
  <2>3. req'[p].pc = "read" /\ req'[p].dev = d /\ req'[p].code \in Codes
    BY <1>1, <2>2 DEF Req
  <2> QED BY <1>3, <2>3 DEF ResolveUser
<1> QED BY <1>1, <1>2, <1>3

\* A request that ends without touching a row.
LEMMA EndEffect ==
  ASSUME TypeOK, NEW p \in Procs, Reply(p) \/ Crash(p)
  PROVE  /\ req'[p] = IdleReq /\ req[p].dev \in Devices
         /\ UNCHANGED <<now, account, row, replica, session, exchanged, guesses, late>>
BY DEF TypeOK, Reply, Crash, Idle, Finished, Ghosts
-----------------------------------------------------------------------------
(* Wrong codes.  With up-to-date reads, a wrong code compared is counted in  *)
(* the row, still to be counted by its request, or lapsed; and one more is   *)
(* compared only while the row counts less than MaxWrong.  As long as no     *)
(* block is set, all requests that are to count without setting it saw fewer *)
(* than MaxWrong - 1 wrong codes.                                            *)

Waiting(d) ==
  {p \in Procs : req[p].pc = "wrong" /\ req[p].dev = d /\ req[p].gen = row[d].gen}

Unblocking(d) ==
  {p \in Procs : req[p].pc = "wrong" /\ req[p].dev = d /\ ~ req[p].block}

Guessed(d) == guesses[d] <= row[d].wrong + Cardinality(Waiting(d)) + lapses[d]
Bounded(d) == guesses[d] <= MaxWrong + Cardinality(Procs) - 1 + lapses[d]

Fenced(d) ==
  \/ BlockTimeFitsNow(row[d])
  \/ row[d].wrong + Cardinality(Unblocking(d)) <= MaxWrong + Cardinality(Procs) - 2

Tried(d) == Guessed(d) /\ Bounded(d) /\ Fenced(d) /\ row[d].created <= now
TriesInv == \A d \in Devices : Tried(d)

LEMMA Counts ==
  ASSUME NEW S, S \subseteq Procs
  PROVE  /\ Cardinality(S) \in Nat /\ Cardinality(Procs) \in Nat
         /\ Cardinality(S) <= Cardinality(Procs)
         /\ \A T : T \subseteq S => Cardinality(T) <= Cardinality(S)
         /\ \A p \in S : Cardinality(S \ {p}) = Cardinality(S) - 1
         /\ \A p \in Procs \ S : /\ Cardinality(S \cup {p}) = Cardinality(S) + 1
                                 /\ Cardinality(S) <= Cardinality(Procs) - 1
<1>1. IsFiniteSet(Procs)
  BY ProcsAssumption
<1>2. IsFiniteSet(S) /\ Cardinality(S) <= Cardinality(Procs)
  BY <1>1, FS_Subset
<1>3. Cardinality(S) \in Nat /\ Cardinality(Procs) \in Nat
  BY <1>1, <1>2, FS_CardinalityType
<1>4. \A T : T \subseteq S => Cardinality(T) <= Cardinality(S)
  BY <1>2, FS_Subset
<1>5. \A p \in S : Cardinality(S \ {p}) = Cardinality(S) - 1
  BY <1>2, <1>3, FS_RemoveElement
<1>6. ASSUME NEW p \in Procs \ S
      PROVE  /\ Cardinality(S \cup {p}) = Cardinality(S) + 1
             /\ Cardinality(S) <= Cardinality(Procs) - 1
  <2>1. Cardinality(S \cup {p}) = Cardinality(S) + 1
    BY <1>2, FS_AddElement
  <2>2. Cardinality(S \cup {p}) <= Cardinality(Procs)
    BY <1>1, FS_Subset
  <2> QED BY <1>3, <2>1, <2>2
<1> QED BY <1>2, <1>3, <1>4, <1>5, <1>6

LEMMA TriesTypes ==
  ASSUME TypeOK, NEW d \in Devices
  PROVE  /\ guesses[d] \in Nat /\ lapses[d] \in Nat /\ now \in Nat
         /\ row[d].wrong \in Nat /\ row[d].blocked \in Nat /\ row[d].created \in Nat
         /\ row[d].gen \in Nat
         /\ Waiting(d) \subseteq Procs /\ Unblocking(d) \subseteq Procs
<1>1. MaxTime \in Nat /\ MaxGen \in Nat
  BY LimitsAssumption
<1>2. row[d] \in Row /\ guesses[d] \in Nat /\ lapses[d] \in Nat
  BY DEF TypeOK
<1>4. now \in Nat
  BY <1>1 DEF TypeOK
<1>3. /\ row[d].wrong \in Nat /\ row[d].blocked \in Nat /\ row[d].created \in Nat
      /\ row[d].gen \in Nat
  BY <1>1, <1>2 DEF Row
<1> QED BY <1>2, <1>3, <1>4 DEF Waiting, Unblocking

\* The sets of requests grow and shrink by the one that moves, if at all.
LEMMA WaitingMoves ==
  ASSUME TypeOK, NEW p \in Procs, NEW d \in Devices,
         \A o \in Procs \ {p} : req'[o] = req[o]
  PROVE  /\ row'[d].gen = row[d].gen => Waiting(d) \ {p} \subseteq Waiting(d)'
         /\ Unblocking(d)' \subseteq Unblocking(d) \cup {p}
         /\ ~ (req'[p].pc = "wrong" /\ req'[p].dev = d /\ ~ req'[p].block) =>
              Unblocking(d)' \subseteq Unblocking(d) \ {p}
         /\ (/\ row'[d].gen = row[d].gen
             /\ req'[p].pc = "wrong" /\ req'[p].dev = d /\ req'[p].gen = row[d].gen) =>
              Waiting(d) \cup {p} \subseteq Waiting(d)'
BY DEF Waiting, Unblocking

\* A step that changes nothing of this for a device.
LEMMA SameTried ==
  ASSUME TypeOK, TypeOK', TriesInv, NEW p \in Procs, NEW d \in Devices,
         \A o \in Procs \ {p} : req'[o] = req[o],
         ~ (req[p].pc = "wrong" /\ req[p].dev = d),
         ~ (req'[p].pc = "wrong" /\ req'[p].dev = d),
         SameFence(row'[d], row[d]), guesses'[d] = guesses[d], lapses'[d] = lapses[d],
         now' = now
  PROVE  Tried(d)'
<1>1. Waiting(d)' = Waiting(d) /\ Unblocking(d)' = Unblocking(d)
  BY DEF Waiting, Unblocking, SameFence
<1> QED BY <1>1 DEF TriesInv, Tried, Guessed, Bounded, Fenced, SameFence, BlockTimeFitsNow

LEMMA UpsertTried ==
  ASSUME TypeOK, TypeOK', TriesInv, NEW p \in Procs, UpsertEmailLinkSignIn(p)
  PROVE  TriesInv'
<1>0. PICK d \in Devices : d = req[p].dev
  BY UpsertEffect
<1>1. /\ req'[p].pc = "idle" /\ req[p].pc = "upsert" /\ now' = now
      /\ \A e \in Devices \ {d} : row'[e] = row[e] /\ guesses'[e] = guesses[e]
                                  /\ lapses'[e] = lapses[e]
      /\ \/ row'[d] = row[d] /\ guesses'[d] = guesses[d] /\ lapses'[d] = lapses[d]
         \/ /\ guesses'[d] = 0 /\ lapses'[d] = 0
            /\ row'[d].created = now /\ row'[d].wrong = 0
  BY <1>0, UpsertEffect DEF IdleReq, UpsertEmailLinkSignIn
<1>2. \A o \in Procs \ {p} : req'[o] = req[o]
  BY OthersStay DEF Step
<1>3. ASSUME NEW e \in Devices, row'[e] = row[e], guesses'[e] = guesses[e],
             lapses'[e] = lapses[e]
      PROVE  Tried(e)'
  BY <1>1, <1>2, <1>3, SameTried DEF SameFence
<1>4. ASSUME guesses'[d] = 0, lapses'[d] = 0, row'[d].created = now, row'[d].wrong = 0
      PROVE  Tried(d)'
  <2>1. /\ Cardinality(Waiting(d)') \in Nat /\ Cardinality(Procs) \in Nat
        /\ now \in Nat /\ MaxWrong \in Nat \ {0}
    BY <1>1, TriesTypes, Counts, LimitsAssumption DEF Waiting
  <2>2. Unblocking(d)' \subseteq Procs /\ p \notin Unblocking(d)'
    BY <1>1 DEF Unblocking
  <2>3. /\ Cardinality(Unblocking(d)') \in Nat
        /\ Cardinality(Unblocking(d)') <= Cardinality(Procs) - 1
    BY <2>2, Counts
  <2> QED BY <1>1, <1>4, <2>1, <2>3 DEF Tried, Guessed, Bounded, Fenced
<1>5. ASSUME NEW e \in Devices PROVE Tried(e)'
  BY <1>1, <1>3, <1>4
<1> QED BY <1>5 DEF TriesInv

LEMMA ReadTried ==
  ASSUME TypeOK, TypeOK', TriesInv, ~ StaleReads, NEW p \in Procs, ReadSignIn(p)
  PROVE  TriesInv'
<1>0. PICK d \in Devices : d = req[p].dev
  BY ReadEffect
<1> DEFINE guess == /\ row[d].code \notin {None, req[p].uid} /\ ~ AttemptsExhausted(row[d])
                    /\ row[d].code # req[p].code
<1>1. req[p].pc = "read" /\ UNCHANGED <<now, row, lapses>>
  BY DEF ReadSignIn
<1>2. /\ \/ req'[p].pc = "idle" /\ ~ guess
         \/ /\ req'[p].pc = "wrong" /\ req'[p].dev = d /\ req'[p].gen = row[d].gen
            /\ req'[p].block = (row[d].wrong + 1 >= MaxWrong)
         \/ ~ guess /\ req'[p].pc = "finish"
      /\ guesses' = [guesses EXCEPT ![d] = IF guess THEN @ + 1 ELSE @]
  BY <1>0, ReadEffect DEF Readable, IdleReq
<1>3. \A o \in Procs \ {p} : req'[o] = req[o]
  BY OthersStay DEF Step
<1>4. guess => row[d].wrong < MaxWrong
  BY <1>1, TriesTypes, LimitsAssumption DEF AttemptsExhausted
<1> HIDE DEF guess
<1>5. /\ guesses'[d] = IF guess THEN guesses[d] + 1 ELSE guesses[d]
      /\ \A e \in Devices \ {d} : guesses'[e] = guesses[e]
  BY <1>1, <1>2 DEF TypeOK
<1>6. ASSUME NEW e \in Devices, e # d \/ req'[p].pc # "wrong"
      PROVE  Tried(e)'
  <2>1. guesses'[e] = guesses[e] /\ ~ (req'[p].pc = "wrong" /\ req'[p].dev = e)
    BY <1>2, <1>5, <1>6
  <2> QED BY <1>1, <1>3, <2>1, SameTried DEF SameFence
<1>7. ASSUME req'[p].pc = "wrong" PROVE Tried(d)'
  <2> DEFINE w == row[d].wrong
  <2>1. /\ req'[p].dev = d /\ req'[p].gen = row[d].gen
        /\ req'[p].block = (w + 1 >= MaxWrong)
    BY <1>2, <1>7
  <2>2. /\ guesses[d] \in Nat /\ lapses[d] \in Nat /\ w \in Nat /\ MaxWrong \in Nat
    BY <1>1, TriesTypes, LimitsAssumption
  <2>3. /\ Guessed(d) /\ Bounded(d) /\ Fenced(d) /\ row[d].created <= now
    BY <1>1 DEF TriesInv, Tried
  <2>4. /\ Waiting(d) \subseteq Procs /\ p \notin Waiting(d)
        /\ Waiting(d) \cup {p} \subseteq Waiting(d)' /\ Waiting(d)' \subseteq Procs
    BY <1>1, <1>3, <1>7, <2>1, WaitingMoves DEF Waiting
  <2>5. /\ Cardinality(Waiting(d)) \in Nat /\ Cardinality(Procs) \in Nat
        /\ Cardinality(Waiting(d)) <= Cardinality(Procs) - 1
        /\ Cardinality(Waiting(d) \cup {p}) = Cardinality(Waiting(d)) + 1
    BY <2>4, Counts
  <2>6. /\ Cardinality(Waiting(d)') \in Nat
        /\ Cardinality(Waiting(d) \cup {p}) <= Cardinality(Waiting(d)')
    BY <2>4, Counts
  <2>7. Guessed(d)'
    BY <1>1, <1>5, <2>2, <2>3, <2>5, <2>6 DEF Guessed
  <2>8. Bounded(d)'
    BY <1>1, <1>4, <1>5, <2>2, <2>3, <2>5 DEF Guessed, Bounded
  <2>9. Fenced(d)'
    <3>1. /\ Unblocking(d) \subseteq Procs /\ Unblocking(d)' \subseteq Procs
          /\ Cardinality(Unblocking(d)) \in Nat /\ Cardinality(Unblocking(d)') \in Nat
          /\ Cardinality(Unblocking(d)') <= Cardinality(Procs)
      <4>1. Unblocking(d) \subseteq Procs /\ Unblocking(d)' \subseteq Procs
        BY DEF Unblocking
      <4> QED BY <4>1, Counts
    <3>2. CASE BlockTimeFitsNow(row[d])
      BY <1>1, <3>2 DEF Fenced, BlockTimeFitsNow
    <3>3. CASE w + 1 >= MaxWrong /\ ~ BlockTimeFitsNow(row[d])
      <4>1. req'[p].block
        BY <2>1, <3>3
      <4>2. Unblocking(d)' \subseteq Unblocking(d) \ {p}
        BY <1>1, <1>3, <4>1, WaitingMoves
      <4>3. Unblocking(d)' \subseteq Unblocking(d)
        BY <4>2
      <4>4. Cardinality(Unblocking(d)') <= Cardinality(Unblocking(d))
        BY <3>1, <4>3, Counts
      <4> QED BY <1>1, <2>2, <2>3, <2>5, <3>1, <3>3, <4>4 DEF Fenced
    <3>4. CASE w + 1 < MaxWrong
      BY <1>1, <2>2, <2>5, <3>1, <3>4 DEF Fenced
    <3> QED BY <2>2, <3>2, <3>3, <3>4
  <2> QED BY <1>1, <2>3, <2>7, <2>8, <2>9 DEF Tried
<1>8. ASSUME NEW e \in Devices PROVE Tried(e)'
  BY <1>6, <1>7
<1> QED BY <1>8 DEF TriesInv

LEMMA WrongTried ==
  ASSUME TypeOK, TypeOK', TriesInv, NEW p \in Procs, IncreaseWrongAttempts(p)
  PROVE  TriesInv'
<1>0. PICK d \in Devices : d = req[p].dev
  BY WrongEffect
<1>1. req[p].pc = "wrong" /\ req[p].dev = d /\ UNCHANGED <<now, guesses, lapses>>
  BY <1>0 DEF IncreaseWrongAttempts, Ghosts
<1>2. /\ req'[p].pc = "idle"
      /\ \A e \in Devices \ {d} : row'[e] = row[e]
      /\ row'[d].wrong = row[d].wrong + 1
      /\ row'[d].blocked = IF req[p].block THEN now + BlockDuration ELSE row[d].blocked
      /\ row'[d].gen = row[d].gen /\ row'[d].created = row[d].created
  BY <1>0, WrongEffect DEF IdleReq
<1>3. \A o \in Procs \ {p} : req'[o] = req[o]
  BY OthersStay DEF Step
<1>4. ASSUME NEW e \in Devices \ {d} PROVE Tried(e)'
  BY <1>1, <1>2, <1>3, SameTried DEF SameFence
<1>5. Tried(d)'
  <2>1. /\ guesses[d] \in Nat /\ lapses[d] \in Nat /\ row[d].wrong \in Nat /\ now \in Nat
        /\ row[d].created \in Nat /\ MaxWrong \in Nat /\ BlockDuration \in Nat \ {0}
    BY <1>1, <1>2, TriesTypes, LimitsAssumption
  <2>2. /\ Guessed(d) /\ Bounded(d) /\ Fenced(d) /\ row[d].created <= now
    BY <1>1, <1>2 DEF TriesInv, Tried
  <2>3. /\ Waiting(d) \subseteq Procs /\ Waiting(d)' \subseteq Procs
        /\ Unblocking(d) \subseteq Procs /\ Unblocking(d)' \subseteq Procs
    BY DEF Waiting, Unblocking
  <2>4. /\ Cardinality(Waiting(d)) \in Nat /\ Cardinality(Waiting(d)') \in Nat
        /\ Cardinality(Unblocking(d)) \in Nat /\ Cardinality(Unblocking(d)') \in Nat
        /\ Cardinality(Procs) \in Nat
    BY <2>3, Counts
  <2>5. Cardinality(Waiting(d)) <= Cardinality(Waiting(d)') + 1
    <3>1. Waiting(d) \ {p} \subseteq Waiting(d)'
      BY <1>1, <1>2, <1>3, WaitingMoves
    <3>2. Cardinality(Waiting(d) \ {p}) <= Cardinality(Waiting(d)')
      BY <2>3, <3>1, Counts
    <3>3. CASE p \in Waiting(d)
      <4>1. Cardinality(Waiting(d) \ {p}) = Cardinality(Waiting(d)) - 1
        BY <2>3, <3>3, Counts
      <4> QED BY <2>4, <3>2, <4>1
    <3>4. CASE p \notin Waiting(d)
      <4>1. Waiting(d) \ {p} = Waiting(d)
        BY <3>4
      <4>2. Cardinality(Waiting(d) \ {p}) = Cardinality(Waiting(d))
        BY <4>1
      <4> QED BY <2>4, <3>2, <4>2
    <3> QED BY <3>3, <3>4
  <2>6. Guessed(d)' /\ Bounded(d)'
    BY <1>1, <1>2, <2>1, <2>2, <2>4, <2>5 DEF Guessed, Bounded
  <2>7. Fenced(d)'
    <3>1. CASE req[p].block
      BY <1>1, <1>2, <2>1, <2>2, <3>1 DEF Fenced, BlockTimeFitsNow
    <3>2. CASE ~ req[p].block
      <4>1. p \in Unblocking(d)
        BY <1>1, <1>2, <3>2 DEF Unblocking
      <4>2. Unblocking(d)' \subseteq Unblocking(d) \ {p}
        BY <1>1, <1>2, <1>3, WaitingMoves
      <4>3. Cardinality(Unblocking(d) \ {p}) = Cardinality(Unblocking(d)) - 1
        BY <2>3, <4>1, Counts
      <4>4. Unblocking(d) \ {p} \subseteq Procs
        BY <2>3
      <4>5. Cardinality(Unblocking(d)') <= Cardinality(Unblocking(d) \ {p})
        BY <4>2, <4>4, Counts
      <4>6. BlockTimeFitsNow(row[d]) => BlockTimeFitsNow(row[d])'
        BY <1>1, <1>2, <3>2 DEF BlockTimeFitsNow
      <4> QED BY <1>1, <1>2, <2>1, <2>2, <2>4, <4>3, <4>5, <4>6 DEF Fenced
    <3> QED BY <3>1, <3>2
  <2> QED BY <1>1, <1>2, <2>2, <2>6, <2>7 DEF Tried
<1> QED BY <1>4, <1>5 DEF TriesInv

\* A request cut off: what it was to count has lapsed.
LEMMA CrashTried ==
  ASSUME TypeOK, TypeOK', TriesInv, NEW p \in Procs, Crash(p)
  PROVE  TriesInv'
<1>0. PICK d \in Devices : d = req[p].dev
  BY EndEffect
<1> DEFINE lapsed == req[p].pc = "wrong" /\ req[p].gen = row[d].gen
<1>1. req'[p].pc = "idle" /\ UNCHANGED <<now, row, guesses>>
  BY EndEffect DEF IdleReq
<1>2. \A o \in Procs \ {p} : req'[o] = req[o]
  BY OthersStay DEF Step
<1>3. lapses' = [lapses EXCEPT ![d] = IF lapsed THEN lapses[d] + 1 ELSE lapses[d]]
  BY <1>0 DEF Crash
<1> HIDE DEF lapsed
<1>4. /\ lapses'[d] = IF lapsed THEN lapses[d] + 1 ELSE lapses[d]
      /\ \A e \in Devices \ {d} : lapses'[e] = lapses[e]
  BY <1>1, <1>3 DEF TypeOK
<1>5. ASSUME NEW e \in Devices \ {d} PROVE Tried(e)'
  BY <1>0, <1>1, <1>2, <1>4, SameTried DEF SameFence
<1>6. Tried(d)'
  <2>1. /\ guesses[d] \in Nat /\ lapses[d] \in Nat /\ row[d].wrong \in Nat
        /\ MaxWrong \in Nat
    BY <1>1, TriesTypes, LimitsAssumption
  <2>2. /\ Guessed(d) /\ Bounded(d) /\ Fenced(d) /\ row[d].created <= now
    BY <1>1 DEF TriesInv, Tried
  <2>3. /\ Waiting(d) \subseteq Procs /\ Waiting(d)' \subseteq Procs
        /\ Unblocking(d) \subseteq Procs /\ Unblocking(d)' \subseteq Procs
    BY DEF Waiting, Unblocking
  <2>4. /\ Cardinality(Waiting(d)) \in Nat /\ Cardinality(Waiting(d)') \in Nat
        /\ Cardinality(Unblocking(d)) \in Nat /\ Cardinality(Unblocking(d)') \in Nat
        /\ Cardinality(Procs) \in Nat
    BY <2>3, Counts
  <2>5. Waiting(d) \ {p} \subseteq Waiting(d)'
    BY <1>1, <1>2, WaitingMoves
  <2>6. Cardinality(Waiting(d) \ {p}) <= Cardinality(Waiting(d)')
    BY <2>3, <2>5, Counts
  <2>7. Cardinality(Waiting(d)) <= Cardinality(Waiting(d)') + (lapses'[d] - lapses[d])
    <3>1. CASE p \in Waiting(d)
      <4>1. Cardinality(Waiting(d) \ {p}) = Cardinality(Waiting(d)) - 1
        BY <2>3, <3>1, Counts
      <4>2. lapses'[d] = lapses[d] + 1
        BY <1>4, <3>1 DEF lapsed, Waiting
      <4> QED BY <2>1, <2>4, <2>6, <4>1, <4>2
    <3>2. CASE p \notin Waiting(d)
      <4>1. Waiting(d) \ {p} = Waiting(d)
        BY <3>2
      <4> QED BY <1>4, <2>1, <2>4, <2>6, <4>1
    <3> QED BY <3>1, <3>2
  <2>8. lapses'[d] \in Nat /\ lapses'[d] >= lapses[d]
    BY <1>4, <2>1
  <2>9. Guessed(d)' /\ Bounded(d)'
    BY <1>1, <2>1, <2>2, <2>4, <2>7, <2>8 DEF Guessed, Bounded
  <2>10. Fenced(d)'
    <3>1. Unblocking(d)' \subseteq Unblocking(d)
      BY <1>1, <1>2 DEF Unblocking
    <3>2. Cardinality(Unblocking(d)') <= Cardinality(Unblocking(d))
      BY <2>3, <3>1, Counts
    <3> QED BY <1>1, <2>1, <2>2, <2>4, <3>2 DEF Fenced, BlockTimeFitsNow
  <2> QED BY <1>1, <2>2, <2>9, <2>10 DEF Tried
<1> QED BY <1>5, <1>6 DEF TriesInv

LEMMA StepTried ==
  ASSUME TypeOK, TypeOK', TriesInv, ~ StaleReads, NEW p \in Procs, Step(p)
  PROVE  TriesInv'
<1>1. \A o \in Procs \ {p} : req'[o] = req[o]
  BY OthersStay
<1>2. ASSUME NEW d \in Devices,
             ValidateEmailSignIn(p, d) \/ \E code \in Codes : ResolveUser(p, d, code)
      PROVE  TriesInv'
  <2>1. /\ req[p].pc # "wrong" /\ req'[p].pc # "wrong"
        /\ UNCHANGED <<now, row, guesses, lapses>>
    BY <1>2, StartEffect DEF Ghosts
  <2> QED BY <1>1, <2>1, SameTried DEF TriesInv, SameFence
<1>3. CASE FinishAuthProcess(p)
  <2>1. /\ req[p].pc # "wrong" /\ req'[p].pc # "wrong"
        /\ UNCHANGED <<now, guesses, lapses>>
        /\ \A e \in Devices : SameFence(row'[e], row[e])
    BY <1>3, FinishEffect DEF FinishAuthProcess, IdleReq, SameFence
  <2> QED BY <1>1, <2>1, SameTried DEF TriesInv
<1>4. CASE ResetLoginSession(p)
  <2>1. /\ req[p].pc # "wrong" /\ req'[p].pc # "wrong"
        /\ UNCHANGED <<now, guesses, lapses>>
        /\ \A e \in Devices : SameFence(row'[e], row[e])
    BY <1>4, ResetEffect DEF ResetLoginSession, Ghosts, SameFence
  <2> QED BY <1>1, <2>1, SameTried DEF TriesInv
<1>5. ASSUME NEW t \in tokens, RefreshToken(p, t) PROVE TriesInv'
  <2>1. /\ req[p].pc = "idle" /\ req'[p].pc = "reply" /\ SameFence(row'[t.dev], row[t.dev])
        /\ \A e \in Devices \ {t.dev} : row'[e] = row[e]
    BY <1>5, RefreshEffect
  <2>2. \A e \in Devices : SameFence(row'[e], row[e])
    BY <2>1 DEF SameFence
  <2>3. UNCHANGED <<now, guesses, lapses>>
    BY <1>5 DEF RefreshToken
  <2> QED BY <1>1, <2>1, <2>2, <2>3, SameTried DEF TriesInv
<1>6. CASE Reply(p)
  <2>1. /\ req[p].pc # "wrong" /\ req'[p].pc # "wrong"
        /\ UNCHANGED <<now, row, guesses, lapses>>
    BY <1>6, EndEffect DEF Reply, IdleReq, Ghosts
  <2> QED BY <1>1, <2>1, SameTried DEF TriesInv, SameFence
<1> QED BY <1>2, <1>3, <1>4, <1>5, <1>6, UpsertTried, ReadTried, WrongTried, CrashTried DEF Step

LEMMA TriesStep == TypeOK /\ TypeOK' /\ TriesInv /\ ~ StaleReads /\ [Next]_vars => TriesInv'
<1> SUFFICES ASSUME TypeOK, TypeOK', TriesInv, ~ StaleReads, [Next]_vars PROVE TriesInv'
  OBVIOUS
<1>1. ASSUME UNCHANGED <<row, req, guesses, lapses>>, now' \in {now, now + 1}
      PROVE  TriesInv'
  <2> SUFFICES ASSUME NEW d \in Devices PROVE Tried(d)'
    BY DEF TriesInv
  <2>1. Tried(d) /\ Waiting(d)' = Waiting(d) /\ Unblocking(d)' = Unblocking(d)
    BY <1>1 DEF TriesInv, Waiting, Unblocking
  <2>2. now \in Nat /\ row[d].created \in Nat /\ row[d].blocked \in Nat /\ BlockDuration \in Nat
    BY TriesTypes, LimitsAssumption
  <2>3. BlockTimeFitsNow(row[d]) => BlockTimeFitsNow(row[d])'
    BY <1>1, <2>2 DEF BlockTimeFitsNow
  <2> QED BY <1>1, <2>1, <2>2, <2>3 DEF Tried, Guessed, Bounded, Fenced
<1>2. CASE UNCHANGED vars
  BY <1>1, <1>2 DEF vars
<1>3. ASSUME NEW t \in tokens, CreateUser(t) PROVE TriesInv'
  BY <1>1, <1>3 DEF CreateUser, Ghosts
<1>4. ASSUME NEW d \in Devices, Replicate(d) PROVE TriesInv'
  BY <1>1, <1>4 DEF Replicate, Ghosts
<1>5. CASE Tick
  BY <1>1, <1>5 DEF Tick, Ghosts
<1> QED BY <1>2, <1>3, <1>4, <1>5, StepTried DEF Next, Step

LEMMA TriesInit == Init => TriesInv
<1> SUFFICES ASSUME Init, NEW d \in Devices PROVE Tried(d)
  BY DEF TriesInv
<1>1. /\ row[d].wrong = 0 /\ row[d].created = 0 /\ guesses[d] = 0 /\ lapses[d] = 0 /\ now = 1
      /\ \A p \in Procs : req[p].pc = "idle"
  BY DEF Init, NewRow, IdleReq
<1>2. Waiting(d) = {} /\ Unblocking(d) = {}
  BY <1>1 DEF Waiting, Unblocking
<1>3. /\ Cardinality(Procs) \in Nat /\ MaxWrong \in Nat \ {0}
      /\ Cardinality(Waiting(d)) = 0 /\ Cardinality(Unblocking(d)) = 0
  BY <1>2, FS_EmptySet, FS_CardinalityType, ProcsAssumption, LimitsAssumption
<1>4. Guessed(d) /\ Bounded(d)
  BY <1>1, <1>3 DEF Guessed, Bounded
<1>5. Fenced(d)
  <2>1. Cardinality(Procs) # 0
    BY FS_EmptySet, ProcsAssumption
  <2> QED BY <1>1, <1>3, <2>1 DEF Fenced
<1> QED BY <1>1, <1>4, <1>5 DEF Tried

\* No more wrong codes are compared with one confirmation code than the limit
\* and the requests that run at once allow (verifySignIn decides on a count
\* increaseWrongConfirmationCodeAttemptsCount has yet to write); a read replica
\* that lags would allow more.
THEOREM GuessesBoundedHolds ==
  ASSUME ~ StaleReads PROVE Spec => []GuessesBounded
<1>1. Init => TypeOK /\ TriesInv
  BY TypeInit, TriesInit
<1>2. TypeOK /\ TriesInv /\ [Next]_vars => (TypeOK /\ TriesInv)'
  BY TypeStep, TriesStep
<1>3. TriesInv => GuessesBounded
  BY DEF TriesInv, Tried, Bounded, GuessesBounded
<1> QED BY <1>1, <1>2, <1>3, PTL DEF Spec

\* A row that counted more wrong codes than requests that ran at once can
\* explain is blocked, with a time the next request takes seriously.
THEOREM BlockNotMissedHolds ==
  ASSUME ~ StaleReads PROVE Spec => []BlockNotMissed
<1>1. Init => TypeOK /\ TriesInv
  BY TypeInit, TriesInit
<1>2. TypeOK /\ TriesInv /\ [Next]_vars => (TypeOK /\ TriesInv)'
  BY TypeStep, TriesStep
<1>3. TypeOK /\ TriesInv => BlockNotMissed
  <2> SUFFICES ASSUME TypeOK, TriesInv, NEW d \in Devices,
                      row[d].wrong > MaxWrong + Cardinality(Procs) - 2
               PROVE  BlockTimeFitsNow(row[d])
    BY DEF BlockNotMissed
  <2>1. /\ row[d].wrong \in Nat /\ Cardinality(Unblocking(d)) \in Nat
        /\ Cardinality(Procs) \in Nat /\ MaxWrong \in Nat
    BY TriesTypes, Counts, LimitsAssumption
  <2> QED BY <2>1 DEF TriesInv, Tried, Fenced
<1> QED BY <1>1, <1>2, <1>3, PTL DEF Spec
-----------------------------------------------------------------------------
(* Sign-ins with a code that was redeemed.  The late one raises the token    *)
(* number, so that no other request or replica has the number the row has    *)
(* together with the code.                                                   *)

Coded ==
  \A p \in Procs : req[p].pc \in {"read", "wrong", "finish", "reset"} => req[p].code \in Codes

\* No number read is ahead of the row.
Seen ==
  \A d \in Devices :
    /\ replica[d].issued <= row[d].issued
    /\ \A p \in Procs : req[p].pc = "finish" /\ req[p].dev = d => req[p].seq <= row[d].issued

Spent(d) ==
  /\ late[d] = 1 /\ row[d].code \in UserIDs
  /\ \A p \in Procs :
       req[p].pc = "finish" /\ req[p].dev = d /\ req[p].gen = row[d].gen =>
         req[p].seq # row[d].issued
  /\ replica[d].issued < row[d].issued \/ replica[d].code \notin Codes

LateInv == Coded /\ Seen /\ \A d \in Devices : late[d] = 0 \/ Spent(d)

LEMMA CodedStep ==
  ASSUME TypeOK, Coded, NEW p \in Procs, Step(p)
  PROVE  Coded'
<1>1. \A o \in Procs \ {p} : req'[o] = req[o]
  BY OthersStay
<1>2. req'[p].pc \in {"read", "wrong", "finish", "reset"} => req'[p].code \in Codes
  <2>1. ASSUME NEW d \in Devices,
               ValidateEmailSignIn(p, d) \/ \E code \in Codes : ResolveUser(p, d, code)
        PROVE  <1>2
    BY <2>1, StartEffect
  <2>2. CASE ReadSignIn(p)
    <3>1. req[p].pc = "read"
      BY <2>2 DEF ReadSignIn
    <3>2. req'[p].pc = "idle" \/ req'[p].code = req[p].code
      BY <2>2, ReadEffect DEF IdleReq
    <3> QED BY <3>1, <3>2 DEF Coded
  <2>3. CASE FinishAuthProcess(p)
    <3>1. req[p].pc = "finish"
      BY <2>3 DEF FinishAuthProcess
    <3>2. req'[p].pc = "idle" \/ req'[p].code = req[p].code
      BY <2>3, FinishEffect DEF IdleReq
    <3> QED BY <3>1, <3>2 DEF Coded
  <2>4. CASE UpsertEmailLinkSignIn(p)
    BY <2>4, UpsertEffect DEF IdleReq
  <2>5. CASE IncreaseWrongAttempts(p)
    BY <2>5, WrongEffect DEF IdleReq
  <2>6. CASE ResetLoginSession(p)
    BY <2>6, ResetEffect
  <2>7. ASSUME NEW t \in tokens, RefreshToken(p, t)
        PROVE  <1>2
    BY <2>7, RefreshEffect
  <2>8. CASE Reply(p) \/ Crash(p)
    BY <2>8, EndEffect DEF IdleReq
  <2> QED BY <2>1, <2>2, <2>3, <2>4, <2>5, <2>6, <2>7, <2>8 DEF Step
<1> QED BY <1>1, <1>2 DEF Coded

\* What a step of request p may do to one device.
Later(p, d) ==
  /\ row'[d].issued >= row[d].issued /\ replica' = replica
  /\ req'[p].pc = "finish" /\ req'[p].dev = d =>
       \E r \in Readable(d) :
         req'[p].seq = r.issued /\ req'[p].gen = r.gen /\ r.code \in Codes
  /\ \/ late'[d] = 0
     \/ /\ late'[d] = late[d] /\ row'[d].gen = row[d].gen
        /\ row'[d].code \in UserIDs \/ row'[d].code = row[d].code
     \/ /\ late'[d] = late[d] + 1 /\ row'[d].code = row[d].code /\ row[d].code \in UserIDs
        /\ row'[d].issued > row[d].issued
        /\ req[p].pc = "finish" /\ req[p].dev = d
        /\ req[p].gen = row[d].gen /\ req[p].seq = row[d].issued

LEMMA LaterKeeps ==
  ASSUME TypeOK, TypeOK', LateInv, NEW p \in Procs, NEW d \in Devices,
         \A o \in Procs \ {p} : req'[o] = req[o], Later(p, d)
  PROVE  /\ replica'[d].issued <= row'[d].issued
         /\ \A o \in Procs : req'[o].pc = "finish" /\ req'[o].dev = d =>
              req'[o].seq <= row'[d].issued
         /\ late'[d] = 0 \/ Spent(d)'
<1>1. /\ row[d].issued \in Nat /\ replica[d].issued \in Nat /\ row'[d].issued \in Nat
      /\ late[d] \in Nat /\ \A o \in Procs : req[o].seq \in Nat
  BY DEF TypeOK, Row, Req
<1>2. Codes \cap UserIDs = {}
  BY CodesAssumption
<1>3. /\ replica[d].issued <= row[d].issued
      /\ \A o \in Procs : req[o].pc = "finish" /\ req[o].dev = d => req[o].seq <= row[d].issued
      /\ late[d] = 0 \/ Spent(d)
  BY DEF LateInv, Seen
<1>4. row'[d].issued >= row[d].issued /\ replica' = replica
  BY DEF Later
<1>5. ASSUME req'[p].pc = "finish", req'[p].dev = d
      PROVE  /\ req'[p].seq \in {row[d].issued, replica[d].issued}
             /\ Spent(d) => req'[p].seq < row[d].issued
  <2>1. PICK r \in Readable(d) : req'[p].seq = r.issued /\ r.code \in Codes
    BY <1>5 DEF Later
  <2>2. r \in {row[d], replica[d]}
    BY DEF Readable
  <2>3. Spent(d) => r = replica[d] /\ replica[d].issued < row[d].issued
    BY <1>2, <2>1, <2>2 DEF Spent
  <2> QED BY <2>1, <2>2, <2>3
<1>6. ASSUME NEW o \in Procs, req'[o].pc = "finish", req'[o].dev = d
      PROVE  /\ req'[o].seq <= row[d].issued /\ req'[o].seq \in Nat
             /\ Spent(d) /\ req'[o].gen = row[d].gen => req'[o].seq # row[d].issued
  <2>1. CASE o = p
    BY <1>1, <1>3, <1>5, <1>6, <2>1
  <2>2. CASE o # p
    <3>1. req'[o] = req[o]
      BY <2>2
    <3> QED BY <1>1, <1>3, <1>6, <3>1 DEF Spent
  <2> QED BY <2>1, <2>2
<1>7. /\ replica'[d].issued <= row'[d].issued
      /\ \A o \in Procs : req'[o].pc = "finish" /\ req'[o].dev = d =>
           req'[o].seq <= row'[d].issued
  BY <1>1, <1>3, <1>4, <1>6
<1>8. late'[d] = 0 \/ Spent(d)'
  <2>1. CASE late'[d] = 0
    BY <2>1
  <2>2. CASE /\ late'[d] = late[d] /\ row'[d].gen = row[d].gen
             /\ row'[d].code \in UserIDs \/ row'[d].code = row[d].code
    <3>1. CASE late[d] = 0
      BY <2>2, <3>1
    <3>2. CASE Spent(d)
      <4>1. late'[d] = 1 /\ row'[d].code \in UserIDs
        BY <2>2, <3>2 DEF Spent
      <4>2. replica'[d].issued < row'[d].issued \/ replica'[d].code \notin Codes
        BY <1>1, <1>4, <3>2 DEF Spent
      <4>3. ASSUME NEW o \in Procs, req'[o].pc = "finish", req'[o].dev = d,
                   req'[o].gen = row'[d].gen
            PROVE  req'[o].seq # row'[d].issued
        <5>1. /\ req'[o].seq <= row[d].issued /\ req'[o].seq \in Nat
              /\ req'[o].seq # row[d].issued
          BY <1>6, <2>2, <3>2, <4>3
        <5> QED BY <1>1, <1>4, <5>1
      <4> QED BY <4>1, <4>2, <4>3 DEF Spent
    <3> QED BY <1>3, <3>1, <3>2
  <2>3. CASE /\ late'[d] = late[d] + 1 /\ row'[d].code = row[d].code /\ row[d].code \in UserIDs
             /\ row'[d].issued > row[d].issued
             /\ req[p].pc = "finish" /\ req[p].dev = d
             /\ req[p].gen = row[d].gen /\ req[p].seq = row[d].issued
    <3>1. ~ Spent(d)
      BY <2>3 DEF Spent
    <3>2. late'[d] = 1 /\ row'[d].code \in UserIDs
      BY <1>3, <2>3, <3>1
    <3>3. replica'[d].issued < row'[d].issued
      BY <1>1, <1>3, <1>4, <2>3
    <3>4. ASSUME NEW o \in Procs, req'[o].pc = "finish", req'[o].dev = d
          PROVE  req'[o].seq # row'[d].issued
      BY <1>1, <1>6, <2>3, <3>4
    <3> QED BY <3>2, <3>3, <3>4 DEF Spent
  <2> QED BY <2>1, <2>2, <2>3 DEF Later
<1> QED BY <1>7, <1>8

LEMMA StepLater ==
  ASSUME TypeOK, TypeOK', LateInv, NEW p \in Procs, Step(p), NEW d \in Devices
  PROVE  Later(p, d)
<1>1. /\ row[d].issued \in Nat
      /\ req'[p].pc = "idle" \/ req'[p].pc \in {"upsert", "read", "wrong", "finish",
                                                "reset", "reply"}
  BY DEF TypeOK, Row, Req, PCs
<1>2. ASSUME UNCHANGED <<row, replica, late>>, req'[p].pc # "finish"
      PROVE  Later(p, d)
  BY <1>1, <1>2 DEF Later
<1>3. ASSUME NEW e \in Devices,
             ValidateEmailSignIn(p, e) \/ \E code \in Codes : ResolveUser(p, e, code)
      PROVE  Later(p, d)
  <2>1. UNCHANGED <<row, replica, late>> /\ req'[p].pc # "finish"
    BY <1>3, StartEffect DEF Ghosts
  <2> QED BY <1>2, <2>1
<1>4. CASE UpsertEmailLinkSignIn(p)
  <2>1. replica' = replica /\ req'[p].pc = "idle"
    BY <1>4, UpsertEffect DEF UpsertEmailLinkSignIn, IdleReq
  <2>2. CASE row'[d] = row[d] /\ late'[d] = late[d]
    BY <1>1, <2>1, <2>2 DEF Later
  <2>3. CASE late'[d] = 0 /\ row'[d].issued = row[d].issued
    BY <1>1, <2>1, <2>3 DEF Later
  <2> QED BY <1>4, <2>2, <2>3, UpsertEffect
<1>5. CASE ReadSignIn(p)
  <2>1. UNCHANGED <<row, replica, late>> /\ req[p].code \in Codes
    BY <1>5 DEF ReadSignIn, LateInv, Coded
  <2>2. req'[p].pc = "finish" /\ req'[p].dev = d =>
          \E r \in Readable(d) :
            req'[p].seq = r.issued /\ req'[p].gen = r.gen /\ r.code \in Codes
    BY <1>5, <2>1, ReadEffect DEF IdleReq
  <2> QED BY <1>1, <2>1, <2>2 DEF Later
<1>6. CASE IncreaseWrongAttempts(p)
  <2>0. UNCHANGED <<replica, late>>
    BY <1>6 DEF IncreaseWrongAttempts, Ghosts
  <2>1. replica' = replica /\ late' = late /\ req'[p].pc = "idle"
    BY <1>6, <2>0, WrongEffect DEF IdleReq
  <2>2. /\ row'[d].issued = row[d].issued /\ row'[d].gen = row[d].gen
        /\ row'[d].code = row[d].code
    BY <1>6, WrongEffect
  <2> QED BY <1>1, <2>1, <2>2 DEF Later
<1>7. CASE FinishAuthProcess(p)
  <2>1. replica' = replica /\ req[p].pc = "finish" /\ req'[p].pc # "finish"
    BY <1>7, FinishEffect DEF FinishAuthProcess, IdleReq
  <2>2. CASE row'[d] = row[d] /\ late'[d] = late[d]
    BY <1>1, <2>1, <2>2 DEF Later
  <2>3. CASE d = req[p].dev /\ ~ (row'[d] = row[d] /\ late'[d] = late[d])
    <3>1. /\ row[d].issued = req[p].seq /\ row'[d].issued = row[d].issued + 1
          /\ row'[d].code = row[d].code /\ row'[d].gen = row[d].gen
          /\ late'[d] = IF row[d].code \in UserIDs /\ row[d].gen = req[p].gen
                        THEN late[d] + 1 ELSE late[d]
      BY <1>7, <2>3, FinishEffect DEF SameFence
    <3> QED BY <1>1, <2>1, <2>3, <3>1 DEF Later
  <2> QED BY <1>7, <2>2, <2>3, FinishEffect
<1>8. CASE ResetLoginSession(p)
  <2>1. UNCHANGED <<replica, late>> /\ req'[p].pc = "reply" /\ req[p].uid \in UserIDs
    BY <1>8, ResetEffect DEF ResetLoginSession, Ghosts, TypeOK
  <2>2. /\ row'[d].issued = row[d].issued /\ row'[d].gen = row[d].gen
        /\ row'[d].code = row[d].code \/ row'[d].code = req[p].uid
    BY <1>8, ResetEffect DEF SameFence
  <2> QED BY <1>1, <2>1, <2>2 DEF Later
<1>9. ASSUME NEW t \in tokens, RefreshToken(p, t)
      PROVE  Later(p, d)
  <2>1. UNCHANGED <<replica, late>> /\ req'[p].pc = "reply"
    BY <1>9, RefreshEffect DEF RefreshToken
  <2>2. /\ row'[d].issued \in {row[d].issued, row[d].issued + 1}
        /\ row'[d].gen = row[d].gen /\ row'[d].code = row[d].code
    <3>1. CASE d = t.dev
      BY <1>9, <3>1, RefreshEffect DEF SameFence
    <3>2. CASE d # t.dev
      BY <1>9, <3>2, RefreshEffect
    <3> QED BY <3>1, <3>2
  <2> QED BY <1>1, <2>1, <2>2 DEF Later
<1>10. CASE Reply(p) \/ Crash(p)
  <2>1. UNCHANGED <<row, replica, late>> /\ req'[p].pc = "idle"
    BY <1>10, EndEffect DEF IdleReq
  <2> QED BY <1>2, <2>1
<1> QED BY <1>3, <1>4, <1>5, <1>6, <1>7, <1>8, <1>9, <1>10 DEF Step

LEMMA LateStep == TypeOK /\ TypeOK' /\ LateInv /\ [Next]_vars => LateInv'
<1> SUFFICES ASSUME TypeOK, TypeOK', LateInv, [Next]_vars PROVE LateInv'
  OBVIOUS
<1>1. ASSUME UNCHANGED <<row, req, replica, late>> PROVE LateInv'
  BY <1>1 DEF LateInv, Coded, Seen, Spent
<1>2. CASE UNCHANGED vars \/ Tick \/ \E t \in tokens : CreateUser(t)
  BY <1>1, <1>2 DEF vars, Tick, CreateUser, Ghosts
<1>3. ASSUME NEW d \in Devices, Replicate(d) PROVE LateInv'
  <2>1. UNCHANGED <<row, req, late>> /\ replica' = [replica EXCEPT ![d] = row[d]]
    BY <1>3 DEF Replicate, Ghosts
  <2>2. \A e \in Devices : replica'[e] = IF e = d THEN row[e] ELSE replica[e]
    BY <2>1 DEF TypeOK
  <2>3. \A e \in Devices : row[e].issued \in Nat
    BY DEF TypeOK, Row
  <2>4. Codes \cap UserIDs = {}
    BY CodesAssumption
  <2>5. Coded' /\ Seen'
    BY <2>1, <2>2, <2>3 DEF LateInv, Coded, Seen
  <2>6. ASSUME NEW e \in Devices, Spent(e) PROVE Spent(e)'
    BY <2>1, <2>2, <2>4, <2>6 DEF Spent
  <2> QED BY <2>1, <2>5, <2>6 DEF LateInv
<1>4. ASSUME NEW p \in Procs, Step(p) PROVE LateInv'
  <2>1. \A o \in Procs \ {p} : req'[o] = req[o]
    BY <1>4, OthersStay
  <2>2. Coded'
    BY <1>4, CodedStep DEF LateInv
  <2>3. ASSUME NEW d \in Devices
        PROVE  /\ replica'[d].issued <= row'[d].issued
               /\ \A o \in Procs : req'[o].pc = "finish" /\ req'[o].dev = d =>
                    req'[o].seq <= row'[d].issued
               /\ late'[d] = 0 \/ Spent(d)'
    <3>1. Later(p, d)
      BY <1>4, StepLater
    <3> QED BY <2>1, <3>1, LaterKeeps
  <2> QED BY <2>2, <2>3 DEF LateInv, Seen
<1> QED BY <1>2, <1>3, <1>4 DEF Next, Step

LEMMA LateInit == Init => LateInv
BY DEF Init, LateInv, Coded, Seen, NewRow, IdleReq

\* A code completes at most one sign-in more once it was redeemed, the one that
\* read the row between finishAuthProcess and resetLoginSession, whatever the
\* replica shows, codes that repeat, and requests that are cut off.
THEOREM LateSignInsBoundedHolds == Spec => []LateSignInsBounded
<1>1. Init => TypeOK /\ LateInv
  BY TypeInit, LateInit
<1>2. TypeOK /\ LateInv /\ [Next]_vars => (TypeOK /\ LateInv)'
  BY TypeStep, LateStep
<1>3. LateInv => LateSignInsBounded
  BY DEF LateInv, Spent, LateSignInsBounded
<1> QED BY <1>1, <1>2, <1>3, PTL DEF Spec
-----------------------------------------------------------------------------
(* A used code bought a session.  When no code is drawn that is still about  *)
(* and no request is cut off, every number the row accepts was given to the  *)
(* user of the row, and a row whose code was used has given one.             *)

\* A request or a client has a number the row accepts.
Accepted(d, dev, seq) == dev = d /\ seq >= row[d].prev

Owned(d) ==
  row[d].user # None =>
    /\ \A p \in Procs : Granted(p) /\ Accepted(d, req[p].dev, req[p].seq) =>
         req[p].uid = row[d].user
    /\ \A t \in tokens : Accepted(d, t.dev, t.seq) => t.uid = row[d].user

Bought(d) ==
  row[d].code \in UserIDs =>
    /\ row[d].user # None
    /\ \/ \E t \in tokens : Accepted(d, t.dev, t.seq)
       \/ \E p \in Procs : Granted(p) /\ Accepted(d, req[p].dev, req[p].seq)

\* One that is to retire a code started its session after that code was drawn.
Retiring(d) ==
  \A p \in Procs : req[p].pc = "reset" /\ req[p].dev = d =>
    row[d].user # None \/ row[d].code # req[p].code

Sold(d) == Owned(d) /\ Bought(d) /\ Retiring(d)
SessionInv == Coded /\ \A d \in Devices : Sold(d)

LEMMA SessionTypes ==
  ASSUME TypeOK
  PROVE  /\ \A d \in Devices : row[d].issued \in Nat /\ row[d].prev \in Nat
         /\ \A t \in tokens : t.dev \in Devices /\ t.uid \in UserIDs /\ t.seq \in Nat
         /\ \A p \in Procs : req[p].seq \in Nat
         /\ \A p \in Procs : Granted(p) => req[p].dev \in Devices /\ req[p].uid \in UserIDs
         /\ None \notin UserIDs /\ None \notin Codes /\ Codes \cap UserIDs = {}
BY CodesAssumption DEF TypeOK, Row, Token, Req, Granted

\* A step of a request that has and gets no number, for a row that keeps its
\* numbers and its user, and whose code was not used or stays.
LEMMA SameSold ==
  ASSUME SessionInv, NEW p \in Procs, NEW d \in Devices,
         \A o \in Procs \ {p} : req'[o] = req[o],
         ~ Granted(p), ~ Granted(p)', tokens' = tokens,
         row'[d].prev = row[d].prev, row'[d].user = row[d].user,
         row'[d].code = row[d].code
  PROVE  Sold(d)'
<1>1. Sold(d)
  BY DEF SessionInv
<1>2. \A o \in Procs : Granted(o)' <=> Granted(o)
  BY DEF Granted
<1>3. \A o \in Procs : Granted(o)' => req'[o] = req[o]
  BY <1>2
<1>4. Owned(d)'
  BY <1>1, <1>2, <1>3 DEF Sold, Owned, Accepted
<1>5. Bought(d)'
  BY <1>1, <1>2, <1>3 DEF Sold, Bought, Accepted
<1>6. Retiring(d)'
  BY <1>1, <1>3 DEF Sold, Retiring, Granted
<1> QED BY <1>4, <1>5, <1>6 DEF Sold

\* A new code: nobody that is to retire one has it.
LEMMA UpsertSold ==
  ASSUME TypeOK, ~ CodesRepeat, SessionInv, NEW p \in Procs, UpsertEmailLinkSignIn(p),
         NEW d \in Devices
  PROVE  Sold(d)'
<1>1. \A o \in Procs \ {p} : req'[o] = req[o]
  BY OthersStay DEF Step
<1>2. ~ Granted(p) /\ ~ Granted(p)' /\ tokens' = tokens /\ req'[p].pc = "idle"
  BY UpsertEffect DEF Granted, UpsertEmailLinkSignIn, IdleReq
<1>3. CASE row'[d] = row[d]
  BY <1>1, <1>2, <1>3, SameSold
<1>4. CASE row'[d].code \in Drawable(row[d]) /\ row'[d].user = None
  <2>1. row'[d].code \in Codes /\ \A o \in Procs : req[o].code # row'[d].code
    BY <1>4 DEF Drawable
  <2>2. row'[d].code \notin UserIDs
    BY <2>1, CodesAssumption
  <2>3. Retiring(d)'
    BY <1>1, <1>2, <2>1 DEF Retiring
  <2> QED BY <1>4, <2>2, <2>3 DEF Sold, Owned, Bought
<1> QED BY <1>3, <1>4, UpsertEffect

\* A session is started, or refreshed: its number is the only one, or one of
\* those, that the row accepts from then on.
LEMMA GrantSold ==
  ASSUME TypeOK, TypeOK', SeqInvariant, SessionInv, NEW p \in Procs, NEW d \in Devices,
         \A o \in Procs \ {p} : req'[o] = req[o], tokens' = tokens,
         Granted(p)', req'[p].dev = d, req'[p].seq = row[d].issued + 1,
         req'[p].uid = row'[d].user,
         row'[d].code = row[d].code,
         \/ row'[d].prev = row[d].issued + 1
         \/ /\ row'[d].prev >= row[d].prev /\ row'[d].user = row[d].user
            /\ row'[d].prev <= row[d].issued + 1
  PROVE  Sold(d)'
<1>1. row'[d].user \in UserIDs /\ row'[d].user # None
  BY CodesAssumption DEF TypeOK, Granted
<1>2. row[d].issued \in Nat /\ row[d].prev \in Nat /\ row'[d].prev \in Nat
  BY DEF TypeOK, Row
<1>3. /\ \A t \in tokens : t.dev = d => t.seq <= row[d].issued /\ t.seq \in Nat
      /\ \A o \in Procs : Granted(o) /\ req[o].dev = d =>
           req[o].seq <= row[d].issued /\ req[o].seq \in Nat
  BY SessionTypes DEF SeqInvariant
<1>4. \A o \in Procs \ {p} : Granted(o)' => Granted(o)
  BY DEF Granted
<1>5. Sold(d)
  BY DEF SessionInv
<1>6. Owned(d)'
  <2>1. ASSUME NEW t \in tokens, t.dev = d, t.seq >= row'[d].prev
        PROVE  t.uid = row'[d].user
    BY <1>1, <1>2, <1>3, <1>5, <2>1 DEF Sold, Owned, Accepted
  <2>2. ASSUME NEW o \in Procs, Granted(o)', req'[o].dev = d, req'[o].seq >= row'[d].prev
        PROVE  req'[o].uid = row'[d].user
    <3>1. CASE o = p
      BY <3>1
    <3>2. CASE o # p
      <4>1. Granted(o) /\ req'[o] = req[o]
        BY <1>4, <2>2, <3>2
      <4> QED BY <1>1, <1>2, <1>3, <1>5, <2>2, <4>1 DEF Sold, Owned, Accepted
    <3> QED BY <3>1, <3>2
  <2> QED BY <2>1, <2>2 DEF Owned, Accepted
<1>7. Bought(d)'
  <2>1. req'[p].seq >= row'[d].prev
    BY <1>2
  <2> QED BY <1>1, <2>1 DEF Bought, Accepted
<1> QED BY <1>1, <1>6, <1>7 DEF Sold, Retiring

LEMMA FinishSold ==
  ASSUME TypeOK, TypeOK', SeqInvariant, SessionInv, NEW p \in Procs, FinishAuthProcess(p),
         NEW d \in Devices
  PROVE  Sold(d)'
<1>1. \A o \in Procs \ {p} : req'[o] = req[o]
  BY OthersStay DEF Step
<1>2. ~ Granted(p) /\ tokens' = tokens
  BY DEF Granted, FinishAuthProcess
<1>3. CASE req'[p].pc = "idle" /\ row'[d] = row[d]
  <2>1. ~ Granted(p)'
    BY <1>3 DEF Granted
  <2> QED BY <1>1, <1>2, <1>3, <2>1, SameSold
<1>4. ASSUME d # req[p].dev, req'[p].pc = "reset"
      PROVE  Sold(d)'
  <2>1. row'[d] = row[d] /\ req'[p].dev # d
    BY <1>4, FinishEffect DEF IdleReq
  <2>2. Sold(d)
    BY DEF SessionInv
  <2>3. \A o \in Procs \ {p} : Granted(o)' <=> Granted(o)
    BY <1>1 DEF Granted
  <2> QED BY <1>1, <1>2, <2>1, <2>2, <2>3 DEF Sold, Owned, Bought, Retiring, Accepted
<1>5. CASE d = req[p].dev /\ req'[p].pc = "reset"
  <2>1. /\ req'[p].dev = d /\ req'[p].seq = row[d].issued + 1
        /\ req'[p].uid = row'[d].user /\ row'[d].code = row[d].code
        /\ row'[d].prev = row[d].issued + 1
    BY <1>5, FinishEffect DEF IdleReq
  <2>2. Granted(p)'
    BY <1>5 DEF Granted
  <2> QED BY <1>1, <1>2, <2>1, <2>2, GrantSold
<1> QED BY <1>3, <1>4, <1>5, FinishEffect DEF IdleReq

LEMMA RefreshSold ==
  ASSUME TypeOK, TypeOK', SeqInvariant, SessionInv, NEW p \in Procs,
         NEW t \in tokens, RefreshToken(p, t), NEW d \in Devices
  PROVE  Sold(d)'
<1>1. \A o \in Procs \ {p} : req'[o] = req[o]
  BY OthersStay DEF Step
<1>2. ~ Granted(p) /\ tokens' = tokens
  BY RefreshEffect DEF Granted, RefreshToken
<1>3. req'[p].pc = "reply" /\ req'[p].dev = t.dev /\ Granted(p)'
  BY RefreshEffect DEF Granted
<1>4. CASE d # t.dev
  <2>1. row'[d] = row[d]
    BY <1>4, RefreshEffect
  <2>2. Sold(d)
    BY DEF SessionInv
  <2>3. \A o \in Procs \ {p} : Granted(o)' <=> Granted(o)
    BY <1>1 DEF Granted
  <2> QED BY <1>1, <1>2, <1>3, <1>4, <2>1, <2>2, <2>3
          DEF Sold, Owned, Bought, Retiring, Accepted
<1>5. CASE d = t.dev
  <2>1. /\ CanRefresh(row[d], t.uid, t.seq)
        /\ req'[p].seq = row[d].issued + 1 /\ req'[p].uid = t.uid
        /\ row'[d].code = row[d].code /\ row'[d].user = t.uid /\ row'[d].prev = t.seq
    BY <1>5, RefreshEffect
  <2>2. /\ row[d].issued \in Nat /\ row[d].prev \in Nat /\ t.seq \in Nat
        /\ t.seq <= row[d].issued /\ row[d].prev <= row[d].issued
    BY <1>5, SessionTypes DEF SeqInvariant
  <2>3. row[d].user = t.uid /\ row[d].prev <= t.seq
    BY <2>1, <2>2 DEF CanRefresh
  <2>4. /\ req'[p].uid = row'[d].user
        /\ row'[d].prev >= row[d].prev /\ row'[d].user = row[d].user
        /\ row'[d].prev <= row[d].issued + 1
    BY <2>1, <2>2, <2>3
  <2> QED BY <1>1, <1>2, <1>3, <1>5, <2>1, <2>4, GrantSold
<1> QED BY <1>4, <1>5

LEMMA ResetSold ==
  ASSUME TypeOK, SeqInvariant, SessionInv, NEW p \in Procs, ResetLoginSession(p),
         NEW d \in Devices
  PROVE  Sold(d)'
<1>1. \A o \in Procs \ {p} : req'[o] = req[o]
  BY OthersStay DEF Step
<1>2. /\ req[p].pc = "reset" /\ req'[p].pc = "reply" /\ tokens' = tokens
      /\ req'[p].dev = req[p].dev /\ req'[p].uid = req[p].uid /\ req'[p].seq = req[p].seq
  BY ResetEffect DEF ResetLoginSession
<1>3. \A o \in Procs : /\ Granted(o)' <=> Granted(o)
                       /\ Granted(o) => /\ req'[o].dev = req[o].dev /\ req'[o].uid = req[o].uid
                                        /\ req'[o].seq = req[o].seq
  BY <1>1, <1>2 DEF Granted
<1>4. Sold(d) /\ row'[d].user = row[d].user /\ row'[d].prev = row[d].prev
  BY ResetEffect DEF SessionInv
<1>5. Owned(d)'
  BY <1>2, <1>3, <1>4 DEF Sold, Owned, Accepted
<1>6. CASE row'[d].code = row[d].code
  <2>1. Bought(d)'
    BY <1>2, <1>3, <1>4, <1>6 DEF Sold, Bought, Accepted
  <2>2. Retiring(d)'
    BY <1>1, <1>2, <1>4, <1>6 DEF Sold, Retiring
  <2> QED BY <1>5, <2>1, <2>2 DEF Sold
<1>7. CASE /\ d = req[p].dev /\ row[d].code = req[p].code /\ row[d].issued = req[p].seq
           /\ row'[d].code = req[p].uid
  <2>1. row[d].user # None
    BY <1>2, <1>4, <1>7 DEF Sold, Retiring
  <2>2. row[d].prev <= row[d].issued /\ row[d].prev \in Nat /\ row[d].issued \in Nat
    BY SessionTypes DEF SeqInvariant
  <2>3. Granted(p)' /\ req'[p].dev = d /\ req'[p].seq >= row'[d].prev
    BY <1>2, <1>4, <1>7, <2>2 DEF Granted
  <2>4. Bought(d)'
    BY <1>4, <2>1, <2>3 DEF Bought, Accepted
  <2>5. Retiring(d)'
    BY <1>4, <2>1 DEF Retiring
  <2> QED BY <1>5, <2>4, <2>5 DEF Sold
<1> QED BY <1>6, <1>7, ResetEffect

\* The number a request had is a client's.
LEMMA ReplySold ==
  ASSUME TypeOK, SessionInv, NEW p \in Procs, Reply(p), NEW d \in Devices
  PROVE  Sold(d)'
<1> DEFINE new == [dev |-> req[p].dev, uid |-> req[p].uid, seq |-> req[p].seq]
<1>1. \A o \in Procs \ {p} : req'[o] = req[o]
  BY OthersStay DEF Step
<1>2. /\ Granted(p) /\ tokens' = tokens \cup {new} /\ req'[p].pc = "idle" /\ row' = row
      /\ new.dev = req[p].dev /\ new.uid = req[p].uid /\ new.seq = req[p].seq
  BY EndEffect DEF Reply, Granted, IdleReq
<1> HIDE DEF new
<1>3. \A o \in Procs : Granted(o)' => o # p /\ Granted(o) /\ req'[o] = req[o]
  BY <1>1, <1>2 DEF Granted
<1>4. \A o \in Procs \ {p} : Granted(o) => Granted(o)'
  BY <1>1 DEF Granted
<1>5. Sold(d)
  BY DEF SessionInv
<1>6. Owned(d)'
  BY <1>2, <1>3, <1>5 DEF Sold, Owned, Accepted
<1>7. Bought(d)'
  <2> SUFFICES ASSUME row[d].code \in UserIDs
               PROVE  /\ row[d].user # None
                      /\ \/ \E t \in tokens' : Accepted(d, t.dev, t.seq)
                         \/ \E o \in Procs : Granted(o)' /\ Accepted(d, req'[o].dev, req'[o].seq)
    BY <1>2 DEF Bought, Accepted
  <2>1. row[d].user # None
    BY <1>5 DEF Sold, Bought
  <2>2. CASE \E t \in tokens : Accepted(d, t.dev, t.seq)
    BY <1>2, <2>1, <2>2
  <2>3. ASSUME NEW o \in Procs, Granted(o), Accepted(d, req[o].dev, req[o].seq)
        PROVE  \/ \E t \in tokens' : Accepted(d, t.dev, t.seq)
               \/ \E x \in Procs : Granted(x)' /\ Accepted(d, req'[x].dev, req'[x].seq)
    <3>1. CASE o = p
      BY <1>2, <2>3, <3>1
    <3>2. CASE o # p
      BY <1>1, <1>4, <2>3, <3>2
    <3> QED BY <3>1, <3>2
  <2> QED BY <1>5, <2>1, <2>2, <2>3 DEF Sold, Bought
<1>8. Retiring(d)'
  BY <1>1, <1>2, <1>5 DEF Sold, Retiring
<1> QED BY <1>6, <1>7, <1>8 DEF Sold

LEMMA StepSold ==
  ASSUME TypeOK, TypeOK', SeqInvariant, SessionInv, ~ Crashes, ~ CodesRepeat,
         NEW p \in Procs, Step(p), NEW d \in Devices
  PROVE  Sold(d)'
<1>1. \A o \in Procs \ {p} : req'[o] = req[o]
  BY OthersStay
<1>2. ASSUME NEW e \in Devices,
             ValidateEmailSignIn(p, e) \/ \E code \in Codes : ResolveUser(p, e, code)
      PROVE  Sold(d)'
  <2>1. ~ Granted(p) /\ ~ Granted(p)' /\ UNCHANGED <<row, tokens>>
    BY <1>2, StartEffect DEF Granted
  <2> QED BY <1>1, <2>1, SameSold
<1>3. CASE ReadSignIn(p)
  <2>1. ~ Granted(p) /\ UNCHANGED <<row, tokens>>
    BY <1>3 DEF ReadSignIn, Granted
  <2>2. ~ Granted(p)'
    BY <1>3, ReadEffect DEF Granted, IdleReq
  <2> QED BY <1>1, <2>1, <2>2, SameSold
<1>4. CASE IncreaseWrongAttempts(p)
  <2>1. ~ Granted(p) /\ tokens' = tokens
    BY <1>4 DEF IncreaseWrongAttempts, Granted
  <2>2. /\ ~ Granted(p)' /\ row'[d].prev = row[d].prev /\ row'[d].user = row[d].user
        /\ row'[d].code = row[d].code
    BY <1>4, WrongEffect DEF Granted, IdleReq
  <2> QED BY <1>1, <2>1, <2>2, SameSold
<1>5. ~ Crash(p)
  BY DEF Crash
<1> QED BY <1>2, <1>3, <1>4, <1>5, UpsertSold, FinishSold, RefreshSold, ResetSold, ReplySold
        DEF Step

LEMMA SessionStep ==
  /\ TypeOK /\ TypeOK' /\ SeqInvariant /\ SessionInv /\ ~ Crashes /\ ~ CodesRepeat
  /\ [Next]_vars
  => SessionInv'
<1> SUFFICES ASSUME TypeOK, TypeOK', SeqInvariant, SessionInv, ~ Crashes, ~ CodesRepeat,
                    [Next]_vars
             PROVE  SessionInv'
  OBVIOUS
<1>1. ASSUME UNCHANGED <<row, req, tokens>> PROVE SessionInv'
  BY <1>1 DEF SessionInv, Coded, Sold, Owned, Bought, Retiring, Accepted, Granted
<1>2. CASE \/ UNCHANGED vars \/ Tick
           \/ \E t \in tokens : CreateUser(t)
           \/ \E d \in Devices : Replicate(d)
  BY <1>1, <1>2 DEF vars, Tick, CreateUser, Replicate, Ghosts
<1>3. ASSUME NEW p \in Procs, Step(p) PROVE SessionInv'
  BY <1>3, StepSold, CodedStep DEF SessionInv
<1> QED BY <1>2, <1>3 DEF Next, Step

LEMMA SessionInit == Init => SessionInv
<1> SUFFICES ASSUME Init PROVE SessionInv
  OBVIOUS
<1>1. /\ \A d \in Devices : row[d].user = None /\ row[d].code = None
      /\ \A p \in Procs : req[p].pc = "idle"
  BY DEF Init, NewRow, IdleReq
<1> QED BY <1>1, CodesAssumption DEF SessionInv, Coded, Sold, Owned, Bought, Retiring

\* A code that was used up left its device with a token pair the row accepts,
\* sent or about to be sent, whatever sign-ins, refreshes and new codes ran at
\* once (finishAuthProcess, resetLoginSession, IncrementRefreshTokenSeq).  A
\* request that is cut off, or a code drawn again within three digits, may
\* leave none.
THEOREM CodeBuysSessionHolds ==
  ASSUME ~ Crashes, ~ CodesRepeat PROVE Spec => []CodeBuysSession
<1>1. Init => TypeOK /\ SeqInvariant /\ SessionInv
  BY TypeInit, SeqInit, SessionInit
<1>2. TypeOK /\ SeqInvariant /\ SessionInv /\ [Next]_vars =>
        (TypeOK /\ SeqInvariant /\ SessionInv)'
  BY TypeStep, SeqStep, SessionStep
<1>3. TypeOK /\ SeqInvariant /\ SessionInv => CodeBuysSession
  <2> SUFFICES ASSUME TypeOK, SeqInvariant, SessionInv, NEW d \in Devices,
                      row[d].code \in UserIDs
               PROVE  \/ \E t \in tokens : t.dev = d /\ CanRefresh(row[d], t.uid, t.seq)
                      \/ \E p \in Procs : /\ Granted(p) /\ req[p].dev = d
                                          /\ req[p].seq >= row[d].prev
    BY DEF CodeBuysSession
  <2>1. Owned(d) /\ Bought(d)
    BY DEF SessionInv, Sold
  <2>2. row[d].prev <= row[d].issued /\ row[d].prev \in Nat /\ row[d].issued \in Nat
    BY SessionTypes DEF SeqInvariant
  <2>3. ASSUME NEW t \in tokens, t.dev = d, t.seq >= row[d].prev
        PROVE  CanRefresh(row[d], t.uid, t.seq)
    BY <2>1, <2>2, <2>3, SessionTypes DEF Owned, Bought, Accepted, CanRefresh
  <2> QED BY <2>1, <2>3 DEF Bought, Accepted
<1> QED BY <1>1, <1>2, <1>3, PTL DEF Spec
=============================================================================
