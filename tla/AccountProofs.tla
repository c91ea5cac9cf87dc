---------------------------- MODULE AccountProofs ----------------------------
(***************************************************************************)
(* Proofs about an account as a whole, for any constants that satisfy the  *)
(* assumptions of Account, in scenes of any components: first of the parts *)
(* whose proofs are short, then of the account they belong to.             *)
(*                                                                         *)
(* Each component keeps the invariant that its own module proves.  A step  *)
(* of another component leaves its variables alone, but for the users row, *)
(* which the consumer of mining sessions writes as well: two columns that  *)
(* the scenarios carry along but decide nothing by.                        *)
(***************************************************************************)
EXTENDS Account, FiniteSetTheorems, TLAPS
-----------------------------------------------------------------------------
(* Signing in with Telegram: token pairs name one user per row, and their   *)
(* numbers are given out once.                                             *)

\* A row that has given out a number has a user, whom no request will change.
RowsOwned == \A t \in Telegrams : signIn[t].issued # 0 => signIn[t].user \in Users

\* A client presents what it has received.
TokensHeld == \A p \in Procs : tokenReq[p].pc = "increment" => tokenReq[p].token \in tokens

SigningInv ==
  /\ Telegram!TypeOK /\ RowsOwned /\ TokensHeld
  /\ Telegram!OneIdentity /\ Telegram!TelegramSeqInvariant

LEMMA SigningIdleType == Telegram!Idle \in Telegram!Req /\ Telegram!Idle.pc = "idle"
BY DEF Telegram!Idle, Telegram!Req

LEMMA UsersFound ==
  ASSUME SigningInv, NEW t \in Telegrams
  PROVE  Telegram!FindOrGenerateUserID(t) \subseteq Users
BY DEF SigningInv, RowsOwned, Telegram!FindOrGenerateUserID, Telegram!Unseen

\* The answer to p is given, or lost, after the row t has moved on to the number of
\* the pair.
LEMMA AnswerKeeps ==
  ASSUME SigningInv, NEW p \in Procs, NEW t \in Telegrams, NEW rec \in Telegram!Row,
         NEW n \in Nat,
         NEW k \in Telegram!Token, k.from = t, k.user = rec.user, k.seq = rec.issued,
         rec.user \in Users, rec.issued = signIn[t].issued + 1,
         signIn[t].issued # 0 => rec.user = signIn[t].user,
         signIn' = [signIn EXCEPT ![t] = rec],
         last' = [last EXCEPT ![t] = n],
         Telegram!Answer(p, k),
         crossed \subseteq crossed', crossed' \subseteq Telegrams,
         t \notin crossed' => (n # 0 => Telegram!CanRefresh(rec, rec.user, n)),
         UNCHANGED <<telegramOf, changes>>
  PROVE  SigningInv'
<1> USE DEF SigningInv
<1>1. signIn[t] \in Telegram!Row /\ signIn[t].issued \in Nat /\ rec.issued \in Nat
  BY DEF Telegram!TypeOK, Telegram!Row
<1>2. Telegram!TypeOK'
  BY SigningIdleType DEF Telegram!TypeOK, Telegram!Answer
<1>3. \A s \in Telegrams : signIn'[s] = IF s = t THEN rec ELSE signIn[s]
  BY DEF Telegram!TypeOK
<1>4. RowsOwned'
  BY <1>3 DEF RowsOwned
<1>5. tokens' \subseteq tokens \cup {k} /\ tokens \subseteq Telegram!Token
  BY DEF Telegram!Answer, Telegram!TypeOK
<1>6. \A j \in tokens : j.from \in Telegrams /\ j.seq \in Nat /\ j.seq \in 1..signIn[j.from].issued
  BY <1>5 DEF Telegram!Token, Telegram!TelegramSeqInvariant
<1>7. ASSUME NEW j \in tokens, j.from = t
      PROVE  j.user = rec.user /\ j.seq < rec.issued /\ j.seq \in 1..rec.issued
  <2>1. j.seq \in 1..signIn[t].issued /\ j.user = signIn[t].user
    BY <1>6, <1>7 DEF Telegram!OneIdentity
  <2> QED BY <1>1, <2>1
<1>8. Telegram!OneIdentity'
  BY <1>3, <1>5, <1>6, <1>7 DEF Telegram!OneIdentity
<1>9. \A j \in tokens' : j.seq \in 1..signIn'[j.from].issued
  <2>1. k.seq \in 1..signIn'[k.from].issued
    BY <1>1, <1>3
  <2>2. ASSUME NEW j \in tokens
        PROVE  j.seq \in 1..signIn'[j.from].issued
    BY <1>3, <1>6, <1>7
  <2> QED BY <1>5, <2>1, <2>2
<1>10. \A i, j \in tokens' : i.from = j.from /\ i.seq = j.seq => i = j
  <2>1. \A j \in tokens : j.from = t => j.seq # k.seq
    BY <1>1, <1>6, <1>7
  <2>2. \A i, j \in tokens : i.from = j.from /\ i.seq = j.seq => i = j
    BY DEF Telegram!TelegramSeqInvariant
  <2> QED BY <1>5, <2>1, <2>2
<1>11. \A s \in Telegrams \ crossed' :
         last'[s] # 0 => Telegram!CanRefresh(signIn'[s], signIn'[s].user, last'[s])
  <2>1. \A s \in Telegrams : last'[s] = IF s = t THEN n ELSE last[s]
    BY DEF Telegram!TypeOK
  <2> QED BY <1>3, <2>1 DEF Telegram!TelegramSeqInvariant
<1>12. TokensHeld'
  <2>1. \A q \in Procs : tokenReq'[q] = IF q = p THEN Telegram!Idle ELSE tokenReq[q]
    BY DEF Telegram!Answer, Telegram!TypeOK
  <2>2. tokens \subseteq tokens'
    BY DEF Telegram!Answer
  <2> QED BY <2>1, <2>2, SigningIdleType DEF TokensHeld
<1> QED BY <1>12, <1>2, <1>4, <1>8, <1>9, <1>10, <1>11 DEF Telegram!TelegramSeqInvariant

LEMMA UpsertKeeps ==
  ASSUME SigningInv, NEW p \in Procs, Telegram!UpsertTelegramSignIn(p)
  PROVE  SigningInv'
<1>1. PICK t, u, rec, k, n :
        /\ t = tokenReq[p].telegram /\ u = tokenReq[p].user /\ rec = Telegram!Upserted(signIn[t], u)
        /\ k = [user |-> rec.user, claim |-> t, from |-> t, seq |-> rec.issued]
        /\ n = IF signIn[t].issued = 0 THEN 0 ELSE rec.issued
  OBVIOUS
<1>2. t \in Telegrams /\ u \in Users
  BY <1>1 DEF SigningInv, Telegram!TypeOK, Telegram!Req, Telegram!UpsertTelegramSignIn
<1>3. /\ signIn' = [signIn EXCEPT ![t] = rec]
      /\ last' = [last EXCEPT ![t] = n]
      /\ Telegram!Answer(p, k)
      /\ UNCHANGED <<telegramOf, changes, crossed>>
  BY <1>1 DEF Telegram!UpsertTelegramSignIn
<1>4. /\ signIn[t] \in Telegram!Row /\ signIn[t].issued \in Nat
      /\ signIn[t].issued + 1 \in Nat
      /\ signIn[t].issued # 0 => signIn[t].user \in Users
  BY <1>2 DEF SigningInv, Telegram!TypeOK, Telegram!Row, RowsOwned
<1>5. /\ rec \in Telegram!Row /\ rec.issued = signIn[t].issued + 1 /\ rec.user \in Users
      /\ signIn[t].issued # 0 => rec.user = signIn[t].user
  <2>1. CASE signIn[t].issued = 0
    BY <1>1, <1>2, <2>1 DEF Telegram!Upserted, Telegram!Row
  <2>2. CASE signIn[t].issued # 0
    BY <1>1, <1>4, <2>2 DEF Telegram!Upserted, Telegram!Row, Telegram!SessionStarted
  <2> QED BY <2>1, <2>2
<1>6. k \in Telegram!Token /\ n \in Nat
  BY <1>1, <1>2, <1>5 DEF Telegram!Token, Telegram!Row
<1>7. n # 0 => Telegram!CanRefresh(rec, rec.user, n)
  BY <1>1 DEF Telegram!CanRefresh
<1>8. crossed' \subseteq Telegrams
  BY <1>3 DEF SigningInv, Telegram!TypeOK
<1> QED BY <1>1, <1>2, <1>3, <1>5, <1>6, <1>7, <1>8, AnswerKeeps

LEMMA IncrementKeeps ==
  ASSUME SigningInv, NEW p \in Procs, Telegram!IncrementRefreshTokenSeq(p)
  PROVE  SigningInv'
<1>1. PICK k, t, rec, j :
        /\ k = tokenReq[p].token /\ t = k.claim /\ rec = Telegram!Refreshed(signIn[t], k.user, k.seq)
        /\ j = [user |-> k.user, claim |-> tokenReq[p].claim, from |-> t, seq |-> rec.issued]
  OBVIOUS
<1>2. k \in Telegram!Token /\ tokenReq[p].claim \in Telegrams
  BY <1>1 DEF SigningInv, Telegram!TypeOK, Telegram!Req, Telegram!IncrementRefreshTokenSeq
<1>3. t \in Telegrams /\ k.user \in Users /\ k.seq \in Nat /\ k.from \in Telegrams
  BY <1>1, <1>2 DEF Telegram!Token
<1>4. CASE Telegram!CanRefresh(signIn[t], k.user, k.seq)
  <2>1. /\ signIn' = [signIn EXCEPT ![t] = rec]
        /\ last' = [last EXCEPT ![t] = k.seq]
        /\ crossed' = IF k.from = t THEN crossed ELSE crossed \cup {t}
        /\ Telegram!Answer(p, j)
        /\ UNCHANGED <<telegramOf, changes>>
    BY <1>1, <1>4 DEF Telegram!IncrementRefreshTokenSeq
  <2>2. signIn[t] \in Telegram!Row /\ signIn[t].issued \in Nat /\ signIn[t].issued + 1 \in Nat
    BY <1>3 DEF SigningInv, Telegram!TypeOK, Telegram!Row
  <2>3. /\ rec \in Telegram!Row /\ rec.issued = signIn[t].issued + 1 /\ rec.user = k.user
        /\ rec.prev = k.seq
    BY <1>1, <1>3, <2>2 DEF Telegram!Refreshed, Telegram!Row
  <2>4. rec.user = signIn[t].user
    BY <1>4, <2>3 DEF Telegram!CanRefresh
  <2>5. j \in Telegram!Token
    BY <1>1, <1>2, <1>3, <2>3, <2>2 DEF Telegram!Token
  <2>6. t \notin crossed' => (k.seq # 0 => Telegram!CanRefresh(rec, rec.user, k.seq))
    <3>1. k \in tokens
      BY <1>1 DEF SigningInv, TokensHeld, Telegram!IncrementRefreshTokenSeq
    <3>2. k.from = t => k.seq \in 1..signIn[t].issued
      BY <3>1 DEF SigningInv, Telegram!TelegramSeqInvariant
    <3>3. k.from = t => k.seq <= rec.issued + 1
      BY <2>2, <2>3, <3>2
    <3>4. t \notin crossed' => k.from = t
      BY <2>1
    <3> QED BY <1>3, <2>3, <3>3, <3>4 DEF Telegram!CanRefresh
  <2>7. crossed \subseteq crossed' /\ crossed' \subseteq Telegrams
    BY <1>3, <2>1 DEF SigningInv, Telegram!TypeOK
  <2> QED BY <1>1, <1>3, <2>1, <2>3, <2>4, <2>5, <2>6, <2>7, AnswerKeeps
<1>5. CASE ~ Telegram!CanRefresh(signIn[t], k.user, k.seq)
  <2>1. tokenReq' = [tokenReq EXCEPT ![p] = Telegram!Idle] /\ UNCHANGED <<Telegram!signInVars, telegramOf, changes>>
    BY <1>1, <1>5 DEF Telegram!IncrementRefreshTokenSeq
  <2> QED BY <2>1, SigningIdleType DEF SigningInv, Telegram!TypeOK, RowsOwned, TokensHeld,
     Telegram!OneIdentity, Telegram!TelegramSeqInvariant, Telegram!signInVars
<1> QED BY <1>4, <1>5

\* Requests begin and are cut off without writing.
LEMMA QuietKeeps ==
  ASSUME SigningInv, NEW p \in Procs, NEW r \in Telegram!Req,
         tokenReq' = [tokenReq EXCEPT ![p] = r],
         r.pc = "increment" => r.token \in tokens,
         UNCHANGED <<telegramOf, signIn, tokens, changes, last, crossed>>
  PROVE  SigningInv'
<1>1. Telegram!TypeOK'
  BY DEF SigningInv, Telegram!TypeOK
<1>2. TokensHeld'
  BY DEF SigningInv, Telegram!TypeOK, TokensHeld
<1>3. RowsOwned' /\ Telegram!OneIdentity' /\ Telegram!TelegramSeqInvariant'
  BY DEF SigningInv, RowsOwned, Telegram!OneIdentity, Telegram!TelegramSeqInvariant
<1> QED BY <1>1, <1>2, <1>3 DEF SigningInv

\* Writes to users rows leave tokens and rows of sign-ins alone.
LEMMA WriteUserKeeps ==
  ASSUME SigningInv, NEW u \in Users, NEW value \in Telegrams \cup {u, Gone},
         Telegram!WriteUser(u, value)
  PROVE  SigningInv'
<1>1. UNCHANGED <<signIn, tokenReq, tokens, last, crossed>>
  BY DEF Telegram!WriteUser
<1>2. Telegram!TypeOK'
  BY DEF SigningInv, Telegram!TypeOK, Telegram!WriteUser
<1>3. RowsOwned' /\ TokensHeld' /\ Telegram!OneIdentity' /\ Telegram!TelegramSeqInvariant'
  BY <1>1 DEF SigningInv, RowsOwned, TokensHeld, Telegram!OneIdentity,
     Telegram!TelegramSeqInvariant
<1> QED BY <1>2, <1>3 DEF SigningInv

LEMMA SigningStepKeeps == SigningInv /\ Telegram!Next => SigningInv'
<1> SUFFICES ASSUME SigningInv, Telegram!Next
             PROVE  SigningInv'
  OBVIOUS
<1>1. ASSUME NEW p \in Procs, NEW t \in Telegrams, Telegram!SignIn(p, t)
      PROVE  SigningInv'
  <2>1. PICK u \in Telegram!FindOrGenerateUserID(t) :
          tokenReq' = [tokenReq EXCEPT ![p] = [pc |-> "upsert", telegram |-> t, user |-> u]]
    BY <1>1 DEF Telegram!SignIn
  <2>2. [pc |-> "upsert", telegram |-> t, user |-> u] \in Telegram!Req
    BY <2>1, UsersFound DEF Telegram!Req
  <2> QED BY <1>1, <2>1, <2>2, QuietKeeps DEF Telegram!SignIn
<1>2. ASSUME NEW p \in Procs, Telegram!UpsertTelegramSignIn(p)
      PROVE  SigningInv'
  BY <1>2, UpsertKeeps
<1>3. ASSUME NEW p \in Procs, NEW k \in tokens, Telegram!RefreshToken(p, k)
      PROVE  SigningInv'
  <2>1. PICK r : r = [pc |-> "increment", token |-> k, claim |-> Telegram!TelegramOf(k.user, k.claim)]
    OBVIOUS
  <2>2. k \in Telegram!Token /\ k.claim \in Telegrams
    BY DEF SigningInv, Telegram!TypeOK, Telegram!Token
  <2>3. Telegram!TelegramOf(k.user, k.claim) \in Telegrams
    BY <2>2 DEF Telegram!TelegramOf
  <2>4. r \in Telegram!Req /\ r.token \in tokens
    BY <2>1, <2>2, <2>3 DEF Telegram!Req
  <2> QED BY <1>3, <2>1, <2>4, QuietKeeps DEF Telegram!RefreshToken
<1>4. ASSUME NEW p \in Procs, Telegram!IncrementRefreshTokenSeq(p)
      PROVE  SigningInv'
  BY <1>4, IncrementKeeps
<1>5. ASSUME NEW p \in Procs, Telegram!CutOff(p)
      PROVE  SigningInv'
  BY <1>5, SigningIdleType, QuietKeeps DEF Telegram!CutOff
<1>6. ASSUME NEW u \in Users, Telegram!CreateUser(u) \/ Telegram!ModifyUser(u) \/ Telegram!DeleteUser(u)
      PROVE  SigningInv'
  BY <1>6, WriteUserKeeps DEF Telegram!CreateUser, Telegram!ModifyUser, Telegram!DeleteUser
<1> QED BY <1>1, <1>2, <1>3, <1>4, <1>5, <1>6 DEF Telegram!Next

LEMMA SigningInitHolds == Telegram!Init => SigningInv
<1> SUFFICES ASSUME Telegram!Init
             PROVE  SigningInv
  OBVIOUS
<1>1. Telegram!TypeOK
  BY SigningIdleType DEF Telegram!Init, Telegram!TypeOK, Telegram!NoRow, Telegram!Row
<1>2. RowsOwned /\ TokensHeld /\ Telegram!OneIdentity /\ Telegram!TelegramSeqInvariant
  BY SigningIdleType DEF Telegram!Init, RowsOwned, TokensHeld, Telegram!OneIdentity,
     Telegram!TelegramSeqInvariant, Telegram!NoRow
<1> QED BY <1>1, <1>2 DEF SigningInv

LEMMA SigningStutterKeeps == SigningInv /\ UNCHANGED Telegram!vars => SigningInv'
BY
   DEF Telegram!vars, SigningInv, Telegram!TypeOK, RowsOwned, TokensHeld,
       Telegram!OneIdentity,
   Telegram!TelegramSeqInvariant

\* Token pairs name the user their row has had from the first, and numbers are given
\* out once and stay acceptable to who lost an answer, for any Telegram accounts,
\* users and requests.
THEOREM TelegramHolds == Telegram!Spec => [](Telegram!OneIdentity /\ Telegram!TelegramSeqInvariant)
<1>1. SigningInv /\ [Telegram!Next]_(Telegram!vars) => SigningInv'
  BY SigningStepKeeps, SigningStutterKeeps
<1>2. SigningInv => Telegram!OneIdentity /\ Telegram!TelegramSeqInvariant
  BY DEF SigningInv
<1> QED BY SigningInitHolds, <1>1, <1>2, PTL DEF Telegram!Spec
-----------------------------------------------------------------------------
(* The contacts: nobody stays in the list untold.                          *)
(*                                                                         *)
(* ContactsTold alone is not inductive: a roll back writes the list that   *)
(* was read before.  What was read must be covered as well, without the    *)
(* request's own finds, which leave with it; and no request tells or takes *)
(* back on behalf of another, so only finds that were written cover.       *)

\* Those who were told of, or whom the request of somebody in Q is about to tell of
\* or to take back.
Covered(Q) ==
  told \cup broken \cup UNION {contactReq[q].unique : q \in {r \in Q : contactReq[r].pc # "update"}}

ContactReqTypeOK == contactReq \in [Procs -> Agenda!Req]

RunningCovered(p) ==
  /\ contactReq[p].before \subseteq Covered(Procs \ {p})
  /\ contactReq[p].pc = "snapshot" => contactReq[p].unique \subseteq told

ContactsInv ==
  /\ ContactReqTypeOK
  /\ agenda \subseteq Others
  /\ agenda \subseteq Covered(Procs)
  /\ \A p \in Procs : contactReq[p] # Agenda!Idle => RunningCovered(p)
-----------------------------------------------------------------------------
\* What a request goes on with, or ends, without losing anybody: whom another has
\* read from its list stays its own find, or was told of, or is excused.
LEMMA ContactMoveKeeps ==
  ASSUME ContactsInv, NEW p \in Procs, contactReq[p] # Agenda!Idle, NEW x \in Agenda!Req,
         contactReq' = [contactReq EXCEPT ![p] = x],
         told \subseteq told', broken \subseteq broken',
         x.pc # "update",
         contactReq[p].pc = "update" \/
           \A q \in Procs \ {p} :
             contactReq[q].before \cap contactReq[p].unique \subseteq told' \cup broken' \cup x.unique,
         agenda' \subseteq Others, agenda' \subseteq Covered(Procs)',
         \/ x = Agenda!Idle
         \/ /\ x.before = contactReq[p].before
            /\ x.pc = "snapshot" => x.unique \subseteq told'
  PROVE  ContactsInv'
<1>1. ContactReqTypeOK'
  BY DEF ContactsInv, ContactReqTypeOK
<1>2. \A q \in Procs : contactReq'[q] = IF q = p THEN x ELSE contactReq[q]
  BY DEF ContactsInv, ContactReqTypeOK
<1>3. ASSUME NEW q \in Procs, contactReq[q] # Agenda!Idle
      PROVE  contactReq[q].before \subseteq Covered(Procs \ {q})'
  <2>1. SUFFICES ASSUME NEW c \in contactReq[q].before
                 PROVE  c \in told' \cup broken' \/
                        \E s \in Procs \ {q} : contactReq'[s].pc # "update" /\ c \in contactReq'[s].unique
    BY DEF Covered
  <2>2. c \in Covered(Procs \ {q})
    BY <1>3, <2>1 DEF ContactsInv, RunningCovered
  <2>3. CASE c \in told \cup broken
    BY <2>3
  <2>4. ASSUME NEW s \in Procs \ {q}, contactReq[s].pc # "update", c \in contactReq[s].unique
        PROVE  c \in told' \cup broken' \/ (contactReq'[s].pc # "update" /\ c \in contactReq'[s].unique)
    <3>1. CASE s # p
      BY <1>2, <2>4, <3>1
    <3>2. CASE s = p
      BY <1>2, <2>1, <2>4, <3>2
    <3> QED BY <3>1, <3>2
  <2> QED BY <2>2, <2>3, <2>4 DEF Covered
<1>4. ASSUME NEW q \in Procs, contactReq'[q] # Agenda!Idle
      PROVE  RunningCovered(q)'
  <2>1. CASE q = p
    BY <1>2, <1>3, <1>4, <2>1 DEF RunningCovered
  <2>2. CASE q # p
    <3>1. contactReq'[q] = contactReq[q]
      BY <1>2, <2>2
    <3>2. contactReq[q].pc = "snapshot" => contactReq[q].unique \subseteq told'
      BY <1>4, <3>1 DEF ContactsInv, RunningCovered
    <3> QED BY <1>3, <1>4, <3>1, <3>2 DEF RunningCovered
  <2> QED BY <2>1, <2>2
<1> QED BY <1>1, <1>4 DEF ContactsInv

\* A new request reads a list that is covered, and covers nobody yet.
LEMMA FindKeeps ==
  ASSUME ContactsInv, NEW p \in Procs, NEW found \in SUBSET Others,
         Agenda!FindAgendaContactIDs(p, found)
  PROVE  ContactsInv'
<1>1. PICK x : x = [pc |-> "update", before |-> agenda, unique |-> Agenda!ContactDiff(agenda, found)]
  OBVIOUS
<1>2. /\ contactReq[p] = Agenda!Idle /\ UNCHANGED <<agenda, told, broken>>
      /\ contactReq' = [contactReq EXCEPT ![p] = x]
  BY <1>1 DEF Agenda!FindAgendaContactIDs
<1>3. x \in Agenda!Req /\ x.pc = "update" /\ x.before = agenda
  BY <1>1 DEF ContactsInv, Agenda!Req, Agenda!ContactDiff
<1>4. ContactReqTypeOK' /\ \A q \in Procs : contactReq'[q] = IF q = p THEN x ELSE contactReq[q]
  BY <1>2, <1>3 DEF ContactsInv, ContactReqTypeOK
<1>5. contactReq[p].unique = {} /\ contactReq[p].pc = "idle"
  BY <1>2 DEF Agenda!Idle
<1>6. ASSUME NEW Q \in SUBSET Procs
      PROVE  Covered(Q) \subseteq Covered(Q \ {p})'
  <2>1. ASSUME NEW c, NEW s \in Q, contactReq[s].pc # "update", c \in contactReq[s].unique
        PROVE  s \in Q \ {p} /\ contactReq'[s].pc # "update" /\ c \in contactReq'[s].unique
    BY <1>4, <1>5, <2>1
  <2> QED BY <1>2, <2>1 DEF Covered
<1>7. ASSUME NEW Q \in SUBSET Procs
      PROVE  Covered(Q \ {p})' \subseteq Covered(Q)'
  BY DEF Covered
<1>8. agenda' \subseteq Others /\ agenda' \subseteq Covered(Procs)' /\ agenda \subseteq Covered(Procs \ {p})'
  BY <1>2, <1>6, <1>7 DEF ContactsInv
<1>9. ASSUME NEW q \in Procs, contactReq'[q] # Agenda!Idle
      PROVE  RunningCovered(q)'
  <2>1. CASE q = p
    BY <1>3, <1>4, <1>8, <2>1 DEF RunningCovered
  <2>2. CASE q # p
    <3>1. contactReq'[q] = contactReq[q] /\ RunningCovered(q)
      BY <1>4, <1>9, <2>2 DEF ContactsInv
    <3>2. Covered(Procs \ {q}) \subseteq Covered(Procs \ {q})'
      BY <1>6, <1>7
    <3> QED BY <1>2, <3>1, <3>2 DEF RunningCovered
  <2> QED BY <2>1, <2>2
<1> QED BY <1>4, <1>8, <1>9 DEF ContactsInv

\* Whatever else happens while the contacts stay as they are.
LEMMA ContactStutterKeeps == ContactsInv /\ UNCHANGED Agenda!contactVars => ContactsInv'
<1> SUFFICES ASSUME ContactsInv, UNCHANGED Agenda!contactVars
             PROVE  ContactsInv'
  OBVIOUS
<1>1. UNCHANGED <<agenda, told, contactReq, broken>>
  BY DEF Agenda!contactVars
<1>2. Covered(Procs)' = Covered(Procs)
  BY <1>1 DEF Covered
<1>3. ASSUME NEW p \in Procs
      PROVE  RunningCovered(p)' = RunningCovered(p)
  <2>1. Covered(Procs \ {p})' = Covered(Procs \ {p})
    BY <1>1 DEF Covered
  <2> QED BY <1>1, <2>1 DEF RunningCovered
<1> QED BY <1>1, <1>2, <1>3 DEF ContactsInv, ContactReqTypeOK

LEMMA ContactStepKeeps == ContactsInv /\ Agenda!Next => ContactsInv'
<1> SUFFICES ASSUME ContactsInv, Agenda!Next
             PROVE  ContactsInv'
  OBVIOUS
<1>1. PICK p \in Procs :
        \/ \E found \in SUBSET Others : Agenda!FindAgendaContactIDs(p, found)
        \/ Agenda!Update(p) \/ Agenda!SendContactMessages(p) \/ Agenda!SendSnapshot(p) \/ Agenda!Rollback(p)
        \/ Agenda!CutOff(p)
  BY DEF Agenda!Next
<1>2. contactReq \in [Procs -> Agenda!Req] /\ Agenda!Idle \in Agenda!Req /\ Agenda!Idle.pc = "idle"
  BY DEF ContactsInv, ContactReqTypeOK, Agenda!Req, Agenda!Idle
<1>3. contactReq[p] \in Agenda!Req /\ (contactReq[p].pc # "idle" => contactReq[p] # Agenda!Idle)
  BY <1>2
<1>4. ASSUME NEW pc \in {"update", "contacts", "snapshot", "rollback"}
      PROVE  /\ [contactReq[p] EXCEPT !.pc = pc] \in Agenda!Req
             /\ [contactReq[p] EXCEPT !.pc = pc].pc = pc
             /\ [contactReq[p] EXCEPT !.pc = pc].before = contactReq[p].before
             /\ [contactReq[p] EXCEPT !.pc = pc].unique = contactReq[p].unique
  BY <1>3 DEF Agenda!Req
<1>5. ASSUME NEW pc, Agenda!Move(p, pc)
      PROVE  contactReq' = [contactReq EXCEPT ![p] = [contactReq[p] EXCEPT !.pc = pc]]
  BY <1>5 DEF Agenda!Move
<1>6. contactReq[p] # Agenda!Idle => RunningCovered(p)
  BY DEF ContactsInv
<1>7. ASSUME Covered(Procs) \subseteq Covered(Procs)', UNCHANGED agenda
      PROVE  agenda' \subseteq Others /\ agenda' \subseteq Covered(Procs)'
  BY <1>7 DEF ContactsInv
<1>8. CASE \E found \in SUBSET Others : Agenda!FindAgendaContactIDs(p, found)
  BY <1>8, FindKeeps
<1>9. CASE Agenda!Update(p)
  <2>1. contactReq[p] # Agenda!Idle /\ UNCHANGED <<told, broken>>
    BY <1>3, <1>9 DEF Agenda!Update
  <2>2. CASE Agenda!Move(p, "contacts") /\ agenda' = IF contactReq[p].unique = {} THEN agenda
                                             ELSE contactReq[p].before \cup contactReq[p].unique
    <3>1. PICK x \in Agenda!Req : /\ x.pc = "contacts" /\ x.before = contactReq[p].before
                                  /\ x.unique = contactReq[p].unique
                                  /\ contactReq' = [contactReq EXCEPT ![p] = x]
      BY <1>4, <1>5, <2>2
    <3>2. \A q \in Procs : contactReq'[q] = IF q = p THEN x ELSE contactReq[q]
      BY <1>2, <3>1
    <3>3. Covered(Procs) \subseteq Covered(Procs)'
      BY <2>1, <3>1, <3>2 DEF Covered
    <3>4. contactReq[p].before \cup contactReq[p].unique \subseteq Others
      BY <1>3 DEF Agenda!Req
    <3>5. contactReq[p].before \subseteq Covered(Procs)
      BY <1>6, <2>1 DEF RunningCovered, Covered
    <3>6. contactReq[p].unique \subseteq Covered(Procs)'
      BY <3>1, <3>2 DEF Covered
    <3>7. agenda' \subseteq Others /\ agenda' \subseteq Covered(Procs)'
      BY <2>2, <3>3, <3>4, <3>5, <3>6 DEF ContactsInv
    <3> QED BY <1>9, <2>1, <3>1, <3>7, ContactMoveKeeps DEF Agenda!Update
  <2>3. CASE contactReq[p].unique = {} /\ Agenda!Finish(p) /\ UNCHANGED agenda
    <3>1. contactReq' = [contactReq EXCEPT ![p] = Agenda!Idle] /\ Agenda!Idle.unique = {}
      BY <2>3 DEF Agenda!Finish, Agenda!Idle
    <3>2. \A q \in Procs : contactReq'[q] = IF q = p THEN Agenda!Idle ELSE contactReq[q]
      BY <1>2, <3>1
    <3>3. Covered(Procs) \subseteq Covered(Procs)'
      BY <2>1, <2>3, <3>2 DEF Covered
    <3>4. contactReq[p].pc = "update" /\ Agenda!Idle.pc # "update"
      BY <1>2, <1>9 DEF Agenda!Update
    <3> QED BY <1>2, <1>7, <2>1, <2>3, <3>1, <3>3, <3>4, ContactMoveKeeps
  <2> QED BY <1>9, <2>2, <2>3 DEF Agenda!Update
<1>10. CASE Agenda!SendContactMessages(p)
  <2>1. PICK sent \in SUBSET contactReq[p].unique :
          /\ told' = told \cup sent
          /\ IF sent = contactReq[p].unique THEN Agenda!Move(p, "snapshot") ELSE Agenda!Move(p, "rollback")
    BY <1>10 DEF Agenda!SendContactMessages, Agenda!RunConcurrently
  <2>2. contactReq[p] # Agenda!Idle /\ UNCHANGED <<agenda, broken>>
    BY <1>3, <1>10 DEF Agenda!SendContactMessages
  <2>3. PICK x \in Agenda!Req : /\ x.pc = "snapshot" => sent = contactReq[p].unique
                                /\ x.pc # "update"
                                /\ x.before = contactReq[p].before
                                /\ x.unique = contactReq[p].unique
                                /\ contactReq' = [contactReq EXCEPT ![p] = x]
    <3>1. CASE sent = contactReq[p].unique
      BY <1>4, <1>5, <2>1, <3>1
    <3>2. CASE sent # contactReq[p].unique
      BY <1>4, <1>5, <2>1, <3>2
    <3> QED BY <3>1, <3>2
  <2>4. \A q \in Procs : contactReq'[q] = IF q = p THEN x ELSE contactReq[q]
    BY <1>2, <2>3
  <2>5. Covered(Procs) \subseteq Covered(Procs)'
    BY <2>1, <2>2, <2>3, <2>4 DEF Covered
  <2> QED BY <1>7, <2>1, <2>2, <2>3, <2>5, ContactMoveKeeps
<1>11. CASE Agenda!SendSnapshot(p)
  <2>1. /\ contactReq[p] # Agenda!Idle /\ contactReq[p].pc = "snapshot" /\ UNCHANGED <<agenda, told, broken>>
        /\ Agenda!Finish(p) \/ Agenda!Move(p, "rollback")
    BY <1>3, <1>11 DEF Agenda!SendSnapshot
  <2>2. contactReq[p].unique \subseteq told
    BY <1>6, <2>1 DEF RunningCovered
  <2>3. PICK x \in Agenda!Req : /\ \/ x = Agenda!Idle
                                   \/ /\ x.pc = "rollback" /\ x.before = contactReq[p].before
                                      /\ x.unique = contactReq[p].unique
                                /\ contactReq' = [contactReq EXCEPT ![p] = x]
    <3>1. CASE Agenda!Finish(p)
      BY <1>2, <3>1 DEF Agenda!Finish
    <3>2. CASE Agenda!Move(p, "rollback")
      BY <1>4, <1>5, <3>2
    <3> QED BY <2>1, <3>1, <3>2
  <2>4. \A q \in Procs \ {p} : contactReq'[q] = contactReq[q]
    BY <1>2, <2>3
  <2>5. Covered(Procs) \subseteq Covered(Procs)'
    BY <2>1, <2>2, <2>4 DEF Covered
  <2>6. x.pc # "update"
    BY <1>2, <2>3
  <2> QED BY <1>7, <2>1, <2>2, <2>3, <2>5, <2>6, ContactMoveKeeps
<1>12. CASE Agenda!Rollback(p)
  <2>1. /\ contactReq[p] # Agenda!Idle /\ UNCHANGED told
        /\ agenda' = contactReq[p].before
        /\ broken' = broken \cup Agenda!LeftToOthers(p)
        /\ contactReq' = [contactReq EXCEPT ![p] = Agenda!Idle]
    BY <1>3, <1>12 DEF Agenda!Rollback, Agenda!Finish, Agenda!TakenBack
  <2>2. \A q \in Procs \ {p} : contactReq'[q] = contactReq[q]
    BY <1>2, <2>1
  <2>3. agenda' \subseteq Covered(Procs)'
    BY <1>6, <2>1, <2>2 DEF RunningCovered, Covered
  <2>4. agenda' \subseteq Others
    BY <1>3, <2>1 DEF Agenda!Req
  <2>5. \A q \in Procs \ {p} :
          contactReq[q].before \cap contactReq[p].unique \subseteq told' \cup broken'
    BY <2>1 DEF Agenda!LeftToOthers
  <2> QED BY <1>2, <2>1, <2>3, <2>4, <2>5, ContactMoveKeeps
<1>13. CASE Agenda!CutOff(p)
  <2>1. /\ contactReq[p] # Agenda!Idle /\ UNCHANGED <<agenda, told>>
        /\ broken' = IF contactReq[p].pc = "update" THEN broken
                     ELSE broken \cup (contactReq[p].unique \ told)
        /\ contactReq' = [contactReq EXCEPT ![p] = Agenda!Idle]
    BY <1>13 DEF Agenda!CutOff, Agenda!Finish
  <2>2. \A q \in Procs \ {p} : contactReq'[q] = contactReq[q]
    BY <1>2, <2>1
  <2>3. Covered(Procs) \subseteq Covered(Procs)'
    BY <2>1, <2>2 DEF Covered
  <2> QED BY <1>2, <1>7, <2>1, <2>3, ContactMoveKeeps
<1> QED BY <1>1, <1>8, <1>9, <1>10, <1>11, <1>12, <1>13

LEMMA ContactInitHolds == Agenda!Init => ContactsInv
BY DEF Agenda!Init, ContactsInv, ContactReqTypeOK, Agenda!Req, Agenda!Idle

\* Nobody stays in the list untold, whatever lists requests write over each other
\* or back, for any users, requests and faults.
THEOREM ContactsHold == Agenda!Spec => []Agenda!ContactsTold
<1>1. ContactsInv /\ [Agenda!Next]_(Agenda!vars) => ContactsInv'
  BY ContactStepKeeps, ContactStutterKeeps DEF Agenda!vars
<1>2. ContactsInv => Agenda!ContactsTold
  BY DEF ContactsInv, Covered, Agenda!ContactsTold
<1> QED BY ContactInitHolds, <1>1, <1>2, PTL DEF Agenda!Spec
-----------------------------------------------------------------------------
(* Devices: what the platform was told of a settled device is its row.     *)
(* A request that is alone on a device knows what the row holds, and what  *)
(* was told before if that was settled, and nobody else touches the device.*)

ReplaceShape(r) ==
  /\ r = [pc |-> r.pc, dev |-> r.dev, new |-> r.new, before |-> r.before,
           alone |-> r.alone, agreed |-> r.agreed]
  /\ r.pc \in Metadata!TypeReplace
  /\ r.dev \in Devices /\ r.new \in Versions

RowsShape(r) ==
  /\ r = [pc |-> "rows", phase |-> r.phase, alone |-> r.alone]
  /\ r.phase = [d \in DOMAIN r.phase |-> r.phase[d]]
  /\ r.alone \subseteq DOMAIN r.phase /\ DOMAIN r.phase \subseteq Devices

DeviceReqShape(r) ==
  \/ r = [pc |-> "idle"] \/ r = [pc |-> "select"] \/ ReplaceShape(r) \/ RowsShape(r)

\* Request r is the only one on d since it began.
Alone(r, d) ==
  \/ r.pc \in Metadata!TypeReplace /\ r.dev = d /\ r.alone
  \/ r.pc = "rows" /\ d \in r.alone /\ r.phase[d] \notin {"done", "failed"}

\* What was told of d (k) and what its row holds (v), if r is alone on it.
Backs(r, d, k, v) ==
  /\ r.pc \in Metadata!TypeReplace /\ r.dev = d /\ r.alone =>
       /\ v = IF r.pc = "upsert" THEN r.before ELSE r.new
       /\ r.agreed => k = r.before
  /\ r.pc = "rows" /\ d \in r.alone =>
       /\ r.phase[d] = "snapshot" => v = None
       /\ r.phase[d] = "tombstone" => v = None /\ k = None

DevicesInv ==
  /\ dev = [d \in Devices |-> dev[d]] /\ known = [d \in Devices |-> known[d]]
  /\ settled \subseteq Devices
  /\ deviceReq = [p \in Procs |-> deviceReq[p]]
  /\ \A p \in Procs : DeviceReqShape(deviceReq[p])
  /\ \A d \in settled : known[d] = dev[d] /\ ~ Metadata!Busy(d)
  /\ \A p \in Procs, d \in Devices : Backs(deviceReq[p], d, known[d], dev[d])
  /\ \A p, q \in Procs, d \in Devices :
       p # q /\ Alone(deviceReq[p], d) => ~ Metadata!Touches(deviceReq[q], d)

LEMMA AloneTouches ==
  ASSUME NEW r, DeviceReqShape(r), NEW d
  PROVE  Alone(r, d) => Metadata!Touches(r, d)
BY
   DEF DeviceReqShape, RowsShape, ReplaceShape, Alone, Metadata!Touches,
       Metadata!TypeReplace

\* A step of p that writes at most to a device it is working on.
LEMMA DeviceActKeeps ==
  ASSUME DevicesInv, NEW p \in Procs, NEW w, DeviceReqShape(w), NEW d \in Devices,
         deviceReq' = [deviceReq EXCEPT ![p] = w],
         dev' = [e \in Devices |-> dev'[e]], known' = [e \in Devices |-> known'[e]],
         \A e \in Devices \ {d} : dev'[e] = dev[e] /\ known'[e] = known[e],
         Metadata!Touches(deviceReq[p], d) \/ (dev'[d] = dev[d] /\ known'[d] = known[d]),
         \A e \in Devices : /\ Metadata!Touches(w, e) => Metadata!Touches(deviceReq[p], e)
                            /\ Alone(w, e) => Alone(deviceReq[p], e)
                            /\ Backs(w, e, known'[e], dev'[e]),
         \/ settled' = settled
         \/ /\ settled' = settled \cup {d} /\ known'[d] = dev'[d]
            /\ Alone(deviceReq[p], d) /\ ~ Metadata!Touches(w, d)
  PROVE  DevicesInv'
<1>1. /\ deviceReq' = [q \in Procs |-> deviceReq'[q]]
      /\ \A q \in Procs : deviceReq'[q] = IF q = p THEN w ELSE deviceReq[q]
  BY DEF DevicesInv
<1>2. \A q \in Procs : DeviceReqShape(deviceReq[q]) /\ DeviceReqShape(deviceReq'[q])
  BY <1>1 DEF DevicesInv
<1>3. ASSUME NEW q \in Procs, NEW e \in Devices
      PROVE  Backs(deviceReq'[q], e, known'[e], dev'[e])
  <2>1. CASE q = p
    BY <1>1, <2>1
  <2>2. CASE q # p /\ known'[e] = known[e] /\ dev'[e] = dev[e]
    BY <1>1, <2>2 DEF DevicesInv
  <2>3. CASE q # p /\ e = d /\ Metadata!Touches(deviceReq[p], d)
    <3>1. ~ Alone(deviceReq[q], d)
      BY <2>3 DEF DevicesInv
    <3> QED BY <1>1, <2>3, <3>1 DEF Alone, Backs
  <2> QED BY <2>1, <2>2, <2>3
<1>4. ASSUME NEW q \in Procs, NEW r \in Procs, NEW e \in Devices, q # r, Alone(deviceReq'[q], e)
      PROVE  ~ Metadata!Touches(deviceReq'[r], e)
  <2>1. Alone(deviceReq[q], e)
    BY <1>1, <1>4
  <2>2. ~ Metadata!Touches(deviceReq[r], e)
    BY <1>4, <2>1 DEF DevicesInv
  <2> QED BY <1>1, <2>2
<1>5. ASSUME NEW e \in settled'
      PROVE  e \in Devices /\ known'[e] = dev'[e] /\ \A q \in Procs : ~ Metadata!Touches(deviceReq'[q], e)
  <2>1. CASE e \in settled
    <3>1. \A q \in Procs : ~ Metadata!Touches(deviceReq[q], e)
      BY <2>1 DEF DevicesInv, Metadata!Busy
    <3> QED BY <1>1, <2>1, <3>1 DEF DevicesInv
  <2>2. CASE e \notin settled
    <3>1. e = d /\ known'[d] = dev'[d] /\ Alone(deviceReq[p], d) /\ ~ Metadata!Touches(w, d)
      BY <1>5, <2>2
    <3>2. \A q \in Procs \ {p} : ~ Metadata!Touches(deviceReq[q], d)
      BY <3>1 DEF DevicesInv
    <3> QED BY <1>1, <3>1, <3>2
  <2> QED BY <2>1, <2>2
<1>6. \A e \in settled' : known'[e] = dev'[e] /\ ~ Metadata!Busy(e)'
  BY <1>5 DEF Metadata!Busy
<1> QED BY <1>1, <1>2, <1>3, <1>4, <1>5, <1>6 DEF DevicesInv

\* A request begins to work on devices.
LEMMA DeviceBeginKeeps ==
  ASSUME DevicesInv, NEW p \in Procs, NEW D, NEW r, DeviceReqShape(r), Metadata!Begin(p,
         D, r),
         UNCHANGED <<dev, known>>, deviceReq[p].pc \in {"idle", "select"},
         \A e \in Devices : /\ Metadata!Touches(r, e) => e \in D
                            /\ Alone(r, e) => ~ Metadata!Busy(e)
                            /\ Backs(r, e, known[e], dev[e])
  PROVE  DevicesInv'
<1>1. /\ deviceReq' = [q \in Procs |-> deviceReq'[q]]
      /\ \A q \in Procs : deviceReq'[q] = IF q = p THEN r ELSE Metadata!Crowded(deviceReq[q], D)
      /\ settled' = settled \ D
  BY DEF Metadata!Begin
<1>2. ASSUME NEW x, DeviceReqShape(x), NEW y, y = Metadata!Crowded(x, D)
      PROVE  /\ DeviceReqShape(y)
             /\ \A e : Metadata!Touches(y, e) <=> Metadata!Touches(x, e)
             /\ \A e : Alone(y, e) => Alone(x, e) /\ e \notin D
             /\ \A e, k, v : Backs(x, e, k, v) => Backs(y, e, k, v)
  <2>1. CASE ReplaceShape(x) /\ x.dev \in D
    <3>1. y = [x EXCEPT !.alone = FALSE]
      BY <1>2, <2>1 DEF Metadata!Crowded, ReplaceShape, Metadata!TypeReplace
    <3>2. y = [pc |-> x.pc, dev |-> x.dev, new |-> x.new, before |-> x.before,
               alone |-> FALSE, agreed |-> x.agreed]
      BY <2>1, <3>1 DEF ReplaceShape
    <3> QED BY <2>1, <3>2 DEF DeviceReqShape, ReplaceShape, Metadata!Touches, Alone, Backs,
                              Metadata!TypeReplace
  <2>2. CASE RowsShape(x)
    <3>0. x.pc = "rows" /\ "rows" \notin Metadata!TypeReplace
      BY <2>2 DEF RowsShape, Metadata!TypeReplace
    <3>1. y = [x EXCEPT !.alone = @ \ D]
      BY <1>2, <3>0 DEF Metadata!Crowded
    <3>2. y = [pc |-> "rows", phase |-> x.phase, alone |-> x.alone \ D]
      BY <2>2, <3>1 DEF RowsShape
    <3> QED BY <2>2, <3>0, <3>2
       DEF DeviceReqShape, RowsShape, Metadata!Touches, Alone, Backs
  <2>3. CASE ReplaceShape(x) /\ x.dev \notin D
    <3>1. y = x
      BY <1>2, <2>3 DEF Metadata!Crowded, ReplaceShape, Metadata!TypeReplace
    <3> QED BY <1>2, <2>3, <3>1 DEF Alone, ReplaceShape, Metadata!TypeReplace
  <2>4. CASE x.pc \in {"idle", "select"}
    <3>1. y = x
      BY <1>2, <2>4 DEF Metadata!Crowded, Metadata!TypeReplace
    <3> QED BY <1>2, <2>4, <3>1 DEF Alone, Metadata!TypeReplace
  <2> QED BY <1>2, <2>1, <2>2, <2>3, <2>4 DEF DeviceReqShape
<1>3. ASSUME NEW q \in Procs
      PROVE  /\ DeviceReqShape(deviceReq'[q])
             /\ \A e \in Devices : Metadata!Touches(deviceReq'[q], e) =>
                                     Metadata!Touches(deviceReq[q], e) \/ (q = p /\ e \in D)
             /\ \A e \in Devices : Alone(deviceReq'[q], e) =>
                   \/ q = p /\ ~ Metadata!Busy(e)
                   \/ q # p /\ Alone(deviceReq[q], e) /\ e \notin D
             /\ \A e \in Devices : Backs(deviceReq'[q], e, known[e], dev[e])
  <2>1. CASE q = p
    BY <1>1, <2>1
  <2>2. CASE q # p
    <3>1. PICK x, y : x = deviceReq[q] /\ y = deviceReq'[q]
      OBVIOUS
    <3>2. DeviceReqShape(x) /\ y = Metadata!Crowded(x, D)
      BY <1>1, <2>2, <3>1 DEF DevicesInv
    <3>3. \A e \in Devices : Backs(x, e, known[e], dev[e])
      BY <3>1 DEF DevicesInv
    <3>4. /\ DeviceReqShape(y)
          /\ \A e : Metadata!Touches(y, e) <=> Metadata!Touches(x, e)
          /\ \A e : Alone(y, e) => Alone(x, e) /\ e \notin D
          /\ \A e, k, v : Backs(x, e, k, v) => Backs(y, e, k, v)
      BY <1>2, <3>2
    <3> QED BY <2>2, <3>1, <3>3, <3>4
  <2> QED BY <2>1, <2>2
<1>4. ASSUME NEW q \in Procs, NEW s \in Procs, NEW e \in Devices, q # s, Alone(deviceReq'[q], e)
      PROVE  ~ Metadata!Touches(deviceReq'[s], e)
  <2>1. CASE q = p
    <3>1. ~ Metadata!Busy(e)
      BY <1>3, <1>4, <2>1
    <3>2. ~ Metadata!Touches(deviceReq[s], e)
      BY <3>1 DEF Metadata!Busy
    <3> QED BY <1>3, <1>4, <2>1, <3>2
  <2>2. CASE q # p
    <3>1. Alone(deviceReq[q], e) /\ e \notin D
      BY <1>3, <1>4, <2>2
    <3>2. ~ Metadata!Touches(deviceReq[s], e)
      BY <1>4, <3>1 DEF DevicesInv
    <3> QED BY <1>3, <3>1, <3>2
  <2> QED BY <2>1, <2>2
<1>5. ASSUME NEW e \in settled'
      PROVE  known'[e] = dev'[e] /\ \A q \in Procs : ~ Metadata!Touches(deviceReq'[q], e)
  <2>1. e \in settled /\ e \notin D /\ e \in Devices
    BY <1>1, <1>5 DEF DevicesInv
  <2>2. \A q \in Procs : ~ Metadata!Touches(deviceReq[q], e)
    BY <2>1 DEF DevicesInv, Metadata!Busy
  <2> QED BY <1>3, <2>1, <2>2 DEF DevicesInv
<1>6. \A e \in settled' : known'[e] = dev'[e] /\ ~ Metadata!Busy(e)'
  BY <1>5 DEF Metadata!Busy
<1> QED BY <1>1, <1>3, <1>4, <1>6 DEF DevicesInv

LEMMA IdleShape == DeviceReqShape(Metadata!Idle) /\ Metadata!Idle.pc = "idle"
BY DEF DeviceReqShape, Metadata!Idle

LEMMA ReplaceReq ==
  ASSUME DevicesInv, NEW p \in Procs, deviceReq[p].pc \in Metadata!TypeReplace
  PROVE  ReplaceShape(deviceReq[p])
<1>1. PICK r : r = deviceReq[p]
  OBVIOUS
<1>2. DeviceReqShape(r)
  BY <1>1 DEF DevicesInv
<1>3. r.pc \notin {"idle", "select", "rows"}
  BY <1>1 DEF Metadata!TypeReplace
<1>4. RowsShape(r) => r.pc = "rows"
  BY DEF RowsShape
<1>5. ReplaceShape(r)
  BY <1>2, <1>3, <1>4 DEF DeviceReqShape
<1> QED BY <1>1, <1>5

\* A request that ends settles the device it was alone on, if it may.
LEMMA EndKeeps ==
  ASSUME DevicesInv, NEW p \in Procs, deviceReq[p].pc \in Metadata!TypeReplace,
         NEW settles, Metadata!End(p, settles),
         dev' = [e \in Devices |-> dev'[e]], known' = [e \in Devices |-> known'[e]],
         \A e \in Devices \ {deviceReq[p].dev} : dev'[e] = dev[e] /\ known'[e] = known[e],
         settles /\ deviceReq[p].alone => known'[deviceReq[p].dev] = dev'[deviceReq[p].dev]
  PROVE  DevicesInv'
<1>1. PICK w : w = Metadata!Idle
  OBVIOUS
<1>2. w = [pc |-> "idle"]
  BY <1>1 DEF Metadata!Idle
<1>3. ReplaceShape(deviceReq[p])
  BY ReplaceReq
<1>4. PICK d \in Devices : d = deviceReq[p].dev
  BY <1>3 DEF ReplaceShape
<1>5. Metadata!Touches(deviceReq[p], d)
  BY <1>4 DEF Metadata!Touches
<1>6. /\ DeviceReqShape(w)
      /\ \A e : ~ Metadata!Touches(w, e) /\ ~ Alone(w, e)
      /\ \A e \in Devices : Backs(w, e, known'[e], dev'[e])
  BY <1>2 DEF DeviceReqShape, Metadata!Touches, Metadata!TypeReplace, Alone, Backs
<1>7. deviceReq' = [deviceReq EXCEPT ![p] = w]
  BY <1>1 DEF Metadata!End
<1>8. \/ settled' = settled
      \/ settled' = settled \cup {d} /\ known'[d] = dev'[d] /\ Alone(deviceReq[p], d)
  BY <1>4 DEF Metadata!End, Alone
<1> QED BY <1>4, <1>5, <1>6, <1>7, <1>8, DeviceActKeeps

LEMMA GetBeforeKeeps ==
  ASSUME DevicesInv, NEW p \in Procs, NEW d \in Devices, NEW v \in Versions,
         Metadata!GetBefore(p, d, v)
  PROVE  DevicesInv'
<1>1. PICK alone, agreed \in BOOLEAN :
        (alone <=> ~ Metadata!Busy(d)) /\ (agreed <=> d \in settled)
  OBVIOUS
<1>2. PICK r : r = [pc |-> "upsert", dev |-> d, new |-> v, before |-> dev[d], alone |-> alone,
                    agreed |-> agreed]
  OBVIOUS
<1>3. Metadata!Begin(p, {d}, r)
  BY <1>1, <1>2 DEF Metadata!GetBefore
<1>4. UNCHANGED <<dev, known>> /\ deviceReq[p].pc = "idle"
  BY IdleShape DEF Metadata!GetBefore
<1>5. DeviceReqShape(r)
  BY <1>2 DEF DeviceReqShape, ReplaceShape, Metadata!TypeReplace
<1>6. \A e \in Devices : /\ Metadata!Touches(r, e) => e \in {d}
                         /\ Alone(r, e) => ~ Metadata!Busy(e)
                         /\ Backs(r, e, known[e], dev[e])
  BY <1>1, <1>2 DEF DevicesInv, Metadata!Touches, Alone, Backs
<1> QED BY <1>3, <1>4, <1>5, <1>6, DeviceBeginKeeps

LEMMA ReplaceGoesOnKeeps ==
  ASSUME DevicesInv, NEW p \in Procs, deviceReq[p].pc \in Metadata!TypeReplace,
         NEW pc \in Metadata!TypeReplace, deviceReq' = [deviceReq EXCEPT ![p].pc = pc],
         UNCHANGED <<known, settled>>,
         \/ deviceReq[p].pc = "upsert" /\ dev' = [dev EXCEPT ![deviceReq[p].dev] = deviceReq[p].new]
         \/ deviceReq[p].pc = "send" /\ dev' = dev,
         pc # "upsert"
  PROVE  DevicesInv'
<1>1. PICK r : r = deviceReq[p]
  OBVIOUS
<1>2. ReplaceShape(r)
  BY <1>1, ReplaceReq
<1>3. PICK w : w = [r EXCEPT !.pc = pc]
  OBVIOUS
<1>4. w = [pc |-> pc, dev |-> r.dev, new |-> r.new, before |-> r.before,
           alone |-> r.alone, agreed |-> r.agreed]
  BY <1>2, <1>3 DEF ReplaceShape
<1>5. deviceReq' = [deviceReq EXCEPT ![p] = w]
  BY <1>1, <1>3
<1>6. PICK d \in Devices : d = r.dev
  BY <1>2 DEF ReplaceShape
<1>7. DeviceReqShape(w)
  BY <1>2, <1>4 DEF DeviceReqShape, ReplaceShape
<1>8. /\ dev' = [e \in Devices |-> dev'[e]] /\ known' = [e \in Devices |-> known'[e]]
      /\ \A e \in Devices \ {d} : dev'[e] = dev[e] /\ known'[e] = known[e]
      /\ r.pc = "upsert" => dev'[d] = r.new
      /\ r.pc = "send" => dev'[d] = dev[d]
      /\ known' = known /\ r.pc \in {"upsert", "send"}
  BY <1>1, <1>6 DEF DevicesInv
<1>9. \A e \in Devices : Backs(r, e, known[e], dev[e])
  BY <1>1 DEF DevicesInv
<1>10. \A e \in Devices : /\ Metadata!Touches(w, e) => Metadata!Touches(r, e)
                          /\ Alone(w, e) => Alone(r, e)
                          /\ Backs(w, e, known'[e], dev'[e])
  BY <1>2, <1>4, <1>6, <1>8, <1>9
     DEF Metadata!Touches, Alone, Backs, Metadata!TypeReplace, ReplaceShape
<1>11. Metadata!Touches(r, d)
  BY <1>2, <1>6 DEF Metadata!Touches, ReplaceShape
<1> QED BY <1>1, <1>5, <1>7, <1>8, <1>10, <1>11, DeviceActKeeps

LEMMA DeviceReplaceKeeps ==
  ASSUME DevicesInv, NEW p \in Procs,
         Metadata!Upsert(p) \/ Metadata!SendSnapshot(p) \/ Metadata!Revert(p)
  PROVE  DevicesInv'
<1>1. deviceReq[p].pc \in {"upsert", "send", "revert"}
  BY DEF Metadata!Upsert, Metadata!SendSnapshot, Metadata!Revert
<1>2. deviceReq[p].pc \in Metadata!TypeReplace
  BY <1>1 DEF Metadata!TypeReplace
<1>3. ReplaceShape(deviceReq[p])
  BY <1>2, ReplaceReq
<1>4. PICK r, d : r = deviceReq[p] /\ d = r.dev
  OBVIOUS
<1>5. d \in Devices /\ r.new \in Versions /\ r.new # None
  BY <1>3, <1>4, NamesAssumption DEF ReplaceShape
<1>6. r.alone => /\ dev[d] = IF r.pc = "upsert" THEN r.before ELSE r.new
                 /\ r.agreed => known[d] = r.before
  BY <1>2, <1>4, <1>5 DEF DevicesInv, Backs
<1>7. CASE Metadata!Upsert(p) /\ member
  <2>1. dev' = [dev EXCEPT ![d] = r.new]
    BY <1>4, <1>7
       DEF Metadata!Upsert, Metadata!Replaced, Metadata!Inserted, Metadata!Overwritten
  <2>2. r.pc = "upsert" /\ deviceReq' = [deviceReq EXCEPT ![p].pc = "send"]
        /\ UNCHANGED <<known, settled>>
    BY <1>4, <1>7 DEF Metadata!Upsert
  <2> QED BY <1>2, <1>4, <2>1, <2>2, ReplaceGoesOnKeeps DEF Metadata!TypeReplace
<1>8. CASE Metadata!Upsert(p) /\ ~ member
  <2>1. Metadata!End(p, r.agreed) /\ UNCHANGED <<dev, known>> /\ r.pc = "upsert"
    BY <1>4, <1>8 DEF Metadata!Upsert
  <2>2. /\ dev' = [e \in Devices |-> dev'[e]] /\ known' = [e \in Devices |-> known'[e]]
        /\ r.agreed /\ r.alone => known'[d] = dev'[d]
    BY <1>6, <2>1 DEF DevicesInv
  <2> QED BY <1>2, <1>4, <2>1, <2>2, EndKeeps
<1>9. CASE Metadata!SendSnapshot(p) /\ known' = Metadata!Told(d, r.new) /\ Metadata!End(p, TRUE)
  <2>1. UNCHANGED dev /\ r.pc = "send" /\ known' = [known EXCEPT ![d] = r.new]
    BY <1>4, <1>9 DEF Metadata!SendSnapshot, Metadata!Told
  <2>2. /\ dev' = [e \in Devices |-> dev'[e]] /\ known' = [e \in Devices |-> known'[e]]
        /\ \A e \in Devices \ {d} : known'[e] = known[e]
        /\ r.alone => known'[d] = dev'[d]
    BY <1>5, <1>6, <2>1 DEF DevicesInv
  <2> QED BY <1>2, <1>4, <1>9, <2>1, <2>2, EndKeeps
<1>10. CASE /\ Metadata!SendSnapshot(p) /\ deviceReq' = [deviceReq EXCEPT ![p].pc = "revert"]
            /\ UNCHANGED <<known, settled>>
  <2>1. UNCHANGED dev /\ r.pc = "send"
    BY <1>4, <1>10 DEF Metadata!SendSnapshot
  <2> QED BY <1>2, <1>4, <1>10, <2>1, ReplaceGoesOnKeeps DEF Metadata!TypeReplace
<1>11. CASE Metadata!Revert(p)
  <2>1. Metadata!End(p, r.agreed) /\ UNCHANGED known /\ r.pc = "revert"
    BY <1>4, <1>11 DEF Metadata!Revert
  <2>2. dev' = IF r.before = None THEN [dev EXCEPT ![d] = None]
               ELSE Metadata!Replaced(dev, d, r.before)
    BY <1>4, <1>11 DEF Metadata!Revert, Metadata!Reverted
  <2>3. dev' = dev \/ dev' = [dev EXCEPT ![d] = r.before]
    BY <2>2 DEF Metadata!Replaced, Metadata!Inserted, Metadata!Overwritten
  <2>4. dev[d] # None => dev' = [dev EXCEPT ![d] = r.before]
    BY <2>2 DEF Metadata!Replaced, Metadata!Overwritten
  <2>5. /\ dev' = [e \in Devices |-> dev'[e]] /\ known' = [e \in Devices |-> known'[e]]
        /\ \A e \in Devices \ {d} : dev'[e] = dev[e]
        /\ r.agreed /\ r.alone => known'[d] = dev'[d]
    BY <1>5, <1>6, <2>1, <2>3, <2>4 DEF DevicesInv
  <2> QED BY <1>2, <1>4, <2>1, <2>5, EndKeeps
<1> QED BY <1>4, <1>7, <1>8, <1>9, <1>10, <1>11 DEF Metadata!SendSnapshot

\* A deletion goes on with one of its devices.
LEMMA DeleteGoesOnKeeps ==
  ASSUME DevicesInv, NEW p \in Procs, deviceReq[p].pc = "rows",
         NEW d \in DOMAIN deviceReq[p].phase, NEW next, Metadata!GoTo(p, d, next),
         deviceReq[p].phase[d] \in {"delete", "snapshot", "tombstone"},
         dev' = [e \in Devices |-> dev'[e]], known' = [e \in Devices |-> known'[e]],
         \A e \in Devices \ {d} : dev'[e] = dev[e] /\ known'[e] = known[e],
         \/ next = "failed" /\ settled' = settled
         \/ next = "snapshot" /\ dev'[d] = None /\ settled' = settled
         \/ next = "tombstone" /\ (d \in deviceReq[p].alone => dev'[d] = None /\ known'[d] = None)
            /\ settled' = settled
         \/ next = "done" /\ settled' = settled \cup ({d} \cap deviceReq[p].alone)
            /\ (d \in deviceReq[p].alone => dev'[d] = known'[d])
  PROVE  DevicesInv'
<1>1. PICK r : r = deviceReq[p]
  OBVIOUS
<1>2. RowsShape(r) /\ r.pc = "rows" /\ "rows" \notin Metadata!TypeReplace
  BY <1>1 DEF DevicesInv, DeviceReqShape, ReplaceShape, Metadata!TypeReplace
<1>3. PICK f : f = [r.phase EXCEPT ![d] = next]
  OBVIOUS
<1>4. PICK w : w = [r EXCEPT !.phase = f]
  OBVIOUS
<1>5. w = [pc |-> "rows", phase |-> f, alone |-> r.alone]
  BY <1>2, <1>4 DEF RowsShape
<1>6. deviceReq' = [deviceReq EXCEPT ![p] = w]
  BY <1>1, <1>3, <1>4 DEF Metadata!GoTo
<1>7. /\ DOMAIN f = DOMAIN r.phase /\ f = [e \in DOMAIN f |-> f[e]]
      /\ \A e \in DOMAIN f : f[e] = IF e = d THEN next ELSE r.phase[e]
  BY <1>1, <1>2, <1>3 DEF RowsShape
<1>8. DeviceReqShape(w) /\ d \in Devices
  BY <1>1, <1>2, <1>5, <1>7 DEF DeviceReqShape, RowsShape
<1>9. \A e \in Devices : Backs(r, e, known[e], dev[e])
  BY <1>1 DEF DevicesInv
<1>10. \A e \in r.alone : e \in DOMAIN f
  BY <1>2, <1>7 DEF RowsShape
<1>11. \A e \in Devices : /\ Metadata!Touches(w, e) => Metadata!Touches(r, e)
                          /\ Alone(w, e) => Alone(r, e)
  BY <1>1, <1>2, <1>5, <1>7, <1>10 DEF Metadata!Touches, Alone
<1>12. \A e \in Devices : Backs(w, e, known'[e], dev'[e])
  BY <1>1, <1>2, <1>5, <1>7, <1>9, <1>10 DEF Backs
<1>13. Metadata!Touches(r, d)
  BY <1>1, <1>2 DEF Metadata!Touches
<1>14. \/ settled' = settled
       \/ /\ settled' = settled \cup {d} /\ known'[d] = dev'[d]
          /\ Alone(r, d) /\ ~ Metadata!Touches(w, d)
  <2>1. CASE next = "done" /\ d \in r.alone
    <3>1. Alone(r, d)
      BY <1>1, <1>2, <2>1 DEF Alone
    <3>2. ~ Metadata!Touches(w, d)
      BY <1>1, <1>2, <1>5, <1>7, <2>1 DEF Metadata!Touches
    <3> QED BY <1>1, <2>1, <3>1, <3>2
  <2>2. CASE ~ (next = "done" /\ d \in r.alone)
    BY <1>1, <2>2
  <2> QED BY <2>1, <2>2
<1> QED BY <1>1, <1>6, <1>8, <1>11, <1>12, <1>13, <1>14, DeviceActKeeps

LEMMA RowsReq ==
  ASSUME DevicesInv, NEW p \in Procs, deviceReq[p].pc = "rows"
  PROVE  RowsShape(deviceReq[p])
<1>1. PICK r : r = deviceReq[p]
  OBVIOUS
<1>2. DeviceReqShape(r)
  BY <1>1 DEF DevicesInv
<1>3. ReplaceShape(r) => r.pc # "rows"
  BY DEF ReplaceShape, Metadata!TypeReplace
<1>4. RowsShape(r)
  BY <1>1, <1>2, <1>3 DEF DeviceReqShape
<1> QED BY <1>1, <1>4

LEMMA DeleteDeviceKeeps ==
  ASSUME DevicesInv, NEW p \in Procs, deviceReq[p].pc = "rows",
         NEW d \in DOMAIN deviceReq[p].phase,
         \/ Metadata!DeleteRow(p, d) \/ Metadata!SendDeleted(p, d)
         \/ Metadata!SendTombstone(p, d)
  PROVE  DevicesInv'
<1>1. RowsShape(deviceReq[p])
  BY RowsReq
<1>2. d \in Devices
  BY <1>1 DEF RowsShape
<1>3. d \in deviceReq[p].alone =>
        /\ deviceReq[p].phase[d] = "snapshot" => dev[d] = None
        /\ deviceReq[p].phase[d] = "tombstone" => dev[d] = None /\ known[d] = None
  BY <1>2 DEF DevicesInv, Backs
<1>4. CASE Metadata!DeleteRow(p, d)
  <2>1. /\ deviceReq[p].phase[d] = "delete" /\ Metadata!GoTo(p, d, "snapshot")
        /\ dev' = [dev EXCEPT ![d] = None] /\ known' = known /\ settled' = settled
    BY <1>4 DEF Metadata!DeleteRow
  <2>2. /\ dev' = [e \in Devices |-> dev'[e]] /\ known' = [e \in Devices |-> known'[e]]
        /\ \A e \in Devices \ {d} : dev'[e] = dev[e] /\ known'[e] = known[e]
        /\ dev'[d] = None
    BY <1>2, <2>1 DEF DevicesInv
  <2> QED BY <2>1, <2>2, DeleteGoesOnKeeps
<1>5. CASE Metadata!Fail(p, d) /\ dev' = dev
           /\ deviceReq[p].phase[d] \in {"delete", "snapshot", "tombstone"}
  <2>1. Metadata!GoTo(p, d, "failed") /\ known' = known /\ settled' = settled
    BY <1>5 DEF Metadata!Fail
  <2>2. /\ dev' = [e \in Devices |-> dev'[e]] /\ known' = [e \in Devices |-> known'[e]]
        /\ \A e \in Devices \ {d} : dev'[e] = dev[e] /\ known'[e] = known[e]
    BY <1>5, <2>1 DEF DevicesInv
  <2> QED BY <1>5, <2>1, <2>2, DeleteGoesOnKeeps
<1>6. CASE /\ deviceReq[p].phase[d] = "snapshot" /\ known' = Metadata!Told(d, None)
           /\ Metadata!GoTo(p, d, "tombstone") /\ dev' = dev /\ settled' = settled
  <2>1. /\ dev' = [e \in Devices |-> dev'[e]] /\ known' = [e \in Devices |-> known'[e]]
        /\ \A e \in Devices \ {d} : dev'[e] = dev[e] /\ known'[e] = known[e]
        /\ known'[d] = None /\ dev'[d] = dev[d]
    BY <1>2, <1>6 DEF DevicesInv, Metadata!Told
  <2> QED BY <1>3, <1>6, <2>1, DeleteGoesOnKeeps
<1>7. CASE /\ deviceReq[p].phase[d] = "tombstone" /\ known' = [known EXCEPT ![d] = None]
           /\ Metadata!GoTo(p, d, "done") /\ dev' = dev
           /\ settled' = settled \cup ({d} \cap deviceReq[p].alone)
  <2>1. /\ dev' = [e \in Devices |-> dev'[e]] /\ known' = [e \in Devices |-> known'[e]]
        /\ \A e \in Devices \ {d} : dev'[e] = dev[e] /\ known'[e] = known[e]
        /\ known'[d] = None /\ dev'[d] = dev[d]
    BY <1>2, <1>7 DEF DevicesInv
  <2> QED BY <1>3, <1>7, <2>1, DeleteGoesOnKeeps
<1> QED BY <1>4, <1>5, <1>6, <1>7 DEF Metadata!SendDeleted, Metadata!SendTombstone

\* A request that leaves all devices alone from now on.
LEMMA LeavesDevicesKeeps ==
  ASSUME DevicesInv, NEW p \in Procs,
         \/ deviceReq' = [deviceReq EXCEPT ![p] = Metadata!Idle]
         \/ deviceReq' = [deviceReq EXCEPT ![p] = [pc |-> "select"]],
         UNCHANGED <<dev, known, settled>>
  PROVE  DevicesInv'
<1>1. PICK w : /\ w = [pc |-> "idle"] \/ w = [pc |-> "select"]
               /\ deviceReq' = [deviceReq EXCEPT ![p] = w]
  BY DEF Metadata!Idle
<1>2. /\ DeviceReqShape(w)
      /\ \A e : ~ Metadata!Touches(w, e) /\ ~ Alone(w, e)
      /\ \A e \in Devices : Backs(w, e, known'[e], dev'[e])
  BY <1>1 DEF DeviceReqShape, Metadata!Touches, Metadata!TypeReplace, Alone, Backs
<1>3. CASE Devices = {}
  BY <1>1, <1>2, <1>3 DEF DevicesInv
<1>4. ASSUME NEW d \in Devices
      PROVE  DevicesInv'
  <2>1. dev' = [e \in Devices |-> dev'[e]] /\ known' = [e \in Devices |-> known'[e]]
    BY DEF DevicesInv
  <2> QED BY <1>1, <1>2, <2>1, DeviceActKeeps
<1> QED BY <1>3, <1>4

LEMMA SelectDevicesKeeps ==
  ASSUME DevicesInv, NEW p \in Procs, Metadata!SelectDevices(p)
  PROVE  DevicesInv'
<1>1. PICK rows, alone : /\ rows = {d \in Devices : dev[d] # None}
                         /\ alone = {d \in rows : ~ Metadata!Busy(d)}
  OBVIOUS
<1>2. PICK f : f = [d \in rows |-> "delete"]
  OBVIOUS
<1>3. PICK r : r = [pc |-> "rows", phase |-> f, alone |-> alone]
  OBVIOUS
<1>4. Metadata!Begin(p, rows, r)
  BY <1>1, <1>2, <1>3 DEF Metadata!SelectDevices
<1>5. UNCHANGED <<dev, known>> /\ deviceReq[p].pc = "select"
  BY DEF Metadata!SelectDevices
<1>6. DeviceReqShape(r)
  BY <1>1, <1>2, <1>3 DEF DeviceReqShape, RowsShape
<1>7. \A d \in alone : ~ Metadata!Busy(d) /\ f[d] = "delete"
  BY <1>1, <1>2 DEF DevicesInv
<1>8. \A e \in Devices : /\ Metadata!Touches(r, e) => e \in rows
                         /\ Alone(r, e) => ~ Metadata!Busy(e)
                         /\ Backs(r, e, known[e], dev[e])
  BY <1>2, <1>3, <1>7 DEF Metadata!Touches, Alone, Backs, Metadata!TypeReplace
<1> QED BY <1>4, <1>5, <1>6, <1>8, DeviceBeginKeeps

LEMMA DeviceStepKeeps == DevicesInv /\ Metadata!Next => DevicesInv'
<1> SUFFICES ASSUME DevicesInv, NEW p \in Procs,
               \/ \E d \in Devices, v \in Versions : Metadata!GetBefore(p, d, v)
               \/ Metadata!Upsert(p) \/ Metadata!SendSnapshot(p) \/ Metadata!Revert(p)
               \/ Metadata!DeleteUser(p) \/ Metadata!SelectDevices(p)
               \/ /\ deviceReq[p].pc = "rows"
                  /\ \/ \E d \in DOMAIN deviceReq[p].phase :
                          \/ Metadata!DeleteRow(p, d) \/ Metadata!SendDeleted(p, d)
                          \/ Metadata!SendTombstone(p, d)
                     \/ Metadata!DeleteMember(p)
               \/ Metadata!CutOff(p)
             PROVE  DevicesInv'
  BY DEF Metadata!Next
<1>1. CASE Metadata!DeleteUser(p) \/ Metadata!DeleteMember(p) \/ Metadata!CutOff(p)
  BY <1>1, LeavesDevicesKeeps
     DEF Metadata!DeleteUser, Metadata!DeleteMember, Metadata!CutOff
<1> QED BY <1>1, GetBeforeKeeps, DeviceReplaceKeeps, SelectDevicesKeeps, DeleteDeviceKeeps

LEMMA DeviceStutterKeeps ==
  DevicesInv /\ UNCHANGED <<dev, known, deviceReq, settled>> => DevicesInv'
BY DEF DevicesInv, Metadata!Busy

LEMMA DeviceInitHolds == Metadata!Init => DevicesInv
BY IdleShape DEF Metadata!Init, Metadata!Idle, DevicesInv, Metadata!Busy, Metadata!Touches,
                 Metadata!TypeReplace, Alone, Backs
-----------------------------------------------------------------------------
(* The active users: the miner's sessions follow each other, so what one     *)
(* message covers and those before it do not is what it is counted in.     *)

\* Message ms comes next after prev.
Follows(ms, prev) ==
  /\ ms.before = prev.ended /\ prev.natural + MinDuration <= ms.natural
  /\ \/ prev.ended < ms.natural /\ ms.started = ms.natural /\ ms.extension = Duration
     \/ ms.started <= prev.natural /\ ms.extension = ms.ended - prev.ended

First(ms) == ms.before = None /\ ms.started = ms.natural /\ ms.extension = Duration

LogOK ==
  /\ log \in Seq(Mining!Session)
  /\ \A i \in 1..Len(log) :
       /\ log[i].started <= log[i].natural /\ log[i].ended = log[i].natural + Duration
       /\ IF i = 1 THEN First(log[i]) ELSE Follows(log[i], log[i - 1])
  /\ \A i, j \in 1..Len(log) : i <= j => log[i].ended <= log[j].ended

\* The message that the users row holds, 0 if there is none.
Taken == IF phase = "count" THEN pos ELSE done

Counted ==
  /\ done \in 0..Len(log)
  /\ pos \in {done, done + 1} /\ pos # 0
  /\ phase = "count" => pos = done + 1 /\ pos <= Len(log)
  /\ row.started = (IF Taken = 0 THEN None ELSE log[Taken].natural)
  /\ row.ended = (IF Taken = 0 THEN None ELSE log[Taken].ended)
  /\ active = [c \in Mining!Children |->
                 IF \E i \in 1..done : c \in Mining!Covered(log[i]) THEN 1 ELSE 0]

MiningInv ==
  /\ LogOK
  /\ disturbed \/ undone \/ Counted
-----------------------------------------------------------------------------
LEMMA Intervals ==
  /\ Child \in Nat \ {0} /\ MinDuration \in Nat \ {0} /\ Duration \in Nat \ {0}
  /\ MinDuration <= Duration /\ None \notin Nat
BY IntervalsAssumption

LEMMA DivOrdered ==
  ASSUME NEW d \in Nat \ {0}, NEW a \in Nat, NEW b \in Nat
  PROVE  /\ a \div d \in Nat
         /\ a <= b => a \div d <= b \div d
         /\ a + d <= b => a \div d < b \div d
         /\ (a + d) \div d = a \div d + 1
<1>1. a \div d \in Nat /\ (a + d) \div d = a \div d + 1
  OBVIOUS
<1>2. a <= b => a \div d <= b \div d
  OBVIOUS
<1>3. a + d <= b => a \div d < b \div d
  OBVIOUS
<1> QED BY <1>1, <1>2, <1>3

\* The part of a session that a message tells of lies within the session.
LEMMA PartOf ==
  ASSUME LogOK, NEW i \in 1..Len(log)
  PROVE  /\ log[i] \in Mining!Session
         /\ log[i].ended \in Nat /\ log[i].natural \in Nat
         /\ log[i].ended - log[i].extension \in Nat
         /\ log[i].ended - log[i].extension <= log[i].ended
<1>1. log[i] \in Mining!Session /\ Len(log) \in Nat
  BY DEF LogOK
<1>2. /\ log[i].ended \in Nat /\ log[i].natural \in Nat /\ log[i].extension \in Nat
      /\ log[i].ended = log[i].natural + Duration
  BY <1>1 DEF Mining!Session, LogOK
<1>3. CASE log[i].extension = Duration
  BY <1>1, <1>2, <1>3, Intervals
<1>4. CASE log[i].extension # Duration
  <2>1. i # 1
    BY <1>4 DEF LogOK, First
  <2>2. i - 1 \in 1..Len(log)
    BY <1>1, <2>1
  <2>3. log[i - 1] \in Mining!Session
    BY <2>2 DEF LogOK
  <2>4. log[i].extension = log[i].ended - log[i - 1].ended
    BY <1>4, <2>1 DEF LogOK, Follows
  <2>5. log[i - 1].ended \in Nat
    BY <2>3 DEF Mining!Session
  <2> QED BY <1>1, <1>2, <2>4, <2>5
<1> QED BY <1>3, <1>4

\* The interval a message ends in is the last of those covered so far.
LEMMA CoveredUpTo ==
  ASSUME LogOK, NEW n \in 1..Len(log), NEW c
  PROVE  /\ Mining!ChildOf(log[n].ended) \in Mining!Covered(log[n])
         /\ \A i \in 1..n : c \in Mining!Covered(log[i]) => c <= Mining!ChildOf(log[n].ended)
<1>1. Len(log) \in Nat /\ Child \in Nat \ {0}
  BY Intervals DEF LogOK
<1>2. Mining!ChildOf(log[n].ended) \in Mining!Covered(log[n])
  <2>1. PICK a, b : a = log[n].ended - log[n].extension /\ b = log[n].ended
    OBVIOUS
  <2>2. a \in Nat /\ b \in Nat /\ a <= b
    BY <2>1, PartOf
  <2>3. a \div Child \in Nat /\ b \div Child \in Nat /\ a \div Child <= b \div Child
    BY <1>1, <2>2, DivOrdered
  <2> QED BY <2>1, <2>3 DEF Mining!ChildOf, Mining!Covered
<1>3. ASSUME NEW i \in 1..n, c \in Mining!Covered(log[i])
      PROVE  c <= Mining!ChildOf(log[n].ended)
  <2>1. i \in 1..Len(log)
    BY <1>1
  <2>2. log[i].ended <= log[n].ended
    BY <1>1, <2>1 DEF LogOK
  <2>3. log[i].ended \in Nat /\ log[n].ended \in Nat /\ log[i].ended - log[i].extension \in Nat
    BY <2>1, PartOf
  <2>4. Mining!ChildOf(log[i].ended) <= Mining!ChildOf(log[n].ended)
    BY <1>1, <2>2, <2>3, DivOrdered DEF Mining!ChildOf
  <2>5. /\ Mining!ChildOf(log[i].ended) \in Nat /\ Mining!ChildOf(log[n].ended) \in Nat
        /\ Mining!ChildOf(log[i].ended - log[i].extension) \in Nat
    BY <1>1, <2>3, DivOrdered DEF Mining!ChildOf
  <2> QED BY <1>3, <2>4, <2>5 DEF Mining!Covered
<1> QED BY <1>2, <1>3

\* A message is counted in the intervals it covers and those before it do not.
LEMMA KeysFirst ==
  ASSUME LogOK, 1 \in 1..Len(log), NEW c \in Mining!Children
  PROVE  c \in Mining!IncrementedKeys(log[1]) <=> c \in Mining!Covered(log[1])
<1>1. PICK ms : ms = log[1]
  OBVIOUS
<1>2. First(ms)
  BY <1>1 DEF LogOK
<1>3. /\ ms.ended \in Nat /\ ms.natural \in Nat /\ ms.ended - ms.extension \in Nat
      /\ ms.ended - ms.extension <= ms.ended
  BY <1>1, PartOf
<1>4. ~ Mining!BeginsCounted(ms) /\ ~ Mining!EndsCounted(ms)
  BY <1>2 DEF First, Mining!BeginsCounted, Mining!EndsCounted
<1>5. PICK from, end : /\ from = Mining!ChildOf(ms.ended - ms.extension)
                       /\ end = Mining!ChildOf(ms.ended)
  OBVIOUS
<1>6. from \in Nat /\ end \in Nat /\ from <= end
  BY <1>3, <1>5, Intervals, DivOrdered DEF Mining!ChildOf
<1>7. ms.ended - ms.extension + 0 = ms.ended - ms.extension
  BY <1>3
<1>8. Mining!IncrementedKeys(ms) =
        {e \in Mining!Children : from <= e /\ e < end} \cup {end}
  BY <1>4, <1>5, <1>7 DEF Mining!IncrementedKeys
<1>9. Mining!Covered(ms) = from..end
  BY <1>5 DEF Mining!Covered
<1>10. c \in Int
  BY DEF Mining!Children
<1> QED BY <1>1, <1>6, <1>8, <1>9, <1>10

LEMMA KeysNext ==
  ASSUME LogOK, NEW n \in 1..Len(log), n + 1 \in 1..Len(log), NEW c \in Mining!Children
  PROVE  /\ c \in Mining!IncrementedKeys(log[n + 1]) <=>
              c \in Mining!Covered(log[n + 1]) /\ c # Mining!ChildOf(log[n].ended)
         /\ c \in Mining!Covered(log[n + 1]) => c >= Mining!ChildOf(log[n].ended)
<1>1. PICK ms, prev : ms = log[n + 1] /\ prev = log[n]
  OBVIOUS
<1>2. Follows(ms, prev)
  BY <1>1 DEF LogOK
<1>3. /\ ms.ended \in Nat /\ ms.natural \in Nat /\ ms.ended - ms.extension \in Nat
      /\ ms.ended - ms.extension <= ms.ended
      /\ prev.ended \in Nat /\ prev.natural \in Nat
      /\ ms.ended = ms.natural + Duration
      /\ ms \in Mining!Session
  BY <1>1, PartOf DEF LogOK
<1>4. PICK from, end, old : /\ from = Mining!ChildOf(ms.ended - ms.extension)
                            /\ end = Mining!ChildOf(ms.ended)
                            /\ old = Mining!ChildOf(prev.ended)
  OBVIOUS
<1>5. prev.ended <= ms.ended - ms.extension
  <2>1. ms.extension \in Nat /\ Duration \in Nat
    BY <1>3, Intervals DEF Mining!Session
  <2>2. CASE prev.ended < ms.natural /\ ms.extension = Duration
    <3>1. ms.ended - ms.extension = ms.natural
      BY <1>3, <2>1, <2>2
    <3> QED BY <1>3, <2>2, <3>1
  <2>3. CASE ms.extension = ms.ended - prev.ended
    BY <1>3, <2>3
  <2> QED BY <1>2, <2>2, <2>3 DEF Follows
<1>6. /\ from \in Nat /\ end \in Nat /\ old \in Nat /\ old <= from /\ from <= end
      /\ Mining!ChildOf(ms.ended - ms.extension + Child) = from + 1
  BY <1>3, <1>4, <1>5, Intervals, DivOrdered DEF Mining!ChildOf
<1>7. Mining!BeginsCounted(ms) <=> old = from
  <2>1. CASE ms.started = ms.natural
    <3>1. ~ ms.started <= prev.natural
      BY <1>2, <1>3, <2>1, Intervals DEF Follows
    <3>2. ms.extension = Duration
      BY <1>2, <3>1 DEF Follows
    <3>3. ms.ended - ms.extension = ms.natural
      BY <1>3, <3>2, Intervals
    <3>4. ms.before # None /\ ms.before = prev.ended
      BY <1>2, <1>3, Intervals DEF Follows
    <3> QED BY <1>4, <2>1, <3>3, <3>4 DEF Mining!BeginsCounted
  <2>2. CASE ms.started # ms.natural
    <3>1. ms.ended - ms.extension = prev.ended
      BY <1>2, <1>3, <2>2, Intervals DEF Follows, Mining!Session
    <3> QED BY <1>4, <2>2, <3>1 DEF Mining!BeginsCounted
  <2> QED BY <2>1, <2>2
<1>8. Mining!EndsCounted(ms) <=> end = old
  BY <1>2, <1>3, <1>4, Intervals DEF Follows, Mining!EndsCounted
<1>9. Mining!Covered(ms) = from..end
  BY <1>4 DEF Mining!Covered
<1>10. c \in Int
  BY DEF Mining!Children
<1>11. ms.ended - ms.extension + 0 = ms.ended - ms.extension
  BY <1>3
<1>12. Mining!IncrementedKeys(ms) =
        {e \in Mining!Children : (IF old = from THEN from + 1 ELSE from) <= e /\ e < end}
          \cup (IF end = old THEN {} ELSE {end})
  BY <1>4, <1>6, <1>7, <1>8, <1>11 DEF Mining!IncrementedKeys
<1> QED BY <1>1, <1>4, <1>6, <1>9, <1>10, <1>12
-----------------------------------------------------------------------------
LEMMA SendKeeps ==
  ASSUME MiningInv, NEW session \in Mining!Session, Mining!Send(session), undone' = undone,
         session.started <= session.natural, session.ended = session.natural + Duration,
         IF log = <<>> THEN First(session) ELSE Follows(session, Mining!Last)
  PROVE  MiningInv'
<1>1. log \in Seq(Mining!Session) /\ Len(log) \in Nat
  BY DEF MiningInv, LogOK
<1>2. /\ log' = Append(log, session) /\ log' \in Seq(Mining!Session)
      /\ Len(log') = Len(log) + 1 /\ log'[Len(log) + 1] = session
      /\ \A i \in 1..Len(log) : log'[i] = log[i]
      /\ log = <<>> <=> Len(log) = 0
  BY <1>1 DEF Mining!Send
<1>3. \A i \in 1..Len(log) : log[i].ended \in Nat /\ log[i].ended <= session.ended
  <2> SUFFICES ASSUME NEW i \in 1..Len(log)
               PROVE  log[i].ended \in Nat /\ log[i].ended <= session.ended
    OBVIOUS
  <2>1. Len(log) \in 1..Len(log) /\ log # <<>>
    BY <1>1, <1>2
  <2>2. log[i].ended <= log[Len(log)].ended
    BY <1>1, <2>1 DEF MiningInv, LogOK
  <2>3. PICK prev : prev = log[Len(log)]
    OBVIOUS
  <2>4. /\ prev.natural \in Nat /\ prev.ended \in Nat /\ log[i].ended \in Nat
        /\ prev.ended = prev.natural + Duration
    BY <2>1, <2>3, PartOf DEF MiningInv, LogOK
  <2>5. prev.natural + MinDuration <= session.natural
    BY <2>1, <2>3 DEF Follows, Mining!Last
  <2>6. session.natural \in Nat
    BY DEF Mining!Session
  <2>7. prev.ended <= session.ended
    BY <2>4, <2>5, <2>6, Intervals
  <2>8. session.ended \in Nat
    BY <2>6, Intervals
  <2> QED BY <2>2, <2>3, <2>4, <2>7, <2>8
<1>4. LogOK'
  <2>1. ASSUME NEW i \in 1..Len(log')
        PROVE  /\ log'[i].started <= log'[i].natural
               /\ log'[i].ended = log'[i].natural + Duration
               /\ IF i = 1 THEN First(log'[i]) ELSE Follows(log'[i], log'[i - 1])
    <3>1. CASE i \in 1..Len(log)
      <4>1. i # 1 => i - 1 \in 1..Len(log)
        BY <1>1, <3>1
      <4> QED BY <1>2, <3>1, <4>1 DEF MiningInv, LogOK
    <3>2. CASE i = Len(log) + 1
      <4>1. i # 1 => i - 1 = Len(log) /\ Len(log) \in 1..Len(log)
        BY <1>1, <3>2
      <4> QED BY <1>1, <1>2, <3>2, <4>1 DEF Mining!Last
    <3> QED BY <1>1, <1>2, <3>1, <3>2
  <2>2. ASSUME NEW i \in 1..Len(log'), NEW j \in 1..Len(log'), i <= j
        PROVE  log'[i].ended <= log'[j].ended
    <3>1. CASE j \in 1..Len(log)
      <4>1. i \in 1..Len(log)
        BY <1>1, <1>2, <2>2, <3>1
      <4> QED BY <1>2, <2>2, <3>1, <4>1 DEF MiningInv, LogOK
    <3>2. CASE j = Len(log) + 1 /\ i \in 1..Len(log)
      BY <1>2, <1>3, <3>2
    <3>3. CASE j = Len(log) + 1 /\ i = Len(log) + 1
      BY <1>2, <3>3, Intervals DEF Mining!Session
    <3> QED BY <1>1, <1>2, <3>1, <3>2, <3>3
  <2> QED BY <1>2, <2>1, <2>2 DEF LogOK
<1>5. Counted => Counted'
  <2> SUFFICES ASSUME Counted
               PROVE  Counted'
    OBVIOUS
  <2>1. UNCHANGED <<row, pos, phase, active, done>>
    BY DEF Mining!Send
  <2>2. /\ done \in 0..Len(log) /\ Taken' = Taken
        /\ Taken # 0 => Taken \in 1..Len(log)
    BY <1>1, <2>1 DEF Counted, Taken
  <2>3. done \in 0..Len(log') /\ \A i \in 1..done : log'[i] = log[i]
    BY <1>1, <1>2, <2>2
  <2>4. \A i \in 1..done : Mining!Covered(log'[i]) = Mining!Covered(log[i])
    BY <2>3
  <2>5. pos <= Len(log) => pos <= Len(log')
    BY <1>1, <1>2, <2>2 DEF Counted
  <2>6. /\ row.started = (IF Taken = 0 THEN None ELSE log'[Taken].natural)
        /\ row.ended = (IF Taken = 0 THEN None ELSE log'[Taken].ended)
    BY <1>2, <2>2 DEF Counted
  <2>7. active = [c \in Mining!Children |->
                    IF \E i \in 1..done : c \in Mining!Covered(log'[i]) THEN 1 ELSE 0]
    BY <2>4 DEF Counted
  <2> QED BY <2>1, <2>2, <2>3, <2>5, <2>6, <2>7 DEF Counted
<1>6. disturbed' = disturbed
  BY DEF Mining!Send
<1> QED BY <1>4, <1>5, <1>6 DEF MiningInv

LEMMA BeginKeeps ==
  ASSUME MiningInv, NEW now \in 0..MaxTime, Mining!Begin(now), undone' = undone
  PROVE  MiningInv'
<1>1. PICK ms : ms = [natural |-> now, started |-> now, ended |-> now + Duration,
             before |-> IF log = <<>> THEN None ELSE Mining!Last.ended, extension |-> Duration]
  OBVIOUS
<1>2. Mining!Send(ms)
  BY <1>1 DEF Mining!Begin
<1>3. log # <<>> => /\ Mining!Last.natural \in Nat /\ Mining!Last.ended \in Nat
                    /\ Mining!Last.ended = Mining!Last.natural + Duration
  <2>1. log # <<>> => Len(log) \in 1..Len(log)
    BY DEF MiningInv, LogOK
  <2> QED BY <2>1, PartOf DEF Mining!Last, MiningInv, LogOK
<1>4. ms \in Mining!Session
  BY <1>1, <1>3, Intervals DEF Mining!Session
<1>5. ms.started <= ms.natural /\ ms.ended = ms.natural + Duration
  BY <1>1, Intervals
<1>6. IF log = <<>> THEN First(ms) ELSE Follows(ms, Mining!Last)
  <2>1. log = <<>> => First(ms)
    BY <1>1 DEF First
  <2>2. log # <<>> => Mining!Last.ended < now
    BY DEF Mining!Begin
  <2>3. log # <<>> => Mining!Last.natural + MinDuration <= now
    BY <1>3, <2>2, Intervals
  <2> QED BY <1>1, <2>1, <2>2, <2>3 DEF Follows
<1> QED BY <1>2, <1>4, <1>5, <1>6, SendKeeps

LEMMA ExtendKeeps ==
  ASSUME MiningInv, NEW now \in 0..MaxTime, Mining!Extend(now), undone' = undone
  PROVE  MiningInv'
<1>1. PICK last1 : last1 = Mining!Last
  OBVIOUS
<1>2. PICK ms : ms = [natural |-> now, started |-> last1.started, ended |-> now + Duration,
             before |-> last1.ended, extension |-> now + Duration - last1.ended]
  OBVIOUS
<1>3. Mining!Send(ms)
  BY <1>1, <1>2 DEF Mining!Extend
<1>4. /\ log # <<>> /\ last1.natural \in Nat /\ last1.ended \in Nat
      /\ last1.ended = last1.natural + Duration /\ last1.started <= last1.natural
      /\ last1.started \in 0..MaxTime
  <2>1. log # <<>> /\ Len(log) \in 1..Len(log)
    BY DEF MiningInv, LogOK, Mining!Extend
  <2>2. last1 = log[Len(log)]
    BY <1>1 DEF Mining!Last
  <2>3. last1 \in Mining!Session
    BY <2>1, <2>2, PartOf DEF MiningInv
  <2>4. last1.ended = last1.natural + Duration /\ last1.started <= last1.natural
    BY <2>1, <2>2 DEF MiningInv, LogOK
  <2> QED BY <2>1, <2>3, <2>4 DEF Mining!Session
<1>5. last1.natural + MinDuration <= now /\ now <= last1.ended
  BY <1>1 DEF Mining!Extend
<1>6. now + Duration - last1.ended \in Nat
  BY <1>4, <1>5, Intervals
<1>7. ms \in Mining!Session
  BY <1>2, <1>4, <1>6, Intervals DEF Mining!Session
<1>8. ms.started <= ms.natural /\ ms.ended = ms.natural + Duration
  BY <1>2, <1>4, <1>5, Intervals
<1>9. Follows(ms, last1)
  <2>1. /\ ms.before = last1.ended /\ ms.natural = now /\ ms.started = last1.started
        /\ ms.extension = now + Duration - last1.ended /\ ms.ended = now + Duration
    BY <1>2
  <2>2. /\ ms.before = last1.ended /\ last1.natural + MinDuration <= ms.natural
        /\ ms.started <= last1.natural
    BY <1>4, <1>5, <2>1
  <2>3. ms.extension = ms.ended - last1.ended
    BY <1>4, <2>1, Intervals
  <2> QED BY <2>2, <2>3 DEF Follows
<1> QED BY <1>1, <1>3, <1>4, <1>7, <1>8, <1>9, SendKeeps

\* The consumer.
LEMMA UpdateSessionKeeps ==
  ASSUME MiningInv, Mining!UpdateMiningSession, undone' = undone,
         row = [completed |-> row.completed, verified |-> row.verified,
                started |-> row.started, ended |-> row.ended]
  PROVE  MiningInv'
<1>1. UNCHANGED <<log, active, done, disturbed>> /\ phase = "update"
  BY DEF Mining!UpdateMiningSession
<1>2. LogOK'
  BY <1>1 DEF MiningInv, LogOK
<1>3. Counted => Counted'
  <2> SUFFICES ASSUME Counted
               PROVE  Counted'
    OBVIOUS
  <2>1. Len(log) \in Nat /\ pos <= Len(log) /\ done \in 0..Len(log) /\ pos \in 1..Len(log)
    BY DEF MiningInv, LogOK, Counted, Mining!UpdateMiningSession
  <2>2. PICK ms, r : ms = log[pos] /\ r = row
    OBVIOUS
  <2>3. ms.natural \in Nat /\ ms.ended \in Nat /\ ms.ended = ms.natural + Duration
    BY <2>1, <2>2, PartOf DEF MiningInv, LogOK
  <2>4. /\ r.started = (IF done = 0 THEN None ELSE log[done].natural)
        /\ r.ended = (IF done = 0 THEN None ELSE log[done].ended)
    BY <1>1, <2>2 DEF Counted, Taken
  <2>5. CASE pos = done
    <3>1. ~ Mining!Differs(r.started, ms.natural)
      BY <2>1, <2>2, <2>3, <2>4, <2>5, Intervals DEF Mining!Differs
    <3>2. pos' = pos + 1 /\ UNCHANGED <<row, phase>>
      BY <2>2, <3>1 DEF Mining!UpdateMiningSession
    <3> QED BY <1>1, <2>5, <3>2 DEF Counted, Taken
  <2>6. CASE pos = done + 1
    <3>1. ASSUME done = 0
          PROVE  Mining!Differs(r.started, ms.natural) /\ Mining!Differs(r.ended, ms.ended)
      BY <2>4, <3>1 DEF Mining!Differs
    <3>2. ASSUME done # 0
          PROVE  Mining!Differs(r.started, ms.natural) /\ Mining!Differs(r.ended, ms.ended)
      <4>1. PICK prev : prev = log[done]
        OBVIOUS
      <4>2. prev.natural \in Nat /\ prev.ended \in Nat /\ prev.ended = prev.natural + Duration
        BY <2>1, <3>2, <4>1, PartOf DEF MiningInv, LogOK
      <4>3. prev.natural + MinDuration <= ms.natural
        <5>1. pos # 1 /\ pos - 1 = done
          BY <2>1, <2>6, <3>2
        <5> QED BY <2>1, <2>2, <4>1, <5>1 DEF MiningInv, LogOK, Follows
      <4>4. prev.ended + MinDuration <= ms.ended
        BY <2>3, <4>2, <4>3, Intervals
      <4>5. /\ prev.natural \div MinDuration # ms.natural \div MinDuration
            /\ prev.ended \div MinDuration # ms.ended \div MinDuration
        <5>1. /\ prev.natural \div MinDuration < ms.natural \div MinDuration
              /\ prev.ended \div MinDuration < ms.ended \div MinDuration
          BY <2>3, <4>2, <4>3, <4>4, Intervals, DivOrdered
        <5>2. /\ prev.natural \div MinDuration \in Nat /\ ms.natural \div MinDuration \in Nat
              /\ prev.ended \div MinDuration \in Nat /\ ms.ended \div MinDuration \in Nat
          BY <2>3, <4>2, Intervals, DivOrdered
        <5> QED BY <5>1, <5>2
      <4> QED BY <2>4, <3>2, <4>1, <4>5 DEF Mining!Differs
    <3>3. Mining!Differs(r.started, ms.natural) /\ Mining!Differs(r.ended, ms.ended)
      BY <3>1, <3>2
    <3>4. /\ row' = [r EXCEPT !.started = ms.natural, !.ended = ms.ended]
          /\ phase' = "count" /\ pos' = pos
      BY <2>2, <3>3 DEF Mining!UpdateMiningSession
    <3>5. row'.started = ms.natural /\ row'.ended = ms.ended
      BY <2>2, <3>4
    <3> QED BY <1>1, <2>1, <2>2, <2>6, <3>4, <3>5 DEF Counted, Taken
  <2> QED BY <2>5, <2>6 DEF Counted
<1> QED BY <1>1, <1>2, <1>3 DEF MiningInv

LEMMA IncrementActiveKeeps ==
  ASSUME MiningInv, Mining!IncrementTotalActiveUsersCount, undone' = undone
  PROVE  MiningInv'
<1>1. /\ UNCHANGED <<row, log, disturbed>> /\ phase = "count" /\ phase' = "update"
      /\ pos' = pos + 1 /\ done' = IF pos > done THEN pos ELSE done
  BY DEF Mining!IncrementTotalActiveUsersCount
<1>2. LogOK'
  BY <1>1 DEF MiningInv, LogOK
<1>3. Counted => Counted'
  <2> SUFFICES ASSUME Counted
               PROVE  Counted'
    OBVIOUS
  <2>1. /\ Len(log) \in Nat /\ done \in 0..Len(log) /\ pos = done + 1 /\ pos \in 1..Len(log)
        /\ done' = done + 1
    BY <1>1 DEF MiningInv, LogOK, Counted
  <2>2. ASSUME NEW c \in Mining!Children
        PROVE  c \in Mining!IncrementedKeys(log[pos]) <=>
                 /\ c \in Mining!Covered(log[pos])
                 /\ ~ \E i \in 1..done : c \in Mining!Covered(log[i])
    <3>1. CASE done = 0
      BY <2>1, <3>1, KeysFirst DEF MiningInv
    <3>2. CASE done # 0
      <4>1. PICK old : old = Mining!ChildOf(log[done].ended)
        OBVIOUS
      <4>2. done \in 1..Len(log) /\ pos = done + 1 /\ done + 1 \in 1..Len(log)
        BY <2>1, <3>2
      <4>3. /\ c \in Mining!IncrementedKeys(log[pos]) <=>
                 c \in Mining!Covered(log[pos]) /\ c # old
            /\ c \in Mining!Covered(log[pos]) => c >= old
        BY <4>1, <4>2, KeysNext DEF MiningInv
      <4>4. /\ old \in Mining!Covered(log[done])
            /\ \A i \in 1..done : c \in Mining!Covered(log[i]) => c <= old
        BY <4>1, <4>2, CoveredUpTo DEF MiningInv
      <4>5. done \in 1..done
        BY <4>2
      <4>6. old \in Int /\ c \in Int
        BY <4>4 DEF Mining!Covered, Mining!Children
      <4>7. c = old => \E i \in 1..done : c \in Mining!Covered(log[i])
        BY <4>4, <4>5
      <4>8. c \in Mining!Covered(log[pos]) /\ (\E i \in 1..done : c \in Mining!Covered(log[i]))
              => c = old
        BY <4>3, <4>4, <4>6
      <4> QED BY <4>3, <4>7, <4>8
    <3> QED BY <3>1, <3>2
  <2>3. active' = [c \in Mining!Children |->
                     IF \E i \in 1..done' : c \in Mining!Covered(log'[i]) THEN 1 ELSE 0]
    <3>1. active' = [c \in Mining!Children |->
                       IF c \in Mining!IncrementedKeys(log[pos]) THEN active[c] + 1 ELSE active[c]]
      BY DEF Mining!IncrementTotalActiveUsersCount
    <3>2. ASSUME NEW c \in Mining!Children
          PROVE  (IF c \in Mining!IncrementedKeys(log[pos]) THEN active[c] + 1 ELSE active[c])
                   = IF \E i \in 1..done' : c \in Mining!Covered(log'[i]) THEN 1 ELSE 0
      <4>1. active[c] = IF \E i \in 1..done : c \in Mining!Covered(log[i]) THEN 1 ELSE 0
        BY DEF Counted
      <4>2. (\E i \in 1..done' : c \in Mining!Covered(log'[i])) <=>
              \/ \E i \in 1..done : c \in Mining!Covered(log[i])
              \/ c \in Mining!Covered(log[pos])
        <5>1. 1..done' = (1..done) \cup {pos}
          BY <2>1
        <5> QED BY <1>1, <5>1
      <4> QED BY <2>2, <4>1, <4>2
    <3> QED BY <3>1, <3>2
  <2>4. Taken' = Taken /\ Taken = pos
    BY <1>1, <2>1 DEF Taken
  <2> QED BY <1>1, <2>1, <2>3, <2>4 DEF Counted
<1> QED BY <1>1, <1>2, <1>3 DEF MiningInv

LEMMA RewindKeeps ==
  ASSUME MiningInv, Mining!Rewind, undone' = undone
  PROVE  MiningInv'
<1>1. /\ UNCHANGED <<row, log, active, done>> /\ phase' = "update" /\ pos' \in 1..pos
      /\ disturbed' = (disturbed \/ phase = "count" \/ pos' < done)
  BY DEF Mining!Rewind
<1>2. LogOK'
  BY <1>1 DEF MiningInv, LogOK
<1>3. Counted /\ phase # "count" /\ ~ pos' < done => Counted'
  <2> SUFFICES ASSUME Counted, phase # "count", ~ pos' < done
               PROVE  Counted'
    OBVIOUS
  <2>1. done \in Nat /\ pos' \in {done, done + 1} /\ pos' # 0
    BY <1>1 DEF Counted, MiningInv, LogOK
  <2> QED BY <1>1, <2>1 DEF Counted, Taken
<1> QED BY <1>1, <1>2, <1>3 DEF MiningInv

LEMMA MiningStepKeeps ==
  ASSUME MiningInv, Mining!Next, undone' = undone,
         row = [completed |-> row.completed, verified |-> row.verified,
                started |-> row.started, ended |-> row.ended]
  PROVE  MiningInv'
BY BeginKeeps, ExtendKeeps, UpdateSessionKeeps, IncrementActiveKeeps, RewindKeeps
   DEF Mining!Next

\* A step of another component, which leaves the times of the row alone or takes
\* back the row.
LEMMA MiningElsewhere ==
  ASSUME MiningInv, UNCHANGED miningVars,
         undone' \/ (undone' = undone /\ row'.started = row.started /\ row'.ended = row.ended)
  PROVE  MiningInv'
BY DEF MiningInv, LogOK, Counted, Taken, miningVars

LEMMA MiningInitHolds == Mining!MiningInit /\ row.started = None /\ row.ended = None => MiningInv
BY DEF Mining!MiningInit, MiningInv, LogOK, Counted, Taken

\* What is shown of a day is the largest of zeros and ones.
LEMMA CountedMeansOnce == MiningInv => CountedOnce
<1> SUFFICES ASSUME Counted
             PROVE  Mining!CountedOnce
  BY DEF MiningInv, CountedOnce, Mining!CountedOnce
<1>1. \A c \in Mining!Children :
        /\ active[c] \in {0, 1}
        /\ active[c] = IF \E i \in 1..done : c \in Mining!Covered(log[i]) THEN 1 ELSE 0
  BY DEF Counted
<1>2. ASSUME NEW S, S \subseteq {1}
      PROVE  Mining!MostActive(S) <= 1
  <2>1. {0} \cup S = {0} \/ {0} \cup S = {0, 1}
    BY <1>2
  <2>2. \E x \in {0} \cup S : \A y \in {0} \cup S : x >= y
    BY <2>1
  <2>3. Mining!Max({0} \cup S) \in {0} \cup S
    BY <2>2 DEF Mining!Max
  <2> QED BY <2>1, <2>3 DEF Mining!MostActive
<1>3. \A time : Mining!GlobalValues(Mining!ChildrenKeys(time)) \subseteq {1}
  BY <1>1 DEF Mining!GlobalValues, Mining!ChildrenKeys
<1>4. ASSUME NEW now, NEW day \in {0, 1}
      PROVE  Mining!GetUserGrowth(now, 2)[day] <= 1
  <2>1. PICK keys : keys = Mining!GenerateUserGrowthKeys(now, 2)
    OBVIOUS
  <2>2. DOMAIN keys = 0..1 /\ keys[day] = Mining!ChildrenKeys(now - day * Parent)
    BY <2>1 DEF Mining!GenerateUserGrowthKeys
  <2>3. Mining!GetUserGrowth(now, 2)[day] = Mining!MostActive(Mining!GlobalValues(keys[day]))
    BY <2>1, <2>2 DEF Mining!GetUserGrowth
  <2> QED BY <1>2, <1>3, <2>2, <2>3
<1> QED BY <1>1, <1>4 DEF Mining!CountedOnce
-----------------------------------------------------------------------------
(* The scenarios: nobody is eligible who has not earned it.                *)
(*                                                                         *)
(* VerifiedIsEarned is not inductive by itself: requests write back lists  *)
(* and rows they have read before.  The invariant says of everything a     *)
(* request holds what VerifiedIsEarned says of the row, and that what was  *)
(* pending when the request began and what it read make up all that is     *)
(* mandatory.                                                              *)

\* The scenarios S were verified, and those of tenants have led to a link.
Sound(S) ==
  /\ S \subseteq earned
  /\ \A t \in S \cap Tenants : links[t] # "none"

SoundRow(r) ==
  /\ r = [completed |-> r.completed, verified |-> r.verified,
          started |-> r.started, ended |-> r.ended]
  /\ mandatory # {} /\ r.verified => mandatory \subseteq earned
  /\ r.completed # None => Sound(r.completed)

SoundWork(w) ==
  /\ w = [pc |-> w.pc, read |-> w.read, pending |-> w.pending, new |-> w.new,
          tokens |-> w.tokens, verified |-> w.verified, linked |-> w.linked, old |-> w.old]
  /\ w.pc \in {"links", "token", "store", "modify", "update", "send", "undo"}
  /\ Sound(w.read)
  /\ w.pending \subseteq Scenario!AllScenarios
  /\ mandatory # {} => mandatory \subseteq w.pending \cup w.read
  /\ w.pc \notin {"links", "token", "store"} => Sound(w.new)
  /\ w.pc \in {"links", "token", "store"} =>
       w.new \subseteq Tenants /\ w.new \subseteq w.tokens \cup w.linked
  /\ w.pc = "links" => w.linked = {}
  /\ w.pc = "store" => w.tokens = {}
  /\ w.pc \in {"update", "send", "undo"} => SoundRow(w.old)

LinksOK == links \in [Tenants \cup {Own} -> {"none", "linked", "verified"}]

ScenariosInv ==
  /\ mandatory \subseteq Scenario!AllScenarios
  /\ LinksOK
  /\ SoundRow(row)
  /\ scenarioReq = [p \in Procs |-> scenarioReq[p]]
  /\ \A p \in Procs : scenarioReq[p] = Scenario!Idle \/ SoundWork(scenarioReq[p])

\* Nothing that was verified or linked is ever taken back.
Grows ==
  /\ mandatory' = mandatory
  /\ earned \subseteq earned'
  /\ \A t \in Tenants : links[t] # "none" => links'[t] # "none"
-----------------------------------------------------------------------------
LEMMA ScenariosDiffer ==
  /\ IsFiniteSet(Scenario!AllScenarios) /\ Joins \cap Tenants = {}
  /\ Mandatories \subseteq SUBSET Scenario!AllScenarios
BY ScenariosAssumption DEF Scenario!AllScenarios

\* The two cardinalities are the same.
LEMMA SameCardinality == \A S : Scenario!Cardinality(S) = Cardinality(S)
BY DEF Scenario!Cardinality, Cardinality

LEMMA SoundGrows ==
  ASSUME Grows, NEW S, Sound(S)
  PROVE  Sound(S)'
BY DEF Grows, Sound

LEMMA SoundRowGrows ==
  ASSUME Grows, NEW r, SoundRow(r)
  PROVE  SoundRow(r)'
<1>1. r.completed # None => Sound(r.completed)'
  BY SoundGrows DEF SoundRow
<1> QED BY <1>1 DEF SoundRow, Grows

LEMMA SoundWorkGrows ==
  ASSUME Grows, NEW w, SoundWork(w)
  PROVE  SoundWork(w)'
<1>1. Sound(w.read)'
  BY SoundGrows DEF SoundWork
<1>2. w.pc \notin {"links", "token", "store"} => Sound(w.new)'
  BY SoundGrows DEF SoundWork
<1>3. w.pc \in {"update", "send", "undo"} => SoundRow(w.old)'
  BY SoundRowGrows DEF SoundWork
<1> QED BY <1>1, <1>2, <1>3 DEF SoundWork, Grows

\* A step of request p, which goes on with w or ends.
LEMMA ScenariosMove ==
  ASSUME ScenariosInv, Grows, LinksOK', SoundRow(row)', NEW p \in Procs, NEW w,
         scenarioReq' = [scenarioReq EXCEPT ![p] = w], w = Scenario!Idle \/ SoundWork(w)'
  PROVE  ScenariosInv'
<1>1. scenarioReq' = [q \in Procs |-> scenarioReq'[q]] /\ \A q \in Procs : scenarioReq'[q] = IF q = p THEN w ELSE scenarioReq[q]
  BY DEF ScenariosInv
<1>2. ASSUME NEW q \in Procs
      PROVE  (scenarioReq[q] = Scenario!Idle \/ SoundWork(scenarioReq[q]))'
  <2>1. CASE q = p
    BY <1>1, <2>1 DEF SoundWork, SoundRow, Sound
  <2>2. CASE q # p
    <3>1. scenarioReq'[q] = scenarioReq[q]
      BY <1>1, <2>2
    <3>2. scenarioReq[q] = Scenario!Idle \/ SoundWork(scenarioReq[q])
      BY DEF ScenariosInv
    <3>3. ASSUME NEW w1, SoundWork(w1)
          PROVE  SoundWork(w1)'
      BY <3>3, SoundWorkGrows
    <3> QED BY <3>1, <3>2, <3>3 DEF SoundWork, SoundRow, Sound
  <2> QED BY <2>1, <2>2
<1> QED BY <1>1, <1>2 DEF ScenariosInv, Grows

LEMMA SameGrows ==
  UNCHANGED <<mandatory, links, earned>> => Grows /\ (LinksOK => LinksOK')
BY DEF Grows, LinksOK

\* What the row says has been completed is sound.
LEMMA CompletedSound == SoundRow(row) => Sound(Scenario!Completed)
BY DEF SoundRow, Scenario!Completed, Sound

\* If all that was pending is new, what is mandatory is new or was read.
LEMMA AllCompletedMeans ==
  ASSUME NEW w, SoundWork(w), Scenario!AllCompleted(w)
  PROVE  w.pending \subseteq w.new
<1>1. IsFiniteSet(w.pending)
  BY FS_Subset, ScenariosDiffer DEF SoundWork
<1>2. w.new \cap w.pending = w.pending
  BY <1>1, FS_Subset, SameCardinality DEF Scenario!AllCompleted
<1> QED BY <1>2
-----------------------------------------------------------------------------
\* A request begins with what it has read and what is pending then.
LEMMA StartKeeps ==
  ASSUME ScenariosInv, NEW p \in Procs, NEW pc \in {"links", "modify"},
         NEW tasks \in SUBSET Scenario!AllScenarios, NEW new, new \cap Scenario!Pending(tasks) # {},
         Scenario!Start(p, pc, Scenario!Pending(tasks), new), UNCHANGED <<mandatory, row, links>>,
         earned \subseteq earned',
         pc = "modify" => new \subseteq earned' \cap Joins,
         pc = "links" => new \subseteq Tenants
  PROVE  ScenariosInv'
<1>0. PICK w : w = [pc |-> pc, read |-> Scenario!Completed, pending |-> Scenario!Pending(tasks), new |-> new,
                   tokens |-> new \cap Tenants, verified |-> None, linked |-> {}, old |-> None]
  OBVIOUS
<1>1. scenarioReq' = [scenarioReq EXCEPT ![p] = w]
  BY <1>0 DEF Scenario!Start
<1>2. Grows
  BY DEF Grows
<1>3. SoundRow(row)' /\ LinksOK'
  <2>1. ASSUME NEW r, SoundRow(r)
        PROVE  SoundRow(r)'
    BY <1>2, <2>1, SoundRowGrows
  <2> QED BY <2>1 DEF ScenariosInv, SoundRow, Sound, LinksOK
<1>4. Sound(Scenario!Completed)
  BY CompletedSound DEF ScenariosInv
<1>5. Scenario!Pending(tasks) \subseteq Scenario!AllScenarios
  BY DEF Scenario!Pending, ScenariosInv
<1>6. mandatory # {} => mandatory \subseteq Scenario!Pending(tasks) \cup Scenario!Completed
  BY DEF Scenario!Pending
<1>7. pc = "modify" => new \subseteq earned' /\ new \cap Tenants = {}
  BY ScenariosDiffer
<1>8. SoundWork(w)'
  <2>1. /\ w = [pc |-> w.pc, read |-> w.read, pending |-> w.pending, new |-> w.new,
                tokens |-> w.tokens, verified |-> w.verified, linked |-> w.linked, old |-> w.old]
        /\ w.pc = pc /\ w.read = Scenario!Completed /\ w.pending = Scenario!Pending(tasks) /\ w.new = new
    BY <1>0
  <2>2. w.read \subseteq earned' /\ \A t \in w.read \cap Tenants : links'[t] # "none"
    BY <1>2, <1>4, <2>1 DEF Sound, Grows
  <2>3. pc = "modify" => w.new \subseteq earned' /\ \A t \in w.new \cap Tenants : links'[t] # "none"
    BY <1>7, <2>1
  <2>4. mandatory' # {} => mandatory' \subseteq w.pending \cup w.read
    BY <1>6, <2>1
  <2>5. /\ w.linked = {} /\ w.tokens = new \cap Tenants
    BY <1>0
  <2>6. pc = "links" => w.new \subseteq Tenants /\ w.new \subseteq w.tokens \cup w.linked
    BY <2>1, <2>5
  <2> QED BY <1>5, <2>1, <2>2, <2>3, <2>4, <2>5, <2>6 DEF SoundWork, Sound
<1> QED BY <1>1, <1>2, <1>3, <1>8, ScenariosMove

LEMMA VerifyJoinKeeps ==
  ASSUME ScenariosInv, NEW p \in Procs, NEW s \in Joins,
         NEW tasks \in SUBSET Scenario!AllScenarios, Scenario!VerifyJoin(p, s, tasks)
  PROVE  ScenariosInv'
<1>1. {s} \cap Scenario!Pending(tasks) # {} /\ Scenario!Start(p, "modify", Scenario!Pending(tasks), {s})
  BY DEF Scenario!VerifyJoin
<1>2. /\ UNCHANGED <<mandatory, row, links>>
      /\ earned \subseteq earned' /\ {s} \subseteq earned' \cap Joins
  BY DEF Scenario!VerifyJoin
<1> QED BY <1>1, <1>2, StartKeeps

LEMMA VerifySignUpKeeps ==
  ASSUME ScenariosInv, NEW p \in Procs, NEW some \in SUBSET Tenants,
         NEW tasks \in SUBSET Scenario!AllScenarios, Scenario!VerifySignUp(p, some, tasks)
  PROVE  ScenariosInv'
<1> DEFINE new == some \cap Scenario!Pending(tasks)
<1>1. new \cap Scenario!Pending(tasks) # {} /\ Scenario!Start(p, "links", Scenario!Pending(tasks), new)
  BY DEF Scenario!VerifySignUp
<1>2. UNCHANGED <<mandatory, row, links>> /\ earned \subseteq earned' /\ new \subseteq Tenants
  BY DEF Scenario!VerifySignUp
<1> HIDE DEF new
<1> QED BY <1>1, <1>2, StartKeeps

\* A request goes on, or ends, and adds to nothing it will write.
LEMMA GoOnKeeps ==
  ASSUME ScenariosInv, Grows, LinksOK', UNCHANGED row, NEW p \in Procs,
         SoundWork(scenarioReq[p]), NEW w,
         scenarioReq' = [scenarioReq EXCEPT ![p] = w],
         \/ w = Scenario!Idle
         \/ /\ w = [pc |-> w.pc, read |-> w.read, pending |-> w.pending, new |-> w.new,
                    tokens |-> w.tokens, verified |-> w.verified, linked |-> w.linked, old |-> w.old]
            /\ w.pc \in {"token", "store", "modify", "update", "send", "undo"}
            /\ w.read = scenarioReq[p].read /\ w.pending = scenarioReq[p].pending /\ w.new = scenarioReq[p].new
            /\ w.pc \in {"token", "store"} =>
                 w.new \subseteq Tenants /\ w.new \subseteq w.tokens \cup w.linked
            /\ w.pc = "store" => w.tokens = {}
            /\ w.pc \notin {"token", "store"} => Sound(w.new)'
            /\ w.pc \in {"update", "send", "undo"} => SoundRow(w.old)
  PROVE  ScenariosInv'
<1>1. SoundRow(row)'
  <2>1. ASSUME NEW r, SoundRow(r)
        PROVE  SoundRow(r)'
    BY <2>1, SoundRowGrows
  <2> QED BY <2>1 DEF ScenariosInv, SoundRow, Sound
<1>2. CASE w = Scenario!Idle
  BY <1>1, <1>2, ScenariosMove
<1>3. CASE w # Scenario!Idle
  <2>1. Sound(w.read)'
    <3>1. PICK S : S = scenarioReq[p].read
      OBVIOUS
    <3>2. Sound(S)
      BY <3>1 DEF SoundWork
    <3>3. Sound(S)'
      BY <3>2, SoundGrows
    <3> QED BY <1>3, <3>1, <3>3
  <2>2. w.pc \in {"update", "send", "undo"} => SoundRow(w.old)'
    BY <1>3, SoundRowGrows
  <2>3. w.pending \subseteq Scenario!AllScenarios /\ (mandatory # {} => mandatory \subseteq w.pending \cup w.read)
    BY <1>3 DEF SoundWork
  <2>4. mandatory' = mandatory
    BY DEF Grows
  <2>5. SoundWork(w)'
    BY <1>3, <2>1, <2>2, <2>3, <2>4 DEF SoundWork
  <2> QED BY <1>1, <2>5, ScenariosMove
<1> QED BY <1>2, <1>3

LEMMA LinkingKeeps ==
  ASSUME ScenariosInv, NEW p \in Procs,
         \/ Scenario!GetLinks(p)
         \/ \E usr : (\E t \in Tenants : Scenario!VerifyToken(p, t, usr)) \/ Scenario!ForeignToken(p, usr)
  PROVE  ScenariosInv'
<1>1. UNCHANGED <<mandatory, row, links, earned>>
  BY DEF Scenario!GetLinks, Scenario!VerifyToken, Scenario!ForeignToken
<1>2. Grows /\ LinksOK'
  BY <1>1, SameGrows DEF ScenariosInv
<1>3. scenarioReq[p].pc \in {"links", "token"} /\ scenarioReq[p] # Scenario!Idle
  <2>1. scenarioReq[p].pc \in {"links", "token"}
    BY DEF Scenario!GetLinks, Scenario!VerifyToken, Scenario!ForeignToken
  <2> QED BY <2>1 DEF Scenario!Idle
<1>4. SoundWork(scenarioReq[p])
  BY <1>3 DEF ScenariosInv
<1>5. scenarioReq[p] = [pc |-> scenarioReq[p].pc, read |-> scenarioReq[p].read, pending |-> scenarioReq[p].pending,
                new |-> scenarioReq[p].new, tokens |-> scenarioReq[p].tokens,
                verified |-> scenarioReq[p].verified, linked |-> scenarioReq[p].linked, old |-> scenarioReq[p].old]
      /\ scenarioReq[p].new \subseteq Tenants
      /\ scenarioReq[p].new \subseteq scenarioReq[p].tokens \cup scenarioReq[p].linked
  BY <1>3, <1>4 DEF SoundWork
<1>6. PICK w : /\ scenarioReq' = [scenarioReq EXCEPT ![p] = w]
               /\ \/ w = Scenario!Idle
                  \/ \E pc \in {"token", "store"} : \E some, verified, linked :
                       /\ scenarioReq[p].new \subseteq some \cup linked /\ (pc = "store" => some = {})
                       /\ w = [pc |-> pc, read |-> scenarioReq[p].read, pending |-> scenarioReq[p].pending,
                               new |-> scenarioReq[p].new, tokens |-> some,
                               verified |-> verified, linked |-> linked, old |-> scenarioReq[p].old]
  <2>1. CASE Scenario!GetLinks(p)
    <3>1. PICK w : w = [scenarioReq[p] EXCEPT !.pc = "token", !.verified = Scenario!GetVerified(links),
                          !.linked = Scenario!GetLinked(links)]
      OBVIOUS
    <3>2. scenarioReq' = [scenarioReq EXCEPT ![p] = w]
      BY <2>1, <3>1 DEF Scenario!GetLinks
    <3>3. w = [pc |-> "token", read |-> scenarioReq[p].read, pending |-> scenarioReq[p].pending,
               new |-> scenarioReq[p].new, tokens |-> scenarioReq[p].tokens,
               verified |-> Scenario!GetVerified(links),
               linked |-> Scenario!GetLinked(links), old |-> scenarioReq[p].old]
      BY <1>5, <3>1
    <3>4. scenarioReq[p].new \subseteq scenarioReq[p].tokens
      <4>1. scenarioReq[p].pc = "links"
        BY <2>1 DEF Scenario!GetLinks
      <4> QED BY <1>4, <1>5, <4>1 DEF SoundWork
    <3> QED BY <3>2, <3>3, <3>4
  <2>2. ASSUME NEW t \in Tenants, NEW usr, Scenario!VerifyToken(p, t, usr)
        PROVE  \E w : /\ scenarioReq' = [scenarioReq EXCEPT ![p] = w]
                      /\ \E pc \in {"token", "store"} : \E some, verified, linked :
                           /\ scenarioReq[p].new \subseteq some \cup linked /\ (pc = "store" => some = {})
                           /\ w = [pc |-> pc, read |-> scenarioReq[p].read, pending |-> scenarioReq[p].pending,
                                   new |-> scenarioReq[p].new, tokens |-> some,
                                   verified |-> verified, linked |-> linked, old |-> scenarioReq[p].old]
    <3>0. PICK verified, profiles :
            scenarioReq' = [scenarioReq EXCEPT ![p] = [scenarioReq[p] EXCEPT
              !.tokens = scenarioReq[p].tokens \ {t}, !.verified = verified,
              !.linked = scenarioReq[p].linked \cup profiles \cup {t},
              !.pc = IF scenarioReq[p].tokens = {t} THEN "store" ELSE "token"]]
      BY <2>2 DEF Scenario!VerifyToken
    <3>9. PICK linked : linked = scenarioReq[p].linked \cup profiles \cup {t}
      OBVIOUS
    <3>1. /\ scenarioReq[p].linked \cup {t} \subseteq linked
          /\ scenarioReq' = [scenarioReq EXCEPT ![p] = [scenarioReq[p] EXCEPT
               !.tokens = scenarioReq[p].tokens \ {t}, !.verified = verified,
               !.linked = linked,
               !.pc = IF scenarioReq[p].tokens = {t} THEN "store" ELSE "token"]]
      BY <3>0, <3>9
    <3>2. PICK pc \in {"token", "store"} : pc = IF scenarioReq[p].tokens = {t} THEN "store" ELSE "token"
      OBVIOUS
    <3>3. PICK w : w = [scenarioReq[p] EXCEPT !.tokens = scenarioReq[p].tokens \ {t}, !.verified = verified,
                                      !.linked = linked, !.pc = pc]
      OBVIOUS
    <3>4. scenarioReq' = [scenarioReq EXCEPT ![p] = w]
      BY <3>1, <3>2, <3>3
    <3>5. w = [pc |-> pc, read |-> scenarioReq[p].read, pending |-> scenarioReq[p].pending,
               new |-> scenarioReq[p].new, tokens |-> scenarioReq[p].tokens \ {t},
               verified |-> verified, linked |-> linked, old |-> scenarioReq[p].old]
      BY <1>5, <3>3
    <3>6. /\ scenarioReq[p].new \subseteq (scenarioReq[p].tokens \ {t}) \cup linked
          /\ pc = "store" => scenarioReq[p].tokens \ {t} = {}
      BY <1>5, <3>1, <3>2
    <3>7. PICK some : some = scenarioReq[p].tokens \ {t}
      OBVIOUS
    <3>8. /\ scenarioReq[p].new \subseteq some \cup linked /\ (pc = "store" => some = {})
          /\ w = [pc |-> pc, read |-> scenarioReq[p].read, pending |-> scenarioReq[p].pending,
                  new |-> scenarioReq[p].new, tokens |-> some,
                  verified |-> verified, linked |-> linked, old |-> scenarioReq[p].old]
      BY <3>5, <3>6, <3>7
    <3>10. \E c \in {"token", "store"} : \E s, v, l :
             /\ scenarioReq[p].new \subseteq s \cup l /\ (c = "store" => s = {})
             /\ w = [pc |-> c, read |-> scenarioReq[p].read, pending |-> scenarioReq[p].pending,
                     new |-> scenarioReq[p].new, tokens |-> s,
                     verified |-> v, linked |-> l, old |-> scenarioReq[p].old]
      <4>1. \E s, v, l :
             /\ scenarioReq[p].new \subseteq s \cup l /\ (pc = "store" => s = {})
             /\ w = [pc |-> pc, read |-> scenarioReq[p].read, pending |-> scenarioReq[p].pending,
                     new |-> scenarioReq[p].new, tokens |-> s,
                     verified |-> v, linked |-> l, old |-> scenarioReq[p].old]
        BY <3>8
      <4> QED BY <4>1
    <3> QED BY <3>4, <3>10
  <2>3. CASE \E usr : Scenario!ForeignToken(p, usr)
    BY <2>3 DEF Scenario!ForeignToken
  <2> QED BY <2>1, <2>2, <2>3
<1> QED BY <1>1, <1>2, <1>4, <1>5, <1>6, GoOnKeeps

LEMMA StoreLinkedAccountsKeeps ==
  ASSUME ScenariosInv, NEW p \in Procs, Scenario!StoreLinkedAccounts(p)
  PROVE  ScenariosInv'
<1>1. scenarioReq[p].pc = "store" /\ scenarioReq[p] # Scenario!Idle
  <2>1. scenarioReq[p].pc = "store"
    BY DEF Scenario!StoreLinkedAccounts
  <2> QED BY <2>1 DEF Scenario!Idle
<1>2. SoundWork(scenarioReq[p]) /\ scenarioReq[p].new \subseteq Tenants
  BY <1>1 DEF ScenariosInv, SoundWork
<1>3. PICK r : r = scenarioReq[p]
  OBVIOUS
<1>4. links' = [t \in DOMAIN links |-> IF t \notin Scenario!Linked(r) THEN links[t]
                                     ELSE IF t = r.verified THEN "verified" ELSE "linked"]
  BY <1>3 DEF Scenario!StoreLinkedAccounts
<1>5. LinksOK'
  BY <1>4 DEF ScenariosInv, LinksOK
<1>6. \A t \in Tenants :
        links[t] # "none" \/ t \in r.new => links'[t] # "none"
  <2>1. r.new \subseteq Scenario!Linked(r)
    BY <1>1, <1>2, <1>3 DEF SoundWork, Scenario!Linked
  <2> QED BY <1>4, <2>1 DEF ScenariosInv, LinksOK
<1>7. Grows /\ earned' = earned \cup r.new /\ UNCHANGED row
  <2>1. earned' = earned \cup r.new /\ UNCHANGED <<mandatory, row>>
    BY <1>3 DEF Scenario!StoreLinkedAccounts
  <2> QED BY <1>6, <2>1 DEF Grows
<1>8. Sound(r.new)'
  <2>1. r.new \subseteq earned'
    BY <1>7
  <2>2. \A t \in r.new \cap Tenants : links'[t] # "none"
    BY <1>6
  <2> QED BY <2>1, <2>2 DEF Sound
<1>9. PICK w : w = [r EXCEPT !.pc = "modify"]
  OBVIOUS
<1>10. scenarioReq' = [scenarioReq EXCEPT ![p] = w]
  BY <1>3, <1>9 DEF Scenario!StoreLinkedAccounts
<1>11. r = [pc |-> r.pc, read |-> r.read, pending |-> r.pending, new |-> r.new,
            tokens |-> r.tokens, verified |-> r.verified, linked |-> r.linked, old |-> r.old]
  BY <1>2, <1>3 DEF SoundWork
<1>12. w = [pc |-> "modify", read |-> r.read, pending |-> r.pending, new |-> r.new,
            tokens |-> r.tokens, verified |-> r.verified, linked |-> r.linked, old |-> r.old]
  BY <1>9, <1>11
<1>13. Sound(w.new)'
  BY <1>8, <1>12
<1> QED BY <1>2, <1>3, <1>5, <1>7, <1>10, <1>12, <1>13, GoOnKeeps

LEMMA ReadOldKeeps ==
  ASSUME ScenariosInv, NEW p \in Procs, Scenario!ReadOld(p)
  PROVE  ScenariosInv'
<1>1. UNCHANGED <<mandatory, row, links, earned>> /\ scenarioReq[p].pc = "modify"
  BY DEF Scenario!ReadOld
<1>2. Grows /\ LinksOK'
  BY <1>1, SameGrows DEF ScenariosInv
<1>3. SoundWork(scenarioReq[p])
  <2>1. scenarioReq[p] # Scenario!Idle
    BY <1>1 DEF Scenario!Idle
  <2> QED BY <2>1 DEF ScenariosInv
<1>4. PICK r, old : r = scenarioReq[p] /\ old = row
  OBVIOUS
<1>5. PICK w : w = [r EXCEPT !.pc = "update", !.old = old]
  OBVIOUS
<1>6. scenarioReq' = [scenarioReq EXCEPT ![p] = w]
  BY <1>4, <1>5 DEF Scenario!ReadOld
<1>7. r = [pc |-> r.pc, read |-> r.read, pending |-> r.pending, new |-> r.new,
           tokens |-> r.tokens, verified |-> r.verified, linked |-> r.linked, old |-> r.old]
  BY <1>3, <1>4 DEF SoundWork
<1>8. w = [pc |-> "update", read |-> r.read, pending |-> r.pending, new |-> r.new,
           tokens |-> r.tokens, verified |-> r.verified, linked |-> r.linked, old |-> old]
  BY <1>5, <1>7
<1>9. SoundRow(w.old)
  BY <1>4, <1>8 DEF ScenariosInv
<1>10. Sound(w.new)'
  <2>1. Sound(r.new)
    BY <1>1, <1>3, <1>4 DEF SoundWork
  <2>2. Sound(r.new)'
    BY <1>2, <2>1, SoundGrows
  <2> QED BY <1>8, <2>2
<1> QED BY <1>1, <1>2, <1>3, <1>4, <1>6, <1>8, <1>9, <1>10, GoOnKeeps

LEMMA SendSnapshotKeeps ==
  ASSUME ScenariosInv, NEW p \in Procs, Scenario!SendSnapshot(p) \/ Scenario!CutOff(p)
  PROVE  ScenariosInv'
<1>1. /\ UNCHANGED <<mandatory, row, links, earned>> /\ scenarioReq[p] # Scenario!Idle
      /\ \/ scenarioReq' = [scenarioReq EXCEPT ![p] = Scenario!Idle]
         \/ /\ scenarioReq[p].pc = "send"
            /\ scenarioReq' = [scenarioReq EXCEPT ![p] = [scenarioReq[p] EXCEPT !.pc = "undo"]]
  <2>1. CASE Scenario!SendSnapshot(p)
    <3>1. scenarioReq[p].pc = "send"
      BY <2>1 DEF Scenario!SendSnapshot
    <3>2. scenarioReq[p] # Scenario!Idle
      BY <3>1 DEF Scenario!Idle
    <3> QED BY <2>1, <3>2 DEF Scenario!SendSnapshot
  <2>2. CASE Scenario!CutOff(p)
    BY <2>2 DEF Scenario!CutOff
  <2> QED BY <2>1, <2>2
<1>2. Grows /\ LinksOK'
  BY <1>1, SameGrows DEF ScenariosInv
<1>3. SoundWork(scenarioReq[p])
  BY <1>1 DEF ScenariosInv
<1>4. CASE scenarioReq' = [scenarioReq EXCEPT ![p] = Scenario!Idle]
  BY <1>1, <1>2, <1>3, <1>4, GoOnKeeps
<1>5. CASE scenarioReq[p].pc = "send" /\ scenarioReq' = [scenarioReq EXCEPT ![p] = [scenarioReq[p] EXCEPT !.pc = "undo"]]
  <2>1. PICK r : r = scenarioReq[p]
    OBVIOUS
  <2>2. PICK w : w = [r EXCEPT !.pc = "undo"]
    OBVIOUS
  <2>3. r = [pc |-> r.pc, read |-> r.read, pending |-> r.pending, new |-> r.new,
             tokens |-> r.tokens, verified |-> r.verified, linked |-> r.linked, old |-> r.old]
    BY <1>3, <2>1 DEF SoundWork
  <2>4. w = [pc |-> "undo", read |-> r.read, pending |-> r.pending, new |-> r.new,
             tokens |-> r.tokens, verified |-> r.verified, linked |-> r.linked, old |-> r.old]
    BY <2>2, <2>3
  <2>5. Sound(r.new) /\ SoundRow(r.old)
    BY <1>3, <1>5, <2>1 DEF SoundWork
  <2>6. Sound(r.new)'
    BY <1>2, <2>5, SoundGrows
  <2>7. Sound(w.new)' /\ SoundRow(w.old)
    BY <2>4, <2>5, <2>6
  <2> QED BY <1>1, <1>2, <1>3, <1>5, <2>1, <2>2, <2>4, <2>7, GoOnKeeps
<1> QED BY <1>1, <1>4, <1>5

\* The update writes a list that is sound, and marks the user only if all that
\* was pending is new.
LEMMA UpdateUserKeeps ==
  ASSUME ScenariosInv, NEW p \in Procs, Scenario!UpdateUser(p)
  PROVE  ScenariosInv'
<1>1. UNCHANGED <<mandatory, links, earned>> /\ scenarioReq[p].pc = "update"
  BY DEF Scenario!UpdateUser
<1>2. Grows /\ LinksOK'
  BY <1>1, SameGrows DEF ScenariosInv
<1>3. SoundWork(scenarioReq[p])
  <2>1. scenarioReq[p] # Scenario!Idle
    BY <1>1 DEF Scenario!Idle
  <2> QED BY <2>1 DEF ScenariosInv
<1>4. PICK r, new : r = scenarioReq[p] /\ new = row'
  OBVIOUS
<1>5. /\ new.completed = r.read \cup r.new
      /\ new.verified => row.verified \/ Scenario!AllCompleted(r)
      /\ new = [completed |-> new.completed, verified |-> new.verified,
                started |-> new.started, ended |-> new.ended]
  <2>1. new = [row EXCEPT !.completed = r.read \cup r.new,
                          !.verified = row.verified \/ Scenario!AllCompleted(r)]
    BY <1>4 DEF Scenario!UpdateUser
  <2>2. row = [completed |-> row.completed, verified |-> row.verified,
               started |-> row.started, ended |-> row.ended]
    BY DEF ScenariosInv, SoundRow
  <2>3. new = [completed |-> r.read \cup r.new, verified |-> row.verified \/ Scenario!AllCompleted(r),
               started |-> row.started, ended |-> row.ended]
    BY <2>1, <2>2
  <2>4. new.verified = (row.verified \/ Scenario!AllCompleted(r))
    BY <2>3
  <2> QED BY <2>3, <2>4
<1>6. Sound(r.read) /\ Sound(r.new)
  BY <1>1, <1>3, <1>4 DEF SoundWork
<1>7. Sound(new.completed)
  BY <1>5, <1>6 DEF Sound
<1>8. ASSUME mandatory # {}, new.verified
      PROVE  mandatory \subseteq earned
  <2>1. CASE row.verified
    BY <1>8, <2>1 DEF ScenariosInv, SoundRow
  <2>2. CASE Scenario!AllCompleted(r)
    <3>1. r.pending \subseteq r.new
      BY <1>3, <1>4, <2>2, AllCompletedMeans
    <3>2. mandatory \subseteq r.pending \cup r.read
      BY <1>3, <1>4, <1>8 DEF SoundWork
    <3> QED BY <1>6, <3>1, <3>2 DEF Sound
  <2> QED BY <1>5, <1>8, <2>1, <2>2
<1>9. SoundRow(new)
  BY <1>5, <1>7, <1>8 DEF SoundRow
<1>10. SoundRow(row)'
  <2>1. SoundRow(new)'
    BY <1>2, <1>9, SoundRowGrows
  <2> QED BY <1>4, <2>1 DEF SoundRow, Sound
<1>11. PICK w : w = [r EXCEPT !.pc = "send"]
  OBVIOUS
<1>12. scenarioReq' = [scenarioReq EXCEPT ![p] = w]
  BY <1>4, <1>11 DEF Scenario!UpdateUser
<1>13. r = [pc |-> r.pc, read |-> r.read, pending |-> r.pending, new |-> r.new,
            tokens |-> r.tokens, verified |-> r.verified, linked |-> r.linked, old |-> r.old]
  BY <1>3, <1>4 DEF SoundWork
<1>14. w = [pc |-> "send", read |-> r.read, pending |-> r.pending, new |-> r.new,
            tokens |-> r.tokens, verified |-> r.verified, linked |-> r.linked, old |-> r.old]
  BY <1>11, <1>13
<1>15. SoundWork(w)
  <2>1. SoundWork(r) /\ r.pc = "update"
    BY <1>1, <1>3, <1>4
  <2> QED BY <1>14, <2>1 DEF SoundWork
<1>16. SoundWork(w)'
  BY <1>2, <1>15, SoundWorkGrows
<1> QED BY <1>2, <1>10, <1>12, <1>16, ScenariosMove

\* What is written back is a row that was sound when it was read.
LEMMA UndoUpdateKeeps ==
  ASSUME ScenariosInv, NEW p \in Procs, Scenario!UndoUpdate(p)
  PROVE  ScenariosInv'
<1>1. /\ UNCHANGED <<mandatory, links, earned>> /\ scenarioReq[p].pc = "undo"
      /\ scenarioReq' = [scenarioReq EXCEPT ![p] = Scenario!Idle]
  BY DEF Scenario!UndoUpdate
<1>2. Grows /\ LinksOK'
  BY <1>1, SameGrows DEF ScenariosInv
<1>3. SoundWork(scenarioReq[p])
  <2>1. scenarioReq[p] # Scenario!Idle
    BY <1>1 DEF Scenario!Idle
  <2> QED BY <2>1 DEF ScenariosInv
<1>4. PICK old, cur, new : old = scenarioReq[p].old /\ cur = row /\ new = row'
  OBVIOUS
<1>5. SoundRow(old) /\ SoundRow(cur)
  BY <1>1, <1>3, <1>4 DEF SoundWork, ScenariosInv
<1>6. new = [completed |-> Scenario!Restored(cur.completed, old.completed),
             verified  |-> old.verified,
             started   |-> Scenario!Restored(cur.started, old.started),
             ended     |-> Scenario!Restored(cur.ended, old.ended)]
  BY <1>4 DEF Scenario!UndoUpdate
<1>7. /\ new.completed = Scenario!Restored(cur.completed, old.completed)
      /\ new.verified = old.verified
      /\ new = [completed |-> new.completed, verified |-> new.verified,
                started |-> new.started, ended |-> new.ended]
  BY <1>6
<1>8. new.completed # None => Sound(new.completed)
  BY <1>5, <1>7 DEF Scenario!Restored, SoundRow
<1>9. SoundRow(new)
  BY <1>5, <1>7, <1>8 DEF SoundRow
<1>10. SoundRow(row)'
  <2>1. SoundRow(new)'
    BY <1>2, <1>9, SoundRowGrows
  <2> QED BY <1>4, <2>1 DEF SoundRow, Sound
<1> QED BY <1>1, <1>2, <1>10, ScenariosMove

\* The row may change otherwise, as long as it keeps the columns of scenarios.
LEMMA ScenariosElsewhere ==
  ASSUME ScenariosInv, UNCHANGED <<mandatory, links, scenarioReq, earned>>,
         \/ row' = row
         \/ \E started, ended : row' = [row EXCEPT !.started = started, !.ended = ended]
  PROVE  ScenariosInv'
<1>1. Grows /\ LinksOK'
  BY SameGrows DEF ScenariosInv
<1>2. PICK r, new : r = row /\ new = row'
  OBVIOUS
<1>3. SoundRow(r)
  BY <1>2 DEF ScenariosInv
<1>4. r = [completed |-> r.completed, verified |-> r.verified,
           started |-> r.started, ended |-> r.ended]
  BY <1>3 DEF SoundRow
<1>5. /\ new.completed = r.completed /\ new.verified = r.verified
      /\ new = [completed |-> new.completed, verified |-> new.verified,
                started |-> new.started, ended |-> new.ended]
  <2>1. CASE new = r
    BY <1>4, <2>1
  <2>2. ASSUME NEW started, NEW ended, new = [r EXCEPT !.started = started, !.ended = ended]
        PROVE  new = [completed |-> r.completed, verified |-> r.verified,
                      started |-> started, ended |-> ended]
    BY <1>4, <2>2
  <2> QED BY <1>2, <2>1, <2>2
<1>6. SoundRow(new)'
  <2>1. SoundRow(new)
    BY <1>3, <1>5 DEF SoundRow
  <2> QED BY <1>1, <2>1, SoundRowGrows
<1>7. SoundRow(row)'
  BY <1>2, <1>6 DEF SoundRow, Sound
<1>8. ASSUME NEW p \in Procs
      PROVE  (scenarioReq[p] = Scenario!Idle \/ SoundWork(scenarioReq[p]))'
  <2>1. PICK w : w = scenarioReq[p]
    OBVIOUS
  <2>2. w = Scenario!Idle \/ SoundWork(w)
    BY <2>1 DEF ScenariosInv
  <2>3. w = Scenario!Idle \/ SoundWork(w)'
    BY <1>1, <2>2, SoundWorkGrows
  <2> QED BY <2>1, <2>3 DEF SoundWork, SoundRow, Sound
<1> QED BY <1>1, <1>7, <1>8 DEF ScenariosInv, Grows
-----------------------------------------------------------------------------
LEMMA InitSound == Scenario!ScenariosInit /\ row = Scenario!NewRow => ScenariosInv
<1> SUFFICES ASSUME Scenario!ScenariosInit, row = Scenario!NewRow
             PROVE  ScenariosInv
  OBVIOUS
<1>1. SoundRow(row)
  BY DEF Scenario!NewRow, SoundRow
<1>2. LinksOK /\ mandatory \subseteq Scenario!AllScenarios
  BY ScenariosDiffer DEF Scenario!ScenariosInit, LinksOK
<1>3. scenarioReq = [p \in Procs |-> Scenario!Idle]
  BY DEF Scenario!ScenariosInit
<1> QED BY <1>1, <1>2, <1>3 DEF ScenariosInv

LEMMA ScenariosStep == ScenariosInv /\ Scenario!Next => ScenariosInv'
<1> SUFFICES ASSUME ScenariosInv, Scenario!Next
             PROVE  ScenariosInv'
  OBVIOUS
<1>1. CASE Scenario!SetTenantVerified
  <2>1. /\ UNCHANGED <<mandatory, row, scenarioReq, earned>>
        /\ links' = [links EXCEPT ![Own] = "verified"]
    BY <1>1 DEF Scenario!SetTenantVerified
  <2>2. LinksOK' /\ Grows
    BY <2>1 DEF ScenariosInv, LinksOK, Grows
  <2>3. SoundRow(row)'
    <3>1. ASSUME NEW r, SoundRow(r)
          PROVE  SoundRow(r)'
      BY <2>2, <3>1, SoundRowGrows
    <3> QED BY <2>1, <3>1 DEF ScenariosInv, SoundRow, Sound
  <2>4. ASSUME NEW p \in Procs
        PROVE  (scenarioReq[p] = Scenario!Idle \/ SoundWork(scenarioReq[p]))'
    <3>1. PICK w : w = scenarioReq[p]
      OBVIOUS
    <3>2. w = Scenario!Idle \/ SoundWork(w)'
      BY <2>2, <3>1, SoundWorkGrows DEF ScenariosInv
    <3> QED BY <2>1, <3>1, <3>2 DEF SoundWork, SoundRow, Sound
  <2> QED BY <2>1, <2>2, <2>3, <2>4 DEF ScenariosInv
<1>2. CASE \E p \in Procs :
             \E tasks \in Scenario!CompletedTasks :
               \/ \E s \in Joins : Scenario!VerifyJoin(p, s, tasks)
               \/ \E some \in SUBSET Tenants : Scenario!VerifySignUp(p, some, tasks)
  <2>1. PICK p \in Procs, tasks \in SUBSET Scenario!AllScenarios :
               \/ \E s \in Joins : Scenario!VerifyJoin(p, s, tasks)
               \/ \E some \in SUBSET Tenants : Scenario!VerifySignUp(p, some, tasks)
    BY <1>2 DEF Scenario!CompletedTasks
  <2> QED BY <2>1, VerifyJoinKeeps, VerifySignUpKeeps
<1>3. ASSUME NEW p \in Procs,
             \/ Scenario!GetLinks(p)
             \/ \E usr : (\E t \in Tenants : Scenario!VerifyToken(p, t, usr)) \/ Scenario!ForeignToken(p, usr)
      PROVE  ScenariosInv'
  BY <1>3, LinkingKeeps
<1>4. ASSUME NEW p \in Procs, Scenario!StoreLinkedAccounts(p)
      PROVE  ScenariosInv'
  BY <1>4, StoreLinkedAccountsKeeps
<1>5. ASSUME NEW p \in Procs, Scenario!ReadOld(p)
      PROVE  ScenariosInv'
  BY <1>5, ReadOldKeeps
<1>6. ASSUME NEW p \in Procs, Scenario!UpdateUser(p)
      PROVE  ScenariosInv'
  BY <1>6, UpdateUserKeeps
<1>7. ASSUME NEW p \in Procs, Scenario!SendSnapshot(p) \/ Scenario!CutOff(p)
      PROVE  ScenariosInv'
  BY <1>7, SendSnapshotKeeps
<1>8. ASSUME NEW p \in Procs, Scenario!UndoUpdate(p)
      PROVE  ScenariosInv'
  BY <1>8, UndoUpdateKeeps
<1> QED BY <1>1, <1>2, <1>3, <1>4, <1>5, <1>6, <1>7, <1>8 DEF Scenario!Next

LEMMA SoundMeansEarned == ScenariosInv => Scenario!VerifiedIsEarned
<1>1. SoundRow(row) => Sound(Scenario!Completed)
  BY CompletedSound
<1> QED BY <1>1 DEF ScenariosInv, SoundRow, Sound, Scenario!VerifiedIsEarned
-----------------------------------------------------------------------------
(* Nobody is stuck: a request that writes all that is mandatory has added  *)
(* everything that was pending when it began, since what is pending was    *)
(* not in the list it read.                                                *)

Looked(w) == mandatory # {} => w.pending \subseteq mandatory \ w.read

StuckInv ==
  /\ Scenario!NeverStuck
  /\ \A p \in Procs : scenarioReq[p] = Scenario!Idle \/ Looked(scenarioReq[p])

\* A step of request p, which goes on as w or ends.
LEMMA StuckMove ==
  ASSUME ScenariosInv, StuckInv, NEW p \in Procs, NEW w, UNCHANGED mandatory,
         scenarioReq' = [scenarioReq EXCEPT ![p] = w], w = Scenario!Idle \/ Looked(w), Scenario!NeverStuck'
  PROVE  StuckInv'
<1>1. \A q \in Procs : scenarioReq'[q] = IF q = p THEN w ELSE scenarioReq[q]
  BY DEF ScenariosInv
<1> QED BY <1>1 DEF StuckInv, Looked

\* What a request has read and found pending stays with it.
LEMMA StuckGoesOn ==
  ASSUME ScenariosInv, StuckInv, NEW p \in Procs, scenarioReq[p] # Scenario!Idle,
         UNCHANGED mandatory, Scenario!NeverStuck',
         NEW w, scenarioReq' = [scenarioReq EXCEPT ![p] = w],
         w.read = scenarioReq[p].read, w.pending = scenarioReq[p].pending
  PROVE  StuckInv'
<1>1. Looked(w)
  BY DEF StuckInv, Looked
<1> QED BY <1>1, StuckMove

LEMMA StuckStep ==
  ASSUME ScenariosInv, StuckInv, Scenario!Next
  PROVE  StuckInv'
<1>1. UNCHANGED <<mandatory, row, undone>> => Scenario!NeverStuck'
  BY DEF StuckInv, Scenario!NeverStuck, Scenario!Completed
<1>2. ASSUME NEW p \in Procs, NEW pc, NEW tasks, NEW new, Scenario!Start(p, pc, Scenario!Pending(tasks), new),
             UNCHANGED <<mandatory, row, undone>>
      PROVE  StuckInv'
  <2>1. PICK w : w = [pc |-> pc, read |-> Scenario!Completed, pending |-> Scenario!Pending(tasks), new |-> new,
                     tokens |-> new \cap Tenants, verified |-> None, linked |-> {}, old |-> None]
    OBVIOUS
  <2>2. scenarioReq' = [scenarioReq EXCEPT ![p] = w]
    BY <1>2, <2>1 DEF Scenario!Start
  <2>3. Looked(w)
    BY <2>1 DEF Looked, Scenario!Pending
  <2> QED BY <1>1, <1>2, <2>2, <2>3, StuckMove
<1>3. ASSUME NEW p \in Procs, scenarioReq[p].pc # "idle"
      PROVE  /\ scenarioReq[p] # Scenario!Idle
             /\ SoundWork(scenarioReq[p])
             /\ scenarioReq[p] = [pc |-> scenarioReq[p].pc, read |-> scenarioReq[p].read, pending |-> scenarioReq[p].pending,
                          new |-> scenarioReq[p].new, tokens |-> scenarioReq[p].tokens,
                          verified |-> scenarioReq[p].verified, linked |-> scenarioReq[p].linked, old |-> scenarioReq[p].old]
  BY <1>3 DEF ScenariosInv, SoundWork, Scenario!Idle
<1>4. ASSUME NEW p \in Procs, scenarioReq' = [scenarioReq EXCEPT ![p] = Scenario!Idle], UNCHANGED <<mandatory, row, undone>>
      PROVE  StuckInv'
  BY <1>1, <1>4, StuckMove
<1>5. ASSUME NEW p \in Procs, Scenario!GetLinks(p)
      PROVE  StuckInv'
  <2>1. PICK r : r = scenarioReq[p]
    OBVIOUS
  <2>2. PICK w : w = [r EXCEPT !.pc = "token", !.verified = Scenario!GetVerified(links),
                          !.linked = Scenario!GetLinked(links)]
    OBVIOUS
  <2>3. scenarioReq' = [scenarioReq EXCEPT ![p] = w] /\ scenarioReq[p].pc # "idle" /\ UNCHANGED <<mandatory, row, undone>>
    BY <1>5, <2>1, <2>2 DEF Scenario!GetLinks
  <2>4. w.read = r.read /\ w.pending = r.pending
    BY <1>3, <2>1, <2>2, <2>3
  <2> QED BY <1>1, <1>3, <2>1, <2>3, <2>4, StuckGoesOn
<1>6. ASSUME NEW p \in Procs, NEW t \in Tenants, NEW usr, Scenario!VerifyToken(p, t, usr)
      PROVE  StuckInv'
  <2>1. PICK r : r = scenarioReq[p]
    OBVIOUS
  <2>2. PICK verified, linked, some, pc : scenarioReq' = [scenarioReq EXCEPT ![p] =
          [r EXCEPT !.tokens = some, !.verified = verified, !.linked = linked, !.pc = pc]]
    BY <1>6, <2>1 DEF Scenario!VerifyToken
  <2>3. PICK w : w = [r EXCEPT !.tokens = some, !.verified = verified, !.linked = linked, !.pc = pc]
    OBVIOUS
  <2>4. scenarioReq' = [scenarioReq EXCEPT ![p] = w] /\ scenarioReq[p].pc # "idle" /\ UNCHANGED <<mandatory, row, undone>>
    BY <1>6, <2>2, <2>3 DEF Scenario!VerifyToken
  <2>5. w.read = r.read /\ w.pending = r.pending
    BY <1>3, <2>1, <2>3, <2>4
  <2> QED BY <1>1, <1>3, <2>1, <2>4, <2>5, StuckGoesOn
<1>7. ASSUME NEW p \in Procs, Scenario!StoreLinkedAccounts(p)
      PROVE  StuckInv'
  <2>1. PICK r : r = scenarioReq[p]
    OBVIOUS
  <2>2. PICK w : w = [r EXCEPT !.pc = "modify"]
    OBVIOUS
  <2>3. scenarioReq' = [scenarioReq EXCEPT ![p] = w] /\ scenarioReq[p].pc # "idle" /\ UNCHANGED <<mandatory, row, undone>>
    BY <1>7, <2>1, <2>2 DEF Scenario!StoreLinkedAccounts
  <2>4. w.read = r.read /\ w.pending = r.pending
    BY <1>3, <2>1, <2>2, <2>3
  <2> QED BY <1>1, <1>3, <2>1, <2>3, <2>4, StuckGoesOn
<1>8. ASSUME NEW p \in Procs, Scenario!ReadOld(p)
      PROVE  StuckInv'
  <2>1. PICK r, old : r = scenarioReq[p] /\ old = row
    OBVIOUS
  <2>2. PICK w : w = [r EXCEPT !.pc = "update", !.old = old]
    OBVIOUS
  <2>3. scenarioReq' = [scenarioReq EXCEPT ![p] = w] /\ scenarioReq[p].pc # "idle" /\ UNCHANGED <<mandatory, row, undone>>
    BY <1>8, <2>1, <2>2 DEF Scenario!ReadOld
  <2>4. w.read = r.read /\ w.pending = r.pending
    BY <1>3, <2>1, <2>2, <2>3
  <2> QED BY <1>1, <1>3, <2>1, <2>3, <2>4, StuckGoesOn
<1>9. ASSUME NEW p \in Procs, Scenario!UpdateUser(p)
      PROVE  StuckInv'
  <2>1. PICK r, cur, new : r = scenarioReq[p] /\ cur = row /\ new = row'
    OBVIOUS
  <2>2. PICK w : w = [r EXCEPT !.pc = "send"]
    OBVIOUS
  <2>3. /\ scenarioReq' = [scenarioReq EXCEPT ![p] = w] /\ r.pc = "update" /\ UNCHANGED mandatory
        /\ new = [cur EXCEPT !.completed = r.read \cup r.new,
                             !.verified = @ \/ Scenario!AllCompleted(r)]
    BY <1>9, <2>1, <2>2 DEF Scenario!UpdateUser
  <2>4. w.read = r.read /\ w.pending = r.pending /\ Looked(r)
    <3>1. scenarioReq[p].pc # "idle"
      BY <2>1, <2>3
    <3>2. Looked(r)
      BY <1>3, <2>1, <3>1 DEF StuckInv
    <3> QED BY <1>3, <2>1, <2>2, <3>1, <3>2
  <2>5. cur = [completed |-> cur.completed, verified |-> cur.verified,
               started |-> cur.started, ended |-> cur.ended]
    BY <2>1 DEF ScenariosInv, SoundRow
  <2>6. /\ new.completed = r.read \cup r.new
        /\ new.verified <=> (cur.verified \/ Scenario!AllCompleted(r))
    BY <2>3, <2>5, Zenon
  <2>7. ASSUME mandatory # {}, mandatory \subseteq r.read \cup r.new
        PROVE  Scenario!AllCompleted(r)
    <3>1. r.new \cap r.pending = r.pending
      BY <2>4, <2>7 DEF Looked
    <3> QED BY <3>1 DEF Scenario!AllCompleted
  <2>8. Scenario!NeverStuck'
    <3>1. Scenario!Completed' \subseteq r.read \cup r.new
      BY <2>1, <2>6 DEF Scenario!Completed
    <3> QED BY <2>1, <2>3, <2>6, <2>7, <3>1 DEF Scenario!NeverStuck
  <2> QED BY <1>3, <2>1, <2>3, <2>4, <2>8, StuckGoesOn
<1>10. ASSUME NEW p \in Procs, Scenario!SendSnapshot(p)
       PROVE  StuckInv'
  <2>1. PICK r : r = scenarioReq[p]
    OBVIOUS
  <2>2. PICK w : w = [r EXCEPT !.pc = "undo"]
    OBVIOUS
  <2>3. /\ scenarioReq' = [scenarioReq EXCEPT ![p] = Scenario!Idle] \/ scenarioReq' = [scenarioReq EXCEPT ![p] = w]
        /\ scenarioReq[p].pc # "idle" /\ UNCHANGED <<mandatory, row, undone>>
    BY <1>10, <2>1, <2>2 DEF Scenario!SendSnapshot
  <2>4. w.read = r.read /\ w.pending = r.pending
    BY <1>3, <2>1, <2>2, <2>3
  <2> QED BY <1>1, <1>3, <1>4, <2>1, <2>3, <2>4, StuckGoesOn
<1>11. ASSUME NEW p \in Procs, Scenario!UndoUpdate(p)
       PROVE  StuckInv'
  <2>1. scenarioReq' = [scenarioReq EXCEPT ![p] = Scenario!Idle] /\ undone' = TRUE /\ UNCHANGED mandatory
    BY <1>11 DEF Scenario!UndoUpdate
  <2>2. Scenario!NeverStuck'
    BY <2>1 DEF Scenario!NeverStuck
  <2> QED BY <2>1, <2>2, StuckMove
<1>12. ASSUME Scenario!SetTenantVerified
       PROVE  StuckInv'
  BY <1>1, <1>12 DEF Scenario!SetTenantVerified, StuckInv, Looked
<1> QED BY <1>2, <1>4, <1>5, <1>6, <1>7, <1>8, <1>9, <1>10, <1>11, <1>12
        DEF Scenario!Next, Scenario!VerifyJoin, Scenario!VerifySignUp,
            Scenario!ForeignToken, Scenario!CutOff

LEMMA StuckElsewhere ==
  ASSUME ScenariosInv, StuckInv, UNCHANGED <<mandatory, scenarioReq, undone>>,
         \/ row' = row
         \/ \E started, ended : row' = [row EXCEPT !.started = started, !.ended = ended]
  PROVE  StuckInv'
<1>1. PICK r, new : r = row /\ new = row'
  OBVIOUS
<1>2. r = [completed |-> r.completed, verified |-> r.verified,
           started |-> r.started, ended |-> r.ended]
  BY <1>1 DEF ScenariosInv, SoundRow
<1>3. new.completed = r.completed /\ new.verified = r.verified
  BY <1>1, <1>2
<1> QED BY <1>1, <1>3 DEF StuckInv, Scenario!NeverStuck, Scenario!Completed, Looked

LEMMA InitStuck == Scenario!ScenariosInit /\ row = Scenario!NewRow => StuckInv
BY
   DEF Scenario!ScenariosInit, StuckInv, Scenario!NeverStuck, Scenario!Completed,
       Scenario!NewRow
-----------------------------------------------------------------------------
(* The account.                                                            *)

IInv ==
  /\ SigningInv /\ ContactsInv /\ DevicesInv /\ MiningInv
  /\ ScenariosInv /\ StuckInv

-----------------------------------------------------------------------------
\* What a step leaves alone stays as it was.
LEMMA TelegramKept == SigningInv /\ UNCHANGED telegramVars => SigningInv'
BY SigningStutterKeeps DEF telegramVars, Telegram!vars

LEMMA ContactsKept == ContactsInv /\ UNCHANGED contactVars => ContactsInv'
BY ContactStutterKeeps DEF contactVars, Agenda!contactVars

LEMMA DevicesKept == DevicesInv /\ UNCHANGED deviceVars => DevicesInv'
BY DeviceStutterKeeps DEF deviceVars

\* The row keeps its columns, but for those of the mining session.
LEMMA ScenariosKept ==
  ASSUME ScenariosInv, StuckInv, UNCHANGED scenarioVars,
         \/ row' = row
         \/ \E started, ended : row' = [row EXCEPT !.started = started, !.ended = ended]
  PROVE  ScenariosInv' /\ StuckInv'
BY ScenariosElsewhere, StuckElsewhere DEF scenarioVars

LEMMA MiningLeavesRow ==
  Mining!Next => \/ row' = row
                 \/ \E started, ended : row' = [row EXCEPT !.started = started, !.ended = ended]
BY DEF Mining!Next, Mining!Begin, Mining!Extend, Mining!Send, Mining!UpdateMiningSession,
       Mining!IncrementTotalActiveUsersCount, Mining!Rewind

LEMMA MiningKept == MiningInv /\ UNCHANGED <<miningVars, row, undone>> => MiningInv'
BY MiningElsewhere

\* A request that does not take back the row leaves the mining session as it is.
LEMMA ScenariosLeaveTimes ==
  ASSUME ScenariosInv, Scenario!Next
  PROVE  undone' \/ (undone' = undone /\ row'.started = row.started /\ row'.ended = row.ended)
<1>1. CASE \E p \in Procs : Scenario!UndoUpdate(p)
  BY <1>1 DEF Scenario!UndoUpdate
<1>2. ASSUME NEW p \in Procs, Scenario!UpdateUser(p)
      PROVE  undone' = undone /\ row'.started = row.started /\ row'.ended = row.ended
  <2>1. PICK r : r = row
    OBVIOUS
  <2>2. r = [completed |-> r.completed, verified |-> r.verified,
             started |-> r.started, ended |-> r.ended]
    BY <2>1 DEF ScenariosInv, SoundRow
  <2>3. PICK completed : completed = scenarioReq[p].read \cup scenarioReq[p].new
    OBVIOUS
  <2>4. PICK verified : verified = (r.verified \/ Scenario!AllCompleted(scenarioReq[p]))
    OBVIOUS
  <2>5. row' = [r EXCEPT !.completed = completed, !.verified = verified]
    BY <1>2, <2>1, <2>3, <2>4, Zenon DEF Scenario!UpdateUser
  <2>6. row'.started = r.started /\ row'.ended = r.ended
    BY <2>2, <2>5
  <2> QED BY <1>2, <2>1, <2>6 DEF Scenario!UpdateUser
<1>3. CASE UNCHANGED <<row, undone>>
  BY <1>3
<1> QED BY <1>1, <1>2, <1>3
    DEF Scenario!Next, Scenario!VerifyJoin, Scenario!VerifySignUp, Scenario!GetLinks,
        Scenario!VerifyToken, Scenario!ForeignToken, Scenario!StoreLinkedAccounts,
        Scenario!ReadOld, Scenario!SendSnapshot, Scenario!CutOff, Scenario!SetTenantVerified

LEMMA StepKeeps == IInv /\ [Next]_vars => IInv'
<1> SUFFICES ASSUME IInv, [Next]_vars
             PROVE  IInv'
  OBVIOUS
<1>0. /\ SigningInv /\ ContactsInv /\ DevicesInv /\ MiningInv
      /\ ScenariosInv /\ StuckInv
  BY DEF IInv
<1>1. CASE TelegramStep
  <2>1. SigningInv'
    BY <1>0, <1>1, SigningStepKeeps DEF TelegramStep
  <2>2. ContactsInv' /\ DevicesInv' /\ ScenariosInv' /\ StuckInv'
    BY <1>0, <1>1, ContactsKept, DevicesKept, ScenariosKept DEF TelegramStep
  <2>3. MiningInv'
    BY <1>0, <1>1, MiningKept DEF TelegramStep, scenarioVars
  <2> QED BY <2>1, <2>2, <2>3 DEF IInv
<1>2. CASE DeviceStep
  <2>1. DevicesInv'
    BY <1>0, <1>2, DeviceStepKeeps DEF DeviceStep
  <2>2. SigningInv' /\ ContactsInv' /\ ScenariosInv' /\ StuckInv'
    BY <1>0, <1>2, TelegramKept, ContactsKept, ScenariosKept DEF DeviceStep
  <2>3. MiningInv'
    BY <1>0, <1>2, MiningKept DEF DeviceStep, scenarioVars
  <2> QED BY <2>1, <2>2, <2>3 DEF IInv
<1>3. CASE ContactStep
  <2>1. ContactsInv'
    BY <1>0, <1>3, ContactStepKeeps DEF ContactStep
  <2>2. SigningInv' /\ DevicesInv' /\ ScenariosInv' /\ StuckInv'
    BY <1>0, <1>3, TelegramKept, DevicesKept, ScenariosKept DEF ContactStep
  <2>3. MiningInv'
    BY <1>0, <1>3, MiningKept DEF ContactStep, scenarioVars
  <2> QED BY <2>1, <2>2, <2>3 DEF IInv
<1>4. CASE ScenarioStep
  <2>1. ScenariosInv' /\ StuckInv'
    BY <1>0, <1>4, ScenariosStep, StuckStep
       DEF ScenarioStep
  <2>2. SigningInv' /\ ContactsInv' /\ DevicesInv'
    BY <1>0, <1>4, TelegramKept, ContactsKept, DevicesKept DEF ScenarioStep
  <2>3. MiningInv'
    BY <1>0, <1>4, MiningElsewhere, ScenariosLeaveTimes DEF ScenarioStep
  <2> QED BY <2>1, <2>2, <2>3 DEF IInv
<1>5. CASE MiningStep
  <2>1. SigningInv' /\ ContactsInv' /\ DevicesInv'
    BY <1>0, <1>5, TelegramKept, ContactsKept, DevicesKept DEF MiningStep
  <2>2. ScenariosInv' /\ StuckInv'
    BY <1>0, <1>5, ScenariosKept, MiningLeavesRow DEF MiningStep
  <2>3. MiningInv'
    <3>1. row = [completed |-> row.completed, verified |-> row.verified,
                 started |-> row.started, ended |-> row.ended]
      BY <1>0 DEF ScenariosInv, SoundRow
    <3> QED BY <1>0, <1>5, <3>1, MiningStepKeeps DEF MiningStep, scenarioVars
  <2> QED BY <2>1, <2>2, <2>3 DEF IInv
<1>6. CASE UNCHANGED vars
  <2>1. SigningInv' /\ ContactsInv' /\ DevicesInv' /\ ScenariosInv' /\ StuckInv'
    BY <1>0, <1>6, TelegramKept, ContactsKept, DevicesKept, ScenariosKept DEF vars
  <2>2. MiningInv'
    BY <1>0, <1>6, MiningKept DEF vars, scenarioVars
  <2> QED BY <2>1, <2>2 DEF IInv
<1> QED BY <1>1, <1>2, <1>3, <1>4, <1>5, <1>6 DEF Next

LEMMA InitKeeps == Init => IInv
<1> SUFFICES ASSUME Init
             PROVE  IInv
  OBVIOUS
<1>1. SigningInv
  BY SigningInitHolds DEF Init
<1>2. ContactsInv
  BY ContactInitHolds DEF Init
<1>3. DevicesInv
  BY DeviceInitHolds DEF Init
<1>4. ScenariosInv /\ StuckInv
  BY InitSound, InitStuck DEF Init, Scenario!Init
<1>5. MiningInv
  BY MiningInitHolds DEF Init, Scenario!Init, Scenario!NewRow
<1> QED BY <1>1, <1>2, <1>3, <1>4, <1>5 DEF IInv

LEMMA Always == Spec => []IInv
BY InitKeeps, StepKeeps, PTL DEF Spec
-----------------------------------------------------------------------------
\* A Telegram account is one user in everything that can happen to the account:
\* first sign-ins at once, other Telegram accounts, deleted users, cut off requests.
THEOREM OneIdentityHolds == Spec => []OneIdentity
<1>1. IInv => OneIdentity
  BY DEF IInv, SigningInv, OneIdentity, Telegram!OneIdentity
<1> QED BY Always, <1>1, PTL

\* Numbers of tokens are given out once per Telegram account, and an answer that
\* was lost can be asked for again.
THEOREM TelegramSeqInvariantHolds == Spec => []TelegramSeqInvariant
<1>1. IInv => TelegramSeqInvariant
  BY DEF IInv, SigningInv, TelegramSeqInvariant,
         Telegram!TelegramSeqInvariant
<1> QED BY Always, <1>1, PTL

\* Nobody stays among the contacts untold, whatever lists are written over each
\* other or back, unless a request was cut off or rolled back while another ran.
THEOREM ContactsToldHolds == Spec => []ContactsTold
<1>1. IInv => ContactsTold
  BY DEF IInv, ContactsInv, Covered, ContactsTold, Agenda!ContactsTold
<1> QED BY Always, <1>1, PTL

\* Nobody is eligible who has not earned it, though requests write lists and rows
\* over each other or back, next to the mining sessions on the same row.
THEOREM VerifiedIsEarnedHolds == Spec => []VerifiedIsEarned
<1>1. IInv => VerifiedIsEarned
  BY SoundMeansEarned DEF IInv, VerifiedIsEarned
<1> QED BY Always, <1>1, PTL

\* Who has completed what is mandatory is eligible, however lists are read, added
\* to and written at once, unless a row was taken back.
THEOREM NeverStuckHolds == Spec => []NeverStuck
<1>1. IInv => NeverStuck
  BY DEF IInv, StuckInv, NeverStuck
<1> QED BY Always, <1>1, PTL

\* What the platform was told of a device is what its row says, however many other
\* requests replace other devices, fail, are cut off or delete the user meanwhile.
THEOREM KnownDevicesHolds == Spec => []KnownDevices
<1>1. IInv => KnownDevices
  BY DEF IInv, DevicesInv, KnownDevices, Metadata!KnownDevices
<1> QED BY Always, <1>1, PTL

\* A user is counted once in every interval the sessions cover, whatever sessions
\* begin or are extended, though messages come again and requests write the same
\* row, unless one of them takes the row back.
THEOREM CountedOnceHolds == Spec => []CountedOnce
<1>1. IInv => CountedOnce
  BY CountedMeansOnce DEF IInv
<1> QED BY Always, <1>1, PTL
=============================================================================
