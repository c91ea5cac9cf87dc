---------------------------- MODULE EmailSignIn -----------------------------
(***************************************************************************)
(* Signing in with a confirmation code sent by email, and refreshing the   *)
(* tokens that come out of it (auth/email_link, auth/token.go).            *)
(*                                                                         *)
(* One email address and its rows of email_link_sign_ins, one per device.  *)
(* Requests are goroutines: every SQL statement is one atomic step, and    *)
(* what a request read stays in its own state while the others run.  A     *)
(* request that is cut off (a crash, a cancelled context, a failed         *)
(* statement) is gone; what it had written stays.                          *)
(*                                                                         *)
(* Requests carry no client IP and change no email address: the counters   *)
(* per IP and the email change are modelled apart.                         *)
(***************************************************************************)
EXTENDS TokenSeq, FiniteSets

CONSTANTS
  Devices,          \* device_unique_id values
  Procs,            \* requests that may be running at once
  Codes,            \* the confirmation codes the generator can draw
  UserIDs,          \* ids of users, generated or created
  None,             \* SQL NULL
  MaxWrong,         \* cfg.ConfirmationCode.MaxWrongAttemptsCount
  BlockDuration,    \* cfg.EmailValidation.BlockDuration, in ticks
  Expiration,       \* cfg.EmailValidation.ExpirationTime, in ticks
  Crashes,          \* TRUE: a request may be cut off between two statements
  CodesRepeat,      \* TRUE: the generator may draw a code that is still about
  StaleReads,       \* TRUE: SELECTs may be served by a replica that lags
  MaxTime, MaxSeq, MaxGen,  \* bounds on the clock, the tokens and the codes
  MaxCount                  \* bound on the wrong codes counted or lost

ASSUME CodesAssumption == /\ None \notin Codes \cup UserIDs \cup Devices
                          /\ Codes \cap UserIDs = {}
ASSUME LimitsAssumption == /\ MaxWrong \in Nat \ {0}
                           /\ BlockDuration \in Nat \ {0}
                           /\ Expiration \in Nat \ {0}
                           /\ {MaxTime, MaxSeq, MaxGen, MaxCount} \subseteq Nat
ASSUME ProcsAssumption == IsFiniteSet(Procs) /\ Procs # {}
ASSUME FaultsAssumption == {Crashes, CodesRepeat, StaleReads} \subseteq BOOLEAN

VARIABLES
  now,      \* wall clock; one tick is the 2s window of duplicated requests
  account,  \* id of the users row with this email, or None
  row,      \* row[d]: the email_link_sign_ins row; code = None: no row
  replica,  \* replica[d]: the row as the read replica has it
  session,  \* session[d]: expiry of the newest login session JWT, 0: none
  req,      \* req[p]: the request p is serving
  tokens,   \* the token pairs sent to a client
  \* What an observer counts; no action's guard reads these.
  exchanged,  \* exchanged[d]: number of the last session start or refresh
  guesses,    \* guesses[d]: wrong codes compared against the newest code
  lapses,     \* lapses[d]: those of them whose request was cut off
  late        \* late[d]: sign-ins finished after their code was consumed

vars == <<now, account, row, replica, session, req, tokens,
          exchanged, guesses, lapses, late>>

\* A redeemed code is overwritten with the id of the user who redeemed it.
Row == [code : Codes \cup UserIDs \cup {None}, gen : 0..MaxGen, created : Nat,
        wrong : Nat, blocked : Nat, user : UserIDs \cup {None},
        issued : Nat, prev : Nat]

NewRow == [code |-> None, gen |-> 0, created |-> 0, wrong |-> 0,
           blocked |-> 0, user |-> None, issued |-> 0, prev |-> 0]

PCs == {"idle", "upsert", "read", "wrong", "finish", "reset", "reply"}

Req == [pc : PCs, dev : Devices \cup {None}, code : Codes \cup {None},
        gen : 0..MaxGen, uid : UserIDs \cup {None}, seq : Nat, block : BOOLEAN]

IdleReq == [pc |-> "idle", dev |-> None, code |-> None, gen |-> 0,
            uid |-> None, seq |-> 0, block |-> FALSE]

Token == [dev : Devices, uid : UserIDs, seq : Nat]

TypeOK ==
  /\ now \in 1..(MaxTime + 1)
  /\ account \in UserIDs \cup {None}
  /\ row \in [Devices -> Row]
  /\ replica \in [Devices -> Row]
  /\ session \in [Devices -> Nat]
  /\ req \in [Procs -> Req]
  /\ \A p \in Procs : req[p].pc # "idle" => req[p].dev \in Devices
  /\ \A p \in Procs : req[p].pc \notin {"idle", "upsert"} => req[p].uid \in UserIDs
  /\ tokens \subseteq Token
  /\ exchanged \in [Devices -> Nat]
  /\ guesses \in [Devices -> Nat]
  /\ lapses \in [Devices -> Nat]
  /\ late \in [Devices -> Nat]

Init ==
  /\ now = 1
  /\ account = None
  /\ row = [d \in Devices |-> NewRow]
  /\ replica = [d \in Devices |-> NewRow]
  /\ session = [d \in Devices |-> 0]
  /\ req = [p \in Procs |-> IdleReq]
  /\ tokens = {}
  /\ exchanged = [d \in Devices |-> 0]
  /\ guesses = [d \in Devices |-> 0]
  /\ lapses = [d \in Devices |-> 0]
  /\ late = [d \in Devices |-> 0]

Idle(p) == req[p].pc = "idle"
Goto(p, pc) == req' = [req EXCEPT ![p].pc = pc]
Finished(p) == req' = [req EXCEPT ![p] = IdleReq]
Ghosts == <<exchanged, guesses, lapses, late>>

\* What storage.Get may return for the row; UPDATEs always see the row itself.
Readable(d) == IF StaleReads THEN {row[d], replica[d]} ELSE {row[d]}
-----------------------------------------------------------------------------
(* SendSignInLinkToEmail: look at the row, then store a new code.          *)

\* validateEmailSignIn; a blocked row ends the request with ErrUserBlocked.
ValidateEmailSignIn(p, d) ==
  /\ Idle(p)
  /\ \E r \in Readable(d) : ~ r.blocked > now
  /\ req' = [req EXCEPT ![p].pc = "upsert", ![p].dev = d]
  /\ UNCHANGED <<now, account, row, replica, session, tokens, Ghosts>>

\* The WHERE clause of upsertEmailLinkSignIn's ON CONFLICT; a missing row is
\* inserted, and a request that changes no row is a duplicate.
Overwrites(r, code) ==
  \/ r.code = None
  \/ /\ r.created # now
     /\ r.code # code \/ r.wrong # 0

WithNewCode(r, code) ==
  [r EXCEPT !.code = code, !.gen = @ + 1, !.created = now,
            !.wrong = 0, !.user = None]

\* generateConfirmationCode: three random digits, or the address's own code.
Drawable(r) ==
  IF CodesRepeat THEN Codes
  ELSE Codes \ ({r.code} \cup {req[p].code : p \in Procs})

\* The caller gets a login session for the new code, and for the old code too
\* when the request is a duplicate, unless sending the email failed.
UpsertEmailLinkSignIn(p) ==
  /\ req[p].pc = "upsert"
  /\ LET d == req[p].dev IN
     /\ row[d].gen < MaxGen
     /\ \E code \in Drawable(row[d]) :
          IF Overwrites(row[d], code)
          THEN /\ row' = [row EXCEPT ![d] = WithNewCode(@, code)]
               /\ guesses' = [guesses EXCEPT ![d] = 0]
               /\ lapses' = [lapses EXCEPT ![d] = 0]
               /\ late' = [late EXCEPT ![d] = 0]
          ELSE UNCHANGED <<row, guesses, lapses, late>>
     /\ session' \in {session, [session EXCEPT ![d] = now + Expiration]}
  /\ Finished(p)
  /\ UNCHANGED <<now, account, replica, tokens, exchanged>>
-----------------------------------------------------------------------------
(* SignIn: resolve the user, read the row, then record a wrong code or     *)
(* finish the sign-in and retire the code.                                 *)

FreshIDs == UserIDs \ ({row[d].user : d \in Devices} \cup {t.uid : t \in tokens}
                          \cup {req[p].uid : p \in Procs})

\* GetUserIDFromSearch: the users row first, else any row of the email; one
\* whose user_id is NULL, or none at all, stands for a newly generated id.
ResolvableIDs ==
  IF account # None THEN {account}
  ELSE LET known == UNION {{r.user : r \in {s \in Readable(d) : s.code # None}}
                           : d \in Devices}
       IN  (known \ {None}) \cup (IF None \in known \/ known = {} THEN FreshIDs ELSE {})

ResolveUser(p, d, code) ==
  /\ Idle(p)
  /\ session[d] >= now
  /\ \E uid \in ResolvableIDs :
       req' = [req EXCEPT ![p].pc = "read", ![p].dev = d,
                          ![p].code = code, ![p].uid = uid]
  /\ UNCHANGED <<now, account, row, replica, session, tokens, Ghosts>>

\* verifySignIn's blockTimeFitsNow.  The code compares nanoseconds; within one
\* tick "before" becomes "not after".
BlockTimeFitsNow(r) ==
  /\ r.blocked # 0
  /\ r.blocked <= now + BlockDuration
  /\ r.blocked > r.created

\* Mutant of AttemptsExhausted: one attempt more.
AttemptsOverrun(r) == r.wrong > MaxWrong

\* What verifySignIn makes of the row it was given.
AttemptsExhausted(r) == r.wrong >= MaxWrong
MustBlock(r) == AttemptsExhausted(r) /\ ~ BlockTimeFitsNow(r)

\* getUserByIDOrPk, and the decisions taken on what it returned.
ReadSignIn(p) ==
  /\ req[p].pc = "read"
  /\ \E r \in Readable(req[p].dev) :
       LET gone     == r.code \in {None, req[p].uid}   \* no row, or redeemed
           mismatch == r.code # req[p].code
           compared == ~ gone /\ ~ AttemptsExhausted(r)
           wrong    == MustBlock(r) \/ (compared /\ mismatch)
       IN  /\ \/ /\ gone \/ (AttemptsExhausted(r) /\ BlockTimeFitsNow(r))
                 /\ Finished(p)
              \/ /\ ~ gone /\ wrong
                 /\ req' = [req EXCEPT ![p].pc = "wrong", ![p].gen = r.gen,
                              ![p].block = r.wrong + 1 >= MaxWrong]
              \/ /\ compared /\ ~ mismatch
                 /\ req' = [req EXCEPT ![p].pc = "finish", ![p].gen = r.gen,
                                       ![p].seq = r.issued]
           /\ guesses' = [guesses EXCEPT ![req[p].dev] =
                IF compared /\ mismatch /\ r.gen = row[req[p].dev].gen
                THEN @ + 1 ELSE @]
  /\ UNCHANGED <<now, account, row, replica, session, tokens, exchanged, lapses, late>>

\* Mutant of IncreaseWrongAttempts: the attempt is counted, the block is not set.
IncreaseWithoutBlock(p) ==
  /\ req[p].pc = "wrong"
  /\ row[req[p].dev].wrong < MaxCount
  /\ row' = [row EXCEPT ![req[p].dev].wrong = @ + 1]
  /\ Finished(p)
  /\ UNCHANGED <<now, account, replica, session, tokens, Ghosts>>

IncreaseWrongAttempts(p) ==
  /\ req[p].pc = "wrong"
  /\ row[req[p].dev].wrong < MaxCount
  /\ LET d == req[p].dev
         until == IF req[p].block THEN now + BlockDuration ELSE row[d].blocked
     IN  row' = [row EXCEPT ![d].wrong = @ + 1, ![d].blocked = until]
  /\ Finished(p)
  /\ UNCHANGED <<now, account, replica, session, tokens, Ghosts>>

\* Mutant of CanFinish: no compare-and-set.
CanAlwaysFinish(r, q) == TRUE

\* The compare-and-set on issued_token_seq: the row must still have the
\* number this request read, whatever code it has by now.
CanFinish(r, q) == r.issued = q.seq

FinishAuthProcess(p) ==
  /\ req[p].pc = "finish"
  /\ LET d == req[p].dev IN
     IF CanFinish(row[d], req[p])
     THEN /\ row[d].issued < MaxSeq
          /\ row' = [row EXCEPT ![d] = [SessionStarted(@) EXCEPT !.user = req[p].uid]]
          /\ req' = [req EXCEPT ![p].pc = "reset", ![p].seq = row[d].issued + 1]
          /\ exchanged' = [exchanged EXCEPT ![d] = row[d].issued + 1]
          /\ late' = [late EXCEPT ![d] =
               IF row[d].code \in UserIDs /\ row[d].gen = req[p].gen
               THEN @ + 1 ELSE @]
     ELSE Finished(p) /\ UNCHANGED <<row, exchanged, late>>
  /\ UNCHANGED <<now, account, replica, session, tokens, guesses, lapses>>

\* The WHERE clause of resetLoginSession.
CanReset(r, q) == r.code = q.code /\ r.issued = q.seq

\* No row matching is no error: the tokens are sent all the same.
ResetLoginSession(p) ==
  /\ req[p].pc = "reset"
  /\ LET d == req[p].dev IN
     row' = IF CanReset(row[d], req[p])
            THEN [row EXCEPT ![d].code = req[p].uid] ELSE row
  /\ Goto(p, "reply")
  /\ UNCHANGED <<now, account, replica, session, tokens, Ghosts>>
-----------------------------------------------------------------------------
(* RefreshToken with any token pair a client has ever been sent.           *)

RefreshToken(p, t) ==
  /\ Idle(p)
  /\ CanRefresh(row[t.dev], t.uid, t.seq)
  /\ row[t.dev].issued < MaxSeq
  /\ row' = [row EXCEPT ![t.dev] = Refreshed(@, t.uid, t.seq)]
  /\ req' = [req EXCEPT ![p].pc = "reply", ![p].dev = t.dev, ![p].uid = t.uid,
                        ![p].seq = row[t.dev].issued + 1]
  /\ exchanged' = [exchanged EXCEPT ![t.dev] = t.seq]
  /\ UNCHANGED <<now, account, replica, session, tokens, guesses, lapses, late>>

\* generateTokens; the answer of a sign-in or a refresh reaches the client.
Reply(p) ==
  /\ req[p].pc = "reply"
  /\ tokens' = tokens \cup
       {[dev |-> req[p].dev, uid |-> req[p].uid, seq |-> req[p].seq]}
  /\ Finished(p)
  /\ UNCHANGED <<now, account, row, replica, session, Ghosts>>
-----------------------------------------------------------------------------
(* The world around the requests.                                          *)

\* A request is cut off; a wrong code it had seen is never counted.
Crash(p) ==
  /\ Crashes
  /\ ~ Idle(p)
  /\ lapses[req[p].dev] < MaxCount
  /\ Finished(p)
  /\ lapses' = [lapses EXCEPT ![req[p].dev] =
       IF req[p].pc = "wrong" /\ req[p].gen = row[req[p].dev].gen
       THEN @ + 1 ELSE @]
  /\ UNCHANGED <<now, account, row, replica, session, tokens, exchanged, guesses, late>>

\* The owner of a token registers: users.CreateUser with its subject.
CreateUser(t) ==
  /\ account = None
  /\ account' = t.uid
  /\ UNCHANGED <<now, row, replica, session, req, tokens, Ghosts>>

Replicate(d) ==
  /\ StaleReads
  /\ replica[d] # row[d]
  /\ replica' = [replica EXCEPT ![d] = row[d]]
  /\ UNCHANGED <<now, account, row, session, req, tokens, Ghosts>>

Tick ==
  /\ now <= MaxTime
  /\ now' = now + 1
  /\ UNCHANGED <<account, row, replica, session, req, tokens, Ghosts>>

Next ==
  \/ \E p \in Procs :
       \/ \E d \in Devices : ValidateEmailSignIn(p, d)
       \/ UpsertEmailLinkSignIn(p)
       \/ \E d \in Devices, code \in Codes : ResolveUser(p, d, code)
       \/ ReadSignIn(p)
       \/ IncreaseWrongAttempts(p)
       \/ FinishAuthProcess(p)
       \/ ResetLoginSession(p)
       \/ \E t \in tokens : RefreshToken(p, t)
       \/ Reply(p)
       \/ Crash(p)
  \/ \E t \in tokens : CreateUser(t)
  \/ \E d \in Devices : Replicate(d)
  \/ Tick

Spec == Init /\ [][Next]_vars
-----------------------------------------------------------------------------
(* Correctness.                                                            *)

\* The request was given a token number and has not answered yet.
Granted(p) == req[p].pc \in {"reset", "reply"}

\* Two requests never give out token pairs with the same number for a device,
\* nor one whose number a client already holds: the compare-and-set of
\* finishAuthProcess and the increment of IncrementRefreshTokenSeq serialise
\* sign-ins and refreshes that run at once.
SeqGrantedOnce ==
  \A p \in Procs : Granted(p) =>
    /\ \A q \in Procs \ {p} : Granted(q) =>
         <<req[p].dev, req[p].seq>> # <<req[q].dev, req[q].seq>>
    /\ \A t \in tokens : <<t.dev, t.seq>> # <<req[p].dev, req[p].seq>>

\* The number a row accepts from is the last one exchanged, and no number in
\* the hands of a client or of a request is ahead of the row's.
SeqInvariant ==
  /\ SeqGrantedOnce
  /\ \A d \in Devices : exchanged[d] = row[d].prev /\ row[d].prev <= row[d].issued
  /\ \A t \in tokens : t.seq <= row[t.dev].issued
  /\ \A p \in Procs : Granted(p) => req[p].seq <= row[req[p].dev].issued

\* Once a token pair was exchanged, or a new sign-in was finished, no older
\* pair is ever exchanged again, however late its request runs.
NoOlderTokenExchanged ==
  [][\A d \in Devices : exchanged'[d] >= exchanged[d]]_vars

\* The wrong codes compared with one confirmation code: verifySignIn decides
\* on a count it read before, so requests that run at once may each compare
\* one more, but no more than that.
GuessesBounded ==
  \A d \in Devices :
    guesses[d] <= MaxWrong + Cardinality(Procs) - 1 + lapses[d]

\* Requests that run at once may carry the count of wrong codes past the limit
\* while none of them saw it reached; the next one then sets the block.
BlockNotMissed ==
  \A d \in Devices :
    row[d].wrong > MaxWrong + Cardinality(Procs) - 2 => BlockTimeFitsNow(row[d])

\* A code that was redeemed completes at most one more sign-in, the one that
\* had read the row between finishAuthProcess and resetLoginSession.
LateSignInsBounded == \A d \in Devices : late[d] <= 1

\* When the code of a device is used up, someone holds, or is about to be
\* sent, a token pair the row accepts: no sign-in burns the code and leaves
\* the device without a session.  A request cut off may do just that.
CodeBuysSession ==
  \A d \in Devices : row[d].code \in UserIDs =>
    \/ \E t \in tokens : t.dev = d /\ CanRefresh(row[d], t.uid, t.seq)
    \/ \E p \in Procs : /\ Granted(p) /\ req[p].dev = d
                        /\ req[p].seq >= row[d].prev
=============================================================================
