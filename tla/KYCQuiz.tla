------------------------------ MODULE KYCQuiz -------------------------------
(***************************************************************************)
(* The quiz step of KYC (kyc/quiz/quiz.go), for one user.                  *)
(*                                                                         *)
(* A session asks Questions questions; too many wrong answers, a missed    *)
(* deadline, a skip or a fresh start fail it.  MaxAttempts failed sessions *)
(* are moved to a history and counted as one reset; more than MaxResets of *)
(* them close the quiz.  A successful session and a reset both pass the    *)
(* step.                                                                   *)
(*                                                                         *)
(* StartQuizSession is a sequence of statements, each a transaction of its *)
(* own.  Answering and skipping run in a serialisable transaction that     *)
(* keeps the rows it changed locked; but the users row is changed through  *)
(* users.ModifyUser, on another connection, before that transaction        *)
(* commits.                                                                *)
(***************************************************************************)
EXTENDS Integers, FiniteSets, FiniteSetsExt

CONSTANTS
  Procs, None,
  Questions,    \* maxQuestionsPerSession
  MaxWrong,     \* maxWrongAnswersPerSession
  MaxAttempts,  \* maxAttemptsAllowed
  MaxResets,    \* maxResetCount
  Duration,     \* maxSessionDurationSeconds, in ticks
  Cooldown,     \* sessionCoolDownSeconds, in ticks
  MaxTime, MaxFaults, MaxRows   \* bounds: clock, faults, sessions and skips

\* A request is cut off after defaultEndpointTimeout, 30 seconds; a tick is no
\* shorter.  A session lasts longer, 10 minutes, and the cool down an hour.
ASSUME QuizAssumption ==
  /\ {Questions, MaxAttempts} \subseteq Nat \ {0}
  /\ {MaxWrong, MaxResets, MaxTime, MaxFaults, MaxRows} \subseteq Nat
  /\ {Duration, Cooldown} \subseteq Nat \ {0, 1}
  /\ None \notin Procs /\ IsFiniteSet(Procs)

VARIABLES
  now,       \* wall clock
  session,   \* the quiz_sessions row; status "none": no row
  failed,    \* failed_quiz_sessions: what failed and when
  history,   \* failed_quiz_sessions_history: what failed
  resets,    \* length of quiz_resets.resets
  passed,    \* users.kyc_step_passed
  updated,   \* users.kyc_steps_last_updated_at[4], 0: NULL
  lock,      \* the request whose transaction has locked the session's row
  req,       \* req[p]: the request p is serving
  rows,      \* sessions started and skips recorded, numbered from 1
  starts,    \* the sessions among them; no guard reads it or the next three
  replaced,  \* those that a first start wrote over
  succeeded, \* those that have ended in success
  panicked,  \* panic("unreachable") was reached
  faults     \* faults so far

quiz == <<session, failed, history, resets>>
user == <<passed, updated>>
observed == <<starts, replaced, succeeded, panicked>>
vars == <<now, quiz, user, lock, req, rows, observed, faults>>

FacialRecognitionKYCStep == 1
QuizKYCStep == 4

Times == 0..(MaxTime + 1)
IDs == 1..MaxRows

\* since: started_at of a session that runs, ended_at of one that has ended.
Session == [status : {"none", "active", "failed", "success"}, id : 0..MaxRows,
            since : Times,
            right : 0..Questions, wrong : 0..MaxWrong]
NoSession == [status |-> "none", id |-> 0, since |-> 0, right |-> 0, wrong |-> 0]
Attempt == [id : IDs, ended : Times]

PCs == {"idle", "count", "move", "reset", "modify", "update", "notify", "enabled",
        "kyc", "new", "insert", "replace", "skip", "commit"}

\* at: now() of startNewSession's statement.
\* success, blocked, target, old: modifyUser's arguments and locals.
\* session, added, moved: what the open transaction leaves of the session's
\* row, adds to failed and moves to history; doomed: it cannot commit.
IdleReq == [pc |-> "idle", began |-> 0, at |-> 0, then |-> "idle", success |-> FALSE,
            blocked |-> FALSE, target |-> 0, old |-> 0, session |-> NoSession,
            added |-> {}, moved |-> {}, doomed |-> FALSE]

Request == [pc : PCs, began : Times, at : Times, then : {"idle", "enabled", "commit"},
            success : BOOLEAN, blocked : BOOLEAN, target : {0, QuizKYCStep}, old : Times,
            session : Session, added : SUBSET Attempt, moved : SUBSET Attempt,
            doomed : BOOLEAN]

TypeOK ==
  /\ now \in Times
  /\ session \in Session
  /\ failed \subseteq Attempt /\ history \subseteq IDs /\ resets \in Nat
  /\ passed \in 0..QuizKYCStep /\ updated \in Times
  /\ lock \in Procs \cup {None}
  /\ DOMAIN req = Procs /\ \A p \in Procs : req[p] \in Request
  /\ rows \in 0..MaxRows /\ starts \subseteq 1..rows
  /\ replaced \subseteq starts /\ succeeded \subseteq starts
  /\ panicked \in BOOLEAN
  /\ faults \in 0..MaxFaults

Init ==
  /\ now = 1 /\ session = NoSession
  /\ failed = {} /\ history = {} /\ resets = 0
  /\ passed = 2 /\ updated = 0
  /\ lock = None /\ req = [p \in Procs |-> IdleReq]
  /\ rows = 0 /\ starts = {} /\ replaced = {} /\ succeeded = {}
  /\ panicked = FALSE /\ faults = 0

Goto(p, pc) == req' = [req EXCEPT ![p].pc = pc]
Finished(p) == req' = [req EXCEPT ![p] = IdleReq]
Begin(p, pc) == req[p].pc = "idle" /\ req' = [req EXCEPT ![p] =
                  [IdleReq EXCEPT !.pc = pc, !.began = now]]
Fault == faults < MaxFaults /\ faults' = faults + 1
Unlocked == lock = None
InTransaction(p) == req[p].then = "commit"

\* The quiz_resets row and the failed attempts are locked by a transaction
\* that moves them.
Moving == \E p \in Procs : req[p].moved # {}
-----------------------------------------------------------------------------
(* What the statements say of the quiz tables.                             *)

Attempted(id) == [id |-> id, ended |-> now]
AttemptIDs(attempts) == {a.id : a \in attempts}

\* The answers of a session that has ended are not read again.
EndedAs(s, status) == [NoSession EXCEPT !.status = status, !.id = s.id, !.since = now]

\* Mutant of FailedBy: a session that succeeded is recorded as well.
FailedByAny(s) == {Attempted(s.id)}

\* A session that ends without success becomes a failed_quiz_sessions row.
FailedBy(s) == IF s.status = "failed" THEN {Attempted(s.id)} ELSE {}

\* NumberOfFailedAttempts against MaxAttemptsAllowed.
Exhausted(attempts) == Cardinality(attempts) >= MaxAttempts

\* validateKycStep of a user who is not blocked.
ValidateKycStep ==
  /\ passed >= FacialRecognitionKYCStep
  /\ ~ (updated # 0 /\ now - updated < Cooldown)

Expired(s, time) == s.since + Duration < time
-----------------------------------------------------------------------------
(* StartQuizSession, statement by statement.                               *)

\* Mutant of FinishUnfinishedSession: one that has failed is finished again.
FinishFailedSession(p) ==
  /\ Unlocked
  /\ \/ /\ session.status \in {"active", "failed"}
        /\ Begin(p, "count")
        /\ session' = EndedAs(session, "failed")
        /\ failed' = failed \cup FailedBy(session')
     \/ /\ session.status \notin {"active", "failed"}
        /\ Begin(p, "enabled")
        /\ UNCHANGED <<session, failed>>
  /\ UNCHANGED <<now, history, resets, user, lock, rows, observed, faults>>

\* finishUnfinishedSession: a session that was left is failed.
FinishUnfinishedSession(p) ==
  /\ Unlocked
  /\ \/ /\ session.status = "active"
        /\ Begin(p, "count")
        /\ session' = EndedAs(session, "failed")
        /\ failed' = failed \cup FailedBy(session')
     \/ /\ session.status # "active"
        /\ Begin(p, "enabled")
        /\ UNCHANGED <<session, failed>>
  /\ UNCHANGED <<now, history, resets, user, lock, rows, observed, faults>>

Modify(p, blocked, then) ==
  req' = [req EXCEPT ![p].pc = "modify", ![p].blocked = blocked, ![p].then = then]

\* moveFailedAttempts, outside a transaction: three statements.
CountFailed(p) ==
  /\ req[p].pc = "count"
  /\ IF Exhausted(failed) THEN Goto(p, "move")
     ELSE Modify(p, FALSE, "idle")       \* ErrSessionFinishedWithError
  /\ UNCHANGED <<now, quiz, user, lock, rows, observed, faults>>

MoveFailed(p) ==
  /\ req[p].pc = "move" /\ ~ Moving
  /\ failed' = {} /\ history' = history \cup AttemptIDs(failed)
  /\ Goto(p, "reset")
  /\ UNCHANGED <<now, session, resets, user, lock, rows, observed, faults>>

AppendReset(p) ==
  /\ req[p].pc = "reset" /\ ~ Moving
  /\ resets' = resets + 1
  /\ Modify(p, TRUE, "enabled")
  /\ UNCHANGED <<now, session, failed, history, user, lock, rows, observed, faults>>

\* Mutant of IsQuizEnabled: one reset more.
IsQuizEnabledLonger == resets <= MaxResets + 1

IsQuizEnabled == resets <= MaxResets

IsQuizEnabledForUser(p) ==
  /\ req[p].pc = "enabled"
  /\ IF IsQuizEnabled THEN Goto(p, "kyc") ELSE Finished(p)
  /\ UNCHANGED <<now, quiz, user, lock, rows, observed, faults>>

CheckUserKYC(p) ==
  /\ req[p].pc = "kyc"
  /\ IF ValidateKycStep THEN Goto(p, "new") ELSE Finished(p)
  /\ UNCHANGED <<now, quiz, user, lock, rows, observed, faults>>

\* session_failed of startNewSession's statement.
CoolingDown == \E a \in failed : a.ended > now - Cooldown

\* startNewSession is one statement, and locks the row it finds.  Without a row
\* there is nothing to lock: what the statement has seen is what it goes by.
StartNewSession(p) ==
  /\ req[p].pc = "new"
  /\ IF CoolingDown THEN Finished(p)
     ELSE req' = [req EXCEPT ![p].pc = IF session.status = "none" THEN "insert" ELSE "replace",
                             ![p].at = now]
  /\ UNCHANGED <<now, quiz, user, lock, rows, observed, faults>>

\* session_upsert's WHERE clause, on the row as it is once locked.
Replaceable(s, time) ==
  \/ s.status = "active" /\ Expired(s, time)
  \/ s.status = "failed" /\ s.since + Cooldown < time

UpsertSession(p) ==
  /\ rows < MaxRows
  /\ rows' = rows + 1 /\ starts' = starts \cup {rows + 1}
  /\ session' = [NoSession EXCEPT !.status = "active", !.id = rows + 1, !.since = req[p].at]

\* ON CONFLICT DO UPDATE: of two first starts the second writes over the session
\* of the first.
StartFirst(p) ==
  /\ req[p].pc = "insert" /\ Unlocked
  /\ UpsertSession(p)
  /\ replaced' = IF session.status = "none" THEN replaced ELSE replaced \cup {session.id}
  /\ Finished(p)
  /\ UNCHANGED <<now, failed, history, resets, user, lock, succeeded, panicked, faults>>

\* A session that runs is neither a refusal nor a new session: panic.
StartNext(p) ==
  /\ req[p].pc = "replace" /\ Unlocked
  /\ IF Replaceable(session, req[p].at)
     THEN UpsertSession(p) /\ UNCHANGED panicked
     ELSE /\ panicked' = (panicked \/ session.status = "active")
          /\ UNCHANGED <<session, rows, starts>>
  /\ Finished(p)
  /\ UNCHANGED <<now, failed, history, resets, user, lock, replaced, succeeded, faults>>
-----------------------------------------------------------------------------
(* ContinueQuizSession and SkipQuizSession: transactions.                  *)

\* UserMarkSessionAsFinished and addFailedAttempt, moveFailedAttempts included:
\* the transaction has locked what it will change, and goes on to modifyUser.
Mark(p, s, added, success) ==
  LET attempts == failed \cup added
      moved == IF Exhausted(attempts) THEN attempts ELSE {}
  IN  /\ moved # {} => ~ Moving
      /\ req' = [req EXCEPT ![p] = [IdleReq EXCEPT
                   !.pc = "modify", !.began = now, !.then = "commit", !.success = success,
                   !.blocked = moved # {}, !.session = s, !.added = added, !.moved = moved]]

MarkSession(p, s, status) ==
  LET done == EndedAs(s, status) IN
  Mark(p, done, FailedBy(done), status = "success") /\ lock' = p /\ UNCHANGED session

Answered(right) ==
  IF right THEN [session EXCEPT !.right = @ + 1] ELSE [session EXCEPT !.wrong = @ + 1]

TooManyWrong(s) == s.wrong > MaxWrong

\* The next question is answered; any other number changes nothing.
ContinueQuizSession(p, right) ==
  /\ req[p].pc = "idle" /\ Unlocked
  /\ session.status = "active"
  /\ LET s == Answered(right) IN
       \/ /\ Expired(session, now)
          /\ MarkSession(p, session, "failed")
       \/ /\ ~ Expired(session, now) /\ TooManyWrong(s)
          /\ MarkSession(p, s, "failed")
       \/ /\ ~ Expired(session, now) /\ ~ TooManyWrong(s)
          /\ s.right + s.wrong = Questions
          /\ MarkSession(p, s, "success")
       \/ /\ ~ Expired(session, now) /\ ~ TooManyWrong(s)
          /\ s.right + s.wrong < Questions
          /\ session' = s
          /\ UNCHANGED <<req, lock>>
  /\ UNCHANGED <<now, failed, history, resets, user, rows, observed, faults>>

\* POST startOrContinueKYCStep4Session: 222 for the question and the option
\* starts a session.  A language without questions is refused before anything
\* else is done, and the start tried again in English.
StartOrContinueKYCStep4Session(p) ==
  FinishUnfinishedSession(p) \/ \E right \in BOOLEAN : ContinueQuizSession(p, right)

\* CheckUserKYC comes before SkipQuizSession's transaction.
BeginSkip(p) ==
  /\ ValidateKycStep
  /\ Begin(p, "skip")
  /\ UNCHANGED <<now, quiz, user, lock, rows, observed, faults>>

\* SELECT ... FOR UPDATE.  Without a session the skip is a failed attempt; one
\* that has failed is only dated; one that runs is failed.
SkipQuizSession(p) ==
  /\ req[p].pc = "skip" /\ Unlocked
  /\ \/ /\ session.status = "none"
        /\ rows < MaxRows /\ rows' = rows + 1
        /\ Mark(p, session, {Attempted(rows + 1)}, FALSE)
        /\ UNCHANGED lock
     \/ /\ session.status = "success"
        /\ Finished(p) /\ UNCHANGED <<lock, rows>>
     \/ /\ session.status = "failed"
        /\ req' = [req EXCEPT ![p].pc = "modify", ![p].then = "commit", ![p].session = session]
        /\ lock' = p /\ UNCHANGED rows
     \/ /\ session.status = "active"
        /\ MarkSession(p, session, "failed") /\ UNCHANGED rows
  /\ UNCHANGED <<now, quiz, user, observed, faults>>

Release(p) == lock' = IF lock = p THEN None ELSE lock

\* Of two transactions that recorded an attempt or a verdict at once, each has
\* read what the other writes: only the first to commit can, the other fails.
Commit(p) ==
  LET r == req[p] IN
  /\ r.pc = "commit" /\ ~ r.doomed
  /\ session' = IF lock = p THEN r.session ELSE session
  /\ failed' = (failed \cup r.added) \ r.moved
  /\ history' = history \cup AttemptIDs(r.moved)
  /\ resets' = IF r.moved = {} THEN resets ELSE resets + 1
  /\ req' = [q \in Procs |-> IF q = p THEN IdleReq ELSE
               [req[q] EXCEPT !.doomed = @ \/ (InTransaction(q) /\ (r.added # {} \/ r.success))]]
  /\ succeeded' = IF r.success THEN succeeded \cup {r.session.id} ELSE succeeded
  /\ Release(p)
  /\ UNCHANGED <<now, user, rows, starts, replaced, panicked, faults>>
-----------------------------------------------------------------------------
(* modifyUser: read the user, then users.ModifyUser.                       *)

\* Mutant of Passes: a failed session passes as well.
PassesAlways(r) == passed = QuizKYCStep - 1

\* Only a user who passed the step before gets this one.
Passes(r) == (r.success \/ r.blocked) /\ passed = QuizKYCStep - 1

ReadUser(p) ==
  /\ req[p].pc = "modify"
  /\ req' = [req EXCEPT ![p].pc = "update", ![p].old = updated,
                        ![p].target = IF Passes(req[p]) THEN QuizKYCStep ELSE 0]
  /\ UNCHANGED <<now, quiz, user, lock, rows, observed, faults>>

UpdateUser(p) ==
  /\ req[p].pc = "update"
  /\ passed' = Max({passed, req[p].target})
  /\ updated' = now
  /\ Goto(p, "notify")
  /\ UNCHANGED <<now, quiz, lock, rows, observed, faults>>

\* sendUserSnapshotMessage.  When it fails the request ends with an error, its
\* transaction is rolled back, and of the user only the date is restored.
Notify(p) ==
  /\ req[p].pc = "notify"
  /\ \/ /\ IF req[p].then = "idle" THEN Finished(p) ELSE Goto(p, req[p].then)
        /\ UNCHANGED <<updated, lock, faults>>
     \/ /\ Fault
        /\ updated' = IF req[p].old = 0 THEN updated ELSE req[p].old
        /\ Finished(p) /\ Release(p)
  /\ UNCHANGED <<now, quiz, passed, rows, observed>>

\* A statement or the commit fails, or the request is cut off.
Abort(p) ==
  /\ req[p].pc # "idle"
  /\ Fault
  /\ Finished(p) /\ Release(p)
  /\ UNCHANGED <<now, quiz, user, rows, observed>>

\* The step before is passed (kyc/social).
PassSocial1 ==
  /\ passed = 2 /\ passed' = 3
  /\ UNCHANGED <<now, quiz, updated, lock, req, rows, observed, faults>>

Tick ==
  /\ now <= MaxTime
  /\ \A p \in Procs : req[p].pc # "idle" => req[p].began = now
  /\ now' = now + 1
  /\ UNCHANGED <<quiz, user, lock, req, rows, observed, faults>>

Next ==
  \/ \E p \in Procs :
       \/ StartOrContinueKYCStep4Session(p) \/ CountFailed(p) \/ MoveFailed(p) \/ AppendReset(p)
       \/ IsQuizEnabledForUser(p) \/ CheckUserKYC(p)
       \/ StartNewSession(p) \/ StartFirst(p) \/ StartNext(p)
       \/ BeginSkip(p) \/ SkipQuizSession(p) \/ Commit(p)
       \/ ReadUser(p) \/ UpdateUser(p) \/ Notify(p) \/ Abort(p)
  \/ PassSocial1
  \/ Tick

Spec == Init /\ [][Next]_vars
-----------------------------------------------------------------------------
(* Correctness.                                                            *)

\* The user's step is only passed by a session that ended in success or by a
\* reset, on record or about to be; only an error between the users row and the
\* quiz tables leaves the step passed without either.
PassedIsEarned ==
  passed = QuizKYCStep =>
    \/ succeeded # {} \/ resets > 0
    \/ \E p \in Procs : req[p].pc \in {"notify", "commit"} /\ (req[p].success \/ req[p].blocked)
    \/ faults > 0

\* A session gets one verdict: the one that succeeded is not counted among the
\* failed ones, and a failed one is counted, before or after its attempts are
\* moved to the history, never in both.
VerdictOnce ==
  /\ AttemptIDs(failed) \cap history = {}
  /\ succeeded \cap (AttemptIDs(failed) \cup history) = {}
  /\ session.status = "failed" => session.id \in AttemptIDs(failed) \cup history

\* The quiz closes: no more sessions are started than the attempts of the
\* allowed resets, and each fault gives at most that many more.  A first start
\* locks nothing: each request served at the same time may start one more, and
\* the session it writes over gets no verdict.
StartsBounded ==
  Cardinality(starts) <= MaxAttempts * (MaxResets + 1 + faults) + Cardinality(Procs) - 1

\* A reset is paid for: each took MaxAttempts failed sessions of its own.  The
\* lock on the session's row is what makes it so.  Before the first session
\* there is no row to lock: a skip then may count towards two resets at once,
\* and so may a session that is started while another first start has written
\* over it and both are counted.
ResetsPaid ==
  history \subseteq starts /\ replaced = {} => Cardinality(history) >= MaxAttempts * resets

\* panic("unreachable: " + userID), at the end of startNewSession.
UnreachableNotReached == ~ panicked
=============================================================================
