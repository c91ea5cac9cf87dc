----------------------------- MODULE KYCSocial ------------------------------
(***************************************************************************)
(* The social steps of KYC (kyc/social/social.go): a user proves to own a  *)
(* social account by publishing a post, or skips the step.                 *)
(*                                                                         *)
(* A failed post costs one attempt; MaxAttempts of them within the session *)
(* window exhaust a session, and so does a skip.  The last allowed session *)
(* passes the step as "skipped", a verified post as "completed".  Requests *)
(* are goroutines: every SQL statement is one step, nothing is locked, and *)
(* no two statements share a transaction.                                  *)
(*                                                                         *)
(* One social network, on which two users may show the same account.       *)
(***************************************************************************)
EXTENDS Integers, FiniteSets, FiniteSetsExt

CONSTANTS
  Users, Procs, Handles, None,
  Steps,         \* KYC steps that can be skipped
  MaxSessions,   \* max-sessions-allowed
  MaxAttempts,   \* max-attempts-allowed, a uint8
  Window,        \* session-window, in ticks
  Delay,         \* delay-between-sessions, in ticks
  MaxTime, MaxFaults, MaxRows   \* bounds: clock, faults, rows when a post fails

ASSUME SocialAssumption ==
  /\ None \notin Handles \cup Users
  /\ IsFiniteSet(Procs)
  /\ Steps \subseteq 3..10
  /\ MaxSessions \in Nat \ {0}
  /\ MaxAttempts \in 1..255
  /\ {Window, Delay, MaxTime, MaxFaults, MaxRows} \subseteq Nat

VARIABLES
  now,        \* wall clock
  passed,     \* passed[u]: users.kyc_step_passed
  sessions,   \* sessions[u][s]: rows "skipped" or "exhausted_retries"
  latest,     \* latest[u][s]: the newest of them, 0: none
  attempts,   \* attempts[u][s][t]: rows of any reason of requests begun at t
  socials,    \* socials[h]: the user who has shown the account
  completed,  \* completed[u][s]: the account of the social_kyc_steps row
  req,        \* req[p]: the request p is serving
  faults,     \* faults so far
  conflict    \* conflict[u][s]: a post was answered ErrDuplicate; never read

vars == <<now, passed, sessions, latest, attempts, socials, completed, req, faults, conflict>>
tables == <<passed, sessions, latest, attempts, socials, completed>>

Times == 0..(MaxTime + 1)
UInt8 == 0..255
Social1KYCStep == 3
Social2KYCStep == 5
AllSupportedKYCSteps == {Social1KYCStep, Social2KYCStep} \cap Steps

PCs == {"idle", "skipped", "attempts", "verify", "fail", "session", "save",
        "complete", "modify", "update", "notify", "rollback"}

IdleReq == [pc |-> "idle", user |-> None, step |-> 0, skip |-> FALSE, now |-> 0,
            sessions |-> 0, remaining |-> 0, handle |-> None, target |-> 0, old |-> 0]

Req == [pc : PCs, user : Users \cup {None}, step : Steps \cup {0}, skip : BOOLEAN,
        now : Times, sessions : 0..(MaxSessions - 1), remaining : UInt8,
        handle : Handles \cup {None}, target : 0..10, old : 0..10]

TypeOK ==
  /\ now \in Times
  /\ passed \in [Users -> 0..10]
  /\ sessions \in [Users -> [Steps -> Nat]]
  /\ latest \in [Users -> [Steps -> Times]]
  /\ attempts \in [Users -> [Steps -> [Times -> Nat]]]
  /\ socials \in [Handles -> Users \cup {None}]
  /\ completed \in [Users -> [Steps -> Handles \cup {None}]]
  /\ req \in [Procs -> Req]
  /\ \A p \in Procs : req[p].pc # "idle" => req[p].user \in Users /\ req[p].step \in Steps
  /\ faults \in 0..MaxFaults
  /\ conflict \in [Users -> [Steps -> BOOLEAN]]

Init ==
  /\ now = 1 /\ faults = 0
  /\ passed = [u \in Users |-> 0]
  /\ sessions = [u \in Users |-> [s \in Steps |-> 0]]
  /\ latest = [u \in Users |-> [s \in Steps |-> 0]]
  /\ attempts = [u \in Users |-> [s \in Steps |-> [t \in Times |-> 0]]]
  /\ socials = [h \in Handles |-> None]
  /\ completed = [u \in Users |-> [s \in Steps |-> None]]
  /\ req = [p \in Procs |-> IdleReq]
  /\ conflict = [u \in Users |-> [s \in Steps |-> FALSE]]

Goto(p, pc) == req' = [req EXCEPT ![p].pc = pc]
Finished(p) == req' = [req EXCEPT ![p] = IdleReq]
Fault == faults < MaxFaults /\ faults' = faults + 1

\* A row of a table of steps, for the request p.
Mine(table, p) == table[req[p].user][req[p].step]

RowsBegun(rows, times) == MapThenSumSet(LAMBDA t : rows[t], times)
AddRow(p) == attempts' = [attempts EXCEPT ![req[p].user][req[p].step][req[p].now] = @ + 1]
-----------------------------------------------------------------------------
(* What may refuse a request.                                              *)

\* ErrDuplicate answers a post with a conflict; for a skip it is only logged.
Refuse(u, s, skip) == conflict' = [conflict EXCEPT ![u][s] = @ \/ ~ skip]

\* validateKycStep on the user that GetUserByID returned: a step is not done
\* twice, nor one before a step that was passed.
ValidateKycStep(p, u, s, skip) ==
  /\ req[p].pc = "idle"
  /\ skip \/ s \in AllSupportedKYCSteps
  /\ IF passed[u] >= s
     THEN Refuse(u, s, skip) /\ UNCHANGED req
     ELSE /\ req' = [req EXCEPT ![p] = [IdleReq EXCEPT
                !.pc = "skipped", !.user = u, !.step = s, !.skip = skip, !.now = now]]
          /\ UNCHANGED conflict
  /\ UNCHANGED <<now, tables, faults>>

\* Mutant of AllUsed: one session more.
AllUsedOverrun(p) == Mine(sessions, p) > MaxSessions

\* "Potential de-sync between social_kyc_unsuccessful_attempts and users".
AllUsed(p) == Mine(sessions, p) >= MaxSessions

\* verifySkipped: sessions too close, or all of them used up.
VerifySkipped(p) ==
  /\ req[p].pc = "skipped"
  /\ LET r == req[p]
         tooSoon == Mine(latest, p) # 0 /\ r.now - Mine(latest, p) < Delay
     IN  \/ tooSoon /\ Finished(p) /\ UNCHANGED conflict
         \/ /\ ~ tooSoon /\ AllUsed(p)
            /\ Finished(p)
            /\ Refuse(r.user, r.step, r.skip)
         \/ /\ ~ tooSoon /\ ~ AllUsed(p)
            /\ req' = [req EXCEPT ![p].sessions = Mine(sessions, p),
                         ![p].pc = IF r.skip THEN "session" ELSE "attempts"]
            /\ UNCHANGED conflict
  /\ UNCHANGED <<now, tables, faults>>

\* The query's "reason != ANY($3)" holds of every row: that a session ended
\* counts as one more failed post.
AttemptsCounted(p) ==
  RowsBegun(Mine(attempts, p), {t \in Times : t > req[p].now - Window})

\* remainingAttempts is a uint8 and is decremented once per row.
CountAttempts(p) ==
  /\ req[p].pc = "attempts"
  /\ \E remaining \in UInt8 :
       /\ remaining = (MaxAttempts - AttemptsCounted(p)) % 256
       /\ IF remaining < 1 THEN Finished(p)
          ELSE req' = [req EXCEPT ![p].pc = "verify", ![p].remaining = remaining]
  /\ UNCHANGED <<now, tables, faults, conflict>>
-----------------------------------------------------------------------------
(* The post is looked up, and its outcome is stored.                       *)

\* The scraper takes its time and finds the post of an account, or fails.
Verify(p) ==
  /\ req[p].pc = "verify"
  /\ \/ Goto(p, "fail")
     \/ \E h \in Handles : req' = [req EXCEPT ![p].pc = "save", ![p].handle = h]
  /\ UNCHANGED <<now, tables, faults, conflict>>

\* Mutant of OwnedBy: whoever shows the account gets it.
OwnedByAnyone(h, u) == TRUE

\* SaveSocial's second statement, when the account is taken.
OwnedBy(h, u) == socials[h] = u

\* SaveSocial: the primary key gives an account to the first who shows it.
SaveSocial(p) ==
  /\ req[p].pc = "save"
  /\ LET h == req[p].handle
         u == req[p].user
     IN  IF socials[h] = None
         THEN socials' = [socials EXCEPT ![h] = u] /\ Goto(p, "complete")
         ELSE /\ Goto(p, IF OwnedBy(h, u) THEN "complete" ELSE "fail")
              /\ UNCHANGED socials
  /\ UNCHANGED <<now, passed, sessions, latest, attempts, completed, faults, conflict>>

\* saveUnsuccessfulAttempt of a post, dated when its request began.  Only the
\* request that sees the last attempt go ends the session.
RecordFailure(p) ==
  /\ req[p].pc = "fail"
  /\ RowsBegun(Mine(attempts, p), Times) < MaxRows
  /\ AddRow(p)
  /\ IF req[p].remaining - 1 = 0 THEN Goto(p, "session") ELSE Finished(p)
  /\ UNCHANGED <<now, passed, sessions, latest, socials, completed, faults, conflict>>

\* Mutant of LastSession: one session too few.
LastSessionEarly(p) == req[p].sessions + 2 >= MaxSessions

\* skippedCount+1 == MaxSessionsAllowed, on the count read at the beginning.
LastSession(p) == req[p].sessions + 1 = MaxSessions

\* saveUnsuccessfulAttempt "skipped" or "exhausted_retries"; the last session
\* passes the step, the others only date it.
RecordSession(p) ==
  /\ req[p].pc = "session"
  /\ LET u == req[p].user
         s == req[p].step
     IN  /\ sessions' = [sessions EXCEPT ![u][s] = @ + 1]
         /\ latest' = [latest EXCEPT ![u][s] = Max({@, req[p].now})]
         /\ AddRow(p)
         /\ req' = [req EXCEPT ![p].pc = "modify",
                               ![p].target = IF LastSession(p) THEN s ELSE 0]
  /\ UNCHANGED <<now, passed, socials, completed, faults, conflict>>

\* "Social2KYCStep is a failed/skipped Social 2 outcome, Social3KYCStep is a
\* completed Social 2 outcome"; the same for Social 1.
Completed(s) == IF s \in {Social1KYCStep, Social2KYCStep} THEN s + 1 ELSE s

\* saveSocialKYCStep; a second row of the same step is refused, and with it
\* the request.
SaveSocialKYCStep(p) ==
  /\ req[p].pc = "complete"
  /\ IF Mine(completed, p) # None
     THEN Finished(p) /\ UNCHANGED completed
     ELSE /\ completed' = [completed EXCEPT ![req[p].user][req[p].step] = req[p].handle]
          /\ req' = [req EXCEPT ![p].pc = "modify", ![p].target = Completed(req[p].step)]
  /\ UNCHANGED <<now, passed, sessions, latest, attempts, socials, faults, conflict>>
-----------------------------------------------------------------------------
(* modifyUser, that is users.ModifyUser: read the user, update it, tell    *)
(* the other services, and take the update back when that fails.           *)

ReadUser(p) ==
  /\ req[p].pc = "modify"
  /\ req' = [req EXCEPT ![p].pc = "update", ![p].old = passed[req[p].user]]
  /\ UNCHANGED <<now, tables, faults, conflict>>

\* Mutant of Raised: the new value is assigned.
Assigned(old, new) == new

\* genSQLUpdate: CASE WHEN $n = 0 THEN 0 ELSE GREATEST($n, KYC_STEP_PASSED) END
Raised(old, new) == IF new = 0 THEN 0 ELSE Max({new, old})

\* A session that is not the last one leaves kyc_step_passed out.
UpdateUser(p) ==
  /\ req[p].pc = "update"
  /\ LET u == req[p].user
         new == req[p].target
     IN  passed' = IF new = 0 THEN passed ELSE [passed EXCEPT ![u] = Raised(@, new)]
  /\ Goto(p, "notify")
  /\ UNCHANGED <<now, sessions, latest, attempts, socials, completed, faults, conflict>>

\* sendUserSnapshotMessage.
Notify(p) ==
  /\ req[p].pc = "notify"
  /\ \/ Finished(p) /\ UNCHANGED faults
     \/ Fault /\ Goto(p, "rollback")
  /\ UNCHANGED <<now, tables, conflict>>

\* The old row is written back through genSQLUpdate: a zero erases what others
\* have written meanwhile, anything else keeps the update.
RollBackUser(p) ==
  /\ req[p].pc = "rollback"
  /\ passed' = [passed EXCEPT ![req[p].user] = Raised(@, req[p].old)]
  /\ Finished(p)
  /\ UNCHANGED <<now, sessions, latest, attempts, socials, completed, faults, conflict>>

\* A statement fails or the request is cut off; what was written stays.
Abort(p) ==
  /\ req[p].pc # "idle"
  /\ Fault
  /\ Finished(p)
  /\ UNCHANGED <<now, tables, conflict>>

Tick ==
  /\ now <= MaxTime
  /\ now' = now + 1
  /\ UNCHANGED <<tables, req, faults, conflict>>

Next ==
  \/ \E p \in Procs :
       \/ \E u \in Users, s \in Steps, skip \in BOOLEAN : ValidateKycStep(p, u, s, skip)
       \/ VerifySkipped(p) \/ CountAttempts(p)
       \/ Verify(p) \/ SaveSocial(p)
       \/ RecordFailure(p) \/ RecordSession(p) \/ SaveSocialKYCStep(p)
       \/ ReadUser(p) \/ UpdateUser(p) \/ Notify(p) \/ RollBackUser(p)
       \/ Abort(p)
  \/ Tick

Spec == Init /\ [][Next]_vars
-----------------------------------------------------------------------------
(* Correctness.                                                            *)

\* What entitles user u to have passed step v: the step's last session was
\* used up, or a post was verified whose outcome it is.
Earned(u, v) ==
  \E s \in Steps :
    \/ v = s /\ sessions[u][s] >= MaxSessions
    \/ v = Completed(s) /\ completed[u][s] # None

\* A user has only passed what the attempts and the verified posts on record
\* entitle to, whatever requests ran at once, were cut off or rolled back.
PassedIsEarned == \A u \in Users : passed[u] # 0 => Earned(u, passed[u])

\* A step is completed with an account that belongs to the user alone, even
\* when two users show it at once.
HandleOwned ==
  \A u \in Users, s \in Steps :
    completed[u][s] # None => socials[completed[u][s]] = u

\* Requests that run at once use up at most one session more each.
SessionsBounded ==
  \A u \in Users, s \in Steps :
    sessions[u][s] <= MaxSessions + Cardinality(Procs) - 1

\* As long as no message to the other services fails, what a user has passed
\* is never lowered: a skip that is late does not undo a completed step.
PassedNeverLowered ==
  [][faults' = 0 => \A u \in Users : passed'[u] >= passed[u]]_vars

Quiet(u) == \A p \in Procs : req[p].user # u

\* A client told SOCIAL_KYC_STEP_ALREADY_COMPLETED_SUCCESSFULLY has passed the
\* step, once the user's other requests are over.
ConflictMeansPassed ==
  \A u \in Users, s \in Steps : conflict[u][s] /\ Quiet(u) => passed[u] >= s
=============================================================================
