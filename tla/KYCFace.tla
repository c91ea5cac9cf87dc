------------------------------- MODULE KYCFace -------------------------------
(***************************************************************************)
(* The face steps of KYC for one user: the client of the provider          *)
(* (kyc/face/face.go, kyc/face/internal/threedivi), and the requests to    *)
(* reset steps (users/kyc.go) served by tryResetKYCSteps and               *)
(* checkFaceKYCStatus (cmd/eskimo-hut/kyc.go).                             *)
(*                                                                         *)
(* The provider keeps the applicant; the row of the user keeps a copy of   *)
(* its verdict, which any request computes from the user it loaded and the *)
(* applicant it found, and then writes.  Nothing orders the requests.      *)
(*                                                                         *)
(* Of the row: the last step passed, whether it is blocked, whether it has *)
(* dates of steps, whether the date of step 2 is set.  Not modelled: the   *)
(* id of the face, and the mark on the linked accounts.                    *)
(***************************************************************************)
EXTENDS Integers, FiniteSets

CONSTANTS
  Procs,             \* requests served at once
  Forwarders,        \* those of them that may be checkFaceKYCStatus
  None,
  ConcurrentUsers,   \* users the provider takes at once
  ErrorsAllowed,     \* UnexpectedErrorsAllowed
  Nexts,             \* the steps clients say they are about to do, or 0
  Results,           \* steps the other provider may have dated at first
  MaxEvents          \* bound: results, faces begun, resets requested, faults

FacialRecognition == 1
LivenessDetection == 2
Social1 == 3
FaceSteps == {FacialRecognition, LivenessDetection}

ASSUME FaceAssumption ==
  /\ IsFiniteSet(Procs) /\ Forwarders \subseteq Procs
  /\ {ConcurrentUsers, ErrorsAllowed} \subseteq Nat \ {0}
  /\ MaxEvents \in Nat
  /\ Nexts \subseteq {0} \cup FaceSteps
  /\ Results \subseteq {0} \cup FaceSteps

VARIABLES
  applicant,     \* the applicant the provider has for the user
  row,           \* the row of the user
  forwarded,     \* whether users_forwarded_to_face_kyc has the user
  request,       \* kyc_steps_to_reset; {} stands for no row
  loadBalanced, unexpectedErrors,   \* of the one server
  req,           \* req[p]: the request p is serving
  events,        \* so far
  due            \* a reset was requested and did not begin; never read

vars == <<applicant, row, forwarded, request, loadBalanced,
          unexpectedErrors, req, events, due>>

RequestedSteps == {{FacialRecognition}, {LivenessDetection}, {FacialRecognition, Social1}}

Absent == [id |-> 0, status |-> "absent"]
Applicant == [id : 0..MaxEvents, status : {"absent", "open", "passed", "risk"}]

NewUser == [passed |-> 0, blocked |-> FALSE, dates |-> FALSE, live |-> FALSE]
User == [passed : 0..Social1, blocked : BOOLEAN, dates : BOOLEAN, live : BOOLEAN]

\* What is written to the row, None where a column is left alone.
NoUpdate == [passed |-> None, live |-> None, blocked |-> FALSE]
Update == [passed : {None, 0, LivenessDetection}, live : BOOLEAN \cup {None},
           blocked : BOOLEAN]

Idle == [pc |-> "idle", op |-> "none", next |-> 0, usr |-> NewUser, found |-> 0,
         upd |-> NoUpdate, old |-> NewUser, known |-> FALSE]
Req == [pc : {"idle", "load", "find", "erase", "remove", "clear", "sync", "search", "read",
              "update", "send", "rollback", "save", "known", "gate", "add", "admit"},
        op : {"none", "reset", "check", "forward"},
        next : {0} \cup Nexts, usr : User, found : 0..MaxEvents,
        upd : Update, old : User, known : BOOLEAN]

IsVerified(u) == u.passed >= LivenessDetection /\ u.live
HasFaceKYCResult(u) == u.passed >= LivenessDetection \/ u.blocked

\* The counter is checked and then incremented, by as many requests as there
\* are: each can take one place that is gone.
TypeOK ==
  /\ applicant \in Applicant
  /\ row \in User
  /\ row.live => row.dates
  /\ forwarded \in BOOLEAN
  /\ request = {} \/ request \in RequestedSteps \cup {{Social1}}
  /\ loadBalanced \in 0..(ConcurrentUsers + Cardinality(Procs) - 1)
  /\ unexpectedErrors \in 0..MaxEvents
  /\ req \in [Procs -> Req]
  /\ \A p \in Procs : req[p].pc # "idle" => req[p].op # "none"
  /\ applicant.status # "absent" => forwarded
  /\ events \in 0..MaxEvents
  /\ due \in BOOLEAN
-----------------------------------------------------------------------------
(* The verdict and how it is written.                                      *)

\* parseApplicant: the update of user u for what the provider has of it.
parseApplicant(u, a) ==
  [passed |-> IF a.status = "passed"
              THEN IF ~ u.dates \/ u.passed = 0 THEN LivenessDetection ELSE None
              ELSE IF u.dates /\ u.passed \in FaceSteps THEN 0 ELSE None,
   live |-> IF a.status = "passed" THEN TRUE
            ELSE IF u.dates THEN FALSE ELSE None,
   blocked |-> a.status = "risk"]

HasResult(w) == w.passed = LivenessDetection \/ w.blocked

\* KYC_STEP_PASSED: 0 is written, anything else only raises it.
Raised(old, new) == IF new = 0 THEN 0 ELSE IF new > old THEN new ELSE old

\* genSQLUpdate
Updated(r, w) ==
  [passed |-> IF w.passed = None THEN r.passed ELSE Raised(r.passed, w.passed),
   blocked |-> w.blocked,
   dates |-> r.dates \/ w.live # None,
   live |-> IF w.live = None THEN r.live ELSE w.live]

\* The rollback writes the columns of the old row; dates that were NULL are
\* not written.
RolledBack(r, old) ==
  Updated(r, [passed |-> old.passed, blocked |-> old.blocked,
              live |-> IF old.dates THEN old.live ELSE None])

\* POST processFaceRecognitionResult: another provider dated n steps.
ProcessFaceRecognitionResult(r, n, disabled) ==
  [passed |-> Raised(r.passed, n), blocked |-> disabled,
   dates |-> n > 0, live |-> n >= LivenessDetection]

Synced == Updated(NewUser, parseApplicant(NewUser, [id |-> 0, status |-> "passed"]))

\* A user who is new, was judged by the other provider, or by this one.
Init ==
  /\ \/ row = NewUser /\ applicant = Absent /\ forwarded = FALSE
     \/ \E n \in Results, disabled \in BOOLEAN :
          /\ row = ProcessFaceRecognitionResult(NewUser, n, disabled)
          /\ applicant = Absent /\ forwarded = FALSE
     \/ row = Synced /\ applicant = [id |-> 0, status |-> "passed"] /\ forwarded = TRUE
  /\ request = {}
  /\ loadBalanced = 0 /\ unexpectedErrors = 0
  /\ req = [p \in Procs |-> Idle]
  /\ events = 0
  /\ due = FALSE
-----------------------------------------------------------------------------
(* Requests.                                                               *)

\* One more of what is bounded.
Happens == events < MaxEvents /\ events' = events + 1

Move(p, pc) == req' = [req EXCEPT ![p].pc = pc]
Finish(p) == req' = [req EXCEPT ![p] = Idle]

\* POST tryResetKYCSteps: a user, or an admin, wants the state of the user,
\* about to do step next.
StartTryResetKYCSteps(p, next) ==
  /\ req[p].pc = "idle"
  /\ req' = [req EXCEPT ![p] = [Idle EXCEPT !.pc = "load", !.op = "reset", !.next = next]]
  /\ UNCHANGED <<applicant, row, forwarded, request, loadBalanced, unexpectedErrors, events, due>>

\* POST checkFaceKYCStatus
StartForwardToFaceKYC(p) ==
  /\ req[p].pc = "idle"
  /\ req' = [req EXCEPT ![p] = [Idle EXCEPT !.pc = "load", !.op = "forward"]]
  /\ UNCHANGED <<applicant, row, forwarded, request, loadBalanced, unexpectedErrors, events, due>>

\* resetKYCSteps: both face steps are reset by one call.
HasFacePipelineForOne(steps) == FacialRecognition \in steps

HasFacePipeline(steps) == steps \cap FaceSteps # {}

\* The user and the request to reset are read by one statement.
Load(p) ==
  LET q == [req[p] EXCEPT !.usr = row]
      pc == IF q.op = "forward" THEN IF HasFaceKYCResult(row) THEN "idle" ELSE "search"
            ELSE IF HasFacePipeline(request) THEN "find"
            ELSE IF request # {} THEN "clear"
            ELSE IF q.next \in FaceSteps THEN "sync"
            ELSE "idle" IN
  /\ req[p].pc = "load"
  /\ req' = [req EXCEPT ![p] =
       IF pc = "idle" THEN Idle
       ELSE IF pc = "clear" THEN [req[p] EXCEPT !.pc = pc]
       ELSE [q EXCEPT !.pc = pc, !.op = IF pc = "sync" THEN "check" ELSE @]]
  /\ UNCHANGED <<applicant, row, forwarded, request, loadBalanced, unexpectedErrors, events, due>>

\* Reset: an applicant the provider does not know needs no reset.
FindApplicant(p) ==
  /\ req[p].pc = "find"
  /\ IF applicant.status = "absent"
     THEN req' = [req EXCEPT ![p].pc = "remove", ![p].usr = NewUser] /\ due' = FALSE
     ELSE req' = [req EXCEPT ![p].pc = "erase", ![p].found = applicant.id] /\ UNCHANGED due
  /\ UNCHANGED <<applicant, row, forwarded, request, loadBalanced, unexpectedErrors, events>>

\* What the provider answers for one that is gone is its own affair.
EraseApplicant(p) ==
  /\ req[p].pc = "erase"
  /\ IF applicant.id = req[p].found /\ applicant.status # "absent"
     THEN /\ applicant' = [applicant EXCEPT !.status = "absent"]
          /\ due' = FALSE
          /\ req' = [req EXCEPT ![p].pc = "search", ![p].found = 0]
     ELSE /\ \/ req' = [req EXCEPT ![p].pc = "search", ![p].found = 0]
             \/ Finish(p)
          /\ UNCHANGED <<applicant, due>>
  /\ UNCHANGED <<row, forwarded, request, loadBalanced, unexpectedErrors, events>>

\* CheckAndUpdateStatus asks the provider,
SearchApplicant(p) ==
  /\ req[p].pc = "search"
  /\ req' = [req EXCEPT ![p].pc = "read", ![p].usr = NewUser,
                          ![p].upd = parseApplicant(req[p].usr, applicant)]
  /\ UNCHANGED <<applicant, row, forwarded, request, loadBalanced, unexpectedErrors, events, due>>

\* ModifyUser reads the row to be able to roll it back,
ReadUser(p) ==
  /\ req[p].pc = "read"
  /\ req' = [req EXCEPT ![p].pc = "update", ![p].old = row]
  /\ UNCHANGED <<applicant, row, forwarded, request, loadBalanced, unexpectedErrors, events, due>>

\* writes the verdict,
UpdateUser(p) ==
  /\ req[p].pc = "update"
  /\ row' = Updated(row, req[p].upd)
  /\ Move(p, "send")
  /\ UNCHANGED <<applicant, forwarded, request, loadBalanced, unexpectedErrors, events, due>>

\* and sends the snapshot.  A result is saved; one that the row had before
\* counts as none.
SendSnapshot(p) ==
  /\ req[p].pc = "send"
  /\ req' = [req EXCEPT ![p] =
       [Idle EXCEPT !.op = req[p].op, !.next = req[p].next, !.known = req[p].known,
                    !.pc = IF req[p].op = "reset" THEN "remove"
                           ELSE IF HasResult(req[p].upd) THEN "save"
                           ELSE IF req[p].op = "check" THEN "gate"
                           ELSE "known"]]
  /\ UNCHANGED <<applicant, row, forwarded, request, loadBalanced, unexpectedErrors, events, due>>

SendFails(p) ==
  /\ req[p].pc = "send" /\ Happens
  /\ Move(p, "rollback")
  /\ UNCHANGED <<applicant, row, forwarded, request, loadBalanced, unexpectedErrors, due>>

\* CheckStatus counts what fails while it syncs.
ErrorsAfter(p) ==
  unexpectedErrors + (IF req[p].op = "check" /\ req[p].pc \in {"search", "read", "update", "rollback"}
                      THEN 1 ELSE 0)

RollBackUser(p) ==
  /\ req[p].pc = "rollback"
  /\ row' = RolledBack(row, req[p].old)
  /\ unexpectedErrors' = ErrorsAfter(p)
  /\ Finish(p)
  /\ UNCHANGED <<applicant, forwarded, request, loadBalanced, events, due>>

\* resetKYCStep removes step 1, whichever was requested.  The CHECK of the
\* table refuses an array left empty; the statement then answers no rows, as
\* without a row, and is taken for that: the reset fails and the row stays.
RemoveStep(p) ==
  LET left == request \ {FacialRecognition} IN
  /\ req[p].pc = "remove"
  /\ IF left = {} THEN Finish(p) /\ UNCHANGED request
     ELSE Move(p, "clear") /\ request' = left
  /\ UNCHANGED <<applicant, row, forwarded, loadBalanced, unexpectedErrors, events, due>>

\* resetKYCSteps deletes the row, whatever it holds by now;
\* TryResetKYCSteps then starts again.
ClearedNothing == request

Cleared == {}

ClearRequest(p) ==
  /\ req[p].pc = "clear"
  /\ request' = Cleared
  /\ Move(p, "load")
  /\ UNCHANGED <<applicant, row, forwarded, loadBalanced, unexpectedErrors, events, due>>

\* CheckStatus: only who was forwarded before is looked up.
NeedsSyncNoResult(u) == forwarded /\ ~ HasFaceKYCResult(u)

NeedsSync(u) == forwarded

CheckForwarded(p) ==
  /\ req[p].pc = "sync"
  /\ IF unexpectedErrors >= ErrorsAllowed THEN Finish(p)
     ELSE req' = [req EXCEPT ![p].known = forwarded,
                             ![p].pc = IF NeedsSync(req[p].usr) THEN "search" ELSE "gate",
                             ![p].usr = IF NeedsSync(req[p].usr) THEN @ ELSE NewUser]
  /\ UNCHANGED <<applicant, row, forwarded, request, loadBalanced, unexpectedErrors, events, due>>

\* SetTenantVerified and saveFaceID
SaveFaceID(p) ==
  /\ req[p].pc = "save"
  /\ forwarded' = TRUE
  /\ IF req[p].op = "check" /\ req[p].next = LivenessDetection THEN Move(p, "gate") ELSE Finish(p)
  /\ UNCHANGED <<applicant, row, request, loadBalanced, unexpectedErrors, events, due>>

\* ForwardToKYC: checkIfUserWasForwardedToFaceKYC
ReadForwarded(p) ==
  /\ req[p].pc = "known"
  /\ req' = [req EXCEPT ![p].known = forwarded, ![p].pc = "gate"]
  /\ UNCHANGED <<applicant, row, forwarded, request, loadBalanced, unexpectedErrors, events, due>>

connsPerUser == 2

\* activeUsers, of the connections that the provider's metrics count.
activeUsers(conns) == conns \div connsPerUser

\* updateAvailability, every 100 ms: what the count may be.  While the provider
\* does not answer, it stays what it was.
updateAvailability == {activeUsers(conns) : conns \in 0..(connsPerUser * ConcurrentUsers)}

HasPlaceForOneMore(active) == ConcurrentUsers - (active + loadBalanced) >= 0

HasPlace(active) == ConcurrentUsers - (active + loadBalanced) >= 1

\* isAvailable: the users connected to the provider, as they were counted last,
\* and those sent there are read,
CheckAvailable(p, active) ==
  /\ req[p].pc = "gate"
  /\ IF HasPlace(active) THEN Move(p, IF req[p].known THEN "admit" ELSE "add")
     ELSE IF req[p].op = "forward" /\ req[p].known THEN Move(p, "admit")
     ELSE Finish(p)
  /\ UNCHANGED <<applicant, row, forwarded, request, loadBalanced, unexpectedErrors, events, due>>

\* and then these are incremented.
TakePlace(p) ==
  /\ req[p].pc = "add"
  /\ loadBalanced' = loadBalanced + 1
  /\ Move(p, "admit")
  /\ UNCHANGED <<applicant, row, forwarded, request, unexpectedErrors, events, due>>

\* saveUserForwarded; the client is told to begin.
SaveForwarded(p) ==
  /\ req[p].pc = "admit"
  /\ forwarded' = TRUE
  /\ Finish(p)
  /\ UNCHANGED <<applicant, row, request, loadBalanced, unexpectedErrors, events, due>>

\* An error of the provider or the database, a deadline, a lost client.
Fail(p) ==
  /\ req[p].pc # "idle" /\ Happens
  /\ unexpectedErrors' = ErrorsAfter(p)
  /\ Finish(p)
  /\ UNCHANGED <<applicant, row, forwarded, request, loadBalanced, due>>
-----------------------------------------------------------------------------
(* The server's tickers, the provider and everybody else.                  *)

clearErrs ==
  /\ unexpectedErrors > 0
  /\ unexpectedErrors' = 0
  /\ UNCHANGED <<applicant, row, forwarded, request, loadBalanced, req, events, due>>

clearUsers ==
  /\ loadBalanced > 0
  /\ loadBalanced' = 0
  /\ UNCHANGED <<applicant, row, forwarded, request, unexpectedErrors, req, events, due>>

\* The user does what the provider asks, and is judged.
BeginFace ==
  /\ forwarded /\ applicant.status = "absent" /\ Happens
  /\ applicant' = [id |-> applicant.id + 1, status |-> "open"]
  /\ UNCHANGED <<row, forwarded, request, loadBalanced, unexpectedErrors, req, due>>

JudgeFace ==
  /\ applicant.status = "open"
  /\ \E status \in {"passed", "risk"} : applicant' = [applicant EXCEPT !.status = status]
  /\ UNCHANGED <<row, forwarded, request, loadBalanced, unexpectedErrors, req, events, due>>

\* Somebody asks for steps to be reset.
RequestReset(steps) ==
  /\ Happens
  /\ request' = steps
  /\ due' = \/ due
            \/ steps \cap FaceSteps # {}
               /\ \A p \in Procs : req[p].op = "reset" => req[p].pc = "load"
  /\ UNCHANGED <<applicant, row, forwarded, loadBalanced, unexpectedErrors, req>>

\* The user passes the next step, the first social one.
PassSocial ==
  /\ IsVerified(row) /\ row.passed = LivenessDetection
  /\ row' = [row EXCEPT !.passed = Social1]
  /\ UNCHANGED <<applicant, forwarded, request, loadBalanced, unexpectedErrors, req, events, due>>

Step(p) ==
  \/ Load(p) \/ FindApplicant(p) \/ EraseApplicant(p) \/ SearchApplicant(p)
  \/ ReadUser(p) \/ UpdateUser(p) \/ SendSnapshot(p) \/ RollBackUser(p)
  \/ RemoveStep(p) \/ ClearRequest(p) \/ CheckForwarded(p) \/ SaveFaceID(p)
  \/ ReadForwarded(p) \/ TakePlace(p) \/ SaveForwarded(p)
  \/ \E active \in updateAvailability : CheckAvailable(p, active)

Next ==
  \/ \E p \in Procs : Step(p) \/ SendFails(p) \/ Fail(p)
  \/ \E p \in Procs, next \in Nexts : StartTryResetKYCSteps(p, next)
  \/ \E p \in Forwarders : StartForwardToFaceKYC(p)
  \/ clearErrs \/ clearUsers
  \/ BeginFace \/ JudgeFace \/ PassSocial
  \/ \E steps \in RequestedSteps : RequestReset(steps)

Spec == Init /\ [][Next]_vars

\* Requests are served and the ticker of the errors ticks; users, admins,
\* provider and faults do what they like.
FairSpec ==
  /\ Spec
  /\ \A p \in Procs : WF_vars(Step(p))
  /\ WF_vars(clearErrs)
-----------------------------------------------------------------------------
\* A request to reset a face step does not disappear before the applicant
\* was erased, or was seen to be none, after the request was made: whatever
\* else is requested, fails or is reset at the same time.  Excused are
\* requests made while a reset was running, which deletes them.  (That a
\* request disappears at all is not promised: see NeverDeleted.)
RequestHonoured == [][request # {} /\ request' = {} => ~ due]_vars

\* A request for step 1 alone fails at the CHECK each time it is served: it is
\* never deleted, and the next one who asks resets again.
NeverDeleted == request = {FacialRecognition}

\* A user who keeps asking for the state before a face step ends up with
\* the verdict of the provider, whatever races, rollbacks, resets that
\* failed half-way, and results of the other provider came before; except
\* when that one left the row at step 1, which no verdict raises, and while
\* there is a request that is never deleted.
Asks == \E p \in Procs, next \in Nexts \ {0} : StartTryResetKYCSteps(p, next)
Agrees == forwarded /\ row.passed # FacialRecognition =>
            (IsVerified(row) <=> applicant.status = "passed")

VerdictArrives == []<><<Asks>>_vars => <>[](Agrees \/ NeverDeleted)

\* No call is served for ever: TryResetKYCSteps calls itself until there is no
\* request left, and each time it has deleted one or it fails, though what it
\* could not delete is there for the next call.
RequestsEnd == \A p \in Procs : []<>(req[p].pc = "idle")
=============================================================================
