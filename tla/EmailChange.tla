---------------------------- MODULE EmailChange -----------------------------
(***************************************************************************)
(* Changing the email address of an account (auth/email_link, called by    *)
(* the handlers of cmd/eskimo-hut): a saga over the users row, Firebase,   *)
(* the sign-in rows and the mails, each step of which undoes the earlier   *)
(* ones when it fails.  Around it, what shares its state: logins, which    *)
(* are counted per client IP, and the Metadata endpoint, which writes the  *)
(* user's address to Firebase and merges account_metadata.                 *)
(*                                                                         *)
(* One account, one device, one client IP within one login session number, *)
(* login without the queue.  A sign-in is a goroutine; each statement and  *)
(* each call is a step.  Wrong codes and blocking are those of EmailSignIn *)
(* and users.ModifyUser is one step: it is UserLifecycle's.                *)
(***************************************************************************)
EXTENDS Integers, FiniteSets

CONSTANTS
  Procs,
  Original, New,      \* the address of an email account; others it may change to
  OwnId, Marker,      \* a Telegram account has its id for an address, and
                      \* changes it from TelegramUserSettingUpEmailPrefix...
  Nothing,            \* the empty string
  Registrable,        \* addresses that somebody else may register
  MaxAttempts,        \* the CHECK on sign_ins_per_ip.login_attempts
  MaxRequests, MaxFailures

Addresses == New \cup {Original}
Keys == {"iceId", "firebaseId", "registeredWith"}

\* The login session: the address the code goes to and the one it is to replace.
Session == [to : Addresses, from : Addresses \cup {Marker, Nothing},
            notify : BOOLEAN, ip : BOOLEAN]

ASSUME AddressAssumption ==
  /\ OwnId # Marker /\ Nothing \notin {OwnId, Marker} \cup Session
  /\ {OwnId, Marker, Nothing} \cap Addresses = {}
  /\ Original \notin New /\ Registrable \subseteq Addresses
ASSUME LimitsAssumption ==
  /\ MaxAttempts \in Nat \ {0} /\ {MaxRequests, MaxFailures} \subseteq Nat
  /\ IsFiniteSet(Procs)

VARIABLES
  email,        \* users.email
  firebase,     \* the address of the Firebase account, Nothing: none
  metadata,     \* keys of account_metadata
  taken,        \* addresses of other users
  rows,         \* rows[a]: email_link_sign_ins; a code of 0: no row
  attempts,     \* sign_ins_per_ip.login_attempts
  codes,        \* how many codes were generated; a code is its number
  delivered,    \* codes that reached an address
  sessions,     \* the login flow tokens that reached a client
  claim,        \* the address in the client's access token
  call,         \* call[p]: the request of p
  started, failures,
  \* What an observer keeps; no guard reads these.
  confirmed,    \* the last change that was confirmed: to which address, and from which
  doubled,      \* a change was made that was already there, by a second sign-in for it
  mixed,        \* two wrote different addresses, or a change overlapped with a repair,
                \* or was made from an address that the user no longer had, or
                \* the call to Firebase failed for one of two
  blind,        \* a change was made that did not know of the Firebase account
  open, late    \* codes mailed to an IP and not redeemed; logins finished twice

service == <<email, firebase, metadata, taken, rows, attempts, codes, delivered, sessions>>
observed == <<confirmed, doubled, mixed, blind, open, late>>
changeVars == <<service, claim, call, started, failures, observed>>

NoRow == [code |-> 0, used |-> FALSE, mine |-> FALSE, seq |-> 0]
Row == [code : Nat, used : BOOLEAN, mine : BOOLEAN, seq : Nat]
IdleReq == [pc |-> "idle", of |-> Nothing, code |-> 0, seq |-> 0,
            md |-> {}, data |-> {}, found |-> FALSE, actual |-> Nothing]
PCs == {"idle", "attempt", "upsert", "mail", "rollback", "read", "modify", "firebase",
        "note", "notice", "finish", "undo", "undo_firebase", "reset",
        "repair", "md_read", "md_write"}
Call == [pc : PCs, of : Session \cup {Nothing}, code : Nat, seq : Nat,
         md : SUBSET Keys, data : SUBSET Keys, found : BOOLEAN,
         actual : Addresses \cup {Nothing} \cup Nat]

ChangeTypeOK ==
  /\ email \in Addresses \cup {OwnId, Marker}
  /\ firebase \in Addresses \cup {Nothing}
  /\ metadata \subseteq Keys /\ taken \subseteq Registrable
  /\ rows \in [Addresses -> Row]
  /\ attempts \in 0..MaxAttempts
  /\ codes \in Nat /\ delivered \subseteq Addresses \X (1..codes)
  /\ sessions \subseteq Session
  /\ claim \in Addresses \cup {Marker}
  /\ call \in [Procs -> Call]
  /\ started \in 0..MaxRequests /\ failures \in 0..MaxFailures
  /\ open \subseteq 1..codes /\ late \in Nat
  /\ confirmed \in [now : Addresses \cup {OwnId, Marker},
                    before : Addresses \cup {OwnId, Marker}]
  /\ {doubled, mixed, blind} \subseteq BOOLEAN

ChangeInit ==
  /\ email \in {Original, OwnId}
  /\ claim = IF email = OwnId THEN Marker ELSE Original
  /\ firebase = IF email = OwnId THEN Nothing ELSE Original
  /\ metadata \in IF email = OwnId THEN {{}} ELSE {{}, {"firebaseId"}}
  /\ taken = {} /\ rows = [a \in Addresses |-> NoRow]
  /\ attempts = 0 /\ codes = 0 /\ delivered = {} /\ sessions = {}
  /\ call = [p \in Procs |-> IdleReq]
  /\ started = 0 /\ failures = 0
  /\ confirmed = [now |-> email, before |-> email]
  /\ doubled = FALSE /\ mixed = FALSE /\ blind = FALSE /\ open = {} /\ late = 0

Telegram == claim = Marker
To(p) == call[p].of.to
From(p) == call[p].of.from
Goto(p, pc) == call' = [call EXCEPT ![p].pc = pc]
Finished(p) == call' = [call EXCEPT ![p] = IdleReq]
Failure == failures < MaxFailures /\ failures' = failures + 1
Start(p, q) ==
  /\ call[p].pc = "idle" /\ call' = [call EXCEPT ![p] = q]
  /\ started < MaxRequests /\ started' = started + 1

\* What p is about to write, to one of both places and then to the other; a
\* login writes none, a repair what was read of the row at a moment of its own.
Writes(p) ==
  CASE call[p].pc \in {"firebase", "note", "notice", "finish"} ->
         IF From(p) = Nothing THEN {} ELSE {To(p)}
    [] call[p].pc \in {"undo", "undo_firebase"} -> {From(p)}
    [] call[p].pc = "repair" -> {Nothing}
    [] OTHER -> {}
Changing(p) == Writes(p) # {}
Others(p) == {q \in Procs \ {p} : Changing(q)}

\* p goes on to write address a, while another goes on with something else.
Clash(p, a) == \E q \in Others(p) : Writes(q) # {a} \/ call[q].of # call[p].of
Observe(p, a) == mixed' = (mixed \/ Clash(p, a))
-----------------------------------------------------------------------------
(* SendSignInLinkToEmail, for a login or for a change of the address.      *)

StartLogin(p, a) ==
  /\ Start(p, [IdleReq EXCEPT !.pc = "attempt",
       !.of = [to |-> a, from |-> Nothing, notify |-> FALSE, ip |-> TRUE]])
  /\ UNCHANGED <<service, claim, failures, observed>>

\* emailUpdateRequested, validateEmailModification: nobody has the address yet.
StartChange(p, a) ==
  /\ a \notin {claim, email} \cup taken
  /\ Start(p, [IdleReq EXCEPT !.pc = "upsert",
       !.of = [to |-> a, from |-> claim, notify |-> ~ Telegram, ip |-> FALSE]])
  /\ UNCHANGED <<service, claim, failures, observed>>

\* Mutant of TooManyAttempts: the table has no CHECK.
NeverTooMany == attempts > MaxAttempts

TooManyAttempts == attempts = MaxAttempts

UpsertIPLoginAttempt(p) ==
  /\ call[p].pc = "attempt"
  /\ IF TooManyAttempts
     THEN Finished(p) /\ UNCHANGED attempts
     ELSE attempts' = attempts + 1 /\ Goto(p, "upsert")
  /\ UNCHANGED <<email, firebase, metadata, taken, rows, codes, delivered, sessions,
                 claim, started, failures, observed>>

\* The statement resets the row; it changes none that is less than 2s old.
WithCode(a) ==
  /\ codes' = codes + 1
  /\ rows' = [rows EXCEPT ![a] = [@ EXCEPT !.code = codes + 1, !.used = FALSE, !.mine = FALSE]]

IsDuplicate(a) == rows[a].code # 0

Counted(p) == call[p].of.ip

\* A duplicate is no error: the login session is given out for the code that
\* is already there, and the attempt is not counted.
UpsertEmailLinkSignIn(p) ==
  /\ call[p].pc = "upsert"
  /\ \/ /\ WithCode(To(p))
        /\ call' = [call EXCEPT ![p].pc = "mail", ![p].code = codes + 1]
        /\ UNCHANGED <<sessions, failures>>
     \/ /\ IsDuplicate(To(p))
        /\ sessions' = sessions \cup {call[p].of}
        /\ IF Counted(p) THEN Goto(p, "rollback") ELSE Finished(p)
        /\ UNCHANGED <<rows, codes, failures>>
     \/ /\ Failure
        /\ IF Counted(p) THEN Goto(p, "rollback") ELSE Finished(p)
        /\ UNCHANGED <<rows, codes, sessions>>
  /\ UNCHANGED <<email, firebase, metadata, taken, attempts, delivered, claim, started, observed>>

SendEmail(p) ==
  /\ call[p].pc = "mail"
  /\ \/ /\ delivered' = delivered \cup {<<To(p), call[p].code>>}
        /\ sessions' = sessions \cup {call[p].of}
        /\ open' = IF Counted(p) THEN open \cup {call[p].code} ELSE open
        /\ Finished(p)
     \/ /\ IF Counted(p) THEN Goto(p, "rollback") ELSE Finished(p)
        /\ UNCHANGED <<delivered, sessions, open>>
  /\ UNCHANGED <<email, firebase, metadata, taken, rows, attempts, codes,
                 claim, started, failures, confirmed, doubled, mixed, blind, late>>

Decremented == IF attempts = 0 THEN 0 ELSE attempts - 1

DecrementIPLoginAttempts(p) ==
  /\ call[p].pc = "rollback"
  /\ attempts' = Decremented
  /\ Finished(p)
  /\ UNCHANGED <<email, firebase, metadata, taken, rows, codes, delivered, sessions,
                 claim, started, failures, observed>>
-----------------------------------------------------------------------------
(* SignIn with a login session, and a code that reached its address.       *)

\* GetUserIDFromSearch: is it this account that the session is for?
Resolves(s) ==
  LET search == IF s.from = Nothing THEN s.to ELSE s.from
  IN  \/ search \in {Marker, email}
      \/ search \notin taken /\ rows[search].mine

FindOrGenerateUserID(p, s, code) ==
  /\ <<s.to, code>> \in delivered
  /\ Start(p, [IdleReq EXCEPT !.pc = "read", !.of = s, !.code = code, !.found = Resolves(s)])
  /\ UNCHANGED <<service, claim, failures, observed>>

\* getUserByIDOrPk and verifySignIn; a user who does not exist is not modified.
GetUserByIDOrPk(p) ==
  /\ call[p].pc = "read"
  /\ LET r == rows[To(p)]
         q == [call[p] EXCEPT !.seq = r.seq, !.md = IF call[p].found THEN metadata ELSE {}]
     IN  IF r.used \/ r.code # call[p].code \/ (From(p) # Nothing /\ ~ call[p].found)
         THEN Finished(p)
         ELSE call' = [call EXCEPT ![p] =
                [q EXCEPT !.pc = IF From(p) = Nothing THEN "finish" ELSE "modify"]]
  /\ UNCHANGED <<service, claim, started, failures, observed>>

AfterFirebase(p) == IF call[p].of.notify THEN "note" ELSE "finish"
InFirebase(p) == "firebaseId" \in call[p].md

\* The change of p was made already, or is being made, by another sign-in.
Repeated(p) ==
  \/ confirmed = [now |-> To(p), before |-> From(p)] /\ email = To(p)
  \/ \E q \in Others(p) : call[q].of = call[p].of /\ Writes(q) = {To(p)}

\* handleEmailModification: the users row, unless the address is another's;
ModifyUser(p) ==
  /\ call[p].pc = "modify"
  /\ IF To(p) \in taken
     THEN Finished(p) /\ UNCHANGED <<email, doubled, mixed, blind>>
     ELSE /\ email' = To(p)
          /\ Goto(p, IF InFirebase(p) THEN "firebase" ELSE AfterFirebase(p))
          /\ mixed' = (mixed \/ Clash(p, To(p))
                             \/ (~ Telegram /\ email # From(p) /\ ~ Repeated(p)))
          /\ doubled' = (doubled \/ Repeated(p))
          /\ blind' = (blind \/ ~ InFirebase(p))
  /\ UNCHANGED <<firebase, metadata, taken, rows, attempts, codes, delivered, sessions,
                 claim, started, failures, confirmed, open, late>>

\* Mutant of Undone: a failure that is not the last one is only reported.
UndoneNothing == "idle"

Undone == "undo"

\* Undoing starts; pc is what undoes, or nothing at all.
Undo(p, pc) ==
  /\ call' = [call EXCEPT ![p] = IF pc = "idle" THEN IdleReq ELSE [@ EXCEPT !.pc = pc]]
  /\ Observe(p, From(p))

\* ... Firebase,
UpdateFirebase(p) ==
  /\ call[p].pc = "firebase"
  /\ \/ /\ firebase' = To(p) /\ Goto(p, AfterFirebase(p))
        /\ UNCHANGED mixed
     \/ /\ call' = [call EXCEPT ![p] = IF Undone = "idle" THEN IdleReq
                                     ELSE [@ EXCEPT !.pc = Undone, !.md = {}]]
        /\ mixed' = (mixed \/ doubled \/ Others(p) # {})
        /\ UNCHANGED firebase
  /\ UNCHANGED <<email, metadata, taken, rows, attempts, codes, delivered, sessions,
                 claim, started, failures, doubled, confirmed, blind, open, late>>

\* ... a code for the old address, to change it back with,
StoreResetCode(p) ==
  /\ call[p].pc = "note"
  /\ \/ /\ WithCode(From(p))
        /\ call' = [call EXCEPT ![p].pc = "notice", ![p].actual = codes + 1]
        /\ UNCHANGED mixed
     \/ /\ IsDuplicate(From(p))
        /\ Undo(p, Undone)
        /\ UNCHANGED <<rows, codes>>
  /\ UNCHANGED <<email, firebase, metadata, taken, attempts, delivered, sessions,
                 claim, started, failures, doubled, confirmed, blind, open, late>>

\* ... and the mail with it.
SendNotifyEmailChanged(p) ==
  /\ call[p].pc = "notice"
  /\ \/ /\ delivered' = delivered \cup {<<From(p), call[p].actual>>}
        /\ sessions' = sessions \cup
             {[to |-> From(p), from |-> To(p), notify |-> FALSE, ip |-> FALSE]}
        /\ Goto(p, "finish")
        /\ UNCHANGED mixed
     \/ /\ Undo(p, Undone)
        /\ UNCHANGED <<delivered, sessions>>
  /\ UNCHANGED <<email, firebase, metadata, taken, rows, attempts, codes,
                 claim, started, failures, doubled, confirmed, blind, open, late>>
-----------------------------------------------------------------------------
(* The end of a sign-in.                                                   *)

Merged(md) ==
  {"iceId"} \cup md \cup IF "firebaseId" \in md THEN {"registeredWith"} ELSE {}

\* finishAuthProcess: the metadata is written whether the row is or not.
FinishAuthProcess(p) ==
  /\ call[p].pc = "finish"
  /\ LET first == rows[To(p)].seq = call[p].seq
     IN  /\ metadata' = IF call[p].found THEN Merged(call[p].md) ELSE metadata
         /\ \/ /\ first
               /\ rows' = [rows EXCEPT ![To(p)].seq = @ + 1, ![To(p)].mine = call[p].found]
               /\ confirmed' = IF From(p) = Nothing THEN confirmed
                               ELSE [now |-> To(p), before |-> From(p)]
               /\ Goto(p, "reset")
               /\ UNCHANGED mixed
            \/ /\ ~ first
               /\ IF From(p) = Nothing
                  THEN Finished(p) /\ UNCHANGED mixed
                  ELSE Undo(p, "undo")
               /\ UNCHANGED <<rows, confirmed>>
  /\ UNCHANGED <<email, firebase, taken, attempts, codes, delivered, sessions,
                 claim, started, failures, doubled, blind, open, late>>

\* resetEmailModification; the address may be somebody else's by now.  What
\* it writes is the address that the session names, for Telegram the marker.
ResetEmailModification(p) ==
  /\ call[p].pc = "undo"
  /\ email' = IF From(p) \in taken THEN email ELSE From(p)
  /\ IF InFirebase(p) THEN Goto(p, "undo_firebase") ELSE Finished(p)
  /\ UNCHANGED <<firebase, metadata, taken, rows, attempts, codes, delivered, sessions,
                 claim, started, failures, observed>>

\* resetFirebaseEmailModification; the marker is no address.
ResetFirebase(p) ==
  /\ call[p].pc = "undo_firebase"
  /\ \/ /\ From(p) \in Addresses /\ firebase' = From(p) /\ UNCHANGED failures
     \/ /\ From(p) \notin Addresses /\ UNCHANGED <<firebase, failures>>
     \/ Failure /\ UNCHANGED firebase
  /\ Finished(p)
  /\ UNCHANGED <<email, metadata, taken, rows, attempts, codes, delivered, sessions,
                 claim, started, observed>>

\* The attempt is taken back whether the code was still there or not.
ResetLoginSession(p) ==
  /\ call[p].pc = "reset"
  /\ LET r == rows[To(p)]
         mine == r.code = call[p].code /\ r.seq = call[p].seq + 1
     IN  rows' = IF mine THEN [rows EXCEPT ![To(p)].used = TRUE] ELSE rows
  /\ attempts' = IF Counted(p) THEN Decremented ELSE attempts
  /\ open' = open \ {call[p].code}
  /\ late' = IF Counted(p) /\ call[p].code \notin open THEN late + 1 ELSE late
  /\ Finished(p)
  /\ UNCHANGED <<email, firebase, metadata, taken, codes, delivered, sessions,
                 claim, started, failures, confirmed, doubled, mixed, blind>>
-----------------------------------------------------------------------------
(* Metadata, called by a client who signed in to Firebase with a password. *)

\* Mutant of Mismatch: ErrUserDataMismatch is nothing to repair.
MismatchNever == FALSE

\* The address in the token, which is Firebase's, is not that of the row.
Mismatch == email \in Addresses /\ firebase # email

\* A request that finds the key in the metadata has nothing to write.
GetMetadata(p) ==
  /\ call[p].pc = "idle" /\ firebase # Nothing
  /\ \/ /\ Mismatch
        /\ call' = [call EXCEPT ![p] = [IdleReq EXCEPT !.pc = "repair", !.actual = email]]
        /\ Observe(p, email)
     \/ /\ ~ Mismatch /\ "firebaseId" \notin metadata
        /\ call' = [call EXCEPT ![p] = [IdleReq EXCEPT !.pc = "md_read"]]
        /\ UNCHANGED mixed
  /\ UNCHANGED <<service, claim, started, failures, doubled, confirmed, blind, open, late>>

\* handleFirebaseEmailMismatch: the address that was read goes to Firebase.
\* With a mismatch no metadata is returned, so that the key counts as missing.
HandleFirebaseEmailMismatch(p) ==
  /\ call[p].pc = "repair"
  /\ \/ /\ firebase' = call[p].actual
        /\ call' = [call EXCEPT ![p] = [IdleReq EXCEPT !.pc = "md_read"]]
        /\ UNCHANGED failures
     \/ Failure /\ Finished(p) /\ UNCHANGED firebase
  /\ UNCHANGED <<email, metadata, taken, rows, attempts, codes, delivered, sessions,
                 claim, started, observed>>

ReadMetadata(p) ==
  /\ call[p].pc = "md_read"
  /\ call' = [call EXCEPT ![p].pc = "md_write", ![p].md = metadata,
                          ![p].data = @ \cup metadata \cup {"firebaseId"}]
  /\ UNCHANGED <<service, claim, started, failures, observed>>

\* Mutant of Unchanged: the statement has no WHERE clause.
UnchangedOrNot(md) == TRUE

Unchanged(md) == metadata = md

\* UpdateMetadata: again from the start when the row is no longer as read,
\* with what was merged before.
UpdateMetadata(p) ==
  /\ call[p].pc = "md_write"
  /\ IF Unchanged(call[p].md)
     THEN metadata' = call[p].data /\ Finished(p)
     ELSE Goto(p, "md_read") /\ UNCHANGED metadata
  /\ UNCHANGED <<email, firebase, taken, rows, attempts, codes, delivered, sessions,
                 claim, started, failures, observed>>
-----------------------------------------------------------------------------
(* The world around.                                                       *)

CutOff(p) ==
  /\ call[p].pc # "idle" /\ Failure /\ Finished(p)
  /\ UNCHANGED <<service, claim, started, observed>>

\* The client refreshes its tokens.
RefreshClaim ==
  /\ ~ Telegram /\ email \in Addresses /\ claim' = email /\ claim # email
  /\ UNCHANGED <<service, call, started, failures, observed>>

SomebodyRegisters(a) ==
  /\ a \notin taken \cup {email} /\ taken' = taken \cup {a}
  /\ UNCHANGED <<email, firebase, metadata, rows, attempts, codes, delivered, sessions,
                 claim, call, started, failures, observed>>

Step(p) ==
  \/ UpsertIPLoginAttempt(p) \/ UpsertEmailLinkSignIn(p) \/ SendEmail(p)
  \/ DecrementIPLoginAttempts(p) \/ GetUserByIDOrPk(p) \/ ModifyUser(p)
  \/ UpdateFirebase(p) \/ StoreResetCode(p) \/ SendNotifyEmailChanged(p)
  \/ FinishAuthProcess(p) \/ ResetEmailModification(p) \/ ResetFirebase(p)
  \/ ResetLoginSession(p) \/ HandleFirebaseEmailMismatch(p) \/ ReadMetadata(p)
  \/ UpdateMetadata(p)

ChangeNext ==
  \/ \E p \in Procs :
       \/ \E a \in Addresses : StartLogin(p, a) \/ StartChange(p, a)
       \/ \E s \in sessions, code \in 1..codes : FindOrGenerateUserID(p, s, code)
       \/ GetMetadata(p) \/ Step(p) \/ CutOff(p)
  \/ RefreshClaim
  \/ \E a \in Registrable : SomebodyRegisters(a)

ChangeSpec == ChangeInit /\ [][ChangeNext]_changeVars

\* Requests run on, and the client asks for its metadata now and then.
FairChangeSpec ==
  ChangeSpec /\ \A p \in Procs : WF_changeVars(Step(p)) /\ WF_changeVars(GetMetadata(p))
-----------------------------------------------------------------------------
(* Correctness.                                                            *)

Quiet == \A p \in Procs : call[p].pc = "idle"

\* Where an update of Firebase, a code, a mail or the finishing statement
\* fails, a change is undone as a whole: with no request running the user has
\* the address of the last change that was confirmed, and so has Firebase.
\* Excused are what does break it: an undoing that failed itself or a request
\* that was cut off (failures), two writers of different addresses, a change
\* beside a repair or from an address the user no longer had (mixed), an
\* address that somebody else registered meanwhile, and Telegram's accounts.
\* Of a change that did not know of the Firebase account (blind) only the row
\* is meant; where two sign-ins made one change, at once or the second with a
\* newer code (doubled), the undoing of one may have undone the other's, but
\* then in both places.
AllOrNothing ==
  Quiet /\ failures = 0 /\ ~ mixed /\ taken = {} /\ ~ Telegram =>
    /\ email \in {confirmed.now} \cup IF doubled THEN {confirmed.before} ELSE {}
    /\ blind \/ firebase = email

\* However the writers of the two places were interleaved or interrupted, in
\* the end the user can sign in to Firebase with the address of the account.
AgreeInTheEnd ==
  <>[](Telegram \/ email = firebase)

\* A key of the metadata is lost only to a sign-in that had read it before.
MetadataKept ==
  [][\A k \in metadata \ metadata' :
       \E p \in Procs : call[p].pc = "finish" /\ k \notin call[p].md]_changeVars

\* The codes that were mailed for logins of one client and are not redeemed
\* are at most as many as the attempts it has, whatever requests took, gave back
\* and redeemed at once.  Two requests that finish one login each give an
\* attempt back: those are excused, one code for each (late).
CodesPerIPBounded == Cardinality(open) <= MaxAttempts + late
=============================================================================
