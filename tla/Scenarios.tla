----------------------------- MODULE Scenarios ------------------------------
(***************************************************************************)
(* The scenarios a user completes to be eligible for the distribution of   *)
(* coins (kyc/verification_scenarios), the accounts at other tenants that  *)
(* are linked on the way (kyc/linking), and users.ModifyUser, which stores *)
(* what was completed and takes the row back if its message fails.         *)
(*                                                                         *)
(* One user.  The list of completed scenarios is read at the start of a    *)
(* request and written as a whole at its end.  Signing up at a tenant is a *)
(* scenario of its own, named here by the tenant.                          *)
(***************************************************************************)
EXTENDS Integers, FiniteSets

CONSTANTS
  Joins,        \* join_twitter, join_telegram, join_cmc
  Tenants,      \* tenants whose signup is a scenario
  Own,          \* cfg.Tenant, the tenant of this service
  Mandatories,  \* lists of mandatory scenarios to explore; {} disables them
  Procs,        \* requests that may be running at once
  None,         \* SQL NULL
  MaxAsked,     \* bound on the requests
  MaxFaults     \* bound on failing messages and requests cut off

VARIABLES
  mandatory,  \* cfg.MandatoryScenarios
  row,        \* the users row: completed, verified, started, ended
  links,      \* links[t]: the linked_user_accounts row from this user to t
  req,        \* req[p]: the request p is serving
  asked,      \* requests so far
  faults,     \* faults so far
  \* What an observer notes; no guard reads these.
  earned,     \* scenarios some request has verified
  undone      \* a users row was taken back

scenarioVars == <<mandatory, links, req, asked, faults, earned, undone>>
vars == <<scenarioVars, row>>

AllScenarios == Joins \cup Tenants
Idle == [pc |-> "idle"]

\* What a request carries from step to step: the list it has read, what was
\* pending then, what it adds, the tokens still to verify, the tenant the links
\* call verified, the linked accounts, and the row ModifyUser has read.
Work == [pc : {"links", "token", "store", "modify", "update", "send", "undo"},
         read : SUBSET AllScenarios, pending : SUBSET AllScenarios,
         new : SUBSET AllScenarios, tokens : SUBSET Tenants,
         verified : Tenants \cup {Own, None}, linked : SUBSET (Tenants \cup {Own}), old : [completed : SUBSET AllScenarios \cup {None},
         verified : BOOLEAN, started : Int \cup {None}, ended : Int \cup {None}] \cup {None}]

TypeOK ==
  /\ mandatory \in Mandatories
  /\ row.completed \in SUBSET AllScenarios \cup {None}
  /\ row.verified \in BOOLEAN
  /\ links \in [Tenants \cup {Own} -> {"none", "linked", "verified"}]
  /\ req \in [Procs -> {Idle} \cup Work]
  /\ asked \in 0..MaxAsked
  /\ faults \in 0..MaxFaults
  /\ earned \subseteq AllScenarios
  /\ undone \in BOOLEAN

NewRow == [completed |-> None, verified |-> FALSE, started |-> None, ended |-> None]

ScenariosInit ==
  /\ mandatory \in Mandatories
  /\ links = [t \in Tenants \cup {Own} |-> "none"]
  /\ req = [p \in Procs |-> Idle]
  /\ asked = 0
  /\ earned = {}
  /\ undone = FALSE

Init == ScenariosInit /\ row = NewRow /\ faults = 0

Completed == IF row.completed = None THEN {} ELSE row.completed

\* getCompletedSantaTasks, asked in the usual mode: the scenarios whose tasks are
\* completed, for which another service answers.
CompletedTasks == IF mandatory = {} THEN SUBSET AllScenarios ELSE {{}}

\* getPendingScenarios
Pending(tasks) ==
  IF mandatory # {} THEN IF row.verified THEN {} ELSE mandatory \ Completed
  ELSE tasks \ Completed
-----------------------------------------------------------------------------
(* VerifyScenarios                                                         *)

Start(p, pc, pending, new) ==
  /\ req' = [req EXCEPT ![p] =
       [pc |-> pc, read |-> Completed, pending |-> pending, new |-> new,
        tokens |-> new \cap Tenants, verified |-> None,
        linked |-> {}, old |-> None]]
  /\ asked' = asked + 1

\* Joining is taken at the client's word: VerifyCMC is switched off and the post
\* of Twitter is only asked for, not looked at.
VerifyJoin(p, s, tasks) ==
  /\ req[p] = Idle /\ asked < MaxAsked
  /\ s \in Joins \cap Pending(tasks)
  /\ Start(p, "modify", Pending(tasks), {s})
  /\ earned' = earned \cup {s}
  /\ UNCHANGED <<mandatory, row, links, faults, undone>>

\* signup_tenants passes whatever is pending; tokens of other tenants are skipped.
VerifySignUp(p, tokens, tasks) ==
  /\ req[p] = Idle /\ asked < MaxAsked
  /\ tokens \cap Pending(tasks) # {}
  /\ Start(p, "links", Pending(tasks), tokens \cap Pending(tasks))
  /\ UNCHANGED <<mandatory, row, links, faults, earned, undone>>

(* linker.Verify *)

\* Get: the rows that hang together with a user, all written by this user; the
\* tenant it calls verified is the one that owns the row, not the linked one.
GetVerified(rows) ==
  IF \E t \in Tenants \cup {Own} : rows[t] = "verified" THEN Own ELSE None

GetLinked(rows) == {t \in Tenants \cup {Own} : rows[t] # "none"}

GetLinks(p) ==
  /\ req[p].pc = "links"
  /\ req' = [req EXCEPT ![p] = [@ EXCEPT
       !.pc = "token", !.verified = GetVerified(links), !.linked = GetLinked(links)]]
  /\ UNCHANGED <<mandatory, row, links, asked, faults, earned, undone>>

\* The token is shown to its tenant, which knows the account, whether the user
\* has finished signing up there, and whether there is a face result.
fetchTokenData == [own : BOOLEAN, hasFaceKYCResult : BOOLEAN]

\* What is linked to the account overwrites what was verified, and is added to
\* what is linked.
VerifyToken(p, t, usr) ==
  /\ req[p].pc = "token" /\ t \in req[p].tokens /\ usr.own
  /\ LET remote == IF links[t] = "none" THEN None ELSE GetVerified(links)
         profiles == IF links[t] = "none" THEN {} ELSE GetLinked(links)
     IN req' = [req EXCEPT ![p] = [@ EXCEPT
          !.tokens = req[p].tokens \ {t},
          !.verified = IF usr.hasFaceKYCResult /\ remote = None THEN t ELSE remote,
          !.linked = req[p].linked \cup profiles \cup {t},
          !.pc = IF req[p].tokens = {t} THEN "store" ELSE "token"]]
  /\ UNCHANGED <<mandatory, row, links, asked, faults, earned, undone>>

\* A token that is not the user's own ends the request.
ForeignToken(p, usr) ==
  /\ req[p].pc = "token" /\ ~usr.own
  /\ req' = [req EXCEPT ![p] = Idle]
  /\ UNCHANGED <<mandatory, row, links, asked, faults, earned, undone>>

\* The accounts to store are those that Verify has read, whatever is linked now.
Linked(r) == r.linked \cup {Own}

StoreLinkedAccounts(p) ==
  /\ req[p].pc = "store"
  /\ links' = [t \in DOMAIN links |->
       IF t \notin Linked(req[p]) THEN links[t]
       ELSE IF t = req[p].verified THEN "verified" ELSE "linked"]
  /\ req' = [req EXCEPT ![p] = [@ EXCEPT !.pc = "modify"]]
  /\ earned' = earned \cup req[p].new
  /\ UNCHANGED <<mandatory, row, asked, faults, undone>>

\* Face recognition marks the own account; before anything was linked there is
\* no row to mark.
SetTenantVerified ==
  /\ links[Own] = "linked"
  /\ links' = [links EXCEPT ![Own] = "verified"]
  /\ UNCHANGED <<mandatory, row, req, asked, faults, earned, undone>>
-----------------------------------------------------------------------------
(* setCompletedDistributionScenario and ModifyUser                         *)

ReadOld(p) ==
  /\ req[p].pc = "modify"
  /\ req' = [req EXCEPT ![p] = [@ EXCEPT !.pc = "update", !.old = row]]
  /\ UNCHANGED <<mandatory, row, links, asked, faults, earned, undone>>

\* Mutant of AllCompleted: one scenario may be missing.
AllButOne(r) == Cardinality(r.new \cap r.pending) + 1 >= Cardinality(r.pending)

\* Mutant of AllCompleted: what is new is compared with all that is mandatory.
AllAtOnce(r) == Cardinality(r.new) = Cardinality(r.pending \cup r.read)

AllCompleted(r) == Cardinality(r.new \cap r.pending) = Cardinality(r.pending)

UpdateUser(p) ==
  /\ req[p].pc = "update"
  /\ row' = [row EXCEPT !.completed = req[p].read \cup req[p].new,
                        !.verified = @ \/ AllCompleted(req[p])]
  /\ req' = [req EXCEPT ![p] = [@ EXCEPT !.pc = "send"]]
  /\ UNCHANGED <<mandatory, links, asked, faults, earned, undone>>

SendSnapshot(p) ==
  /\ req[p].pc = "send"
  /\ \/ req' = [req EXCEPT ![p] = Idle] /\ UNCHANGED faults
     \/ /\ faults < MaxFaults
        /\ faults' = faults + 1
        /\ req' = [req EXCEPT ![p] = [@ EXCEPT !.pc = "undo"]]
  /\ UNCHANGED <<mandatory, row, links, asked, earned, undone>>

\* The columns that were read as NULL stay what they are.
Restored(new, old) == IF old = None THEN new ELSE old

UndoUpdate(p) ==
  /\ req[p].pc = "undo"
  /\ LET old == req[p].old
     IN row' = [completed |-> Restored(row.completed, old.completed),
                verified  |-> old.verified,
                started   |-> Restored(row.started, old.started),
                ended     |-> Restored(row.ended, old.ended)]
  /\ req' = [req EXCEPT ![p] = Idle]
  /\ undone' = TRUE
  /\ UNCHANGED <<mandatory, links, asked, faults, earned>>

CutOff(p) ==
  /\ req[p] # Idle
  /\ faults < MaxFaults
  /\ faults' = faults + 1
  /\ req' = [req EXCEPT ![p] = Idle]
  /\ UNCHANGED <<mandatory, row, links, asked, earned, undone>>

Next ==
  \/ \E p \in Procs :
       \/ \E tasks \in CompletedTasks :
            \/ \E s \in Joins : VerifyJoin(p, s, tasks)
            \/ \E tokens \in SUBSET Tenants : VerifySignUp(p, tokens, tasks)
       \/ GetLinks(p)
       \/ \E usr \in fetchTokenData :
            (\E t \in Tenants : VerifyToken(p, t, usr)) \/ ForeignToken(p, usr)
       \/ StoreLinkedAccounts(p)
       \/ ReadOld(p) \/ UpdateUser(p) \/ SendSnapshot(p) \/ UndoUpdate(p)
       \/ CutOff(p)
  \/ SetTenantVerified

Spec == Init /\ [][Next]_vars
-----------------------------------------------------------------------------
\* Nobody is eligible without having completed every mandatory scenario, and
\* what counts as completed was verified; an account at another tenant that
\* counts is linked.  Whatever lists requests write over each other or back.
VerifiedIsEarned ==
  /\ mandatory # {} /\ row.verified => mandatory \subseteq earned
  /\ Completed \subseteq earned
  /\ \A t \in Completed \cap Tenants : links[t] # "none"

\* A user who has completed every mandatory scenario is verified: with nothing
\* pending any more no request would ever look again.  (A row that was taken
\* back may be left so.)
NeverStuck ==
  mandatory # {} /\ mandatory \subseteq Completed /\ ~undone => row.verified
=============================================================================
