------------------------------ MODULE Contacts ------------------------------
(***************************************************************************)
(* The contacts of one user (users/users_contacts.go), which PATCHing the  *)
(* hashes of the phone's agenda finds among the other users                *)
(* (users/users_modify.go).                                                *)
(*                                                                         *)
(* The list is read, and written as a whole with what was found; each new  *)
(* contact is told to the platform; the user's snapshot follows.  When a   *)
(* message fails the list goes back to what was read.  Whoever is in the   *)
(* list when it is read is not told of again.                              *)
(***************************************************************************)
EXTENDS Integers, FiniteSets

CONSTANTS
  Others,      \* users who may be found
  Procs,       \* requests that may be running at once
  MaxPatches,  \* bound on the requests
  MaxFaults    \* bound on failing messages and requests cut off

VARIABLES
  agenda,   \* users.agenda_contact_user_ids
  told,     \* contacts there was a message about
  req,      \* req[p]: the request p is serving
  patches,  \* requests so far
  faults,   \* faults so far
  broken    \* contacts written and not told of by a request that was cut off, or
            \* that took them back from a list another had read; no guard reads it

contactVars == <<agenda, told, req, patches, broken>>
vars == <<contactVars, faults>>

Idle == [pc |-> "idle", before |-> {}, unique |-> {}]
Req == [pc : {"idle", "update", "contacts", "snapshot", "rollback"},
        before : SUBSET Others, unique : SUBSET Others]

TypeOK ==
  /\ {agenda, told, broken} \subseteq SUBSET Others
  /\ req \in [Procs -> Req]
  /\ patches \in 0..MaxPatches
  /\ faults \in 0..MaxFaults

Init ==
  /\ agenda = {} /\ told = {}
  /\ req = [p \in Procs |-> Idle]
  /\ patches = 0 /\ faults = 0
  /\ broken = {}

Move(p, pc) == req' = [req EXCEPT ![p].pc = pc]
Finish(p) == req' = [req EXCEPT ![p] = Idle]

Fault ==
  /\ faults < MaxFaults
  /\ faults' = faults + 1
-----------------------------------------------------------------------------
\* contactDiff: of those the request names, who is not in the table.
ContactDiff(fromTable, fromRequest) == fromRequest \ fromTable

\* The list is read, and the users with the hashes of the request are found.
FindAgendaContactIDs(p, found) ==
  /\ req[p] = Idle
  /\ patches < MaxPatches
  /\ patches' = patches + 1
  /\ req' = [req EXCEPT ![p] = [pc |-> "update", before |-> agenda,
                                 unique |-> ContactDiff(agenda, found)]]
  /\ UNCHANGED <<agenda, told, faults, broken>>

\* Without new contacts the update leaves the column alone, or, if it was all the
\* request had, there is no update.
Update(p) ==
  LET r == req[p] IN
  /\ r.pc = "update"
  /\ \/ /\ agenda' = IF r.unique = {} THEN agenda ELSE r.before \cup r.unique
        /\ Move(p, "contacts")
     \/ /\ r.unique = {}
        /\ Finish(p)
        /\ UNCHANGED agenda
  /\ UNCHANGED <<told, patches, faults, broken>>

\* runConcurrently: all are tried, and any of them may fail.
RunConcurrently(args) == SUBSET args

\* One message for each new contact; it takes all of them to go on.
SendContactMessages(p) ==
  /\ req[p].pc = "contacts"
  /\ \E sent \in RunConcurrently(req[p].unique) :
       /\ told' = told \cup sent
       /\ IF sent = req[p].unique
          THEN Move(p, "snapshot") /\ UNCHANGED faults
          ELSE Move(p, "rollback") /\ Fault
  /\ UNCHANGED <<agenda, patches, broken>>

SendSnapshot(p) ==
  /\ req[p].pc = "snapshot"
  /\ \/ Finish(p) /\ UNCHANGED faults
     \/ Move(p, "rollback") /\ Fault
  /\ UNCHANGED <<agenda, told, patches, broken>>

\* Mutant of TakenBack: an empty list is left out of the UPDATE, as the empty
\* values of other columns are.
TakenBackUnlessEmpty(list, before) == IF before = {} THEN list ELSE before

\* What the list is after a roll back to what was read: that, even if it is empty.
TakenBack(list, before) == before

\* Those of whom nobody was told, whom p leaves to the requests that read its list.
LeftToOthers(p) ==
  {u \in req[p].unique \ told : \E q \in Procs \ {p} : u \in req[q].before}

\* The list goes back to what was read, though this request did not change it.
Rollback(p) ==
  /\ req[p].pc = "rollback"
  /\ agenda' = TakenBack(agenda, req[p].before)
  /\ broken' = broken \cup LeftToOthers(p)
  /\ Finish(p)
  /\ UNCHANGED <<told, patches, faults>>

\* The request is cancelled, or its instance stops.
CutOff(p) ==
  /\ req[p] # Idle
  /\ Fault
  /\ broken' = IF req[p].pc = "update" THEN broken ELSE broken \cup (req[p].unique \ told)
  /\ Finish(p)
  /\ UNCHANGED <<agenda, told, patches>>

Next ==
  \E p \in Procs :
    \/ \E found \in SUBSET Others : FindAgendaContactIDs(p, found)
    \/ Update(p) \/ SendContactMessages(p) \/ SendSnapshot(p) \/ Rollback(p)
    \/ CutOff(p)

Spec == Init /\ [][Next]_vars
-----------------------------------------------------------------------------
\* Nobody stays in the list without having been told of, for nobody would ever be
\* told of it again: who is in the list was told of, or is about to be told of or
\* taken back.  That holds of any number of requests, with two exceptions, which
\* the code does not prevent: a request is cut off after it has written the list
\* and before it has told of it; and a request takes back whom it found after
\* another had read them from the list, who keeps them and tells nobody.
ContactsTold ==
  agenda \subseteq
    told \cup broken \cup UNION {req[p].unique : p \in {q \in Procs : req[q].pc # "update"}}
=============================================================================
