--------------------------- MODULE DeviceMetadata ---------------------------
(***************************************************************************)
(* The devices of one user and what the rest of the platform is told about *)
(* them (users/internal/device/metadata), next to the deletion of the user *)
(* (users/users_delete.go).                                                *)
(*                                                                         *)
(* Replacing the metadata of a device reads the row, writes it, sends a    *)
(* snapshot, and takes the row back to what was read if that fails.        *)
(* Deleting the user deletes every device it has just read, telling about  *)
(* each, and starts over when the users row is still referenced.  Of the   *)
(* metadata only the app version is kept; updated_at always changes, so    *)
(* the comparison of columns in the upsert never keeps it from writing.    *)
(***************************************************************************)
EXTENDS Integers, Sequences, FiniteSets

CONSTANTS
  Devices,     \* device_unique_id values
  Versions,    \* app versions, tuples of three or four numbers
  Required,    \* cfg.RequiredAppVersion of the devices' system
  Procs,       \* requests that may be running at once
  None,        \* no row
  MaxReplaced, \* bound on the replacements
  MaxFaults    \* bound on failing messages and requests cut off

VARIABLES
  member,    \* the users row exists
  dev,       \* dev[d]: the device_metadata row
  known,     \* known[d]: what the messages about d last said
  req,       \* req[p]: the request p is serving
  replaced,  \* replacements so far
  faults,    \* faults so far
  settled    \* devices whose last request had them for itself, and told of what it
             \* wrote, or undid it on a settled device; no guard reads this

deviceVars == <<member, dev, known, req, replaced, settled>>
vars == <<deviceVars, faults>>

Content == Versions \cup {None}
Phase == {"delete", "snapshot", "tombstone", "done", "failed"}
Idle == [pc |-> "idle"]

\* "alone": no other request touches the device meanwhile; "agreed": it was settled.
Req == {Idle}
       \cup [pc : {"upsert", "send", "revert"}, dev : Devices, new : Versions,
             before : Content, alone : BOOLEAN, agreed : BOOLEAN]
       \cup [pc : {"select"}]
       \cup [pc : {"rows"}, phase : UNION {[S -> Phase] : S \in SUBSET Devices},
             alone : SUBSET Devices]

TypeOK ==
  /\ member \in BOOLEAN
  /\ dev \in [Devices -> Content]
  /\ known \in [Devices -> Content]
  /\ req \in [Procs -> Req]
  /\ replaced \in 0..MaxReplaced
  /\ faults \in 0..MaxFaults
  /\ settled \subseteq Devices
  /\ ~member => \A d \in Devices : dev[d] = None     \* the foreign key

Init ==
  /\ member = TRUE
  /\ dev = [d \in Devices |-> None]
  /\ known = [d \in Devices |-> None]
  /\ req = [p \in Procs |-> Idle]
  /\ replaced = 0
  /\ faults = 0
  /\ settled = Devices

TypeReplace == {"upsert", "send", "revert"}
Touches(r, d) ==
  \/ r.pc \in TypeReplace /\ r.dev = d
  \/ r.pc = "rows" /\ d \in DOMAIN r.phase /\ r.phase[d] \notin {"done", "failed"}

Busy(d) == \E p \in Procs : Touches(req[p], d)

\* Another request begins on the devices D: nobody there is alone any more.
Crowded(r, D) ==
  CASE r.pc \in TypeReplace /\ r.dev \in D -> [r EXCEPT !.alone = FALSE]
    [] r.pc = "rows" -> [r EXCEPT !.alone = @ \ D]
    [] OTHER -> r

Begin(p, D, r) ==
  /\ req' = [q \in Procs |-> IF q = p THEN r ELSE Crowded(req[q], D)]
  /\ settled' = settled \ D
-----------------------------------------------------------------------------
(* verifyDeviceAppVersion                                                  *)

Older(v, w) ==
  \E i \in 1..3 : v[i] < w[i] /\ \A j \in 1..(i-1) : v[j] = w[j]

\* semver.Compare takes a version of four parts as invalid, and an invalid one
\* as older than any: a required version of four parts is never the newer one.
SemverBefore(v, required) == Len(required) = 3 /\ Older(v, required)

\* verifyDeviceAppNanosVersion: 0 and 1 pass as the fourth part.
NanosOutdated(v, required) ==
  /\ Len(required) > 3
  /\ \/ Len(v) = 3
     \/ v[4] \notin {0, 1} /\ v[4] < required[4]

Outdated(v) == SemverBefore(v, Required) \/ NanosOutdated(v, Required)
-----------------------------------------------------------------------------
(* ReplaceDeviceMetadata                                                   *)

GetBefore(p, d, v) ==
  /\ req[p] = Idle
  /\ replaced < MaxReplaced
  /\ ~Outdated(v)
  /\ Begin(p, {d}, [pc |-> "upsert", dev |-> d, new |-> v, before |-> dev[d],
                    alone |-> ~Busy(d), agreed |-> d \in settled])
  /\ replaced' = replaced + 1
  /\ UNCHANGED <<member, dev, known, faults>>

\* The request of p ends, and settles its device if settles holds and it was alone.
End(p, settles) ==
  /\ req' = [req EXCEPT ![p] = Idle]
  /\ settled' = IF settles /\ req[p].alone THEN settled \cup {req[p].dev} ELSE settled

(* replaceSQL, one statement.                                              *)

\* VALUES: a new row refers to the users row.
Inserted(rows, d, content) == IF member THEN [rows EXCEPT ![d] = content] ELSE rows

\* ON CONFLICT: the columns of the row, which differ in updated_at at least.
Overwritten(rows, d, content) == [rows EXCEPT ![d] = content]

Replaced(rows, d, content) ==
  IF rows[d] = None THEN Inserted(rows, d, content) ELSE Overwritten(rows, d, content)

\* deviceMetadataSnapshot: what the platform knows once it has the message.
Told(d, after) == [known EXCEPT ![d] = after]

\* Without a users row it is ErrRelationNotFound.
Upsert(p) ==
  /\ req[p].pc = "upsert"
  /\ IF member
     THEN /\ dev' = Replaced(dev, req[p].dev, req[p].new)
          /\ req' = [req EXCEPT ![p].pc = "send"]
          /\ UNCHANGED settled
     ELSE End(p, req[p].agreed) /\ UNCHANGED dev
  /\ UNCHANGED <<member, known, replaced, faults>>

SendSnapshot(p) ==
  /\ req[p].pc = "send"
  /\ \/ /\ known' = Told(req[p].dev, req[p].new)
        /\ End(p, TRUE)
        /\ UNCHANGED faults
     \/ /\ faults < MaxFaults
        /\ faults' = faults + 1
        /\ req' = [req EXCEPT ![p].pc = "revert"]
        /\ UNCHANGED <<known, settled>>
  /\ UNCHANGED <<member, dev, replaced>>

\* Mutant of Reverted: a row that was new is left where it is.
RevertedIfAny(r) == IF r.before = None THEN r.new ELSE r.before

Reverted(r) == r.before

\* The row goes back to what was read, or is deleted.
Revert(p) ==
  /\ req[p].pc = "revert"
  /\ LET d == req[p].dev
         before == Reverted(req[p])
     IN  dev' = IF before = None THEN [dev EXCEPT ![d] = None] ELSE Replaced(dev, d, before)
  /\ End(p, req[p].agreed)
  /\ UNCHANGED <<member, known, replaced, faults>>
-----------------------------------------------------------------------------
(* DeleteUser: deleteUserReferences, then the users row.                   *)

DeleteUser(p) ==
  /\ req[p] = Idle
  /\ member
  /\ req' = [req EXCEPT ![p] = [pc |-> "select"]]
  /\ UNCHANGED <<member, dev, known, replaced, faults, settled>>

\* DeleteAllDeviceMetadata selects the devices and deletes them concurrently.
SelectDevices(p) ==
  /\ req[p].pc = "select"
  /\ LET rows == {d \in Devices : dev[d] # None}
     IN Begin(p, rows, [pc |-> "rows", phase |-> [d \in rows |-> "delete"],
                        alone |-> {d \in rows : ~Busy(d)}])
  /\ UNCHANGED <<member, dev, known, replaced, faults>>

GoTo(p, d, phase) ==
  req' = [req EXCEPT ![p].phase = [@ EXCEPT ![d] = phase]]

DeleteRow(p, d) ==
  /\ req[p].phase[d] = "delete"
  /\ dev' = [dev EXCEPT ![d] = None]
  /\ GoTo(p, d, "snapshot")
  /\ UNCHANGED <<member, known, replaced, faults, settled>>

Fail(p, d) ==
  /\ faults < MaxFaults
  /\ faults' = faults + 1
  /\ GoTo(p, d, "failed")
  /\ UNCHANGED <<known, settled>>

\* A snapshot without "after" says that the device is gone.
SendDeleted(p, d) ==
  /\ req[p].phase[d] = "snapshot"
  /\ \/ /\ known' = Told(d, None)
        /\ GoTo(p, d, "tombstone")
        /\ UNCHANGED <<faults, settled>>
     \/ Fail(p, d)
  /\ UNCHANGED <<member, dev, replaced>>

\* The tombstone makes the broker forget what was said of it.
SendTombstone(p, d) ==
  /\ req[p].phase[d] = "tombstone"
  /\ \/ /\ known' = [known EXCEPT ![d] = None]
        /\ GoTo(p, d, "done")
        /\ settled' = settled \cup ({d} \cap req[p].alone)
        /\ UNCHANGED faults
     \/ Fail(p, d)
  /\ UNCHANGED <<member, dev, replaced>>

\* The foreign key of device_metadata.
Referenced == \E d \in Devices : dev[d] # None

\* Any failure ends the request; otherwise the users row is deleted, or, still
\* referenced by a device, everything starts over.
DeleteMember(p) ==
  /\ \A d \in DOMAIN req[p].phase : req[p].phase[d] \in {"done", "failed"}
  /\ IF \E d \in DOMAIN req[p].phase : req[p].phase[d] = "failed"
     THEN req' = [req EXCEPT ![p] = Idle] /\ UNCHANGED member
     ELSE IF Referenced
          THEN req' = [req EXCEPT ![p] = [pc |-> "select"]] /\ UNCHANGED member
          ELSE req' = [req EXCEPT ![p] = Idle] /\ member' = FALSE
  /\ UNCHANGED <<dev, known, replaced, faults, settled>>

\* A request is cancelled, or its instance stops.
CutOff(p) ==
  /\ req[p] # Idle
  /\ faults < MaxFaults
  /\ faults' = faults + 1
  /\ req' = [req EXCEPT ![p] = Idle]
  /\ UNCHANGED <<member, dev, known, replaced, settled>>

Next ==
  \E p \in Procs :
    \/ \E d \in Devices, v \in Versions : GetBefore(p, d, v)
    \/ Upsert(p) \/ SendSnapshot(p) \/ Revert(p)
    \/ DeleteUser(p) \/ SelectDevices(p)
    \/ /\ req[p].pc = "rows"
       /\ \/ \E d \in DOMAIN req[p].phase : DeleteRow(p, d) \/ SendDeleted(p, d) \/ SendTombstone(p, d)
          \/ DeleteMember(p)
    \/ CutOff(p)

Spec == Init /\ [][Next]_vars
-----------------------------------------------------------------------------
\* What the platform was told of a device is what its row says, once a request that
\* had the device for itself has told of what it wrote, whatever overlapped on the
\* device, failed or was cut off before; and it stays so while requests on the
\* device come one after the other: undoing a replacement whose message failed takes
\* the row back to what was told before, and nobody is told of a device of a user who
\* is gone.  Requests that overlap on one device are excused until then: their
\* messages may arrive in another order than their writes, a roll back may undo the
\* write of another, and a replacement may tell of a row deleted meanwhile.
KnownDevices ==
  \A d \in settled : known[d] = dev[d]
=============================================================================
