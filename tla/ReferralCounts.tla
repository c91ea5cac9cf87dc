--------------------------- MODULE ReferralCounts ---------------------------
(***************************************************************************)
(* What the consumers of user snapshots count (users/users_snapshot.go,    *)
(* user_growth.go, users_referrals.go): the users, and for each referrer   *)
(* the referrals of tier 1 and 2, in total and on each of the last days.   *)
(*                                                                         *)
(* A partition is read by one consumer, in order, at least once; different *)
(* partitions concern the same referrers.  A message is counted by one     *)
(* upsert of two rows, the referrer's and that of its own referrer (T0);   *)
(* the upsert is guarded by what was read of the rows before, and tried    *)
(* again while it answers that it changed no row, as it does with any      *)
(* error.  A row tells its days relative to the date it was last written,  *)
(* so a later upsert shifts them.                                          *)
(*                                                                         *)
(* Time is counted in days, by one clock.  Who referred the referrers does *)
(* not change.                                                             *)
(***************************************************************************)
EXTENDS Integers, Sequences, FiniteSets, FiniteSetsExt

CONSTANTS
  Consumers, Users, Nobody,
  Referrers,     \* users with referrals; Nobody is the id "" of no referrer
  Leavers,       \* who of them may be deleted
  T0Of,          \* T0Of[r]: the referrer of r, or Nobody
  Feed,          \* Feed[c]: the snapshots in the partition of consumer c
  FirstDays,     \* the day it may be at first
  WithRows,      \* which referrers may have rows, of day 0, at first
  Ages,          \* whole days for which a user existed before leaving
  MaxTicks, MaxFaults   \* bounds

History == 5   \* maxDaysReferralsHistory
Ids == Referrers \cup {Nobody}
Kinds == {"created", "chose", "deleted"}
Snapshots == [kind : Kinds, user : Users, ref : Ids]

ASSUME CountsAssumption ==
  /\ Nobody \notin Referrers
  /\ T0Of \in [Ids -> Ids] /\ T0Of[Nobody] = Nobody
  /\ \A r \in Referrers : T0Of[r] # r
  /\ Feed \in [Consumers -> Seq(Snapshots)]
  /\ \A c \in Consumers : \A i \in DOMAIN Feed[c] :
       /\ Feed[c][i].kind = "chose" => Feed[c][i].ref # Nobody
       /\ \A d \in Consumers : \A j \in DOMAIN Feed[d] :   \* a user is deleted once
            /\ Feed[c][i].kind = "deleted" /\ Feed[d][j].kind = "deleted"
            /\ Feed[c][i].user = Feed[d][j].user
            => c = d /\ i = j
  /\ Leavers \subseteq Referrers /\ WithRows \subseteq SUBSET Referrers
  /\ IsFiniteSet(Consumers) /\ IsFiniteSet(Users)
  /\ FirstDays \subseteq Nat /\ Ages \subseteq Nat
  /\ {MaxTicks, MaxFaults} \subseteq Nat

VARIABLES
  today, ticks,   \* the day; how often it changed
  total,          \* users, as global counts them
  row,            \* row[r]: the row of referral_acquisition_history, or NoRow
  processed,      \* table processed_referrals
  at,             \* at[c]: the next message of the partition
  job,            \* job[c]: what c is doing with it
  faults,
  seeded,         \* seeded[r]: rows of r inserted with a t1 of 1 for no referral; never read
  lost,           \* lost[r]: upserts for new referrals of r applied without an answer; never read
  skewed          \* rows that were shifted by the lag of another row; never read

vars == <<today, ticks, total, row, processed, at, job, faults, seeded, lost, skewed>>
tables == <<total, row, processed, seeded, lost, skewed>>

Tiers == {1, 2}
Days == 0..(History - 1)
None == [d \in Days |-> 0]
NoRow == [date |-> -1, count |-> [t \in Tiers |-> 0], on |-> [t \in Tiers |-> None]]

\* Columns t1 and t2; t1_today, t1_today_minus_1...
Row == [date : -1..(Max(FirstDays) + MaxTicks), count : [Tiers -> Nat],
        on : [Tiers -> [Days -> Nat]]]

\* A row of day 0: two referrals of each tier, one of them of the day before.
OldRow == [date |-> 0, count |-> [t \in Tiers |-> 2],
           on |-> [t \in Tiers |-> [None EXCEPT ![0] = 1, ![1] = 1]]]

IdleJob == [pc |-> "idle", failed |-> FALSE, age |-> -1, now |-> 0, seen |-> <<>>]
Job == [pc : {"idle", "dedupe", "read", "write", "end"}, failed : BOOLEAN,
        age : Ages \cup {-1}, now : Nat,
        seen : {<<>>} \cup [date : Int, today1 : Nat, date0 : Int, today2 : Nat]]

TypeOK ==
  /\ today \in Nat /\ ticks \in 0..MaxTicks
  /\ total \in Nat
  /\ row \in [Ids -> Row]
  /\ processed \subseteq Users \X Ids \X BOOLEAN
  /\ at \in [Consumers -> Nat \ {0}]
  /\ job \in [Consumers -> Job]
  /\ faults \in 0..MaxFaults
  /\ seeded \in [Ids -> Nat] /\ lost \in [Ids -> Nat] /\ skewed \subseteq Ids
  /\ \A c \in Consumers : job[c].pc # "idle" => at[c] \in DOMAIN Feed[c]

Init ==
  /\ today \in FirstDays /\ ticks = 0
  /\ total = Cardinality(Users)
  /\ \E old \in WithRows : row = [r \in Ids |-> IF r \in old THEN OldRow ELSE NoRow]
  /\ processed = {}
  /\ at = [c \in Consumers |-> 1]
  /\ job = [c \in Consumers |-> IdleJob]
  /\ faults = 0
  /\ seeded = [r \in Ids |-> 0] /\ lost = [r \in Ids |-> 0] /\ skewed = {}

Msg(c) == Feed[c][at[c]]
Fault == faults < MaxFaults /\ faults' = faults + 1
Goto(c, pc) == job' = [job EXCEPT ![c].pc = pc]
Referrer(c) == Msg(c).ref
T0(c) == T0Of[Referrer(c)]
-----------------------------------------------------------------------------
(* updateTotalUsersCount, the first thing that Process does.               *)

Greatest(n) == IF n < 0 THEN 0 ELSE n

\* Mutant of TotalAfter: whatever a snapshot says is somebody new.
TotalAfterAny(m) == IF m.kind = "deleted" THEN Greatest(total - 1) ELSE total + 1

\* Who has been created or deleted is counted, each time the message comes.
TotalAfter(m) ==
  CASE m.kind = "created" -> total + 1
    [] m.kind = "deleted" -> Greatest(total - 1)
    [] OTHER -> total

\* Its failure does not keep the referral from being counted; what failed may
\* have been applied.
UpdateTotalUsersCount(c) ==
  /\ job[c].pc = "idle" /\ at[c] \in DOMAIN Feed[c]
  /\ \E age \in IF Msg(c).kind = "deleted" THEN Ages ELSE {-1} :
       LET begun == [IdleJob EXCEPT !.pc = "dedupe", !.age = age]
       IN  \/ /\ total' = TotalAfter(Msg(c))
              /\ job' = [job EXCEPT ![c] = begun]
              /\ UNCHANGED faults
           \/ /\ Msg(c).kind # "chose" /\ Fault
              /\ job' = [job EXCEPT ![c] = [begun EXCEPT !.failed = TRUE]]
              /\ total' \in {total, TotalAfter(Msg(c))}
  /\ UNCHANGED <<today, ticks, row, processed, at, seeded, lost, skewed>>
-----------------------------------------------------------------------------
(* updateReferralCount.                                                    *)

Entry(c) == <<Msg(c).user, Referrer(c), Msg(c).kind = "deleted">>

\* Mutant of Seen: nothing remembers what was counted.
SeenNever(c) == FALSE

Seen(c) == Entry(c) \in processed

\* Somebody who joins without a referrer counts for nobody; somebody who
\* leaves without one counts for the user "".
CountsFor(c) == Msg(c).kind = "deleted" \/ Referrer(c) # Nobody

InsertProcessed(c) ==
  /\ job[c].pc = "dedupe"
  /\ IF Seen(c) \/ ~ CountsFor(c)
     THEN Goto(c, "end") /\ UNCHANGED processed
     ELSE /\ processed' = processed \cup {Entry(c)}
          /\ job' = [job EXCEPT ![c].pc = "read", ![c].now = today]
  /\ UNCHANGED <<today, ticks, total, row, at, faults, seeded, lost, skewed>>

\* getCurrentReferralCount; a row that is missing has the date of today.
GetCurrentReferralCount(c) ==
  /\ job[c].pc = "read"
  /\ LET mine == row[Referrer(c)]
         above == row[T0(c)]
         DateOf(r) == IF r = NoRow THEN job[c].now ELSE r.date
     IN  job' = [job EXCEPT ![c].pc = "write", ![c].seen =
           [date |-> DateOf(mine), today1 |-> mine.on[1][0],
            date0 |-> DateOf(IF T0(c) = Nobody THEN NoRow ELSE above),
            today2 |-> IF T0(c) = Nobody THEN 0 ELSE above.on[2][0]]]
  /\ UNCHANGED <<today, ticks, tables, at, faults>>
-----------------------------------------------------------------------------
(* The upsert of incrementOrDecrementReferralCount.                        *)

Unchanged == -2
Zero == -1

\* findTargetField: the day whose column the day i takes, for a row that is
\* lag days behind; age is that of the user who left.
TargetField(i, lag, age) ==
  IF lag = 0 THEN (IF i = age THEN i ELSE Unchanged)
  ELSE IF i < lag THEN Zero ELSE i - lag

\* generateReferralsShiftDaysSQL: one statement for two rows.  A lag that is
\* zero for one of them leaves the target of the other to both.
Source(mine, i, lag, lag0, age) ==
  LET f == TargetField(i, lag, age)
      f0 == TargetField(i, lag0, age)
  IN  IF f = Unchanged \/ (f0 # Unchanged /\ ~ mine) THEN f0 ELSE f

\* "today_minus_5" is not a column.
NoSuchColumn(lag, lag0, age) ==
  \E i \in 1..(History - 1), mine \in BOOLEAN : Source(mine, i, lag, lag0, age) >= History

\* The days of one tier before today; the leaver's day is decremented in
\* both tiers.
Shifted(on, mine, lag, lag0, age) ==
  [i \in Days |->
     LET s == Source(mine, i, lag, lag0, age)
         value == IF s = Unchanged THEN on[i] ELSE IF s = Zero THEN 0 ELSE on[s]
     IN  IF i = 0 THEN on[0]
         ELSE IF s # Unchanged /\ i = age THEN Greatest(value - 1) ELSE value]

Changed(n, age) == IF age < 0 THEN n + 1 ELSE Greatest(n - 1)
ChangedToday(n, age) == IF age <= 0 THEN Changed(n, age) ELSE n

\* Mutant of Today: what was counted on another day is counted as today's.
TodayEver(r, t, now) == r.on[t][0]

\* What is left of t1_today and t2_today.
Today(r, t, now) == IF r.date = now THEN r.on[t][0] ELSE 0

\* The SET clause, for the row of the referrer (mine) or of T0.
Updated(r, mine, c, lag, lag0) ==
  LET j == job[c]
      tier == IF mine THEN 1 ELSE 2
  IN  [date |-> j.now,
       count |-> [r.count EXCEPT ![tier] = Changed(@, j.age)],
       on |-> [t \in Tiers |->
         [Shifted(r.on[t], mine, lag, lag0, j.age) EXCEPT ![0] =
            IF t = tier THEN ChangedToday(Today(r, t, j.now), j.age) ELSE Today(r, t, j.now)]]]

\* The VALUES clause, whatever happened to the user.
Inserted(mine, now) ==
  [date |-> now,
   count |-> [t \in Tiers |-> IF t = 2 /\ mine THEN 0 ELSE 1],
   on |-> [t \in Tiers |-> [None EXCEPT ![0] = IF t = 2 /\ mine THEN 0 ELSE 1]]]

Lag(now, date) == IF now - date < History THEN now - date ELSE History

\* Mutant of Retry: what was read before is compared again.
RetryBlindly(c) == Goto(c, "write")

\* Sleep, and again from the clock.
Retry(c) == job' = [job EXCEPT ![c].pc = "read", ![c].now = today]

MyLag(c) == Lag(job[c].now, job[c].seen.date)
LagAbove(c) == Lag(job[c].now, job[c].seen.date0)

\* Of the two rows of the statement, which are missing, and which are as they
\* were read.
New(c) == row[Referrer(c)] = NoRow
NewAbove(c) == T0(c) # Nobody /\ row[T0(c)] = NoRow
Hit(c) ==
  /\ row[Referrer(c)] # NoRow /\ row[Referrer(c)].date = job[c].seen.date
  /\ row[Referrer(c)].on[1][0] = job[c].seen.today1
HitAbove(c) ==
  /\ T0(c) # Nobody /\ row[T0(c)] # NoRow /\ row[T0(c)].date = job[c].seen.date0
  /\ row[T0(c)].on[2][0] = job[c].seen.today2
Changes(c) == New(c) \/ NewAbove(c) \/ Hit(c) \/ HitAbove(c)

\* The clock was read before the midnight at which a row was written.
Refused(c) == NoSuchColumn(MyLag(c), LagAbove(c), job[c].age)

Upsert(c) ==
  LET j == job[c]
      lag == MyLag(c)
      lag0 == LagAbove(c)
  IN  /\ ~ Refused(c)
      /\ row' = [r \in Ids |->
           CASE r = Referrer(c) /\ New(c) -> Inserted(TRUE, j.now)
             [] r = Referrer(c) /\ Hit(c) -> Updated(row[r], TRUE, c, lag, lag0)
             [] r = T0(c) /\ NewAbove(c) -> Inserted(FALSE, j.now)
             [] r = T0(c) /\ HitAbove(c) -> Updated(row[r], FALSE, c, lag, lag0)
             [] OTHER -> row[r]]
      /\ seeded' = [r \in Ids |-> seeded[r] +
           IF (r = Referrer(c) /\ New(c) /\ j.age >= 0) \/ (r = T0(c) /\ NewAbove(c)) THEN 1 ELSE 0]
      /\ skewed' = skewed \cup
           {r \in {Referrer(c)} : Hit(c) /\ lag = 0 /\ lag0 # 0} \cup
           {r \in {T0(c)} : HitAbove(c) /\ lag0 = 0 /\ lag # 0}

\* A statement that changes no row or is refused is tried again.
IncrementOrDecrementReferralCount(c) ==
  /\ job[c].pc = "write"
  /\ \/ Changes(c) /\ Goto(c, "end") /\ Upsert(c)
     \/ /\ Refused(c) \/ ~ Changes(c)
        /\ Retry(c)
        /\ UNCHANGED <<row, seeded, skewed>>
  /\ UNCHANGED <<today, ticks, total, processed, at, faults, lost>>

\* So is one that was not applied, or was applied and not answered: Exec
\* reports 0 rows with every error.
AnswerLost(c) ==
  /\ job[c].pc = "write" /\ Fault
  /\ \/ /\ Upsert(c) /\ Changes(c)
        /\ lost' = [lost EXCEPT ![Referrer(c)] = @ + (IF job[c].age < 0 THEN 1 ELSE 0)]
     \/ UNCHANGED <<row, seeded, skewed, lost>>
  /\ Retry(c)
  /\ UNCHANGED <<today, ticks, total, processed, at>>

\* Only the end of the context or a failing read stops that; a failing INSERT
\* comes before.
Fails(c) ==
  /\ job[c].pc \in {"dedupe", "read"} /\ Fault
  /\ job' = [job EXCEPT ![c].pc = "end", ![c].failed = TRUE]
  /\ UNCHANGED <<today, ticks, tables, at>>
-----------------------------------------------------------------------------
\* A message that was processed is committed; one that failed may come again.
EndProcess(c) ==
  /\ job[c].pc = "end"
  /\ \/ /\ at' = [at EXCEPT ![c] = @ + 1]
        /\ UNCHANGED faults
     \/ job[c].failed /\ Fault /\ UNCHANGED at
  /\ job' = [job EXCEPT ![c] = IdleJob]
  /\ UNCHANGED <<today, ticks, tables>>

\* The consumer stops somewhere: its message comes again.
Crash(c) ==
  /\ job[c].pc # "idle"
  /\ Fault
  /\ job' = [job EXCEPT ![c] = IdleJob]
  /\ UNCHANGED <<today, ticks, tables, at>>

\* The offset was not committed: the last message comes again.
Redeliver(c) ==
  /\ job[c].pc = "idle" /\ at[c] > 1
  /\ Fault
  /\ at' = [at EXCEPT ![c] = @ - 1]
  /\ UNCHANGED <<today, ticks, tables, job>>

\* deleteUserReferences of a user who is being deleted.
DeleteReferralAcquisitionHistory(r) ==
  /\ row[r] # NoRow
  /\ Fault
  /\ row' = [row EXCEPT ![r] = NoRow]
  /\ skewed' = skewed \ {r}
  /\ UNCHANGED <<today, ticks, total, processed, at, job, seeded, lost>>

Midnight ==
  /\ ticks < MaxTicks
  /\ today' = today + 1 /\ ticks' = ticks + 1
  /\ UNCHANGED <<tables, at, job, faults>>

Step(c) ==
  \/ UpdateTotalUsersCount(c) \/ InsertProcessed(c) \/ GetCurrentReferralCount(c)
  \/ IncrementOrDecrementReferralCount(c) \/ EndProcess(c)

Next ==
  \/ \E c \in Consumers : Step(c) \/ AnswerLost(c) \/ Fails(c) \/ Crash(c) \/ Redeliver(c)
  \/ \E r \in Leavers : DeleteReferralAcquisitionHistory(r)
  \/ Midnight

Spec == Init /\ [][Next]_vars

\* The broker delivers, consumers run.
FairSpec == Spec /\ \A c \in Consumers : WF_vars(Step(c))
-----------------------------------------------------------------------------
\* GetReferralAcquisitionHistory: the last days as the client sees them, from
\* the clock of the reader and a row that may be days behind.
AcquisitionHistory(r, tier) ==
  LET elapsed == Lag(today, row[r].date)
  IN  [day \in Days |-> IF day < elapsed THEN 0 ELSE row[r].on[tier][day - elapsed]]

\* Messages that come again, three consumers on one row, crashes between the
\* entry and the count: nobody's referral is counted again, except by an upsert
\* whose answer was lost, once for each such answer.  Otherwise a row counts
\* one too many only for being inserted by somebody else's message.
CountedAgainOnlyIfLost ==
  \A r \in Referrers :
    row[r].count[1] <= OldRow.count[1] + seeded[r] + lost[r]
      + Cardinality({e \in processed : e[2] = r /\ ~ e[3]})

\* What a referrer none of whose referrals left is shown of the last days adds
\* up to at most the total, whatever lag the row is written and then read with,
\* unless it was shifted for the lag of the other row of the statement.
DaysWithinTotal ==
  \A r \in Referrers \ skewed :
    (\A e \in processed : ~ e[3]) =>
      LET shown == AcquisitionHistory(r, 1)
      IN  shown[0] + shown[1] + shown[2] + shown[3] + shown[4] <= row[r].count[1]

\* Without a fault every user is counted once; each fault counts or loses one.
TotalOffByFaults ==
  LET Passed(kind) == Cardinality(UNION {
        {<<c, i>> : i \in {i \in DOMAIN Feed[c] : Feed[c][i].kind = kind
           /\ (i < at[c] \/ (i = at[c] /\ job[c].pc # "idle"))}} : c \in Consumers})
      exact == Cardinality(Users) + Passed("created") - Passed("deleted")
  IN  total \in (exact - faults)..(exact + faults)

\* The optimistic update of every message ends, although nothing bounds how
\* often it is tried: a consumer starts again only because another one, a
\* midnight or a fault got ahead of it, and a column that did not exist does
\* once the clock is read again.
MessagesSettle == <>[](\A c \in Consumers : at[c] > Len(Feed[c]))
=============================================================================
