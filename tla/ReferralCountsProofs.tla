------------------------ MODULE ReferralCountsProofs ------------------------
(***************************************************************************)
(* Proofs about what the consumers of snapshots count: no referral is      *)
(* counted twice unless an answer is lost, the days of a referrer stay     *)
(* within its total, and the                                               *)
(* total of users is off by at most the faults, for any partitions,        *)
(* messages, chains of referrers, days, redeliveries and crashes.          *)
(***************************************************************************)
EXTENDS ReferralCounts, FiniteSetTheorems, TLAPS

Counters == [date : Int, count : [Tiers -> Nat], on : [Tiers -> [Days -> Nat]]]
Read == [date : Int, today1 : Nat, date0 : Int, today2 : Nat]
Work == [pc : {"idle", "dedupe", "read", "write", "end"}, failed : BOOLEAN,
         age : Int, now : Nat, seen : {<<>>} \cup Read]

\* What a consumer works on is its message, whose entry is made before it counts.
JobOK(c) ==
  /\ job[c].pc # "idle" =>
       /\ at[c] \in DOMAIN Feed[c]
       /\ IF Msg(c).kind = "deleted" THEN job[c].age \in Nat ELSE job[c].age = -1
  /\ job[c].pc \in {"read", "write"} => Entry(c) \in processed /\ job[c].now <= today
  /\ job[c].pc = "write" => job[c].seen \in Read

Shape ==
  /\ today \in Nat /\ total \in Nat /\ faults \in Nat
  /\ row \in [Ids -> Counters] /\ \A r \in Ids : row[r].date <= today
  /\ processed \subseteq Users \X Ids \X BOOLEAN /\ IsFiniteSet(processed)
  /\ at \in [Consumers -> Nat \ {0}] /\ job \in [Consumers -> Work]
  /\ \A c \in Consumers : JobOK(c)
  /\ seeded \in [Ids -> Nat] /\ lost \in [Ids -> Nat] /\ skewed \subseteq Ids
Counts(c, r) == job[c].pc \in {"read", "write"} /\ Msg(c).kind # "deleted" /\ Referrer(c) = r

\* Who has made the entry of a referral and not yet counted it; the entries.
Counting(r) == {c \in Consumers : Counts(c, r)}
Referred(r) == {e \in processed : e[2] = r /\ ~ e[3]}

CountedOnce ==
  \A r \in Referrers :
    row[r].count[1] + Cardinality(Counting(r))
      <= OldRow.count[1] + seeded[r] + lost[r] + Cardinality(Referred(r))

Shown(on) == on[0] + on[1] + on[2] + on[3] + on[4]
NobodyLeft == \A e \in processed : ~ e[3]

DaysAddUp ==
  NobodyLeft => \A r \in Referrers \ skewed : Shown(row[r].on[1]) <= row[r].count[1]

\* The messages that updateTotalUsersCount has seen, as often as they have to be.
Passing(c, i) == i < at[c] \/ (i = at[c] /\ job[c].pc # "idle")
PassedSet(kind) ==
  UNION {{<<c, i>> : i \in {i \in DOMAIN Feed[c] : Feed[c][i].kind = kind
            /\ (i < at[c] \/ (i = at[c] /\ job[c].pc # "idle"))}} : c \in Consumers}

TotalKept ==
  /\ IsFiniteSet(PassedSet("created")) /\ IsFiniteSet(PassedSet("deleted"))
  /\ TotalOffByFaults

IInv == Shape /\ CountedOnce /\ DaysAddUp /\ TotalKept
-----------------------------------------------------------------------------
LEMMA Constants ==
  /\ Nobody \in Ids /\ Referrers \subseteq Ids /\ Nobody \notin Referrers
  /\ T0Of \in [Ids -> Ids] /\ T0Of[Nobody] = Nobody /\ \A r \in Referrers : T0Of[r] # r
  /\ IsFiniteSet(Consumers) /\ IsFiniteSet(Users)
  /\ FirstDays \subseteq Nat /\ Ages \subseteq Nat
BY CountsAssumption DEF Ids

LEMMA MessageType ==
  ASSUME NEW c \in Consumers, at[c] \in DOMAIN Feed[c]
  PROVE  Msg(c) \in Snapshots /\ Entry(c) \in Users \X Ids \X BOOLEAN
<1>1. Feed[c] \in Seq(Snapshots)
  BY CountsAssumption
<1>2. Msg(c) \in Snapshots
  BY <1>1 DEF Msg
<1>3. Msg(c).user \in Users /\ Referrer(c) \in Ids /\ (Msg(c).kind = "deleted") \in BOOLEAN
  BY <1>2 DEF Snapshots, Referrer
<1> QED BY <1>2, <1>3 DEF Entry

LEMMA RowTypes == NoRow \in Counters /\ OldRow \in Counters /\ None \in [Days -> Nat]
<1>1. None \in [Days -> Nat]
  BY DEF None
<1>2. [t \in Tiers |-> 0] \in [Tiers -> Nat] /\ [t \in Tiers |-> 2] \in [Tiers -> Nat]
  OBVIOUS
<1>3. [None EXCEPT ![0] = 1, ![1] = 1] \in [Days -> Nat]
  BY <1>1
<1>4. /\ [t \in Tiers |-> None] \in [Tiers -> [Days -> Nat]]
      /\ [t \in Tiers |-> [None EXCEPT ![0] = 1, ![1] = 1]] \in [Tiers -> [Days -> Nat]]
  BY <1>1, <1>3
<1> QED BY <1>1, <1>2, <1>4 DEF NoRow, OldRow, Counters

LEMMA IdleWork == IdleJob \in Work /\ IdleJob.pc = "idle"
BY DEF IdleJob, Work

LEMMA LagIs ==
  ASSUME NEW now \in Int, NEW date \in Int
  PROVE  Lag(now, date) = IF now - date <= History THEN now - date ELSE History
BY DEF Lag, History
-----------------------------------------------------------------------------
(* The statement that shifts the days.                                     *)

LEMMA Floors ==
  ASSUME NEW n \in Nat, NEW age \in Int
  PROVE  /\ Greatest(n) = n /\ Greatest(n - 1) \in Nat /\ Greatest(n - 1) <= n
         /\ Changed(n, age) \in Nat /\ ChangedToday(n, age) \in Nat
         /\ age = -1 => Changed(n, age) = n + 1 /\ ChangedToday(n, age) = n + 1
         /\ age >= 0 => Changed(n, age) <= n
BY DEF Greatest, Changed, ChangedToday

\* A day is left, empty, or takes that of a column.
LEMMA SourceIs ==
  ASSUME NEW mine \in BOOLEAN, NEW i \in 1..(History - 1), NEW lag \in Int, NEW lag0 \in Int,
         NEW age \in Int, ~ NoSuchColumn(lag, lag0, age)
  PROVE  Source(mine, i, lag, lag0, age) \in Days \cup {Unchanged, Zero}
<1>1. Source(mine, i, lag, lag0, age) < History
  <2>1. Source(mine, i, lag, lag0, age) \in Int
    BY DEF Source, TargetField, Unchanged, Zero, History
  <2> QED BY <2>1 DEF NoSuchColumn, History
<1>2. /\ TargetField(i, lag, age) \in Int /\ TargetField(i, lag0, age) \in Int
      /\ \/ TargetField(i, lag, age) \in {Unchanged, Zero}
         \/ TargetField(i, lag, age) >= 0
      /\ \/ TargetField(i, lag0, age) \in {Unchanged, Zero}
         \/ TargetField(i, lag0, age) >= 0
  BY DEF TargetField, History, Unchanged, Zero
<1>3. PICK f, f0 : f = TargetField(i, lag, age) /\ f0 = TargetField(i, lag0, age)
  OBVIOUS
<1>4. Source(mine, i, lag, lag0, age) \in {f, f0}
  BY <1>3 DEF Source
<1> QED BY <1>1, <1>2, <1>3, <1>4 DEF Days, History

LEMMA ShiftedType ==
  ASSUME NEW on \in [Days -> Nat], NEW mine \in BOOLEAN, NEW lag \in Int, NEW lag0 \in Int,
         NEW age \in Int, ~ NoSuchColumn(lag, lag0, age)
  PROVE  Shifted(on, mine, lag, lag0, age) \in [Days -> Nat]
<1>1. ASSUME NEW i \in Days
      PROVE  LET s == Source(mine, i, lag, lag0, age)
                 value == IF s = Unchanged THEN on[i] ELSE IF s = Zero THEN 0 ELSE on[s]
             IN  (IF i = 0 THEN on[0]
                  ELSE IF s # Unchanged /\ i = age THEN Greatest(value - 1) ELSE value) \in Nat
  <2>1. CASE i = 0
    BY <2>1 DEF Days, History
  <2>2. CASE i # 0
    <3>1. i \in 1..(History - 1)
      BY <2>2 DEF Days, History
    <3>2. PICK s \in Days \cup {Unchanged, Zero} : s = Source(mine, i, lag, lag0, age)
      BY <3>1, SourceIs
    <3>3. PICK v : v = IF s = Unchanged THEN on[i] ELSE IF s = Zero THEN 0 ELSE on[s]
      OBVIOUS
    <3>4. v \in Nat
      BY <3>3
    <3>5. Greatest(v - 1) \in Nat
      BY <3>4, Floors
    <3> QED BY <2>2, <3>2, <3>3, <3>4, <3>5
  <2> QED BY <2>1, <2>2
<1> QED BY <1>1 DEF Shifted

\* A row that is written with its own lag keeps its days, as many as are left.
LEMMA ShiftedDays ==
  ASSUME NEW on \in [Days -> Nat], NEW mine \in BOOLEAN, NEW lag \in Int, NEW lag0 \in Int,
         ~ NoSuchColumn(lag, lag0, -1), NEW own, own = (IF mine THEN lag ELSE lag0),
         own # 0 \/ (lag = 0 /\ lag0 = 0), own <= History
  PROVE  /\ own \in 0..History
         /\ \A i \in 1..(History - 1) :
              Shifted(on, mine, lag, lag0, -1)[i] = IF i < own THEN 0 ELSE on[i - own]
<1>1. ASSUME NEW i \in 1..(History - 1)
      PROVE  Source(mine, i, lag, lag0, -1)
               = IF own = 0 THEN Unchanged ELSE IF i < own THEN Zero ELSE i - own
  BY <1>1 DEF Source, TargetField, History, Unchanged, Zero
<1>2. own \in 0..History
  <2>1. CASE own < 0
    <3>1. History - 1 \in 1..(History - 1)
      BY DEF History
    <3>2. Source(mine, History - 1, lag, lag0, -1) = History - 1 - own
      BY <1>1, <2>1, <3>1 DEF History
    <3>3. History - 1 - own >= History
      BY <2>1 DEF History
    <3> QED BY <3>1, <3>2, <3>3 DEF NoSuchColumn
  <2> QED BY <2>1 DEF History
<1>3. ASSUME NEW i \in 1..(History - 1)
      PROVE  Shifted(on, mine, lag, lag0, -1)[i] = IF i < own THEN 0 ELSE on[i - own]
  <2>1. i \in Days /\ i # 0 /\ i # -1 /\ i \in Int
    BY DEF Days, History
  <2>2. PICK s : s = Source(mine, i, lag, lag0, -1)
    OBVIOUS
  <2>3. Shifted(on, mine, lag, lag0, -1)[i]
          = IF s = Unchanged THEN on[i] ELSE IF s = Zero THEN 0 ELSE on[s]
    BY <2>1, <2>2 DEF Shifted
  <2>4. s = IF own = 0 THEN Unchanged ELSE IF i < own THEN Zero ELSE i - own
    BY <1>1, <2>2
  <2>5. CASE own = 0
    BY <2>1, <2>3, <2>4, <2>5
  <2>6. CASE own # 0
    BY <1>2, <2>1, <2>3, <2>4, <2>6 DEF Unchanged, Zero
  <2> QED BY <2>5, <2>6
<1> QED BY <1>2, <1>3

\* Days that move towards the past do not add up to more.
LEMMA ShiftSum ==
  ASSUME NEW on \in [Days -> Nat], NEW lag \in 0..History, NEW s,
         \A i \in 1..(History - 1) : s[i] = IF i < lag THEN 0 ELSE on[i - lag]
  PROVE  /\ s[1] + s[2] + s[3] + s[4] \in Nat
         /\ lag = 0 => s[1] + s[2] + s[3] + s[4] = Shown(on) - on[0]
         /\ lag # 0 => s[1] + s[2] + s[3] + s[4] <= Shown(on)
         /\ Shown(on) \in Nat /\ on[0] \in Nat
<1>1. /\ on[0] \in Nat /\ on[1] \in Nat /\ on[2] \in Nat /\ on[3] \in Nat /\ on[4] \in Nat
  BY DEF Days, History
<1>2. /\ s[1] = IF 1 < lag THEN 0 ELSE on[1 - lag]
      /\ s[2] = IF 2 < lag THEN 0 ELSE on[2 - lag]
      /\ s[3] = IF 3 < lag THEN 0 ELSE on[3 - lag]
      /\ s[4] = IF 4 < lag THEN 0 ELSE on[4 - lag]
  BY DEF History
<1>3. lag \in {0, 1, 2, 3, 4, 5}
  BY DEF History
<1>4. CASE lag = 0
  BY <1>1, <1>2, <1>4 DEF Shown
<1>5. CASE lag = 1
  BY <1>1, <1>2, <1>5 DEF Shown
<1>6. CASE lag = 2
  BY <1>1, <1>2, <1>6 DEF Shown
<1>7. CASE lag = 3
  BY <1>1, <1>2, <1>7 DEF Shown
<1>8. CASE lag = 4
  BY <1>1, <1>2, <1>8 DEF Shown
<1>9. CASE lag = 5
  BY <1>1, <1>2, <1>9 DEF Shown
<1> QED BY <1>3, <1>4, <1>5, <1>6, <1>7, <1>8, <1>9
-----------------------------------------------------------------------------
(* The rows that the statement writes.                                     *)

LEMMA InsertedIs ==
  ASSUME NEW mine \in BOOLEAN, NEW now \in Nat
  PROVE  LET i == Inserted(mine, now)
         IN  /\ i \in Counters /\ i.date = now /\ i.count[1] = 1
             /\ Shown(i.on[1]) = 1
<1>1. \A n \in Nat : [None EXCEPT ![0] = n] \in [Days -> Nat]
  BY RowTypes
<1>2. [t \in Tiers |-> IF t = 2 /\ mine THEN 0 ELSE 1] \in [Tiers -> Nat]
  OBVIOUS
<1>3. [t \in Tiers |-> [None EXCEPT ![0] = IF t = 2 /\ mine THEN 0 ELSE 1]]
        \in [Tiers -> [Days -> Nat]]
  BY <1>1
<1>4. 1 \in Tiers
  BY DEF Tiers
<1>5. Inserted(mine, now).on[1] = [None EXCEPT ![0] = 1]
  BY <1>4 DEF Inserted
<1>6. Shown([None EXCEPT ![0] = 1]) = 1
  BY DEF Shown, None, Days, History
<1> QED BY <1>2, <1>3, <1>4, <1>5, <1>6 DEF Inserted, Counters

LEMMA UpdatedType ==
  ASSUME NEW r \in Counters, NEW mine \in BOOLEAN, NEW c, job[c] \in Work,
         NEW lag \in Int, NEW lag0 \in Int, ~ NoSuchColumn(lag, lag0, job[c].age)
  PROVE  LET u == Updated(r, mine, c, lag, lag0)
         IN  /\ u \in Counters /\ u.date = job[c].now
             /\ u.count[1] = IF mine THEN Changed(r.count[1], job[c].age) ELSE r.count[1]
<1>1. PICK now, age : now = job[c].now /\ age = job[c].age
  OBVIOUS
<1>2. now \in Nat /\ age \in Int
  BY <1>1 DEF Work
<1>3. /\ r.count \in [Tiers -> Nat] /\ r.on \in [Tiers -> [Days -> Nat]]
      /\ 1 \in Tiers /\ 2 \in Tiers /\ 0 \in Days
  BY DEF Counters, Tiers, Days, History
<1>4. PICK tier \in Tiers : tier = IF mine THEN 1 ELSE 2
  BY <1>3
<1>5. \A t \in Tiers : Today(r, t, now) \in Nat /\ ChangedToday(Today(r, t, now), age) \in Nat
  <2> SUFFICES ASSUME NEW t \in Tiers
               PROVE  Today(r, t, now) \in Nat /\ ChangedToday(Today(r, t, now), age) \in Nat
    OBVIOUS
  <2>1. Today(r, t, now) \in Nat
    BY <1>3 DEF Today
  <2> QED BY <1>2, <2>1, Floors
<1>6. \A t \in Tiers : Shifted(r.on[t], mine, lag, lag0, age) \in [Days -> Nat]
  BY <1>1, <1>2, <1>3, ShiftedType
<1>7. [t \in Tiers |->
         [Shifted(r.on[t], mine, lag, lag0, age) EXCEPT ![0] =
            IF t = tier THEN ChangedToday(Today(r, t, now), age) ELSE Today(r, t, now)]]
        \in [Tiers -> [Days -> Nat]]
  BY <1>5, <1>6
<1>8. Changed(r.count[tier], age) \in Nat
  BY <1>2, <1>3, Floors
<1>9. /\ [r.count EXCEPT ![tier] = Changed(r.count[tier], age)] \in [Tiers -> Nat]
      /\ [r.count EXCEPT ![tier] = Changed(r.count[tier], age)][1]
           = IF mine THEN Changed(r.count[1], age) ELSE r.count[1]
  BY <1>3, <1>4, <1>8
<1> QED BY <1>1, <1>2, <1>4, <1>7, <1>9 DEF Updated, Counters

\* Its own lag: what the row is written with adds up as before, and one more
\* in the referrer's row.
LEMMA UpdatedDays ==
  ASSUME NEW r \in Counters, NEW mine \in BOOLEAN, NEW c, job[c] \in Work, job[c].age = -1,
         NEW lag \in Int, NEW lag0 \in Int, ~ NoSuchColumn(lag, lag0, -1),
         NEW own, own = (IF mine THEN lag ELSE lag0), own = Lag(job[c].now, r.date),
         own # 0 \/ (lag = 0 /\ lag0 = 0), Shown(r.on[1]) <= r.count[1]
  PROVE  LET u == Updated(r, mine, c, lag, lag0)
         IN  Shown(u.on[1]) <= u.count[1]
<1>1. PICK now : now = job[c].now
  OBVIOUS
<1>2. now \in Nat
  BY <1>1 DEF Work
<1>3. /\ r.count[1] \in Nat /\ r.on[1] \in [Days -> Nat] /\ r.date \in Int
      /\ 1 \in Tiers /\ 0 \in Days
  BY DEF Counters, Tiers, Days, History
<1>4. PICK s : s = Shifted(r.on[1], mine, lag, lag0, -1)
  OBVIOUS
<1>5. own = IF now - r.date <= History THEN now - r.date ELSE History
  <2>1. now \in Int
    BY <1>2
  <2>2. Lag(now, r.date) = IF now - r.date <= History THEN now - r.date ELSE History
    BY <2>1, <1>3, LagIs
  <2> QED BY <1>1, <2>2
<1>6. own <= History
  BY <1>2, <1>3, <1>5 DEF History
<1>7. own \in 0..History /\ \A i \in 1..(History - 1) :
        s[i] = IF i < own THEN 0 ELSE r.on[1][i - own]
  BY <1>3, <1>4, <1>6, ShiftedDays
<1>8. PICK rest : rest = s[1] + s[2] + s[3] + s[4]
  OBVIOUS
<1>9. /\ rest \in Nat /\ Shown(r.on[1]) \in Nat /\ r.on[1][0] \in Nat
      /\ own = 0 => rest = Shown(r.on[1]) - r.on[1][0]
      /\ own # 0 => rest <= Shown(r.on[1])
  BY <1>3, <1>7, <1>8, ShiftSum
<1>10. PICK first : first = Today(r, 1, now)
  OBVIOUS
<1>11. first = IF own = 0 THEN r.on[1][0] ELSE 0
  BY <1>2, <1>3, <1>5, <1>10 DEF Today, History
<1>12. first + rest <= Shown(r.on[1])
  BY <1>9, <1>11
<1>13. PICK today1 : today1 = IF mine THEN ChangedToday(first, -1) ELSE first
  OBVIOUS
<1>14. today1 = IF mine THEN first + 1 ELSE first
  <2>1. first \in Nat
    BY <1>9, <1>11
  <2>2. ChangedToday(first, -1) = first + 1
    BY <2>1 DEF ChangedToday, Changed
  <2> QED BY <1>13, <2>2
<1>15. PICK u : u = Updated(r, mine, c, lag, lag0)
  OBVIOUS
<1>16. s \in [Days -> Nat]
  BY <1>3, <1>4, ShiftedType
<1>17. u.on[1] = [s EXCEPT ![0] = today1]
  BY <1>1, <1>3, <1>4, <1>10, <1>13, <1>15 DEF Updated
<1>18. Shown(u.on[1]) = today1 + rest
  BY <1>8, <1>9, <1>11, <1>14, <1>16, <1>17 DEF Shown, Days, History
<1>19. u.count[1] = IF mine THEN r.count[1] + 1 ELSE r.count[1]
  BY <1>3, <1>15, UpdatedType, Floors
<1> QED BY <1>3, <1>9, <1>11, <1>12, <1>14, <1>15, <1>18, <1>19
-----------------------------------------------------------------------------
(* What a step of a consumer has to show.  It goes on as w, at k.          *)

LEMMA CountingFinite == \A r : IsFiniteSet(Counting(r)) /\ Cardinality(Counting(r)) \in Nat
<1> SUFFICES ASSUME NEW r
             PROVE  IsFiniteSet(Counting(r)) /\ Cardinality(Counting(r)) \in Nat
  OBVIOUS
<1>1. IsFiniteSet(Consumers) /\ Counting(r) \subseteq Consumers
  BY Constants DEF Counting
<1>2. IsFiniteSet(Counting(r))
  BY <1>1, FS_Subset
<1> QED BY <1>2, FS_CardinalityType

LEMMA ReferredFinite ==
  ASSUME IsFiniteSet(processed)
  PROVE  \A r : IsFiniteSet(Referred(r)) /\ Cardinality(Referred(r)) \in Nat
<1> SUFFICES ASSUME NEW r
             PROVE  IsFiniteSet(Referred(r)) /\ Cardinality(Referred(r)) \in Nat
  OBVIOUS
<1>1. Referred(r) \subseteq processed
  BY DEF Referred
<1>2. IsFiniteSet(Referred(r))
  BY <1>1, FS_Subset
<1> QED BY <1>2, FS_CardinalityType

Moves(c, w, k) ==
  /\ job' = [job EXCEPT ![c] = w] /\ at' = [at EXCEPT ![c] = k]
  /\ w \in Work /\ k \in Nat \ {0}

LEMMA MovedJobs ==
  ASSUME Shape, NEW c \in Consumers, NEW w, NEW k, Moves(c, w, k)
  PROVE  /\ job' \in [Consumers -> Work] /\ at' \in [Consumers -> Nat \ {0}]
         /\ job'[c] = w /\ at'[c] = k
         /\ \A d \in Consumers \ {c} : job'[d] = job[d] /\ at'[d] = at[d]
BY DEF Shape, Moves

\* The job of c is right again, and the others are not concerned.
LEMMA JobsKept ==
  ASSUME Shape, NEW c \in Consumers, NEW w, NEW k, Moves(c, w, k), JobOK(c)',
         processed \subseteq processed', today' = today
  PROVE  \A d \in Consumers : JobOK(d)'
<1>1. \A d \in Consumers \ {c} : job'[d] = job[d] /\ at'[d] = at[d]
  BY MovedJobs
<1>2. ASSUME NEW d \in Consumers \ {c}
      PROVE  JobOK(d)'
  <2>1. JobOK(d)
    BY DEF Shape
  <2> QED BY <1>1, <2>1 DEF JobOK, Entry, Msg, Referrer
<1> QED BY <1>2

\* Who moves on joins or leaves the consumers that count for r; nobody else.
LEMMA CountingMoved ==
  ASSUME Shape, NEW c \in Consumers, NEW w, NEW k, Moves(c, w, k), NEW r
  PROVE  /\ Cardinality(Counting(r)) \in Nat /\ Cardinality(Counting(r)') \in Nat
         /\ (Counts(c, r)' <=> Counts(c, r)) => Cardinality(Counting(r)') = Cardinality(Counting(r))
         /\ Counts(c, r)' /\ ~ Counts(c, r)
              => Cardinality(Counting(r)') = Cardinality(Counting(r)) + 1
         /\ ~ Counts(c, r)' /\ Counts(c, r)
              => Cardinality(Counting(r)') = Cardinality(Counting(r)) - 1
<1>1. \A d \in Consumers \ {c} : job'[d] = job[d] /\ at'[d] = at[d]
  BY MovedJobs
<1>2. \A d \in Consumers \ {c} : Counts(d, r)' <=> Counts(d, r)
  BY <1>1 DEF Counts, Msg, Referrer
<1>3. PICK A, B : A = Counting(r) /\ B = Counting(r)'
  OBVIOUS
<1>4. /\ A \ {c} = B \ {c} /\ A \subseteq Consumers /\ B \subseteq Consumers
      /\ c \in A <=> Counts(c, r)
      /\ c \in B <=> Counts(c, r)'
  BY <1>2, <1>3 DEF Counting
<1>5. IsFiniteSet(A) /\ IsFiniteSet(B)
  BY <1>4, Constants, FS_Subset
<1>6. Cardinality(A) \in Nat /\ Cardinality(B) \in Nat
  BY <1>5, FS_CardinalityType
<1>7. c \in A /\ c \notin B => B = A \ {c}
  BY <1>4
<1>8. c \notin A /\ c \in B => B = A \cup {c}
  BY <1>4
<1>9. (c \in A <=> c \in B) => A = B
  BY <1>4
<1>10. c \in A => Cardinality(A \ {c}) = Cardinality(A) - 1
  BY <1>5, FS_RemoveElement
<1>11. c \notin A => Cardinality(A \cup {c}) = Cardinality(A) + 1
  BY <1>5, FS_AddElement
<1> QED BY <1>3, <1>4, <1>6, <1>7, <1>8, <1>9, <1>10, <1>11

\* A step that writes no table.
LEMMA CountsKept ==
  ASSUME Shape, CountedOnce, DaysAddUp, NEW c \in Consumers, NEW w, NEW k, Moves(c, w, k),
         w.pc \in {"read", "write"} => job[c].pc \in {"read", "write"} /\ k = at[c],
         UNCHANGED <<row, processed, seeded, lost, skewed>>
  PROVE  CountedOnce' /\ DaysAddUp'
<1>1. DaysAddUp'
  BY DEF DaysAddUp, NobodyLeft
<1>2. ASSUME NEW r \in Referrers
      PROVE  row'[r].count[1] + Cardinality(Counting(r)')
               <= OldRow.count[1] + seeded'[r] + lost'[r] + Cardinality(Referred(r)')
  <2>1. Counts(c, r)' => Counts(c, r)
    BY MovedJobs DEF Counts, Msg, Referrer
  <2>2. /\ Cardinality(Counting(r)') <= Cardinality(Counting(r))
        /\ Cardinality(Counting(r)') \in Nat /\ Cardinality(Counting(r)) \in Nat
    BY <2>1, CountingMoved
  <2>3. Referred(r)' = Referred(r)
    BY DEF Referred
  <2>4. Cardinality(Referred(r)) \in Nat
    BY ReferredFinite DEF Shape
  <2>5. row[r].count[1] \in Nat /\ OldRow.count[1] \in Nat /\ seeded[r] \in Nat /\ lost[r] \in Nat
    BY Constants, RowTypes DEF Shape, Counters, Tiers
  <2>6. row[r].count[1] + Cardinality(Counting(r))
          <= OldRow.count[1] + seeded[r] + lost[r] + Cardinality(Referred(r))
    BY DEF CountedOnce
  <2> QED BY <2>2, <2>3, <2>4, <2>5, <2>6
<1> QED BY <1>1, <1>2 DEF CountedOnce
-----------------------------------------------------------------------------
(* The users in total.                                                     *)

LEMMA PassedIs ==
  ASSUME NEW kind
  PROVE  \A x : x \in PassedSet(kind) <=>
           \E c \in Consumers : \E i \in DOMAIN Feed[c] :
             x = <<c, i>> /\ Feed[c][i].kind = kind /\ Passing(c, i)
BY DEF PassedSet, Passing

\* What has passed of the other partitions stays.
LEMMA PassedMoved ==
  ASSUME Shape, NEW c \in Consumers, NEW w, NEW k, Moves(c, w, k), NEW kind
  PROVE  /\ (\A i \in Nat : Passing(c, i)' <=> Passing(c, i))
              => PassedSet(kind)' = PassedSet(kind)
         /\ \A n \in Nat : (\A i \in Nat : Passing(c, i)' <=> Passing(c, i) \/ i = n)
              => PassedSet(kind)' = IF n \in DOMAIN Feed[c] /\ Feed[c][n].kind = kind
                                    THEN PassedSet(kind) \cup {<<c, n>>} ELSE PassedSet(kind)
         /\ \A n \in Nat : (\A i \in Nat : Passing(c, i)' <=> Passing(c, i) /\ i # n)
              => PassedSet(kind)' = PassedSet(kind) \ {<<c, n>>}
<1>1. \A d \in Consumers \ {c}, i \in Nat : Passing(d, i)' <=> Passing(d, i)
  BY MovedJobs DEF Passing
<1>2. \A d \in Consumers : DOMAIN Feed[d] \subseteq Nat
  BY CountsAssumption
<1>3. \A x : x \in PassedSet(kind) <=>
        \E d \in Consumers : \E i \in DOMAIN Feed[d] :
          x = <<d, i>> /\ Feed[d][i].kind = kind /\ Passing(d, i)
  BY PassedIs
<1>4. \A x : x \in PassedSet(kind)' <=>
        \E d \in Consumers : \E i \in DOMAIN Feed[d] :
          x = <<d, i>> /\ Feed[d][i].kind = kind /\ Passing(d, i)'
  BY DEF PassedSet, Passing
<1>5. PICK A, B : A = PassedSet(kind) /\ B = PassedSet(kind)'
  OBVIOUS
<1>6. ASSUME \A i \in Nat : Passing(c, i)' <=> Passing(c, i)
      PROVE  B = A
  <2>1. \A d \in Consumers, i \in Nat : Passing(d, i)' <=> Passing(d, i)
    BY <1>1, <1>6
  <2>2. \A x : x \in B <=> x \in A
    BY <1>2, <1>3, <1>4, <1>5, <2>1
  <2> QED BY <2>2
<1>7. ASSUME NEW n \in Nat, \A i \in Nat : Passing(c, i)' <=> Passing(c, i) \/ i = n
      PROVE  B = IF n \in DOMAIN Feed[c] /\ Feed[c][n].kind = kind
                 THEN A \cup {<<c, n>>} ELSE A
  <2>1. \A d \in Consumers, i \in Nat :
          Passing(d, i)' <=> Passing(d, i) \/ (d = c /\ i = n)
    BY <1>1, <1>7
  <2>2. \A x : x \in B <=> x \in A
             \/ (x = <<c, n>> /\ n \in DOMAIN Feed[c] /\ Feed[c][n].kind = kind)
    <3> SUFFICES ASSUME NEW x
                 PROVE  x \in B <=> x \in A
                          \/ (x = <<c, n>> /\ n \in DOMAIN Feed[c] /\ Feed[c][n].kind = kind)
      OBVIOUS
    <3>1. x \in B => x \in A
             \/ (x = <<c, n>> /\ n \in DOMAIN Feed[c] /\ Feed[c][n].kind = kind)
      BY <1>2, <1>3, <1>4, <1>5, <2>1
    <3>2. x \in A => x \in B
      BY <1>2, <1>3, <1>4, <1>5, <2>1
    <3>3. (x = <<c, n>>) /\ n \in DOMAIN Feed[c] /\ Feed[c][n].kind = kind => x \in B
      BY <1>4, <1>5, <2>1
    <3> QED BY <3>1, <3>2, <3>3
  <2>3. CASE n \in DOMAIN Feed[c] /\ Feed[c][n].kind = kind
    <3>1. B = A \cup {<<c, n>>}
      BY <2>2, <2>3
    <3> QED BY <2>3, <3>1
  <2>4. CASE ~ (n \in DOMAIN Feed[c] /\ Feed[c][n].kind = kind)
    <3>1. B = A
      BY <2>2, <2>4
    <3> QED BY <2>4, <3>1
  <2> QED BY <2>3, <2>4
<1>8. ASSUME NEW n \in Nat, \A i \in Nat : Passing(c, i)' <=> Passing(c, i) /\ i # n
      PROVE  B = A \ {<<c, n>>}
  <2>1. \A d \in Consumers, i \in Nat :
          Passing(d, i)' <=> Passing(d, i) /\ ~ (d = c /\ i = n)
    BY <1>1, <1>8
  <2>2. \A x : x \in B <=> x \in A /\ x # <<c, n>>
    <3> SUFFICES ASSUME NEW x
                 PROVE  x \in B <=> x \in A /\ x # <<c, n>>
      OBVIOUS
    <3>1. \A d, i : x = <<d, i>> => (x = <<c, n>> <=> d = c /\ i = n)
      OBVIOUS
    <3>2. x \in B => x \in A /\ x # <<c, n>>
      BY <1>2, <1>3, <1>4, <1>5, <2>1, <3>1
    <3>3. x \in A /\ x # <<c, n>> => x \in B
      BY <1>2, <1>3, <1>4, <1>5, <2>1, <3>1
    <3> QED BY <3>2, <3>3
  <2> QED BY <2>2
<1> QED BY <1>5, <1>6, <1>7, <1>8

\* As a user leaves once, no more leave than there were.
LEMMA FewLeave ==
  ASSUME NEW S,
         \A x \in S : \E c \in Consumers : \E i \in DOMAIN Feed[c] :
           x = <<c, i>> /\ Feed[c][i].kind = "deleted"
  PROVE  Cardinality(S) <= Cardinality(Users)
<1>1. PICK f : f = [x \in S |-> Feed[x[1]][x[2]].user]
  OBVIOUS
<1>2. \A c \in Consumers : \A i \in DOMAIN Feed[c] : Feed[c][i].user \in Users
  <2> SUFFICES ASSUME NEW c \in Consumers, NEW i \in DOMAIN Feed[c]
               PROVE  Feed[c][i].user \in Users
    OBVIOUS
  <2>1. Feed[c] \in Seq(Snapshots)
    BY CountsAssumption
  <2>2. Feed[c][i] \in Snapshots
    BY <2>1
  <2> QED BY <2>2 DEF Snapshots
<1>3. f \in [S -> Users]
  BY <1>1, <1>2
<1>4. \A x, y \in S : f[x] = f[y] => x = y
  <2> SUFFICES ASSUME NEW x \in S, NEW y \in S, f[x] = f[y]
               PROVE  x = y
    OBVIOUS
  <2>1. PICK c \in Consumers : \E i \in DOMAIN Feed[c] : x = <<c, i>> /\ Feed[c][i].kind = "deleted"
    OBVIOUS
  <2>2. PICK i \in DOMAIN Feed[c] : x = <<c, i>> /\ Feed[c][i].kind = "deleted"
    BY <2>1
  <2>3. PICK d \in Consumers : \E j \in DOMAIN Feed[d] : y = <<d, j>> /\ Feed[d][j].kind = "deleted"
    OBVIOUS
  <2>4. PICK j \in DOMAIN Feed[d] : y = <<d, j>> /\ Feed[d][j].kind = "deleted"
    BY <2>3
  <2>5. f[x] = Feed[c][i].user /\ f[y] = Feed[d][j].user
    BY <1>1, <2>2, <2>4
  <2>6. c = d /\ i = j
    BY <2>2, <2>4, <2>5, CountsAssumption
  <2> QED BY <2>2, <2>4, <2>6
<1>5. f \in Injection(S, Users)
  BY <1>3, <1>4 DEF Injection, IsInjective
<1> QED BY <1>5, Constants, FS_Injection

LEMMA PassedCounts ==
  ASSUME NEW S, NEW T, NEW x, IsFiniteSet(S), T \in {S, S \cup {x}, S \ {x}}
  PROVE  /\ IsFiniteSet(T) /\ Cardinality(S) \in Nat /\ Cardinality(T) \in Nat
         /\ x \in S => Cardinality(S \ {x}) = Cardinality(S) - 1
         /\ x \notin S => S \ {x} = S
         /\ x \notin S => Cardinality(S \cup {x}) = Cardinality(S) + 1
<1>1. IsFiniteSet(S \cup {x}) /\ IsFiniteSet(S \ {x})
  BY FS_AddElement, FS_RemoveElement
<1>2. IsFiniteSet(T)
  BY <1>1
<1>3. Cardinality(S) \in Nat /\ Cardinality(T) \in Nat
  BY <1>2, FS_CardinalityType
<1>4. x \in S => Cardinality(S \ {x}) = Cardinality(S) - 1
  BY FS_RemoveElement
<1>5. x \notin S => Cardinality(S \cup {x}) = Cardinality(S) + 1
  BY FS_AddElement
<1> QED BY <1>2, <1>3, <1>4, <1>5

\* What is one message of total and faults, as it is what the message says.
LEMMA TotalIs ==
  TotalOffByFaults <=>
    LET exact == Cardinality(Users) + Cardinality(PassedSet("created"))
                   - Cardinality(PassedSet("deleted"))
    IN  total \in (exact - faults)..(exact + faults)
BY DEF TotalOffByFaults, PassedSet

LEMMA TotalIsNext ==
  TotalOffByFaults' <=>
    LET exact == Cardinality(Users) + Cardinality(PassedSet("created")')
                   - Cardinality(PassedSet("deleted")')
    IN  total' \in (exact - faults')..(exact + faults')
BY DEF TotalOffByFaults, PassedSet

\* No message passes; a fault only widens what is allowed.
LEMMA TotalSame ==
  ASSUME Shape, TotalKept, NEW c \in Consumers, NEW w, NEW k, Moves(c, w, k),
         \A i \in Nat : Passing(c, i)' <=> Passing(c, i),
         total' = total, faults' \in {faults, faults + 1}
  PROVE  TotalKept'
<1>1. PICK C, D : C = PassedSet("created") /\ D = PassedSet("deleted")
  OBVIOUS
<1>2. PassedSet("created")' = C /\ PassedSet("deleted")' = D
  BY <1>1, PassedMoved
<1>3. IsFiniteSet(C) /\ IsFiniteSet(D)
  BY <1>1 DEF TotalKept
<1>4. /\ Cardinality(C) \in Nat /\ Cardinality(D) \in Nat /\ Cardinality(Users) \in Nat
      /\ total \in Nat /\ faults \in Nat
  BY <1>3, Constants, FS_CardinalityType DEF Shape
<1>5. LET exact == Cardinality(Users) + Cardinality(C) - Cardinality(D)
      IN  total \in (exact - faults)..(exact + faults)
  BY <1>1, TotalIs DEF TotalKept
<1>6. LET exact == Cardinality(Users) + Cardinality(C) - Cardinality(D)
      IN  total' \in (exact - faults')..(exact + faults')
  BY <1>4, <1>5
<1>7. TotalOffByFaults'
  BY <1>2, <1>6, TotalIsNext
<1> QED BY <1>2, <1>3, <1>7 DEF TotalKept

\* A message that comes again has not passed any more; that is one fault.
LEMMA TotalAgain ==
  ASSUME Shape, TotalKept, NEW c \in Consumers, NEW w, NEW k, Moves(c, w, k), NEW n \in Nat,
         \A i \in Nat : Passing(c, i)' <=> Passing(c, i) /\ i # n,
         total' = total, faults' = faults + 1
  PROVE  TotalKept'
<1>1. PICK C, D, E, F : C = PassedSet("created") /\ D = PassedSet("deleted")
                      /\ E = PassedSet("created")' /\ F = PassedSet("deleted")'
  OBVIOUS
<1>2. E = C \ {<<c, n>>} /\ F = D \ {<<c, n>>}
  BY <1>1, PassedMoved
<1>3. IsFiniteSet(C) /\ IsFiniteSet(D)
  BY <1>1 DEF TotalKept
<1>4. ~ (<<c, n>> \in C /\ <<c, n>> \in D)
  <2>1. \A kind : <<c, n>> \in PassedSet(kind) => Feed[c][n].kind = kind
    BY PassedIs
  <2> QED BY <1>1, <2>1
<1>5. /\ IsFiniteSet(E) /\ Cardinality(C) \in Nat /\ Cardinality(E) \in Nat
      /\ <<c, n>> \in C => Cardinality(E) = Cardinality(C) - 1
      /\ <<c, n>> \notin C => E = C
  BY <1>2, <1>3, PassedCounts
<1>6. /\ IsFiniteSet(F) /\ Cardinality(D) \in Nat /\ Cardinality(F) \in Nat
      /\ <<c, n>> \in D => Cardinality(F) = Cardinality(D) - 1
      /\ <<c, n>> \notin D => F = D
  BY <1>2, <1>3, PassedCounts
<1>7. total \in Nat /\ faults \in Nat /\ Cardinality(Users) \in Nat
  BY Constants, FS_CardinalityType DEF Shape
<1>8. LET exact == Cardinality(Users) + Cardinality(C) - Cardinality(D)
      IN  total \in (exact - faults)..(exact + faults)
  BY <1>1, TotalIs DEF TotalKept
<1>9. LET exact == Cardinality(Users) + Cardinality(E) - Cardinality(F)
      IN  total' \in (exact - faults')..(exact + faults')
  BY <1>4, <1>5, <1>6, <1>7, <1>8
<1>10. TotalOffByFaults'
  BY <1>1, <1>9, TotalIsNext
<1> QED BY <1>1, <1>5, <1>6, <1>10 DEF TotalKept

\* A new message passes: total says what the message says, or that is a fault.
LEMMA TotalAdded ==
  ASSUME Shape, TotalKept, NEW c \in Consumers, NEW w, NEW k, Moves(c, w, k),
         at[c] \in DOMAIN Feed[c], job[c].pc = "idle",
         \A i \in Nat : Passing(c, i)' <=> Passing(c, i) \/ i = at[c],
         \/ total' = TotalAfter(Msg(c)) /\ faults' = faults
         \/ total' \in {total, TotalAfter(Msg(c))} /\ faults' = faults + 1
  PROVE  TotalKept' /\ total' \in Nat
<1>1. PICK C, D, E, F : C = PassedSet("created") /\ D = PassedSet("deleted")
                      /\ E = PassedSet("created")' /\ F = PassedSet("deleted")'
  OBVIOUS
<1>2. PICK x, kind : x = <<c, at[c]>> /\ kind = Msg(c).kind
  OBVIOUS
<1>3. /\ E = IF kind = "created" THEN C \cup {x} ELSE C
      /\ F = IF kind = "deleted" THEN D \cup {x} ELSE D
  <2>1. at[c] \in Nat
    BY DEF Shape
  <2> QED BY <1>1, <1>2, <2>1, PassedMoved DEF Msg
<1>4. IsFiniteSet(C) /\ IsFiniteSet(D)
  BY <1>1 DEF TotalKept
<1>5. x \notin C /\ x \notin D
  <2>1. at[c] \in Nat /\ ~ Passing(c, at[c])
    BY DEF Shape, Passing
  <2> QED BY <1>1, <1>2, <2>1, PassedIs
<1>6. /\ IsFiniteSet(E) /\ Cardinality(C) \in Nat /\ Cardinality(E) \in Nat
      /\ Cardinality(E) = IF kind = "created" THEN Cardinality(C) + 1 ELSE Cardinality(C)
  BY <1>3, <1>4, <1>5, PassedCounts
<1>7. /\ IsFiniteSet(F) /\ Cardinality(D) \in Nat /\ Cardinality(F) \in Nat
      /\ Cardinality(F) = IF kind = "deleted" THEN Cardinality(D) + 1 ELSE Cardinality(D)
  BY <1>3, <1>4, <1>5, PassedCounts
<1>8. total \in Nat /\ faults \in Nat /\ Cardinality(Users) \in Nat
  BY Constants, FS_CardinalityType DEF Shape
<1>9. LET exact == Cardinality(Users) + Cardinality(C) - Cardinality(D)
      IN  total \in (exact - faults)..(exact + faults)
  BY <1>1, TotalIs DEF TotalKept
<1>10. Cardinality(F) <= Cardinality(Users)
  <2>1. \A y \in F : \E d \in Consumers : \E i \in DOMAIN Feed[d] :
          y = <<d, i>> /\ Feed[d][i].kind = "deleted"
    BY <1>1 DEF PassedSet
  <2> QED BY <2>1, FewLeave
<1>11. kind \in Kinds
  BY <1>2, MessageType DEF Snapshots
<1>12. total' = total \/ (kind = "created" /\ total' = total + 1)
         \/ (kind = "deleted" /\ total' = IF total = 0 THEN 0 ELSE total - 1)
  BY <1>2, <1>8, <1>11 DEF TotalAfter, Greatest, Kinds
<1>13. faults' = faults /\ kind = "created" => total' = total + 1
  BY <1>2, <1>8 DEF TotalAfter
<1>14. faults' = faults /\ kind = "deleted" => total' = IF total = 0 THEN 0 ELSE total - 1
  BY <1>2, <1>8 DEF TotalAfter, Greatest
<1>16. LET exact == Cardinality(Users) + Cardinality(E) - Cardinality(F)
       IN  total' \in (exact - faults')..(exact + faults')
  <2>1. CASE faults' = faults + 1
    <3>1. CASE total' = total
      BY <1>6, <1>7, <1>8, <1>9, <1>11, <2>1, <3>1
    <3>2. CASE total' = total + 1 /\ kind = "created"
      BY <1>6, <1>7, <1>8, <1>9, <2>1, <3>2
    <3>3. CASE kind = "deleted" /\ total' = IF total = 0 THEN 0 ELSE total - 1
      BY <1>6, <1>7, <1>8, <1>9, <1>10, <2>1, <3>3
    <3> QED BY <1>12, <3>1, <3>2, <3>3
  <2>2. CASE faults' = faults /\ kind = "created"
    BY <1>6, <1>7, <1>8, <1>9, <1>13, <2>2
  <2>3. CASE faults' = faults /\ kind = "deleted"
    BY <1>6, <1>7, <1>8, <1>9, <1>10, <1>14, <2>3
  <2>4. CASE faults' = faults /\ kind = "chose"
    <3>1. total' = total
      BY <1>12, <2>4
    <3> QED BY <1>6, <1>7, <1>8, <1>9, <2>4, <3>1
  <2> QED BY <1>11, <2>1, <2>2, <2>3, <2>4 DEF Kinds
<1>17. TotalOffByFaults'
  BY <1>1, <1>16, TotalIsNext
<1>18. total' \in Nat
  BY <1>8, <1>12
<1> QED BY <1>1, <1>6, <1>7, <1>17, <1>18 DEF TotalKept
-----------------------------------------------------------------------------
(* The steps that write no table but the total.                            *)

LEMMA ShapeKept ==
  ASSUME Shape, NEW c \in Consumers, NEW w, NEW k, Moves(c, w, k), JobOK(c)',
         UNCHANGED <<today, row, processed, seeded, lost, skewed>>, total' \in Nat, faults' \in Nat
  PROVE  Shape'
<1>1. job' \in [Consumers -> Work] /\ at' \in [Consumers -> Nat \ {0}]
  BY MovedJobs
<1>2. \A d \in Consumers : JobOK(d)'
  BY JobsKept
<1> QED BY <1>1, <1>2 DEF Shape

LEMMA UpdateTotalKeeps ==
  ASSUME IInv, NEW c \in Consumers, UpdateTotalUsersCount(c)
  PROVE  IInv'
<1>1. Shape /\ job[c] \in Work /\ at[c] \in Nat \ {0} /\ at \in [Consumers -> Nat \ {0}]
  BY DEF IInv, Shape
<1>2. job[c].pc = "idle" /\ at[c] \in DOMAIN Feed[c]
  BY DEF UpdateTotalUsersCount
<1>3. PICK age \in (IF Msg(c).kind = "deleted" THEN Ages ELSE {-1}) :
        LET begun == [IdleJob EXCEPT !.pc = "dedupe", !.age = age]
        IN  \/ /\ total' = TotalAfter(Msg(c)) /\ faults' = faults
               /\ job' = [job EXCEPT ![c] = begun]
            \/ /\ total' \in {total, TotalAfter(Msg(c))} /\ faults' = faults + 1
               /\ job' = [job EXCEPT ![c] = [begun EXCEPT !.failed = TRUE]]
  BY DEF UpdateTotalUsersCount, Fault
<1>4. PICK begun : begun = [IdleJob EXCEPT !.pc = "dedupe", !.age = age]
  OBVIOUS
<1>5. IF Msg(c).kind = "deleted" THEN age \in Nat ELSE age = -1
  BY <1>3, Constants
<1>6. PICK w : /\ w \in Work /\ w.pc = "dedupe" /\ w.age = age
               /\ job' = [job EXCEPT ![c] = w]
               /\ \/ total' = TotalAfter(Msg(c)) /\ faults' = faults
                  \/ total' \in {total, TotalAfter(Msg(c))} /\ faults' = faults + 1
  <2>1. age \in Int
    BY <1>5
  <2>2. begun \in Work /\ begun.pc = "dedupe" /\ begun.age = age
    BY <1>4, <2>1 DEF IdleJob, Work
  <2>3. PICK failed : failed = [begun EXCEPT !.failed = TRUE]
    OBVIOUS
  <2>4. failed \in Work /\ failed.pc = "dedupe" /\ failed.age = age
    BY <2>2, <2>3 DEF Work
  <2> QED BY <1>3, <1>4, <2>2, <2>3, <2>4
<1>7. Moves(c, w, at[c]) /\ at' = at
  BY <1>1, <1>6 DEF Moves, UpdateTotalUsersCount
<1>8. job'[c] = w /\ at'[c] = at[c]
  BY <1>1, <1>7, MovedJobs
<1>9. JobOK(c)'
  BY <1>2, <1>5, <1>6, <1>8 DEF JobOK, Msg
<1>10. \A i \in Nat : Passing(c, i)' <=> Passing(c, i) \/ i = at[c]
  BY <1>1, <1>2, <1>6, <1>8 DEF Passing
<1>11. TotalKept' /\ total' \in Nat
  BY <1>1, <1>2, <1>6, <1>7, <1>10, TotalAdded DEF IInv
<1>12. UNCHANGED <<today, row, processed, seeded, lost, skewed>>
  BY DEF UpdateTotalUsersCount
<1>13. CountedOnce' /\ DaysAddUp'
  BY <1>1, <1>6, <1>7, <1>12, CountsKept DEF IInv
<1>14. faults' \in Nat
  BY <1>1, <1>6 DEF Shape
<1>15. Shape'
  BY <1>1, <1>7, <1>9, <1>11, <1>12, <1>14, ShapeKept
<1> QED BY <1>11, <1>13, <1>15 DEF IInv

\* A job that goes on with the same message, and writes nothing.
LEMMA GoesOn ==
  ASSUME IInv, NEW c \in Consumers, NEW w \in Work, job' = [job EXCEPT ![c] = w],
         job[c].pc # "idle", w.pc # "idle", w.age = job[c].age,
         w.pc \in {"read", "write"} => job[c].pc \in {"read", "write"} /\ w.now <= today,
         w.pc = "write" => w.seen \in Read,
         UNCHANGED <<today, row, processed, seeded, lost, skewed, total, at>>,
         faults' \in {faults, faults + 1}
  PROVE  IInv'
<1>1. Shape /\ at[c] \in Nat \ {0} /\ at \in [Consumers -> Nat \ {0}] /\ JobOK(c)
  BY DEF IInv, Shape
<1>2. Moves(c, w, at[c])
  BY <1>1 DEF Moves
<1>3. job'[c] = w /\ at'[c] = at[c]
  BY <1>1, <1>2, MovedJobs
<1>4. JobOK(c)'
  BY <1>1, <1>3 DEF JobOK, Msg, Entry, Referrer
<1>5. Shape'
  BY <1>1, <1>2, <1>4, ShapeKept DEF Shape
<1>6. CountedOnce' /\ DaysAddUp'
  BY <1>1, <1>2, CountsKept DEF IInv
<1>7. \A i \in Nat : Passing(c, i)' <=> Passing(c, i)
  BY <1>3 DEF Passing
<1>8. TotalKept'
  BY <1>1, <1>2, <1>7, TotalSame DEF IInv
<1> QED BY <1>5, <1>6, <1>8 DEF IInv

LEMMA GetCountKeeps ==
  ASSUME IInv, NEW c \in Consumers, GetCurrentReferralCount(c)
  PROVE  IInv'
<1>1. Shape /\ job[c] \in Work /\ JobOK(c)
  BY DEF IInv, Shape
<1>2. job[c].pc = "read" /\ job[c].now \in Nat /\ job[c].now <= today
  BY <1>1 DEF GetCurrentReferralCount, JobOK, Work
<1>3. Referrer(c) \in Ids /\ T0(c) \in Ids
  <2>1. Msg(c) \in Snapshots
    BY <1>1, <1>2, MessageType DEF JobOK
  <2>2. Referrer(c) \in Ids
    BY <2>1 DEF Snapshots, Referrer
  <2> QED BY <2>2, Constants DEF T0
<1>4. row[Referrer(c)] \in Counters /\ row[T0(c)] \in Counters
  BY <1>1, <1>3 DEF Shape
<1>5. PICK seen : /\ job' = [job EXCEPT ![c].pc = "write", ![c].seen = seen]
                  /\ seen \in Read
  <2>1. PICK mine, above : mine = row[Referrer(c)] /\ above = row[T0(c)]
    OBVIOUS
  <2>2. PICK date, date0, today2 :
          /\ date = IF mine = NoRow THEN job[c].now ELSE mine.date
          /\ LET r == IF T0(c) = Nobody THEN NoRow ELSE above
             IN  date0 = IF r = NoRow THEN job[c].now ELSE r.date
          /\ today2 = IF T0(c) = Nobody THEN 0 ELSE above.on[2][0]
    OBVIOUS
  <2>3. /\ mine.date \in Int /\ mine.on[1][0] \in Nat
        /\ above.date \in Int /\ above.on[2][0] \in Nat
    BY <1>4, <2>1 DEF Counters, Tiers, Days, History
  <2>4. date \in Int /\ date0 \in Int /\ today2 \in Nat
    BY <1>2, <2>2, <2>3
  <2>5. [date |-> date, today1 |-> mine.on[1][0], date0 |-> date0, today2 |-> today2] \in Read
    BY <2>3, <2>4 DEF Read
  <2>6. job' = [job EXCEPT ![c].pc = "write", ![c].seen =
          [date |-> date, today1 |-> mine.on[1][0], date0 |-> date0, today2 |-> today2]]
    BY <2>1, <2>2 DEF GetCurrentReferralCount
  <2> QED BY <2>5, <2>6
<1>6. PICK w : w = [job[c] EXCEPT !.pc = "write", !.seen = seen]
  OBVIOUS
<1>7. /\ w \in Work /\ w.pc = "write" /\ w.age = job[c].age /\ w.seen \in Read
      /\ w.now = job[c].now
  BY <1>1, <1>5, <1>6 DEF Work
<1>8. job' = [job EXCEPT ![c] = w]
  BY <1>1, <1>5, <1>6 DEF Shape
<1> QED BY <1>2, <1>7, <1>8, GoesOn DEF GetCurrentReferralCount, tables

LEMMA EndKeeps ==
  ASSUME IInv, NEW c \in Consumers, EndProcess(c)
  PROVE  IInv'
<1>1. Shape /\ at[c] \in Nat \ {0} /\ at \in [Consumers -> Nat \ {0}]
  BY DEF IInv, Shape
<1>2. PICK k : k = at'[c]
  OBVIOUS
<1>3. /\ job' = [job EXCEPT ![c] = IdleJob] /\ job[c].pc = "end"
      /\ at' = [at EXCEPT ![c] = k]
      /\ UNCHANGED <<today, row, processed, seeded, lost, skewed, total>>
      /\ \/ k = at[c] + 1 /\ faults' = faults
         \/ k = at[c] /\ faults' = faults + 1
  BY <1>1, <1>2 DEF EndProcess, Fault, tables
<1>4. k \in Nat \ {0}
  BY <1>1, <1>3
<1>5. Moves(c, IdleJob, k)
  BY <1>3, <1>4, IdleWork DEF Moves
<1>6. job'[c] = IdleJob /\ at'[c] = k /\ IdleJob.pc = "idle"
  BY <1>1, <1>5, MovedJobs, IdleWork
<1>7. JobOK(c)'
  BY <1>6 DEF JobOK
<1>8. faults' \in Nat
  BY <1>1, <1>3 DEF Shape
<1>9. Shape'
  BY <1>1, <1>3, <1>5, <1>7, <1>8, ShapeKept DEF Shape
<1>10. CountedOnce' /\ DaysAddUp'
  BY <1>1, <1>3, <1>5, <1>6, CountsKept DEF IInv
<1>11. TotalKept'
  <2>1. CASE k = at[c] + 1 /\ faults' = faults
    <3>1. \A i \in Nat : Passing(c, i)' <=> Passing(c, i)
      BY <1>1, <1>3, <1>6, <2>1 DEF Passing
    <3> QED BY <1>1, <1>3, <1>5, <2>1, <3>1, TotalSame DEF IInv
  <2>2. CASE k = at[c] /\ faults' = faults + 1
    <3>1. \A i \in Nat : Passing(c, i)' <=> Passing(c, i) /\ i # at[c]
      BY <1>1, <1>3, <1>6, <2>2 DEF Passing
    <3> QED BY <1>1, <1>3, <1>5, <2>2, <3>1, TotalAgain DEF IInv
  <2> QED BY <1>3, <2>1, <2>2
<1> QED BY <1>9, <1>10, <1>11 DEF IInv

LEMMA CrashKeeps ==
  ASSUME IInv, NEW c \in Consumers, Crash(c)
  PROVE  IInv'
<1>1. Shape /\ at[c] \in Nat \ {0} /\ at \in [Consumers -> Nat \ {0}]
  BY DEF IInv, Shape
<1>2. /\ job' = [job EXCEPT ![c] = IdleJob] /\ job[c].pc # "idle" /\ at' = at
      /\ UNCHANGED <<today, row, processed, seeded, lost, skewed, total>> /\ faults' = faults + 1
  BY DEF Crash, Fault, tables
<1>3. Moves(c, IdleJob, at[c])
  BY <1>1, <1>2, IdleWork DEF Moves
<1>4. job'[c] = IdleJob /\ at'[c] = at[c] /\ IdleJob.pc = "idle"
  BY <1>1, <1>3, MovedJobs, IdleWork
<1>5. JobOK(c)'
  BY <1>4 DEF JobOK
<1>6. faults' \in Nat
  BY <1>1, <1>2 DEF Shape
<1>7. Shape'
  BY <1>1, <1>2, <1>3, <1>5, <1>6, ShapeKept DEF Shape
<1>8. CountedOnce' /\ DaysAddUp'
  BY <1>1, <1>2, <1>3, <1>4, CountsKept DEF IInv
<1>9. \A i \in Nat : Passing(c, i)' <=> Passing(c, i) /\ i # at[c]
  BY <1>1, <1>2, <1>4 DEF Passing
<1>10. TotalKept'
  BY <1>1, <1>2, <1>3, <1>9, TotalAgain DEF IInv
<1> QED BY <1>7, <1>8, <1>10 DEF IInv

LEMMA RedeliverKeeps ==
  ASSUME IInv, NEW c \in Consumers, Redeliver(c)
  PROVE  IInv'
<1>1. /\ Shape /\ at[c] \in Nat \ {0} /\ at \in [Consumers -> Nat \ {0}]
      /\ job \in [Consumers -> Work] /\ job[c] \in Work
  BY DEF IInv, Shape
<1>2. /\ job' = [job EXCEPT ![c] = job[c]] /\ job[c].pc = "idle"
      /\ at' = [at EXCEPT ![c] = at[c] - 1] /\ at[c] > 1
      /\ UNCHANGED <<today, row, processed, seeded, lost, skewed, total>> /\ faults' = faults + 1
  BY <1>1 DEF Redeliver, Fault, tables
<1>3. Moves(c, job[c], at[c] - 1)
  BY <1>1, <1>2 DEF Moves
<1>4. job'[c] = job[c] /\ at'[c] = at[c] - 1
  BY <1>1, <1>3, MovedJobs
<1>5. JobOK(c)'
  BY <1>2, <1>4 DEF JobOK
<1>6. faults' \in Nat
  BY <1>1, <1>2 DEF Shape
<1>7. Shape'
  BY <1>1, <1>2, <1>3, <1>5, <1>6, ShapeKept DEF Shape
<1>8. CountedOnce' /\ DaysAddUp'
  BY <1>1, <1>2, <1>3, CountsKept DEF IInv
<1>9. at[c] - 1 \in Nat /\ \A i \in Nat : Passing(c, i)' <=> Passing(c, i) /\ i # at[c] - 1
  BY <1>1, <1>2, <1>4 DEF Passing
<1>10. TotalKept'
  BY <1>1, <1>2, <1>3, <1>9, TotalAgain DEF IInv
<1> QED BY <1>7, <1>8, <1>10 DEF IInv
-----------------------------------------------------------------------------
(* The entry of a referral, and its count.                                 *)

LEMMA InsertKeeps ==
  ASSUME IInv, NEW c \in Consumers, InsertProcessed(c)
  PROVE  IInv'
<1>1. /\ Shape /\ job[c] \in Work /\ at[c] \in Nat \ {0} /\ at \in [Consumers -> Nat \ {0}]
      /\ job \in [Consumers -> Work] /\ JobOK(c) /\ today \in Nat
  BY DEF IInv, Shape
<1>2. job[c].pc = "dedupe" /\ at[c] \in DOMAIN Feed[c]
  BY <1>1 DEF InsertProcessed, JobOK
<1>3. CASE Seen(c) \/ ~ CountsFor(c)
  <2>1. PICK w : w = [job[c] EXCEPT !.pc = "end"]
    OBVIOUS
  <2>2. job' = [job EXCEPT ![c] = w]
    BY <1>1, <1>3, <2>1 DEF InsertProcessed, Goto
  <2>3. w \in Work /\ w.pc = "end" /\ w.age = job[c].age
    BY <1>1, <2>1 DEF Work
  <2> QED BY <1>2, <1>3, <2>2, <2>3, GoesOn DEF InsertProcessed
<1>4. CASE ~ (Seen(c) \/ ~ CountsFor(c))
  <2>1. PICK w, e : w = [job[c] EXCEPT !.pc = "read", !.now = today] /\ e = Entry(c)
    OBVIOUS
  <2>2. /\ processed' = processed \cup {e} /\ e \notin processed
        /\ UNCHANGED <<today, total, row, at, faults, seeded, lost, skewed>>
    BY <1>4, <2>1 DEF InsertProcessed, Seen
  <2>3. job' = [job EXCEPT ![c] = w]
    BY <1>1, <1>4, <2>1 DEF InsertProcessed
  <2>4. w \in Work /\ w.pc = "read" /\ w.age = job[c].age /\ w.now = today
    BY <1>1, <2>1 DEF Work
  <2>5. Moves(c, w, at[c])
    BY <1>1, <2>2, <2>3, <2>4 DEF Moves
  <2>6. /\ job'[c] = w /\ at'[c] = at[c]
        /\ job' \in [Consumers -> Work] /\ at' \in [Consumers -> Nat \ {0}]
    BY <1>1, <2>5, MovedJobs
  <2>7. Entry(c)' = e
    BY <2>1, <2>6 DEF Entry, Msg, Referrer
  <2>8. JobOK(c)'
    BY <1>1, <1>2, <2>2, <2>4, <2>6, <2>7 DEF JobOK, Msg
  <2>9. \A d \in Consumers : JobOK(d)'
    BY <1>1, <2>2, <2>5, <2>8, JobsKept
  <2>10. /\ processed' \subseteq Users \X Ids \X BOOLEAN /\ IsFiniteSet(processed')
    <3>1. e \in Users \X Ids \X BOOLEAN
      BY <1>2, <2>1, MessageType
    <3>2. IsFiniteSet(processed \cup {e})
      BY <1>1, FS_AddElement DEF Shape
    <3> QED BY <1>1, <2>2, <3>1, <3>2 DEF Shape
  <2>11. Shape'
    BY <1>1, <2>2, <2>6, <2>9, <2>10 DEF Shape
  <2>12. CountedOnce'
    <3>1. ASSUME NEW r \in Referrers
          PROVE  row'[r].count[1] + Cardinality(Counting(r)')
                   <= OldRow.count[1] + seeded'[r] + lost'[r] + Cardinality(Referred(r)')
      <4>1. /\ row[r].count[1] \in Nat /\ OldRow.count[1] \in Nat /\ seeded[r] \in Nat /\ lost[r] \in Nat
        BY <1>1, Constants, RowTypes DEF Shape, Counters, Tiers
      <4>2. row[r].count[1] + Cardinality(Counting(r))
              <= OldRow.count[1] + seeded[r] + lost[r] + Cardinality(Referred(r))
        BY DEF IInv, CountedOnce
      <4>3. ~ Counts(c, r)
        BY <1>2 DEF Counts
      <4>4. e[2] = Referrer(c) /\ (e[3] <=> Msg(c).kind = "deleted")
        BY <2>1 DEF Entry
      <4>5. Counts(c, r)' <=> ~ e[3] /\ e[2] = r
        BY <2>4, <2>6, <4>4 DEF Counts, Msg, Referrer
      <4>6. /\ Cardinality(Counting(r)) \in Nat /\ Cardinality(Counting(r)') \in Nat
            /\ Cardinality(Counting(r)') = IF ~ e[3] /\ e[2] = r
                 THEN Cardinality(Counting(r)) + 1 ELSE Cardinality(Counting(r))
        BY <1>1, <2>5, <4>3, <4>5, CountingMoved
      <4>7. IsFiniteSet(Referred(r)) /\ Cardinality(Referred(r)) \in Nat
        BY <1>1, ReferredFinite DEF Shape
      <4>8. CASE ~ e[3] /\ e[2] = r
        <5>1. Referred(r)' = Referred(r) \cup {e} /\ e \notin Referred(r)
          BY <2>2, <4>8 DEF Referred
        <5>2. Cardinality(Referred(r)') = Cardinality(Referred(r)) + 1
          BY <4>7, <5>1, FS_AddElement
        <5> QED BY <2>2, <4>1, <4>2, <4>6, <4>7, <4>8, <5>2
      <4>9. CASE ~ (~ e[3] /\ e[2] = r)
        <5>1. Referred(r)' = Referred(r)
          BY <2>2, <4>9 DEF Referred
        <5> QED BY <2>2, <4>1, <4>2, <4>6, <4>7, <4>9, <5>1
      <4> QED BY <4>8, <4>9
    <3> QED BY <3>1 DEF CountedOnce
  <2>13. DaysAddUp'
    <3>1. NobodyLeft' => NobodyLeft
      BY <2>2 DEF NobodyLeft
    <3> QED BY <2>2, <3>1 DEF IInv, DaysAddUp
  <2>14. TotalKept'
    <3>1. \A i \in Nat : Passing(c, i)' <=> Passing(c, i)
      BY <1>2, <2>4, <2>6 DEF Passing
    <3> QED BY <1>1, <2>2, <2>5, <3>1, TotalSame DEF IInv
  <2> QED BY <2>11, <2>12, <2>13, <2>14 DEF IInv
<1> QED BY <1>3, <1>4

\* What becomes of each row: inserted or updated as the referrer's or as that
\* of its own referrer, or left alone.
RowInserted(c, r, mine) ==
  /\ r = (IF mine THEN Referrer(c) ELSE T0(c))
  /\ row[r] = NoRow /\ row'[r] = Inserted(mine, job[c].now)
  /\ seeded'[r] = seeded[r] + IF mine /\ job[c].age < 0 THEN 0 ELSE 1

RowUpdated(c, r, mine) ==
  /\ r = (IF mine THEN Referrer(c) ELSE T0(c))
  /\ row[r].date = (IF mine THEN job[c].seen.date ELSE job[c].seen.date0)
  /\ row'[r] = Updated(row[r], mine, c, MyLag(c), LagAbove(c))
  /\ seeded'[r] = seeded[r]
  /\ IF mine THEN MyLag(c) = 0 /\ LagAbove(c) # 0 => r \in skewed'
     ELSE LagAbove(c) = 0 /\ MyLag(c) # 0 => r \in skewed'

RowLeft(r) == row'[r] = row[r] /\ seeded'[r] = seeded[r]

LEMMA JobMessage ==
  ASSUME Shape, NEW c \in Consumers, job[c].pc = "write"
  PROVE  /\ Referrer(c) \in Ids /\ T0(c) \in Ids /\ (T0(c) # Nobody => T0(c) # Referrer(c))
         /\ job[c] \in Work /\ job[c].now \in Nat /\ job[c].now <= today /\ job[c].seen \in Read
         /\ MyLag(c) \in Int /\ LagAbove(c) \in Int
         /\ IF Msg(c).kind = "deleted" THEN job[c].age \in Nat ELSE job[c].age = -1
         /\ Entry(c) \in processed
<1>1. job[c] \in Work /\ JobOK(c)
  BY DEF Shape
<1>2. /\ at[c] \in DOMAIN Feed[c] /\ job[c].now \in Nat /\ job[c].now <= today
      /\ job[c].seen \in Read /\ Entry(c) \in processed
      /\ IF Msg(c).kind = "deleted" THEN job[c].age \in Nat ELSE job[c].age = -1
  BY <1>1 DEF JobOK, Work
<1>3. Referrer(c) \in Ids
  BY <1>2, MessageType DEF Snapshots, Referrer
<1>4. T0(c) \in Ids /\ (T0(c) # Nobody => T0(c) # Referrer(c))
  BY <1>3, Constants DEF T0, Ids
<1>5. \A date \in Int : Lag(job[c].now, date) \in Int
  BY <1>2, LagIs DEF History
<1>6. MyLag(c) \in Int /\ LagAbove(c) \in Int
  BY <1>2, <1>5 DEF MyLag, LagAbove, Read
<1> QED BY <1>1, <1>2, <1>3, <1>4, <1>6

LEMMA RowCases ==
  ASSUME Shape, NEW c \in Consumers, job[c].pc = "write", Upsert(c)
  PROVE  /\ \A r \in Ids : \/ \E mine \in BOOLEAN : RowInserted(c, r, mine) \/ RowUpdated(c, r, mine)
                           \/ RowLeft(r)
         /\ row' = [r \in Ids |-> row'[r]] /\ seeded' = [r \in Ids |-> seeded'[r]]
         /\ skewed \subseteq skewed' /\ skewed' \subseteq Ids
<1>2. PICK me, t0, lag, lag0, j : /\ me = Referrer(c) /\ t0 = T0(c) /\ j = job[c]
                                  /\ lag = MyLag(c) /\ lag0 = LagAbove(c)
  OBVIOUS
<1>3. /\ New(c) <=> row[me] = NoRow
      /\ NewAbove(c) <=> t0 # Nobody /\ row[t0] = NoRow
      /\ Hit(c) => row[me].date = j.seen.date /\ ~ New(c)
      /\ HitAbove(c) => t0 # Nobody /\ row[t0].date = j.seen.date0 /\ ~ NewAbove(c)
  BY <1>2 DEF New, NewAbove, Hit, HitAbove
<1>4. /\ row' = [r \in Ids |->
           CASE r = me /\ New(c) -> Inserted(TRUE, j.now)
             [] r = me /\ Hit(c) -> Updated(row[r], TRUE, c, lag, lag0)
             [] r = t0 /\ NewAbove(c) -> Inserted(FALSE, j.now)
             [] r = t0 /\ HitAbove(c) -> Updated(row[r], FALSE, c, lag, lag0)
             [] OTHER -> row[r]]
      /\ seeded' = [r \in Ids |-> seeded[r] +
           IF (r = me /\ New(c) /\ j.age >= 0) \/ (r = t0 /\ NewAbove(c)) THEN 1 ELSE 0]
      /\ skewed' = skewed \cup
           {r \in {me} : Hit(c) /\ lag = 0 /\ lag0 # 0} \cup
           {r \in {t0} : HitAbove(c) /\ lag0 = 0 /\ lag # 0}
  <2>1. /\ row' = [r \in Ids |->
             CASE r = Referrer(c) /\ New(c) -> Inserted(TRUE, job[c].now)
               [] r = Referrer(c) /\ Hit(c) -> Updated(row[r], TRUE, c, MyLag(c), LagAbove(c))
               [] r = T0(c) /\ NewAbove(c) -> Inserted(FALSE, job[c].now)
               [] r = T0(c) /\ HitAbove(c) -> Updated(row[r], FALSE, c, MyLag(c), LagAbove(c))
               [] OTHER -> row[r]]
        /\ seeded' = [r \in Ids |-> seeded[r] +
             IF \/ r = Referrer(c) /\ New(c) /\ job[c].age >= 0
                \/ r = T0(c) /\ NewAbove(c) THEN 1 ELSE 0]
        /\ skewed' = skewed \cup
             {r \in {Referrer(c)} : Hit(c) /\ MyLag(c) = 0 /\ LagAbove(c) # 0} \cup
             {r \in {T0(c)} : HitAbove(c) /\ LagAbove(c) = 0 /\ MyLag(c) # 0}
    BY DEF Upsert
  <2> QED BY <1>2, <2>1
<1>5. /\ me \in Ids /\ t0 \in Ids /\ (t0 # Nobody => t0 # me) /\ j.age \in Int
      /\ row \in [Ids -> Counters] /\ seeded \in [Ids -> Nat] /\ skewed \subseteq Ids
  BY <1>2, JobMessage DEF Shape, Work
<1>6. ASSUME NEW r \in Ids
      PROVE  \/ \E mine \in BOOLEAN : RowInserted(c, r, mine) \/ RowUpdated(c, r, mine)
             \/ RowLeft(r)
  <2>1. CASE r = me /\ New(c)
    <3>1. row'[r] = Inserted(TRUE, j.now)
      BY <1>3, <1>4, <1>5, <2>1
    <3>2. seeded'[r] = seeded[r] + IF j.age < 0 THEN 0 ELSE 1
      BY <1>3, <1>4, <1>5, <2>1
    <3>3. RowInserted(c, r, TRUE)
      BY <1>2, <1>3, <2>1, <3>1, <3>2 DEF RowInserted
    <3> QED BY <3>3
  <2>2. CASE r = me /\ Hit(c)
    <3>1. row'[r] = Updated(row[r], TRUE, c, lag, lag0)
      BY <1>3, <1>4, <1>5, <2>2
    <3>2. seeded'[r] = seeded[r]
      BY <1>3, <1>4, <1>5, <2>2
    <3>3. lag = 0 /\ lag0 # 0 => r \in skewed'
      BY <1>4, <2>2
    <3>4. RowUpdated(c, r, TRUE)
      BY <1>2, <1>3, <2>2, <3>1, <3>2, <3>3 DEF RowUpdated
    <3> QED BY <3>4
  <2>3. CASE r = t0 /\ NewAbove(c)
    <3>1. row'[r] = Inserted(FALSE, j.now)
      BY <1>3, <1>4, <1>5, <2>3
    <3>2. seeded'[r] = seeded[r] + 1
      BY <1>4, <2>3
    <3>3. RowInserted(c, r, FALSE)
      BY <1>2, <1>3, <2>3, <3>1, <3>2 DEF RowInserted
    <3> QED BY <3>3
  <2>4. CASE r = t0 /\ HitAbove(c)
    <3>1. row'[r] = Updated(row[r], FALSE, c, lag, lag0)
      BY <1>3, <1>4, <1>5, <2>4
    <3>2. seeded'[r] = seeded[r]
      BY <1>3, <1>4, <1>5, <2>4
    <3>3. lag0 = 0 /\ lag # 0 => r \in skewed'
      BY <1>4, <2>4
    <3>4. RowUpdated(c, r, FALSE)
      BY <1>2, <1>3, <2>4, <3>1, <3>2, <3>3 DEF RowUpdated
    <3> QED BY <3>4
  <2>5. CASE ~ (r = me /\ (New(c) \/ Hit(c))) /\ ~ (r = t0 /\ (NewAbove(c) \/ HitAbove(c)))
    <3>1. row'[r] = row[r]
      BY <1>4, <2>5
    <3>2. seeded'[r] = seeded[r]
      BY <1>4, <1>5, <2>5
    <3> QED BY <3>1, <3>2 DEF RowLeft
  <2> QED BY <2>1, <2>2, <2>3, <2>4, <2>5
<1>7. row' = [r \in Ids |-> row'[r]] /\ seeded' = [r \in Ids |-> seeded'[r]]
  BY <1>4
<1>8. skewed \subseteq skewed' /\ skewed' \subseteq Ids
  BY <1>4, <1>5
<1> QED BY <1>6, <1>7, <1>8

\* A row has at most one more, and the count of who counts for it stood out.
LEMMA RowsKept ==
  ASSUME IInv, NEW c \in Consumers, job[c].pc = "write", Upsert(c), NEW r \in Ids
  PROVE  /\ row'[r] \in Counters /\ row'[r].date <= today /\ seeded'[r] \in Nat
         /\ r \in Referrers => row'[r].count[1] + seeded[r]
              <= row[r].count[1] + seeded'[r] + IF Counts(c, r) THEN 1 ELSE 0
         /\ NobodyLeft /\ r \in Referrers \ skewed'
              => Shown(row'[r].on[1]) <= row'[r].count[1]
<1>1. Shape /\ job[c].pc = "write"
  BY DEF IInv
<1>2. /\ job[c] \in Work /\ job[c].now \in Nat /\ ~ NoSuchColumn(MyLag(c), LagAbove(c), job[c].age)
      /\ job[c].now \in Nat /\ job[c].now <= today /\ job[c].seen \in Read
      /\ MyLag(c) \in Int /\ LagAbove(c) \in Int /\ job[c].age \in Int
      /\ IF Msg(c).kind = "deleted" THEN job[c].age \in Nat ELSE job[c].age = -1
      /\ Entry(c) \in processed
  BY <1>1, JobMessage DEF Work, Upsert, Refused
<1>3. row[r] \in Counters /\ row[r].date <= today /\ seeded[r] \in Nat /\ lost[r] \in Nat
  BY <1>1 DEF Shape
<1>4. row[r].count[1] \in Nat /\ Shown(row[r].on[1]) \in Nat
  <2>1. row[r].count[1] \in Nat /\ row[r].on[1] \in [Days -> Nat]
    BY <1>3 DEF Counters, Tiers
  <2>2. /\ row[r].on[1][0] \in Nat /\ row[r].on[1][1] \in Nat /\ row[r].on[1][2] \in Nat
        /\ row[r].on[1][3] \in Nat /\ row[r].on[1][4] \in Nat
    BY <2>1 DEF Days, History
  <2> QED BY <2>1, <2>2 DEF Shown
<1>5. NobodyLeft /\ r \in Referrers \ skewed => Shown(row[r].on[1]) <= row[r].count[1]
  BY DEF IInv, DaysAddUp
<1>6. NobodyLeft => Msg(c).kind # "deleted" /\ job[c].age = -1
  BY <1>2 DEF NobodyLeft, Entry
<1>7. skewed \subseteq skewed'
  BY <1>1, RowCases
<1>8. Counts(c, r) <=> Msg(c).kind # "deleted" /\ Referrer(c) = r
  BY <1>1 DEF Counts
<1>9. ASSUME NEW mine \in BOOLEAN, RowInserted(c, r, mine)
      PROVE  /\ row'[r] \in Counters /\ row'[r].date <= today /\ seeded'[r] \in Nat
             /\ row'[r].count[1] + seeded[r]
                  <= row[r].count[1] + seeded'[r] + IF Counts(c, r) THEN 1 ELSE 0
             /\ Shown(row'[r].on[1]) <= row'[r].count[1]
  <2>1. /\ row'[r] \in Counters /\ row'[r].date = job[c].now /\ row'[r].count[1] = 1
        /\ Shown(row'[r].on[1]) = 1
    BY <1>2, <1>9, InsertedIs DEF RowInserted
  <2>2. seeded'[r] = seeded[r] + IF mine /\ job[c].age < 0 THEN 0 ELSE 1
    BY <1>9 DEF RowInserted
  <2>3. mine /\ job[c].age < 0 => Counts(c, r)
    BY <1>2, <1>8, <1>9 DEF RowInserted
  <2> QED BY <1>1, <1>2, <1>3, <1>4, <2>1, <2>2, <2>3 DEF Shape
<1>10. ASSUME NEW mine \in BOOLEAN, RowUpdated(c, r, mine)
       PROVE  /\ row'[r] \in Counters /\ row'[r].date <= today /\ seeded'[r] \in Nat
              /\ row'[r].count[1] + seeded[r]
                   <= row[r].count[1] + seeded'[r] + IF Counts(c, r) THEN 1 ELSE 0
              /\ NobodyLeft /\ r \in Referrers \ skewed'
                   => Shown(row'[r].on[1]) <= row'[r].count[1]
  <2>1. /\ row'[r] = Updated(row[r], mine, c, MyLag(c), LagAbove(c)) /\ seeded'[r] = seeded[r]
        /\ row[r].date = (IF mine THEN job[c].seen.date ELSE job[c].seen.date0)
    BY <1>10 DEF RowUpdated
  <2>2. /\ row'[r] \in Counters /\ row'[r].date = job[c].now
        /\ row'[r].count[1] = IF mine THEN Changed(row[r].count[1], job[c].age) ELSE row[r].count[1]
    BY <1>2, <1>3, <2>1, UpdatedType
  <2>3. row'[r].count[1] <= row[r].count[1] + IF Counts(c, r) THEN 1 ELSE 0
    <3>1. mine => r = Referrer(c)
      BY <1>10 DEF RowUpdated
    <3>2. job[c].age = -1 => Changed(row[r].count[1], job[c].age) = row[r].count[1] + 1
      BY <1>2, <1>4, Floors
    <3>3. job[c].age >= 0 => Changed(row[r].count[1], job[c].age) <= row[r].count[1]
      BY <1>2, <1>4, Floors
    <3> QED BY <1>2, <1>4, <1>8, <2>2, <3>1, <3>2, <3>3
  <2>4. row'[r].count[1] \in Nat
    BY <2>2 DEF Counters, Tiers
  <2>5. ASSUME NobodyLeft, r \in Referrers \ skewed'
        PROVE  Shown(row'[r].on[1]) <= row'[r].count[1]
    <3>1. Shown(row[r].on[1]) <= row[r].count[1] /\ job[c].age = -1
      BY <1>5, <1>6, <1>7, <2>5
    <3>2. PICK own : own = IF mine THEN MyLag(c) ELSE LagAbove(c)
      OBVIOUS
    <3>3. own = Lag(job[c].now, row[r].date)
      BY <2>1, <3>2 DEF MyLag, LagAbove
    <3>4. own # 0 \/ (MyLag(c) = 0 /\ LagAbove(c) = 0)
      BY <1>10, <2>5, <3>2 DEF RowUpdated
    <3> QED BY <1>2, <1>3, <2>1, <3>1, <3>2, <3>3, <3>4, UpdatedDays
  <2> QED BY <1>1, <1>2, <1>3, <1>4, <2>1, <2>2, <2>3, <2>4, <2>5 DEF Shape
<1>11. CASE RowLeft(r)
  BY <1>3, <1>4, <1>5, <1>7, <1>11 DEF RowLeft
<1> QED BY <1>1, <1>9, <1>10, <1>11, RowCases

\* The upsert is applied, and is either done or, if its answer is lost, to be
\* tried again.
LEMMA UpsertKeeps ==
  ASSUME IInv, NEW c \in Consumers, job[c].pc = "write", Upsert(c),
         NEW w \in Work, job' = [job EXCEPT ![c] = w], w.age = job[c].age,
         w.pc \in {"end", "read"}, w.pc = "read" => w.now <= today,
         UNCHANGED <<today, total, processed, at>>, faults' \in {faults, faults + 1},
         lost' \in [Ids -> Nat], \A r \in Ids : lost[r] <= lost'[r],
         w.pc = "read" => \A r \in Referrers : Counts(c, r) => lost'[r] = lost[r] + 1
  PROVE  IInv'
<1>1. /\ Shape /\ at[c] \in Nat \ {0} /\ at \in [Consumers -> Nat \ {0}] /\ JobOK(c)
  BY DEF IInv, Shape
<1>2. Moves(c, w, at[c])
  BY <1>1 DEF Moves
<1>3. /\ job'[c] = w /\ at'[c] = at[c]
      /\ job' \in [Consumers -> Work] /\ at' \in [Consumers -> Nat \ {0}]
  BY <1>1, <1>2, MovedJobs
<1>4. JobOK(c)'
  BY <1>1, <1>3 DEF JobOK, Msg, Entry, Referrer
<1>5. \A d \in Consumers : JobOK(d)'
  BY <1>1, <1>2, <1>4, JobsKept
<1>6. /\ row' = [r \in Ids |-> row'[r]] /\ seeded' = [r \in Ids |-> seeded'[r]]
      /\ skewed' \subseteq Ids
  BY <1>1, RowCases
<1>7. \A r \in Ids : row'[r] \in Counters /\ row'[r].date <= today /\ seeded'[r] \in Nat
  BY RowsKept
<1>8. row' \in [Ids -> Counters] /\ seeded' \in [Ids -> Nat]
  BY <1>6, <1>7
<1>9. Shape'
  <2>1. faults' \in Nat
    BY <1>1 DEF Shape
  <2> QED BY <1>1, <1>3, <1>5, <1>6, <1>7, <1>8, <2>1 DEF Shape
<1>10. CountedOnce'
  <2>1. ASSUME NEW r \in Referrers
        PROVE  row'[r].count[1] + Cardinality(Counting(r)')
                 <= OldRow.count[1] + seeded'[r] + lost'[r] + Cardinality(Referred(r)')
    <3>1. /\ row[r].count[1] \in Nat /\ OldRow.count[1] \in Nat /\ seeded[r] \in Nat
          /\ lost[r] \in Nat /\ lost'[r] \in Nat /\ lost[r] <= lost'[r]
          /\ row'[r].count[1] \in Nat /\ seeded'[r] \in Nat
      BY <1>1, <1>7, Constants, RowTypes DEF Shape, Counters, Tiers
    <3>2. row[r].count[1] + Cardinality(Counting(r))
            <= OldRow.count[1] + seeded[r] + lost[r] + Cardinality(Referred(r))
      BY DEF IInv, CountedOnce
    <3>3. row'[r].count[1] + seeded[r]
            <= row[r].count[1] + seeded'[r] + IF Counts(c, r) THEN 1 ELSE 0
      BY Constants, RowsKept
    <3>4. Referred(r)' = Referred(r) /\ Cardinality(Referred(r)) \in Nat
      BY <1>1, ReferredFinite DEF Referred, Shape
    <3>5. /\ Cardinality(Counting(r)) \in Nat /\ Cardinality(Counting(r)') \in Nat
          /\ (Counts(c, r)' <=> Counts(c, r)) => Cardinality(Counting(r)') = Cardinality(Counting(r))
          /\ ~ Counts(c, r)' /\ Counts(c, r)
               => Cardinality(Counting(r)') = Cardinality(Counting(r)) - 1
      BY <1>1, <1>2, CountingMoved
    <3>6. CASE w.pc = "end"
      <4>1. ~ Counts(c, r)'
        BY <1>3, <3>6 DEF Counts
      <4> QED BY <3>1, <3>2, <3>3, <3>4, <3>5, <4>1
    <3>7. CASE w.pc = "read"
      <4>1. Counts(c, r)' <=> Counts(c, r)
        BY <1>3, <3>7 DEF Counts, Msg, Referrer
      <4>2. Counts(c, r) => lost'[r] = lost[r] + 1
        BY <3>7
      <4> QED BY <3>1, <3>2, <3>3, <3>4, <3>5, <4>1, <4>2
    <3> QED BY <3>6, <3>7
  <2> QED BY <2>1 DEF CountedOnce
<1>11. DaysAddUp'
  <2>1. NobodyLeft' <=> NobodyLeft
    BY DEF NobodyLeft
  <2> QED BY <2>1, Constants, RowsKept DEF DaysAddUp
<1>12. TotalKept'
  <2>1. \A i \in Nat : Passing(c, i)' <=> Passing(c, i)
    BY <1>3 DEF Passing
  <2> QED BY <1>1, <1>2, <2>1, TotalSame DEF IInv
<1> QED BY <1>9, <1>10, <1>11, <1>12 DEF IInv

\* The job as Retry leaves it.
LEMMA RetryJob ==
  ASSUME Shape, NEW c \in Consumers, job[c].pc = "write", Retry(c)
  PROVE  \E w \in Work : /\ job' = [job EXCEPT ![c] = w] /\ w.pc = "read"
                         /\ w.age = job[c].age /\ w.now = today
<1>1. job \in [Consumers -> Work] /\ job[c] \in Work /\ today \in Nat
  BY DEF Shape
<1>2. PICK w : w = [job[c] EXCEPT !.pc = "read", !.now = today]
  OBVIOUS
<1>3. w \in Work /\ w.pc = "read" /\ w.age = job[c].age /\ w.now = today
  BY <1>1, <1>2 DEF Work
<1>4. job' = [job EXCEPT ![c] = w]
  BY <1>1, <1>2 DEF Retry
<1> QED BY <1>3, <1>4

\* Tried again without having written anything.
LEMMA RetryKeeps ==
  ASSUME IInv, NEW c \in Consumers, job[c].pc = "write", Retry(c),
         UNCHANGED <<today, row, processed, seeded, lost, skewed, total, at>>,
         faults' \in {faults, faults + 1}
  PROVE  IInv'
<1>1. Shape /\ today \in Nat
  BY DEF IInv, Shape
<1>2. PICK w \in Work : /\ job' = [job EXCEPT ![c] = w] /\ w.pc = "read"
                        /\ w.age = job[c].age /\ w.now = today
  BY <1>1, RetryJob
<1>3. w.now <= today
  BY <1>1, <1>2
<1> QED BY <1>2, <1>3, GoesOn

LEMMA IncrementKeeps ==
  ASSUME IInv, NEW c \in Consumers, IncrementOrDecrementReferralCount(c)
  PROVE  IInv'
<1>1. /\ job[c].pc = "write" /\ job[c] \in Work /\ job \in [Consumers -> Work]
      /\ lost \in [Ids -> Nat]
      /\ UNCHANGED <<today, ticks, total, processed, at, faults, lost>>
  BY DEF IInv, Shape, IncrementOrDecrementReferralCount
<1>2. CASE Upsert(c) /\ Goto(c, "end")
  <2>1. PICK w : w = [job[c] EXCEPT !.pc = "end"]
    OBVIOUS
  <2>2. w \in Work /\ w.pc = "end" /\ w.age = job[c].age
    BY <1>1, <2>1 DEF Work
  <2>3. job' = [job EXCEPT ![c] = w]
    BY <1>1, <1>2, <2>1 DEF Goto
  <2>4. lost' \in [Ids -> Nat] /\ \A r \in Ids : lost[r] <= lost'[r]
    BY <1>1
  <2> QED BY <1>1, <1>2, <2>2, <2>3, <2>4, UpsertKeeps
<1>3. CASE Retry(c) /\ UNCHANGED <<row, seeded, skewed>>
  BY <1>1, <1>3, RetryKeeps
<1> QED BY <1>2, <1>3 DEF IncrementOrDecrementReferralCount

LEMMA AnswerLostKeeps ==
  ASSUME IInv, NEW c \in Consumers, AnswerLost(c)
  PROVE  IInv'
<1>1. /\ job[c].pc = "write" /\ faults' = faults + 1 /\ Retry(c)
      /\ UNCHANGED <<today, ticks, total, processed, at>>
  BY DEF AnswerLost, Fault
<1>2. Shape /\ today \in Nat /\ lost \in [Ids -> Nat]
  BY DEF IInv, Shape
<1>3. CASE UNCHANGED <<row, seeded, skewed, lost>>
  BY <1>1, <1>3, RetryKeeps
<1>4. CASE /\ Upsert(c)
           /\ lost' = [lost EXCEPT ![Referrer(c)] = @ + (IF job[c].age < 0 THEN 1 ELSE 0)]
  <2>1. PICK n \in {0, 1} : n = IF job[c].age < 0 THEN 1 ELSE 0
    OBVIOUS
  <2>2. lost' = [lost EXCEPT ![Referrer(c)] = lost[Referrer(c)] + n] /\ Referrer(c) \in Ids
    BY <1>1, <1>2, <1>4, <2>1, JobMessage
  <2>3. \A r \in Ids : lost'[r] = IF r = Referrer(c) THEN lost[r] + n ELSE lost[r]
    BY <1>2, <2>2
  <2>4. lost' \in [Ids -> Nat] /\ \A r \in Ids : lost[r] <= lost'[r]
    BY <1>2, <2>2, <2>3
  <2>5. ASSUME NEW r \in Referrers, Counts(c, r)
        PROVE  lost'[r] = lost[r] + 1
    <3>1. job[c].age = -1
      BY <1>1, <1>2, <2>5, JobMessage DEF Counts
    <3>2. r = Referrer(c) /\ r \in Ids /\ n = 1
      BY <2>1, <2>5, <3>1, Constants DEF Counts
    <3> QED BY <2>3, <3>2
  <2>6. PICK w \in Work : /\ job' = [job EXCEPT ![c] = w] /\ w.pc = "read"
                          /\ w.age = job[c].age /\ w.now = today
    BY <1>1, <1>2, RetryJob
  <2>7. w.now <= today
    BY <1>2, <2>6
  <2> QED BY <1>1, <1>4, <2>4, <2>5, <2>6, <2>7, UpsertKeeps
<1> QED BY <1>3, <1>4 DEF AnswerLost

LEMMA FailsKeeps ==
  ASSUME IInv, NEW c \in Consumers, Fails(c)
  PROVE  IInv'
<1>1. job \in [Consumers -> Work] /\ job[c] \in Work
  BY DEF IInv, Shape
<1>2. PICK w : w = [job[c] EXCEPT !.pc = "end", !.failed = TRUE]
  OBVIOUS
<1>3. w \in Work /\ w.pc = "end" /\ w.age = job[c].age
  BY <1>1, <1>2 DEF Work
<1>4. job' = [job EXCEPT ![c] = w]
  BY <1>1, <1>2 DEF Fails
<1> QED BY <1>3, <1>4, GoesOn DEF Fails, Fault, tables
-----------------------------------------------------------------------------
LEMMA DeleteKeeps ==
  ASSUME IInv, NEW u \in Referrers, DeleteReferralAcquisitionHistory(u)
  PROVE  IInv'
<1>1. /\ row' = [row EXCEPT ![u] = NoRow] /\ skewed' = skewed \ {u} /\ faults' = faults + 1
      /\ UNCHANGED <<today, ticks, total, processed, at, job, seeded, lost>>
  BY DEF DeleteReferralAcquisitionHistory, Fault
<1>2. Shape /\ faults \in Nat /\ today \in Nat /\ row \in [Ids -> Counters] /\ u \in Ids
  BY Constants DEF IInv, Shape
<1>3. \A r \in Ids : row'[r] = IF r = u THEN NoRow ELSE row[r]
  BY <1>1, <1>2
<1>4. NoRow.date = -1 /\ NoRow.count[1] = 0 /\ Shown(NoRow.on[1]) = 0
  BY DEF NoRow, Tiers, None, Days, History, Shown
<1>5. Shape'
  <2>1. row' \in [Ids -> Counters] /\ \A r \in Ids : row'[r].date <= today
    BY <1>1, <1>2, <1>3, <1>4, RowTypes DEF Shape
  <2>2. \A c \in Consumers : JobOK(c)'
    BY <1>1, <1>2 DEF Shape, JobOK, Msg, Entry, Referrer
  <2> QED BY <1>1, <1>2, <2>1, <2>2 DEF Shape
<1>6. CountedOnce'
  <2>1. ASSUME NEW r \in Referrers
        PROVE  row'[r].count[1] + Cardinality(Counting(r)')
                 <= OldRow.count[1] + seeded'[r] + lost'[r] + Cardinality(Referred(r)')
    <3>1. Counting(r)' = Counting(r) /\ Referred(r)' = Referred(r)
      BY <1>1 DEF Counting, Counts, Msg, Referrer, Referred
    <3>2. row'[r].count[1] <= row[r].count[1] /\ row'[r].count[1] \in Nat /\ row[r].count[1] \in Nat
      <4>1. row[r].count[1] \in Nat /\ row'[r] = IF r = u THEN NoRow ELSE row[r]
        BY <1>2, <1>3, Constants DEF Counters, Tiers
      <4> QED BY <1>4, <4>1
    <3>3. row[r].count[1] + Cardinality(Counting(r))
            <= OldRow.count[1] + seeded[r] + lost[r] + Cardinality(Referred(r))
      BY DEF IInv, CountedOnce
    <3>4. /\ OldRow.count[1] \in Nat /\ seeded[r] \in Nat /\ lost[r] \in Nat
          /\ Cardinality(Counting(r)) \in Nat /\ Cardinality(Referred(r)) \in Nat
      BY <1>2, Constants, RowTypes, CountingFinite, ReferredFinite DEF Shape, Counters, Tiers
    <3> QED BY <1>1, <3>1, <3>2, <3>3, <3>4
  <2> QED BY <2>1 DEF CountedOnce
<1>7. DaysAddUp'
  <2>1. NobodyLeft' <=> NobodyLeft
    BY <1>1 DEF NobodyLeft
  <2>2. ASSUME NobodyLeft, NEW r \in Referrers \ skewed'
        PROVE  Shown(row'[r].on[1]) <= row'[r].count[1]
    <3>1. CASE r = u
      BY <1>2, <1>3, <1>4, <3>1
    <3>2. CASE r # u
      BY <1>1, <1>3, <2>2, <3>2, Constants DEF IInv, DaysAddUp
    <3> QED BY <3>1, <3>2
  <2> QED BY <2>1, <2>2 DEF DaysAddUp
<1>8. TotalKept'
  <2>1. PassedSet("created")' = PassedSet("created") /\ PassedSet("deleted")' = PassedSet("deleted")
    BY <1>1 DEF PassedSet
  <2>2. /\ Cardinality(PassedSet("created")) \in Nat /\ Cardinality(PassedSet("deleted")) \in Nat
        /\ Cardinality(Users) \in Nat /\ total \in Nat
    BY <1>2, Constants, FS_CardinalityType DEF IInv, TotalKept, Shape
  <2>3. LET exact == Cardinality(Users) + Cardinality(PassedSet("created"))
                       - Cardinality(PassedSet("deleted"))
        IN  total \in (exact - faults)..(exact + faults)
    BY TotalIs DEF IInv, TotalKept
  <2>4. LET exact == Cardinality(Users) + Cardinality(PassedSet("created"))
                       - Cardinality(PassedSet("deleted"))
        IN  total' \in (exact - faults')..(exact + faults')
    BY <1>1, <1>2, <2>2, <2>3
  <2>5. TotalOffByFaults'
    BY <2>1, <2>4, TotalIsNext
  <2> QED BY <2>1, <2>5 DEF IInv, TotalKept
<1> QED BY <1>5, <1>6, <1>7, <1>8 DEF IInv

\* Nothing but the clock, or nothing at all.
LEMMA ClockKeeps ==
  ASSUME IInv, today' \in Nat, today <= today',
         UNCHANGED <<total, row, processed, at, job, faults, seeded, lost, skewed>>
  PROVE  IInv'
<1>1. Shape /\ today \in Nat
  BY DEF IInv, Shape
<1>2. \A c \in Consumers : JobOK(c)'
  <2> SUFFICES ASSUME NEW c \in Consumers
               PROVE  JobOK(c)'
    OBVIOUS
  <2>1. JobOK(c) /\ job[c].now \in Nat
    BY <1>1 DEF Shape, Work
  <2> QED BY <1>1, <2>1 DEF JobOK, Msg, Entry, Referrer
<1>3. \A r \in Ids : row'[r].date <= today'
  <2> SUFFICES ASSUME NEW r \in Ids
               PROVE  row'[r].date <= today'
    OBVIOUS
  <2>1. row[r].date \in Int /\ row[r].date <= today
    BY <1>1 DEF Shape, Counters
  <2> QED BY <1>1, <2>1
<1>4. Shape'
  BY <1>1, <1>2, <1>3 DEF Shape
<1>5. CountedOnce'
  BY DEF IInv, CountedOnce, Counting, Counts, Msg, Referrer, Referred
<1>6. DaysAddUp'
  BY DEF IInv, DaysAddUp, NobodyLeft
<1>7. TotalKept'
  BY DEF IInv, TotalKept, TotalOffByFaults, PassedSet
<1> QED BY <1>4, <1>5, <1>6, <1>7 DEF IInv

LEMMA NextIInv == IInv /\ [Next]_vars => IInv'
<1> SUFFICES ASSUME IInv, [Next]_vars
             PROVE  IInv'
  OBVIOUS
<1>1. today \in Nat
  BY DEF IInv, Shape
<1>2. ASSUME NEW c \in Consumers, Step(c) \/ AnswerLost(c) \/ Fails(c) \/ Crash(c) \/ Redeliver(c)
      PROVE  IInv'
  BY <1>2, UpdateTotalKeeps, InsertKeeps, GetCountKeeps, IncrementKeeps, EndKeeps, CrashKeeps,
     RedeliverKeeps, AnswerLostKeeps, FailsKeeps DEF Step
<1>3. ASSUME NEW r \in Leavers, DeleteReferralAcquisitionHistory(r)
      PROVE  IInv'
  <2>1. r \in Referrers
    BY CountsAssumption
  <2> QED BY <1>3, <2>1, DeleteKeeps
<1>4. CASE Midnight
  BY <1>1, <1>4, ClockKeeps DEF Midnight, tables
<1>5. CASE UNCHANGED vars
  BY <1>1, <1>5, ClockKeeps DEF vars
<1> QED BY <1>2, <1>3, <1>4, <1>5 DEF Next

LEMMA InitIInv == Init => IInv
<1> SUFFICES ASSUME Init
             PROVE  IInv
  OBVIOUS
<1>1. PICK old \in WithRows : row = [r \in Ids |-> IF r \in old THEN OldRow ELSE NoRow]
  BY DEF Init
<1>2. /\ today \in Nat /\ total = Cardinality(Users) /\ processed = {} /\ faults = 0
      /\ at = [c \in Consumers |-> 1] /\ job = [c \in Consumers |-> IdleJob]
      /\ seeded = [r \in Ids |-> 0] /\ lost = [r \in Ids |-> 0] /\ skewed = {}
  BY Constants DEF Init
<1>3. Cardinality(Users) \in Nat
  BY Constants, FS_CardinalityType
<1>4. /\ NoRow.date = -1 /\ NoRow.count[1] = 0 /\ Shown(NoRow.on[1]) = 0
      /\ OldRow.date = 0 /\ OldRow.count[1] = 2 /\ Shown(OldRow.on[1]) = 2
  BY DEF NoRow, OldRow, Tiers, None, Days, History, Shown
<1>5. Shape
  <2>1. row \in [Ids -> Counters] /\ \A r \in Ids : row[r].date <= today
    BY <1>1, <1>2, <1>4, RowTypes
  <2>2. job \in [Consumers -> Work] /\ \A c \in Consumers : JobOK(c)
    BY <1>2, IdleWork DEF JobOK
  <2>3. IsFiniteSet(processed)
    BY <1>2, FS_EmptySet
  <2> QED BY <1>2, <1>3, <2>1, <2>2, <2>3 DEF Shape
<1>6. CountedOnce
  <2>1. ASSUME NEW r \in Referrers
        PROVE  row[r].count[1] + Cardinality(Counting(r))
                 <= OldRow.count[1] + seeded[r] + lost[r] + Cardinality(Referred(r))
    <3>1. Counting(r) = {} /\ Referred(r) = {}
      BY <1>2, IdleWork DEF Counting, Counts, Referred
    <3>2. Cardinality(Counting(r)) = 0 /\ Cardinality(Referred(r)) = 0
      BY <3>1, FS_EmptySet
    <3>3. row[r].count[1] \in {0, 2} /\ seeded[r] = 0 /\ lost[r] = 0
      BY <1>1, <1>2, <1>4, Constants
    <3> QED BY <1>4, <3>2, <3>3
  <2> QED BY <2>1 DEF CountedOnce
<1>7. DaysAddUp
  BY <1>1, <1>4, Constants DEF DaysAddUp
<1>8. TotalKept
  <2>1. \A kind : PassedSet(kind) = {}
    BY <1>2, IdleWork, CountsAssumption DEF PassedSet
  <2>2. IsFiniteSet({}) /\ Cardinality({}) = 0
    BY FS_EmptySet
  <2>3. TotalOffByFaults
    <3>1. /\ Cardinality(PassedSet("created")) = 0 /\ Cardinality(PassedSet("deleted")) = 0
          /\ total = Cardinality(Users) /\ faults = 0
      BY <1>2, <2>1, <2>2
    <3> QED BY <1>3, <3>1, TotalIs
  <2> QED BY <2>1, <2>2, <2>3 DEF TotalKept
<1> QED BY <1>5, <1>6, <1>7, <1>8 DEF IInv

LEMMA Always == Spec => []IInv
BY InitIInv, NextIInv, PTL DEF Spec
-----------------------------------------------------------------------------
\* Messages that come again, consumers on one row that try again and crash
\* between the entry and the count: an entry in processed_referrals is counted
\* by one upsert, and once more for each upsert that was applied and whose
\* answer was lost, whatever the order.
THEOREM CountedAgainOnlyIfLostHolds == Spec => []CountedAgainOnlyIfLost
<1>1. IInv => CountedAgainOnlyIfLost
  <2> SUFFICES ASSUME IInv, NEW r \in Referrers
               PROVE  row[r].count[1] <= OldRow.count[1] + seeded[r] + lost[r] + Cardinality(Referred(r))
    BY DEF CountedAgainOnlyIfLost, Referred
  <2>1. row[r].count[1] + Cardinality(Counting(r))
          <= OldRow.count[1] + seeded[r] + lost[r] + Cardinality(Referred(r))
    BY DEF IInv, CountedOnce
  <2>2. /\ row[r].count[1] \in Nat /\ OldRow.count[1] \in Nat /\ seeded[r] \in Nat /\ lost[r] \in Nat
        /\ Cardinality(Counting(r)) \in Nat /\ Cardinality(Referred(r)) \in Nat
    BY Constants, RowTypes, CountingFinite, ReferredFinite DEF IInv, Shape, Counters, Tiers
  <2> QED BY <2>1, <2>2
<1> QED BY <1>1, Always, PTL

\* However many days a row is behind when it is written and when it is read,
\* the shift of the statement and that of the reader show no day twice.
THEOREM DaysWithinTotalHolds == Spec => []DaysWithinTotal
<1>1. IInv => DaysWithinTotal
  <2> SUFFICES ASSUME IInv, NEW r \in Referrers \ skewed, NobodyLeft
               PROVE  LET shown == AcquisitionHistory(r, 1)
                      IN  shown[0] + shown[1] + shown[2] + shown[3] + shown[4] <= row[r].count[1]
    BY DEF DaysWithinTotal, NobodyLeft
  <2>1. /\ row[r] \in Counters /\ row[r].date \in Int /\ row[r].date <= today /\ today \in Nat
        /\ row[r].count[1] \in Nat /\ row[r].on[1] \in [Days -> Nat]
    BY Constants DEF IInv, Shape, Counters, Tiers
  <2>2. Shown(row[r].on[1]) <= row[r].count[1]
    BY DEF IInv, DaysAddUp
  <2>3. PICK lag : lag = Lag(today, row[r].date)
    OBVIOUS
  <2>4. lag \in 0..History
    <3>1. Lag(today, row[r].date)
            = IF today - row[r].date <= History THEN today - row[r].date ELSE History
      <4>1. today \in Int
        BY <2>1
      <4> QED BY <2>1, <4>1, LagIs
    <3> QED BY <2>1, <2>3, <3>1 DEF History
  <2>5. PICK s : s = AcquisitionHistory(r, 1)
    OBVIOUS
  <2>6. \A day \in Days : s[day] = IF day < lag THEN 0 ELSE row[r].on[1][day - lag]
    BY <2>3, <2>5 DEF AcquisitionHistory
  <2>7. \A i \in 1..(History - 1) : s[i] = IF i < lag THEN 0 ELSE row[r].on[1][i - lag]
    BY <2>6 DEF Days, History
  <2>8. s[0] = IF lag = 0 THEN row[r].on[1][0] ELSE 0
    BY <2>4, <2>6 DEF Days, History
  <2>9. PICK rest : rest = s[1] + s[2] + s[3] + s[4]
    OBVIOUS
  <2>10. /\ rest \in Nat /\ Shown(row[r].on[1]) \in Nat /\ row[r].on[1][0] \in Nat
         /\ lag = 0 => rest = Shown(row[r].on[1]) - row[r].on[1][0]
         /\ lag # 0 => rest <= Shown(row[r].on[1])
    BY <2>1, <2>4, <2>7, <2>9, ShiftSum
  <2>11. s[0] + rest <= Shown(row[r].on[1]) /\ s[0] \in Nat
    BY <2>8, <2>10
  <2>12. s[1] \in Nat /\ s[2] \in Nat /\ s[3] \in Nat /\ s[4] \in Nat
    BY <2>1, <2>4, <2>7 DEF Days, History
  <2> QED BY <2>1, <2>2, <2>5, <2>9, <2>10, <2>11, <2>12
<1> QED BY <1>1, Always, PTL

\* Each message that comes again, each failed update: one user more or less,
\* although the count is cut off at zero.
THEOREM TotalOffByFaultsHolds == Spec => []TotalOffByFaults
<1>1. IInv => TotalOffByFaults
  BY DEF IInv, TotalKept
<1> QED BY <1>1, Always, PTL
=============================================================================
