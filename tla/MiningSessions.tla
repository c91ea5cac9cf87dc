--------------------------- MODULE MiningSessions ---------------------------
(***************************************************************************)
(* The consumer of mining sessions (users/mining_sessions_source.go) and   *)
(* the number of active users it counts (users/user_growth.go).            *)
(*                                                                         *)
(* One user.  A message tells of a session that began or was extended; the *)
(* consumer stores it in the users row, unless row and message are of the  *)
(* same time, and then counts the user in every interval that the session  *)
(* newly covers.  Messages come in order and at least once: a consumer     *)
(* that stops, or loses its partition, goes back to an earlier message.    *)
(***************************************************************************)
EXTENDS Integers, Sequences, FiniteSetsExt

CONSTANTS
  Child,        \* cfg.GlobalAggregationInterval.Child
  Parent,       \* cfg.GlobalAggregationInterval.Parent, a multiple of Child
  MinDuration,  \* cfg.GlobalAggregationInterval.MinMiningSessionDuration
  Duration,     \* how long a session lasts
  None,         \* SQL NULL
  MaxTime,      \* bound on the time a session begins or is extended
  MaxSessions,  \* bound on the messages
  MaxRewinds    \* bound on the times the consumer goes back

VARIABLES
  row,        \* the users row; started, ended: last_mining_started_at, _ended_at
  log,        \* the messages
  pos,        \* the message to process next
  phase,      \* "update": the message is new; "count": it is in the users row
  active,     \* active[c]: TOTAL_ACTIVE_USERS of the child interval c
  rewinds,    \* times the consumer went back
  \* What an observer notes; no guard reads these.
  done,       \* messages processed at least once
  disturbed   \* a message was left half processed, or more than one came again

miningVars == <<log, pos, phase, active, rewinds, done, disturbed>>
vars == <<miningVars, row>>

ChildOf(time) == time \div Child
Children == 0..ChildOf(MaxTime + Duration)

Session == [natural : 0..MaxTime, started : 0..MaxTime, ended : Nat,
            before : Nat \cup {None}, extension : Nat]

TypeOK ==
  /\ {row.started, row.ended} \subseteq Nat \cup {None}
  /\ log \in Seq(Session)
  /\ pos \in 1..(Len(log) + 1)
  /\ phase \in {"update", "count"}
  /\ active \in [Children -> Nat]
  /\ rewinds \in 0..MaxRewinds
  /\ done \in 0..Len(log)
  /\ disturbed \in BOOLEAN

MiningInit ==
  /\ log = <<>>
  /\ pos = 1
  /\ phase = "update"
  /\ active = [c \in Children |-> 0]
  /\ rewinds = 0
  /\ done = 0
  /\ disturbed = FALSE

Init == MiningInit /\ row = [started |-> None, ended |-> None]
-----------------------------------------------------------------------------
(* The miner, another service: a click begins a session when none runs, and *)
(* extends the running one no earlier than MinDuration after the last.     *)

Last == log[Len(log)]

Send(session) ==
  /\ Len(log) < MaxSessions
  /\ log' = Append(log, session)
  /\ UNCHANGED <<row, pos, phase, active, rewinds, done, disturbed>>

Begin(now) ==
  /\ log # <<>> => Last.ended < now
  /\ Send([natural |-> now, started |-> now, ended |-> now + Duration,
           before |-> IF log = <<>> THEN None ELSE Last.ended, extension |-> Duration])

Extend(now) ==
  /\ log # <<>>
  /\ Last.natural + MinDuration <= now /\ now <= Last.ended
  /\ Send([natural |-> now, started |-> Last.started, ended |-> now + Duration,
           before |-> Last.ended, extension |-> now + Duration - Last.ended])
-----------------------------------------------------------------------------
(* miningSessionSource.Process                                             *)

\* The WHERE clause of updateMiningSession: both ends are of another time.
Differs(column, time) ==
  column = None \/ column \div MinDuration # time \div MinDuration

\* No row that differs is ErrDuplicate; the message counts as processed.
UpdateMiningSession ==
  /\ phase = "update" /\ pos <= Len(log)
  /\ LET ms == log[pos]
     IN IF Differs(row.started, ms.natural) /\ Differs(row.ended, ms.ended)
        THEN /\ row' = [row EXCEPT !.started = ms.natural, !.ended = ms.ended]
             /\ phase' = "count"
             /\ UNCHANGED pos
        ELSE /\ pos' = pos + 1
             /\ UNCHANGED <<row, phase>>
  /\ UNCHANGED <<log, active, rewinds, done, disturbed>>

\* Mutant of BeginsCounted: the interval in which the last session ended counts
\* again when a new one begins in it.
BeginsCountedExtension(ms) == ms.natural # ms.started

\* The interval in which the new part begins was counted for the part before.
BeginsCounted(ms) ==
  \/ ms.natural # ms.started
  \/ ms.before # None /\ ChildOf(ms.started) = ChildOf(ms.before)

EndsCounted(ms) == ms.before # None /\ ChildOf(ms.ended) = ChildOf(ms.before)

\* detectIncrTotalActiveUsersKeys
IncrementedKeys(ms) ==
  LET start == ms.ended - ms.extension + IF BeginsCounted(ms) THEN Child ELSE 0
      end   == ChildOf(ms.ended)
  IN {c \in Children : ChildOf(start) <= c /\ c < end}
     \cup (IF EndsCounted(ms) THEN {} ELSE {end})

IncrementTotalActiveUsersCount ==
  /\ phase = "count"
  /\ active' = [c \in Children |-> IF c \in IncrementedKeys(log[pos]) THEN active[c] + 1
                                   ELSE active[c]]
  /\ phase' = "update"
  /\ pos' = pos + 1
  /\ done' = IF pos > done THEN pos ELSE done
  /\ UNCHANGED <<row, log, rewinds, disturbed>>

\* The consumer stops, or its partition moves: messages come again.
Rewind ==
  /\ rewinds < MaxRewinds
  /\ rewinds' = rewinds + 1
  /\ phase' = "update"
  /\ pos' \in 1..pos
  /\ disturbed' = (disturbed \/ phase = "count" \/ pos' < done)
  /\ UNCHANGED <<row, log, active, done>>

Next ==
  \/ \E now \in 0..MaxTime : Begin(now) \/ Extend(now)
  \/ UpdateMiningSession
  \/ IncrementTotalActiveUsersCount
  \/ Rewind

Spec == Init /\ [][Next]_vars
-----------------------------------------------------------------------------
(* GetUserGrowth, of which the active users of each day; a day is Parent.  *)

\* The child intervals of the parent interval that time is in.
ChildrenKeys(time) == {c \in Children : (c * Child) \div Parent = time \div Parent}

\* Keys without a row are left out of what is selected.
GlobalValues(keys) == {active[c] : c \in {k \in keys : active[k] > 0}}

\* The active users of a day are those of its busiest interval.
MostActive(values) == Max({0} \cup values)

GenerateUserGrowthKeys(now, days) ==
  [day \in 0..(days - 1) |-> ChildrenKeys(now - day * Parent)]

GetUserGrowth(now, days) ==
  LET keys == GenerateUserGrowthKeys(now, days)
  IN [day \in DOMAIN keys |-> MostActive(GlobalValues(keys[day]))]

\* The intervals a session covers beyond what it covered before.
Covered(ms) == ChildOf(ms.ended - ms.extension)..ChildOf(ms.ended)

\* The user is active in exactly the intervals its sessions cover, and counted
\* once in each, though sessions meet within an interval, are extended, and the
\* last message may come again; and so it is shown.
CountedOnce ==
  ~disturbed =>
    /\ \A c \in Children :
         active[c] = IF \E i \in 1..done : c \in Covered(log[i]) THEN 1 ELSE 0
    /\ \A now \in 0..(MaxTime + Duration) : \A day \in {0, 1} : GetUserGrowth(now, 2)[day] <= 1
=============================================================================
