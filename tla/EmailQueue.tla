----------------------------- MODULE EmailQueue -----------------------------
(***************************************************************************)
(* The queue of login emails (auth/email_link/queue.go), used when         *)
(* cfg.QueueProcessing is set.                                             *)
(*                                                                         *)
(* A client that asks for a sign-in link is put in a Redis sorted set and  *)
(* keeps asking; every request refreshes its entry in a second set, the    *)
(* one that tells who is still waiting.  Each instance of the service runs *)
(* a worker; the one that holds a database mutex pops the oldest emails,   *)
(* drops those whose client stopped asking, reads their codes from         *)
(* email_link_sign_ins, mails them, and puts back what it could not mail.  *)
(* Every Redis transaction and every SQL statement is one atomic step.     *)
(* A worker may lose the mutex' transaction and end, or go on without the  *)
(* mutex, at any time.                                                     *)
(***************************************************************************)
EXTENDS Integers, FiniteSets, FiniteSetsExt

CONSTANTS
  Emails, Devices,
  Requests,        \* sign-in requests that may run at once
  Workers,         \* one per instance of the service
  None,
  Language,        \* Language[e][d]: the language of the client's emails
  Rates,           \* rate limits (emails per period) the operator may set
  MaxBatchSize,    \* email.MaxBatchSize
  AliveTTL,        \* cfg.QueueAliveTTL in ticks, 0: who waits is not tracked
  Expiration,      \* cfg.EmailValidation.ExpirationTime in ticks
  LockErrors,      \* TRUE: asking for the mutex may fail otherwise than with "no"
  MaxTime, MaxTickets, MaxCode, MaxFaults   \* bounds

ASSUME QueueAssumption ==
  /\ DOMAIN Language = Emails /\ \A e \in Emails : DOMAIN Language[e] = Devices
  /\ LockErrors \in BOOLEAN
  /\ None \notin Workers
  /\ Rates \subseteq Nat
  /\ {AliveTTL, MaxTime, MaxTickets, MaxCode, MaxFaults} \subseteq Nat
  /\ {MaxBatchSize, Expiration} \subseteq Nat \ {0}

VARIABLES
  now,      \* wall clock
  tickets,  \* time stamps given out: the score of the newest queue entry
  queue,    \* queue[e]: score of e in login_queue, 0: not in it
  ttl,      \* ttl[e]: score of e in login_queue_ttl, 0: not in it
  row,      \* row[e][d]: code (0: no row), when it was made, whether redeemed
  req,      \* req[p]: a request between its enqueue and its upsert
  holder,   \* the worker that holds the mutex
  worker,   \* worker[w]: where it is and the emails it has in hand
  mailed,   \* mailed[e][d]: newest code emailed
  faults,   \* faults so far
  \* What an observer sees; no action's guard reads these.
  asked,    \* asked[e]: time of the client's last request
  lost,     \* emails a crash or a failed statement took from everybody
  doubtful  \* emails whose newest time one worker took while another had one

vars == <<now, tickets, queue, ttl, row, req, holder, worker, mailed, faults, asked, lost,
          doubtful>>

Targets == Emails \X Devices
Messages == Emails \X Devices \X (1..MaxCode)

Idle == [pc |-> "lock", batch |-> {}, scores |-> [e \in Emails |-> 0],
         ttls |-> [e \in Emails |-> 0], limit |-> 0, now |-> 0,
         messages |-> {}, back |-> {}, keepTTL |-> FALSE, then |-> "lock"]

WorkerType ==
  [pc : {"lock", "dequeue", "filter", "fetch", "send",
         "rollback", "rollbackTTL", "stopped"},
   batch : SUBSET Emails, scores : [Emails -> Nat], ttls : [Emails -> Nat],
   limit : Nat, now : Nat, messages : SUBSET Messages, back : SUBSET Emails,
   keepTTL : BOOLEAN, then : {"lock", "filter", "fetch"}]

TypeOK ==
  /\ now \in 1..(MaxTime + 1) /\ tickets \in 0..MaxTickets
  /\ queue \in [Emails -> 0..MaxTickets]
  /\ ttl \in [Emails -> 0..(MaxTime + 1)]
  /\ row \in [Emails -> [Devices -> [code : 0..MaxCode, created : Nat, redeemed : BOOLEAN]]]
  /\ req \in [Requests -> Targets \cup {None}]
  /\ holder \in Workers \cup {None}
  /\ worker \in [Workers -> WorkerType]
  /\ mailed \in [Emails -> [Devices -> 0..MaxCode]]
  /\ faults \in 0..(MaxFaults + 1)
  /\ doubtful \subseteq Emails
  /\ asked \in [Emails -> 0..(MaxTime + 1)]
  /\ lost \subseteq Emails

Init ==
  /\ now = 1 /\ tickets = 0 /\ faults = 0
  /\ queue = [e \in Emails |-> 0]
  /\ ttl = [e \in Emails |-> 0]
  /\ row = [e \in Emails |-> [d \in Devices |->
             [code |-> 0, created |-> 0, redeemed |-> FALSE]]]
  /\ req = [p \in Requests |-> None]
  /\ holder = None
  /\ worker = [w \in Workers |-> Idle]
  /\ mailed = [e \in Emails |-> [d \in Devices |-> 0]]
  /\ asked = [e \in Emails |-> 0]
  /\ lost = {} /\ doubtful = {}

Fault == faults < MaxFaults /\ faults' = faults + 1
\* One more while undoing.
FaultInUndo == faults <= MaxFaults /\ faults' = faults + 1
TTLEnabled == AliveTTL > 0
-----------------------------------------------------------------------------
(* A client asks for a sign-in link.                                       *)

\* enqueueLoginAttempt: ZADD NX, ZRANK and ZADD in one transaction.  A client
\* already queued gets its old session; the others go on to store a code.
Enqueue(p, e, d) ==
  /\ req[p] = None
  /\ ttl' = IF TTLEnabled THEN [ttl EXCEPT ![e] = now] ELSE ttl
  /\ IF queue[e] # 0
     THEN UNCHANGED <<queue, tickets, req>>
     ELSE /\ tickets < MaxTickets
          /\ tickets' = tickets + 1
          /\ queue' = [queue EXCEPT ![e] = tickets + 1]
          /\ req' = [req EXCEPT ![p] = <<e, d>>]
  /\ asked' = [asked EXCEPT ![e] = now]
  /\ doubtful' = doubtful \ {e}
  /\ UNCHANGED <<now, row, holder, worker, mailed, faults, lost>>

\* upsertEmailLinkSignIn; a second request in the same tick changes nothing.
StoreCode(p) ==
  /\ req[p] # None
  /\ LET e == req[p][1]
         d == req[p][2]
     IN  \/ /\ row[e][d].created # now
            /\ row[e][d].code < MaxCode
            /\ row' = [row EXCEPT ![e][d] =
                 [code |-> @.code + 1, created |-> now, redeemed |-> FALSE]]
         \/ row[e][d].created = now /\ UNCHANGED row
  /\ req' = [req EXCEPT ![p] = None]
  /\ UNCHANGED <<now, tickets, queue, ttl, holder, worker, mailed, faults, asked, lost, doubtful>>

\* The client is blocked (ErrUserBlocked), a statement failed, or the request
\* was cut off: its email stays in the queue.
Abort(p) ==
  /\ req[p] # None
  /\ req' = [req EXCEPT ![p] = None]
  /\ UNCHANGED <<now, tickets, queue, ttl, row, holder, worker, mailed, faults,
                 asked, lost, doubtful>>

\* A sign-in finished with the code (resetLoginSession).
Redeem(e, d) ==
  /\ mailed[e][d] = row[e][d].code /\ mailed[e][d] # 0 /\ ~ row[e][d].redeemed
  /\ row' = [row EXCEPT ![e][d].redeemed = TRUE]
  /\ UNCHANGED <<now, tickets, queue, ttl, req, holder, worker, mailed, faults,
                 asked, lost, doubtful>>
-----------------------------------------------------------------------------
(* processEmailQueue.                                                      *)

Update(w, rec) == worker' = [worker EXCEPT ![w] = rec]

\* rollbackEmailsBackToQueue(back, scores, ttls), then go on with "then".  What
\* is not used any more is cleared, here and when the rows have been fetched.
RollBack(w, rec, back, keepTTL, then) ==
  Update(w, [rec EXCEPT !.pc = "rollback", !.back = back, !.messages = {},
                        !.keepTTL = keepTTL, !.then = then])

\* EnsureLocked.  An error other than "aborted" or "not locked" is ignored and
\* the worker goes on without the mutex.
EnsureLocked(w) ==
  /\ worker[w].pc = "lock"
  /\ \/ holder \in {None, w} /\ holder' = w /\ UNCHANGED faults
     \/ LockErrors /\ holder # w /\ Fault /\ UNCHANGED holder
  /\ Update(w, [Idle EXCEPT !.pc = "dequeue", !.now = now])
  /\ UNCHANGED <<now, tickets, queue, ttl, row, req, mailed, asked, lost, doubtful>>

\* "Aborted" ends the worker for good: nothing but a restart of the service
\* begins it again.  The fault that ends one may end the others.  The mutex goes
\* with its transaction.
LockAborted(w) ==
  /\ worker[w].pc = "lock"
  /\ Fault \/ (UNCHANGED faults /\ \E v \in Workers \ {w} : worker[v].pc = "stopped")
  /\ holder' = IF holder = w THEN None ELSE holder
  /\ Update(w, [Idle EXCEPT !.pc = "stopped"])
  /\ UNCHANGED <<now, tickets, queue, ttl, row, req, mailed, asked, lost, doubtful>>

Queued == {e \in Emails : queue[e] # 0}

\* The entries ZPOPMIN takes: the oldest, at most MaxBatchSize of them.
Oldest == {e \in Queued : Cardinality({f \in Queued : queue[f] <= queue[e]}) <= MaxBatchSize}

\* The emails of a batch beyond the first "rate" ones.
Beyond(batch, rate) ==
  {e \in batch : Cardinality({f \in batch : queue[f] <= queue[e]}) > rate}

\* Mutant of TakeOldest: ZRANGE, the entries stay.
PeekOldest == UNCHANGED queue

\* dequeueNextEmails: the transaction that takes the oldest entries.
TakeOldest == queue' = [e \in Emails |-> IF e \in Oldest THEN 0 ELSE queue[e]]

Taken(w) == [worker[w] EXCEPT
  !.batch = Oldest, !.scores = [e \in Emails |-> IF e \in Oldest THEN queue[e] ELSE 0]]

NextStage == IF TTLEnabled THEN "filter" ELSE "fetch"

\* What is beyond the rate limit goes back at once.
Dequeue(w) ==
  /\ worker[w].pc = "dequeue"
  /\ TakeOldest
  /\ \/ Oldest = {} /\ Update(w, Idle)
     \/ /\ Oldest # {}
        /\ \E rate \in Rates :
             LET beyond == Beyond(Oldest, rate)
                 taken == [Taken(w) EXCEPT !.batch = @ \ beyond,
                             !.limit = Min({rate, Cardinality(Oldest)})]
             IN  IF beyond = {} THEN Update(w, [taken EXCEPT !.pc = NextStage])
                 ELSE RollBack(w, taken, beyond, FALSE, NextStage)
  /\ UNCHANGED <<now, tickets, ttl, row, req, holder, mailed, faults, asked, lost, doubtful>>

\* A rate limit that cannot be parsed: everything goes back and the service
\* panics, to be started again.
RateUnparseable(w) ==
  /\ worker[w].pc = "dequeue" /\ Oldest # {}
  /\ Fault
  /\ TakeOldest
  /\ RollBack(w, Taken(w), Oldest, FALSE, "lock")
  /\ UNCHANGED <<now, tickets, ttl, row, req, holder, mailed, asked, lost, doubtful>>

\* The transaction was executed but its answer did not arrive.
DequeueFails(w) ==
  /\ worker[w].pc = "dequeue"
  /\ Fault
  /\ TakeOldest
  /\ lost' = lost \cup Oldest
  /\ Update(w, Idle)
  /\ UNCHANGED <<now, tickets, ttl, row, req, holder, mailed, asked, doubtful>>

\* Who left: the last request is older than the TTL.  No entry: still waiting.
LeftQueue(w) ==
  {e \in worker[w].batch : ttl[e] # 0 /\ worker[w].now > ttl[e] + AliveTTL}

\* What an observer notes when w takes the times of its batch: another worker,
\* which can only be there without the mutex, has older ones to put back.
Doubtful(w) ==
  doubtful \cup {e \in worker[w].batch : ttl[e] # 0 /\
                  \E v \in Workers \ {w} : worker[v].ttls[e] # 0}

\* filterEmailsWithAliveTTL reads and removes the entries in one transaction.
Filter(w) ==
  /\ worker[w].pc = "filter"
  /\ LET batch == worker[w].batch
         rest == batch \ LeftQueue(w)
     IN  /\ ttl' = [e \in Emails |-> IF e \in batch THEN 0 ELSE ttl[e]]
         /\ Update(w, IF rest = {} THEN Idle
                      ELSE [worker[w] EXCEPT !.pc = "fetch", !.batch = rest,
                              !.ttls = [e \in Emails |-> IF e \in rest THEN ttl[e] ELSE 0]])
  /\ doubtful' = Doubtful(w)
  /\ UNCHANGED <<now, tickets, queue, row, req, holder, mailed, faults, asked, lost>>

\* It fails, before or after the entries were removed.
FilterFails(w) ==
  /\ worker[w].pc = "filter"
  /\ Fault
  /\ \/ UNCHANGED <<ttl, doubtful>>
     \/ /\ ttl' = [e \in Emails |-> IF e \in worker[w].batch THEN 0 ELSE ttl[e]]
        /\ doubtful' = Doubtful(w)
  /\ RollBack(w, worker[w], worker[w].batch, FALSE, "lock")
  /\ UNCHANGED <<now, tickets, queue, row, req, holder, mailed, asked, lost>>

\* Rows the query of fetchLoginInformationForEmailBatch matches.
Pending(w) ==
  {t \in worker[w].batch \X Devices :
     LET r == row[t[1]][t[2]]
     IN  r.code # 0 /\ ~ r.redeemed /\ r.created > worker[w].now - Expiration}

\* ORDER BY created_at DESC LIMIT limit.
Newest(pending, limit) ==
  {s \in SUBSET pending :
     /\ Cardinality(s) = Min({limit, Cardinality(pending)})
     /\ \A t \in s, u \in pending \ s : row[t[1]][t[2]].created >= row[u[1]][u[2]].created}

\* An empty batch without TTLs divides by its length and panics: a restart.
Fetch(w) ==
  /\ worker[w].pc = "fetch"
  /\ IF worker[w].batch = {}
     THEN Update(w, Idle)
     ELSE \E s \in Newest(Pending(w), worker[w].limit) :
            Update(w, [worker[w] EXCEPT !.pc = "send", !.now = 0, !.limit = 0,
              !.messages = {<<t[1], t[2], row[t[1]][t[2]].code>> : t \in s}])
  /\ UNCHANGED <<now, tickets, queue, ttl, row, req, holder, mailed, faults,
                 asked, lost, doubtful>>

FetchFails(w) ==
  /\ worker[w].pc = "fetch"
  /\ Fault
  /\ RollBack(w, worker[w], worker[w].batch, TRUE, "lock")
  /\ UNCHANGED <<now, tickets, queue, ttl, row, req, holder, mailed, asked, lost, doubtful>>

\* The service is stopped while it waits for the rate limit.
WaitCancelled(w) ==
  /\ worker[w].pc = "send"
  /\ Fault
  /\ RollBack(w, worker[w], worker[w].batch, TRUE, "lock")
  /\ UNCHANGED <<now, tickets, queue, ttl, row, req, holder, mailed, asked, lost, doubtful>>

LanguageOf(m) == Language[m[1]][m[2]]

\* sendEmails: one call per language, each of which may fail.
Send(w) ==
  /\ worker[w].pc = "send"
  /\ \E failed \in SUBSET {LanguageOf(m) : m \in worker[w].messages} :
       LET unsent == {m \in worker[w].messages : LanguageOf(m) \in failed}
           sent == worker[w].messages \ unsent
       IN  /\ mailed' = [e \in Emails |-> [d \in Devices |->
                Max({mailed[e][d]} \cup {m[3] : m \in {n \in sent : n[1] = e /\ n[2] = d}})]]
           /\ IF failed = {}
              THEN Update(w, Idle) /\ UNCHANGED faults
              ELSE Fault /\ RollBack(w, worker[w], {m[1] : m \in unsent}, TRUE, "lock")
  /\ UNCHANGED <<now, tickets, queue, ttl, row, req, holder, asked, lost, doubtful>>

\* Mutant of Resume: the emails within the rate limit are forgotten.
ResumeAtLock(w) == Update(w, Idle)

\* What follows a rollback: the next batch, or the rest of this one.
Resume(w) == Update(w, IF worker[w].then = "lock" THEN Idle
                       ELSE [worker[w] EXCEPT !.pc = worker[w].then, !.back = {}])

\* The times of the last requests are put back next, if they were taken.
RestoreTTLs(w) ==
  IF worker[w].keepTTL /\ \E e \in Emails : worker[w].ttls[e] # 0
  THEN Update(w, [worker[w] EXCEPT !.pc = "rollbackTTL"])
  ELSE Resume(w)

\* rollbackEmailsBackToQueue: ZADD NX with the old scores; an email that came
\* back by itself keeps its new entry.
PutBack(w) ==
  /\ worker[w].pc = "rollback"
  /\ queue' = [e \in Emails |->
       IF e \in worker[w].back /\ queue[e] = 0 THEN worker[w].scores[e] ELSE queue[e]]
  /\ RestoreTTLs(w)
  /\ UNCHANGED <<now, tickets, ttl, row, req, holder, mailed, faults, asked, lost, doubtful>>

\* Mutant of PutBackTTL: without NX.
PutBackOldTTL(w) ==
  /\ worker[w].pc = "rollbackTTL"
  /\ ttl' = [e \in Emails |-> IF e \in worker[w].back THEN worker[w].ttls[e] ELSE ttl[e]]
  /\ Resume(w)
  /\ UNCHANGED <<now, tickets, queue, row, req, holder, mailed, faults, asked, lost, doubtful>>

\* A second ZADD NX restores the times of their last requests.
PutBackTTL(w) ==
  /\ worker[w].pc = "rollbackTTL"
  /\ ttl' = [e \in Emails |->
       IF e \in worker[w].back /\ ttl[e] = 0 THEN worker[w].ttls[e] ELSE ttl[e]]
  /\ Resume(w)
  /\ UNCHANGED <<now, tickets, queue, row, req, holder, mailed, faults, asked, lost, doubtful>>

\* The first fails: its error is only logged, after the second was tried.
PutBackFails(w) ==
  /\ worker[w].pc = "rollback"
  /\ FaultInUndo
  /\ lost' = lost \cup worker[w].back
  /\ RestoreTTLs(w)
  /\ UNCHANGED <<now, tickets, queue, ttl, row, req, holder, mailed, asked, doubtful>>

\* The second fails: the entry counts as one whose client is still waiting.
PutBackTTLFails(w) ==
  /\ worker[w].pc = "rollbackTTL"
  /\ FaultInUndo
  /\ Resume(w)
  /\ UNCHANGED <<now, tickets, queue, ttl, row, req, holder, mailed, asked, lost, doubtful>>

\* Emails no longer in the queue, of which the worker is the only one to know.
Holds(w) ==
  CASE worker[w].pc = "rollback"    -> worker[w].back \cup
         (IF worker[w].then = "lock" THEN {} ELSE worker[w].batch)
    [] worker[w].pc = "rollbackTTL" -> {}
    [] worker[w].pc = "send"        -> {m[1] : m \in worker[w].messages}
    [] OTHER                        -> worker[w].batch

\* An instance dies and is started again; the mutex goes with its connection.
Crash(w) ==
  /\ worker[w].pc # "lock"
  /\ Fault
  /\ lost' = lost \cup Holds(w)
  /\ holder' = IF holder = w THEN None ELSE holder
  /\ Update(w, Idle)
  /\ UNCHANGED <<now, tickets, queue, ttl, row, req, mailed, asked, doubtful>>

Tick ==
  /\ now <= MaxTime
  /\ now' = now + 1
  /\ UNCHANGED <<tickets, queue, ttl, row, req, holder, worker, mailed, faults,
                 asked, lost, doubtful>>

\* What a worker does when nothing fails.
Work(w) ==
  \/ EnsureLocked(w) \/ Dequeue(w) \/ Filter(w) \/ Fetch(w) \/ Send(w)
  \/ PutBack(w) \/ PutBackTTL(w)

Fails(w) ==
  \/ RateUnparseable(w) \/ DequeueFails(w) \/ FilterFails(w) \/ FetchFails(w)
  \/ WaitCancelled(w) \/ PutBackFails(w) \/ PutBackTTLFails(w) \/ Crash(w)

Next ==
  \/ \E p \in Requests :
       \/ \E e \in Emails, d \in Devices : Enqueue(p, e, d)
       \/ StoreCode(p)
       \/ Abort(p)
  \/ \E e \in Emails, d \in Devices : Redeem(e, d)
  \/ \E w \in Workers : Work(w) \/ LockAborted(w) \/ Fails(w)
  \/ Tick

\* A worker is a loop of its own that the runtime keeps scheduling.
Fairness == \A w \in Workers : WF_vars(Work(w))
Spec == Init /\ [][Next]_vars
FairSpec == Spec /\ Fairness
-----------------------------------------------------------------------------
(* Correctness.                                                            *)

\* An entry of the queue, an email with the score it was given, is in one
\* place at a time: in the queue or in the hands of one worker, even when the
\* mutex could not be asked for and two workers run at once.
EntryTakenOnce ==
  \A w \in Workers : \A e \in Holds(w) :
    /\ queue[e] # worker[w].scores[e]
    /\ \A v \in Workers \ {w} : e \in Holds(v) => worker[v].scores[e] # worker[w].scores[e]

\* A client is dropped as having left the queue only when it has not asked for
\* QueueAliveTTL, whatever entries failed batches have put back meanwhile and
\* whoever went on without the mutex: unless, since it last asked, one worker
\* took the time of that request while another had an older one in hand, for
\* the older one may be put back when the newer is gone.
WaitingNotDropped ==
  \A w \in Workers : worker[w].pc = "filter" =>
    \A e \in LeftQueue(w) \ doubtful : asked[e] + AliveTTL < worker[w].now

\* The code a queued client is waiting for gets mailed, unless it is replaced
\* by a newer one that is, expires or is redeemed, the client stops asking, or
\* a fault took its entry: rate limit, failed senders, entries put back and
\* workers that end only delay it while one worker is left.  When the database
\* has ended them all, the queue stands still until the service is restarted.
CodeReachesClient ==
  \A e \in Emails, d \in Devices, c \in 1..MaxCode :
    queue[e] # 0 /\ row[e][d].code = c ~>
      \/ mailed[e][d] >= c
      \/ row[e][d].redeemed
      \/ row[e][d].created + Expiration <= now
      \/ TTLEnabled /\ asked[e] + AliveTTL < now
      \/ e \in lost
      \/ \A w \in Workers : worker[w].pc = "stopped"
=============================================================================
