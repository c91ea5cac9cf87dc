-------------------------- MODULE EmailLinkProofs ---------------------------
(***************************************************************************)
(* Proofs about the two models of auth/email_link that nothing composes:   *)
(* the queue of login emails and the change of an address.                 *)
(*                                                                         *)
(* The queue: an entry is in one place, for any emails, workers, rate      *)
(* limits and faults, with and without the mutex.  EntryTakenOnce speaks   *)
(* of what a worker alone knows of.  A worker may also put back what it    *)
(* has no message for, so the entries it owns, all those of its batch,     *)
(* must be nowhere else.  New entries differ from all others because no    *)
(* score is above the tickets given out.                                   *)
(*                                                                         *)
(* The change, for any addresses, requests at once and limits: codes are   *)
(* counted per client IP (CountInv), metadata is merged, and a change is   *)
(* made or undone as a whole (AtomicInv).  AllOrNothing speaks of a system *)
(* at rest; its invariant says of each request on the way which place it   *)
(* has written and which address is granted to it if it gives up, and that *)
(* two write at once only for the same change, both going forward.         *)
(***************************************************************************)
EXTENDS EmailQueue, EmailChange, FiniteSetTheorems, TLAPS

\* A worker's record has the fields it began with.
Shape(r) ==
  r = [pc |-> r.pc, batch |-> r.batch, scores |-> r.scores, ttls |-> r.ttls,
       limit |-> r.limit, now |-> r.now, messages |-> r.messages, back |-> r.back,
       keepTTL |-> r.keepTTL, then |-> r.then]

\* What the stages of processEmailQueue rely on: a roll back after which the
\* batch goes on has nothing of that batch and restores no times.
Sound(r) ==
  /\ Shape(r)
  /\ r.batch \subseteq Emails /\ r.back \subseteq Emails
  /\ r.scores \in [Emails -> Nat]
  /\ r.then \in {"lock", "filter", "fetch"}
  /\ r.pc = "rollback" /\ r.then # "lock" => r.back \cap r.batch = {} /\ r.keepTTL = FALSE
  /\ r.pc = "rollbackTTL" => r.then = "lock"
  /\ r.pc = "send" => \A m \in r.messages : m[1] \in r.batch

\* The entries a worker may still mail or put back.
Owned(r) ==
  IF r.pc = "rollback" THEN r.back \cup (IF r.then = "lock" THEN {} ELSE r.batch)
  ELSE IF r.pc = "rollbackTTL" THEN {}
  ELSE r.batch

Numbered ==
  /\ \A e \in Emails : queue[e] <= tickets
  /\ \A w \in Workers : \A e \in Owned(worker[w]) :
       worker[w].scores[e] # 0 /\ worker[w].scores[e] <= tickets

OwnedOnce ==
  \A w \in Workers : \A e \in Owned(worker[w]) :
    /\ queue[e] # worker[w].scores[e]
    /\ \A v \in Workers \ {w} : e \in Owned(worker[v]) => worker[v].scores[e] # worker[w].scores[e]

IInv ==
  /\ tickets \in Nat /\ queue \in [Emails -> Nat]
  /\ worker = [w \in Workers |-> worker[w]]
  /\ \A w \in Workers : Sound(worker[w])
  /\ Numbered
  /\ OwnedOnce
-----------------------------------------------------------------------------
LEMMA HoldsOwned ==
  ASSUME IInv, NEW w \in Workers
  PROVE  Holds(w) \subseteq Owned(worker[w])
<1>1. Sound(worker[w])
  BY DEF IInv
<1> QED BY <1>1 DEF Holds, Owned, Sound

LEMMA OwnedEmails ==
  ASSUME NEW r, Sound(r)
  PROVE  Owned(r) \subseteq Emails
BY DEF Sound, Owned

\* A worker goes on with entries it owned, or takes them from the queue; what
\* enters the queue it owned and owns no more.
LEMMA WorkKeeps ==
  ASSUME IInv, NEW w \in Workers, NEW r, Sound(r),
         worker' = [worker EXCEPT ![w] = r],
         tickets' = tickets, queue' \in [Emails -> Nat],
         \A e \in Emails :
           \/ queue'[e] = queue[e]
           \/ queue'[e] = 0
           \/ e \in Owned(worker[w]) \ Owned(r) /\ queue'[e] = worker[w].scores[e],
         \A e \in Owned(r) :
           \/ e \in Owned(worker[w]) /\ r.scores[e] = worker[w].scores[e]
           \/ queue[e] # 0 /\ r.scores[e] = queue[e] /\ queue'[e] = 0
  PROVE  IInv'
<1>1. /\ worker' = [v \in Workers |-> worker'[v]]
      /\ \A v \in Workers : worker'[v] = IF v = w THEN r ELSE worker[v]
  BY DEF IInv
<1>2. \A v \in Workers : Sound(worker'[v])
  BY <1>1 DEF IInv
<1>3. \A v \in Workers : Owned(worker[v]) \subseteq Emails
  BY OwnedEmails DEF IInv
<1>4. Owned(r) \subseteq Emails
  BY OwnedEmails
<1>5. \A v \in Workers : worker[v].scores \in [Emails -> Nat]
  BY DEF IInv, Sound
<1>6. Numbered'
  <2>1. \A e \in Emails : queue'[e] <= tickets'
    BY <1>5 DEF IInv, Numbered
  <2>2. ASSUME NEW v \in Workers, NEW e \in Owned(worker'[v])
        PROVE  worker'[v].scores[e] # 0 /\ worker'[v].scores[e] <= tickets'
    BY <1>1, <1>3, <1>4 DEF IInv, Numbered
  <2> QED BY <2>1, <2>2 DEF Numbered
<1>7. OwnedOnce'
  <2>1. ASSUME NEW v \in Workers \ {w}, NEW e \in Owned(worker[v])
        PROVE  /\ queue'[e] # worker[v].scores[e]
               /\ e \in Owned(r) => r.scores[e] # worker[v].scores[e]
    BY <1>3 DEF IInv, Numbered, OwnedOnce
  <2>2. ASSUME NEW e \in Owned(r)
        PROVE  queue'[e] # r.scores[e]
    BY <1>3, <1>4 DEF IInv, Numbered, OwnedOnce
  <2>3. ASSUME NEW v \in Workers, NEW e \in Owned(worker'[v])
        PROVE  queue'[e] # worker'[v].scores[e]
    BY <1>1, <2>1, <2>2, <2>3
  <2>4. ASSUME NEW v \in Workers, NEW e \in Owned(worker'[v]),
               NEW x \in Workers \ {v}, e \in Owned(worker'[x])
        PROVE  worker'[x].scores[e] # worker'[v].scores[e]
    <3>1. CASE v = w
      BY <1>1, <2>1, <2>4, <3>1
    <3>2. CASE x = w
      BY <1>1, <2>1, <2>4, <3>2
    <3>3. CASE v # w /\ x # w
      BY <1>1, <2>4, <3>3 DEF IInv, OwnedOnce
    <3> QED BY <3>1, <3>2, <3>3
  <2> QED BY <2>3, <2>4 DEF OwnedOnce
<1> QED BY <1>1, <1>2, <1>6, <1>7 DEF IInv

\* The same when the queue stays as it is.
LEMMA HandKeeps ==
  ASSUME IInv, NEW w \in Workers, NEW r, Sound(r),
         worker' = [worker EXCEPT ![w] = r], UNCHANGED <<tickets, queue>>,
         Owned(r) \subseteq Owned(worker[w]),
         \A e \in Owned(r) : r.scores[e] = worker[w].scores[e]
  PROVE  IInv'
BY WorkKeeps DEF IInv

LEMMA IdleSound == Sound(Idle) /\ Owned(Idle) = {}
BY DEF Sound, Shape, Owned, Idle
-----------------------------------------------------------------------------
(* One lemma per stage.                                                    *)

\* A record that is rolled back: it owns what goes back, and what goes on.
Back(r, back, keep, then) ==
  [r EXCEPT !.pc = "rollback", !.back = back, !.messages = {}, !.keepTTL = keep, !.then = then]

LEMMA RolledBack ==
  ASSUME NEW r, Sound(r), NEW back \in SUBSET Emails,
         NEW keep
  PROVE  LET x == Back(r, back, keep, "lock")
         IN  Sound(x) /\ x.scores = r.scores /\ Owned(x) = back
<1>1. PICK x : x = Back(r, back, keep, "lock")
  OBVIOUS
<1>2. x = [pc |-> "rollback", batch |-> r.batch, scores |-> r.scores, ttls |-> r.ttls,
           limit |-> r.limit, now |-> r.now, messages |-> {}, back |-> back,
           keepTTL |-> keep, then |-> "lock"]
  BY <1>1 DEF Sound, Shape, Back
<1>3. Sound(x) /\ x.scores = r.scores /\ Owned(x) = back
  BY <1>2 DEF Sound, Shape, Owned
<1> QED BY <1>1, <1>3

LEMMA RolledBackInPart ==
  ASSUME NEW r, Sound(r), NEW back \in SUBSET Emails,
         NEW then \in {"filter", "fetch"}, back \cap r.batch = {}
  PROVE  LET x == Back(r, back, FALSE, then)
         IN  Sound(x) /\ x.scores = r.scores /\ Owned(x) = back \cup r.batch
<1>1. PICK x : x = Back(r, back, FALSE, then)
  OBVIOUS
<1>2. x = [pc |-> "rollback", batch |-> r.batch, scores |-> r.scores, ttls |-> r.ttls,
           limit |-> r.limit, now |-> r.now, messages |-> {}, back |-> back,
           keepTTL |-> FALSE, then |-> then]
  BY <1>1 DEF Sound, Shape, Back
<1>3. Sound(x) /\ x.scores = r.scores /\ Owned(x) = back \cup r.batch
  BY <1>2 DEF Sound, Shape, Owned
<1> QED BY <1>1, <1>3

LEMMA BeginsKeeps ==
  ASSUME IInv, NEW w \in Workers, EnsureLocked(w) \/ LockAborted(w)
  PROVE  IInv'
<1>0. PICK r : /\ worker' = [worker EXCEPT ![w] = r]
               /\ \/ r = [Idle EXCEPT !.pc = "dequeue", !.now = now]
                  \/ r = [Idle EXCEPT !.pc = "stopped"]
  BY DEF EnsureLocked, LockAborted, Update
<1>1. Idle.batch = {} /\ Idle.back = {} /\ Idle.then = "lock"
  BY DEF Idle
<1>2. /\ r.pc \in {"dequeue", "stopped"} /\ r.batch = Idle.batch /\ r.scores = Idle.scores
      /\ r.back = Idle.back /\ r.then = Idle.then /\ Shape(r)
  BY <1>0, IdleSound DEF Sound, Shape
<1>3. worker' = [worker EXCEPT ![w] = r] /\ UNCHANGED <<tickets, queue>>
  BY <1>0 DEF EnsureLocked, LockAborted
<1>4. Sound(r) /\ Owned(r) = {}
  BY <1>1, <1>2, IdleSound DEF Sound, Owned
<1> QED BY <1>3, <1>4, HandKeeps

\* A worker that forgets what it has.
LEMMA IdleKeeps ==
  ASSUME IInv, NEW w \in Workers, Update(w, Idle), UNCHANGED <<tickets, queue>>
  PROVE  IInv'
BY IdleSound, HandKeeps DEF Update

\* The transaction that takes the oldest entries, whatever is done with them.
LEMMA TakeKeeps ==
  ASSUME IInv, NEW w \in Workers, TakeOldest, tickets' = tickets,
         NEW r, Sound(r), worker' = [worker EXCEPT ![w] = r],
         Owned(r) \subseteq Oldest, r.scores = Taken(w).scores
  PROVE  IInv'
<1>1. Oldest \subseteq Emails /\ \A e \in Oldest : queue[e] # 0
  BY DEF Oldest, Queued
<1>2. queue' \in [Emails -> Nat] /\ \A e \in Emails : queue'[e] = IF e \in Oldest THEN 0 ELSE queue[e]
  BY DEF TakeOldest, IInv
<1>3. Taken(w).scores = [e \in Emails |-> IF e \in Oldest THEN queue[e] ELSE 0]
  BY DEF Taken, IInv, Sound, Shape
<1>4. \A e \in Owned(r) : queue[e] # 0 /\ r.scores[e] = queue[e] /\ queue'[e] = 0
  BY <1>1, <1>2, <1>3
<1>5. \A e \in Emails : queue'[e] = queue[e] \/ queue'[e] = 0
  BY <1>2
<1> QED BY <1>2, <1>4, <1>5, WorkKeeps

LEMMA TakeNothing ==
  ASSUME IInv, NEW w \in Workers, TakeOldest, tickets' = tickets,
         worker' = [worker EXCEPT ![w] = Idle]
  PROVE  IInv'
<1>1. queue' \in [Emails -> Nat] /\ \A e \in Emails : queue'[e] = queue[e] \/ queue'[e] = 0
  BY DEF TakeOldest, IInv
<1> QED BY <1>1, IdleSound, WorkKeeps

LEMMA TakenSound ==
  ASSUME IInv, NEW w \in Workers, worker[w].pc = "dequeue"
  PROVE  /\ Sound(Taken(w)) /\ Taken(w).batch = Oldest /\ Taken(w).pc = "dequeue"
         /\ Oldest \subseteq Emails
<1> DEFINE picked == [e \in Emails |-> IF e \in Oldest THEN queue[e] ELSE 0]
<1>1. Oldest \subseteq Emails
  BY DEF Oldest, Queued
<1>2. picked \in [Emails -> Nat]
  BY DEF IInv
<1>3. Taken(w) = [worker[w] EXCEPT !.batch = Oldest, !.scores = picked]
  BY DEF Taken
<1>4. Sound(worker[w])
  BY DEF IInv
<1> HIDE DEF picked
<1>5. /\ Taken(w).batch = Oldest /\ Taken(w).scores = picked /\ Taken(w).pc = "dequeue"
      /\ Taken(w).back = worker[w].back /\ Taken(w).then = worker[w].then
      /\ Shape(Taken(w))
  BY <1>3, <1>4 DEF Sound, Shape
<1> QED BY <1>1, <1>2, <1>4, <1>5 DEF Sound

LEMMA DequeueKeeps ==
  ASSUME IInv, NEW w \in Workers, Dequeue(w)
  PROVE  IInv'
<1>1. /\ Sound(Taken(w)) /\ Taken(w).batch = Oldest /\ Taken(w).pc = "dequeue"
      /\ Oldest \subseteq Emails
  BY TakenSound DEF Dequeue
<1>2. TakeOldest /\ tickets' = tickets
  BY DEF Dequeue
<1>3. CASE Update(w, Idle)
  BY <1>2, <1>3, TakeNothing DEF Update
<1>4. ASSUME NEW rate \in Rates, NEW beyond, beyond = Beyond(Oldest, rate),
             NEW picked, picked = [Taken(w) EXCEPT !.batch = @ \ beyond,
                                   !.limit = Min({rate, Cardinality(Oldest)})],
             IF beyond = {} THEN Update(w, [picked EXCEPT !.pc = NextStage])
             ELSE RollBack(w, picked, beyond, FALSE, NextStage)
      PROVE  IInv'
  <2>1. beyond \subseteq Oldest /\ NextStage \in {"filter", "fetch"}
    BY <1>4 DEF Beyond, NextStage
  <2>2. /\ Sound(picked) /\ picked.batch = Oldest \ beyond /\ picked.pc = "dequeue"
        /\ picked.scores = Taken(w).scores
    BY <1>1, <1>4 DEF Sound, Shape
  <2>3. CASE beyond = {}
    <3> DEFINE r == [picked EXCEPT !.pc = NextStage]
    <3>1. Sound(r) /\ r.batch = picked.batch /\ r.scores = picked.scores /\ r.pc = NextStage
      BY <2>1, <2>2 DEF Sound, Shape
    <3>2. Owned(r) \subseteq Oldest
      BY <2>1, <2>2, <3>1 DEF Owned
    <3>3. worker' = [worker EXCEPT ![w] = r]
      BY <1>4, <2>3 DEF Update
    <3> HIDE DEF r
    <3> QED BY <1>2, <2>2, <3>1, <3>2, <3>3, TakeKeeps
  <2>4. CASE beyond # {}
    <3>0. PICK r : r = Back(picked, beyond, FALSE, NextStage)
      OBVIOUS
    <3>1. Sound(r) /\ r.scores = picked.scores /\ Owned(r) = beyond \cup picked.batch
      BY <1>1, <2>1, <2>2, <3>0, RolledBackInPart
    <3>2. worker' = [worker EXCEPT ![w] = r]
      BY <1>4, <2>4, <3>0 DEF RollBack, Update, Back
    <3> QED BY <1>2, <2>1, <2>2, <3>1, <3>2, TakeKeeps
  <2> QED BY <2>3, <2>4
<1> QED BY <1>3, <1>4 DEF Dequeue

LEMMA RateUnparseableKeeps ==
  ASSUME IInv, NEW w \in Workers, RateUnparseable(w)
  PROVE  IInv'
<1>0. PICK r : r = Back(Taken(w), Oldest, FALSE, "lock")
  OBVIOUS
<1>1. Sound(Taken(w)) /\ Oldest \subseteq Emails
  BY TakenSound DEF RateUnparseable
<1>2. Sound(r) /\ r.scores = Taken(w).scores /\ Owned(r) = Oldest
  BY <1>0, <1>1, RolledBack
<1>3. TakeOldest /\ tickets' = tickets /\ worker' = [worker EXCEPT ![w] = r]
  BY <1>0 DEF RateUnparseable, RollBack, Update, Back
<1> QED BY <1>2, <1>3, TakeKeeps

LEMMA DequeueFailsKeeps ==
  ASSUME IInv, NEW w \in Workers, DequeueFails(w)
  PROVE  IInv'
BY TakeNothing DEF DequeueFails, Update

LEMMA FilterKeeps ==
  ASSUME IInv, NEW w \in Workers, Filter(w)
  PROVE  IInv'
<1> DEFINE rest == worker[w].batch \ LeftQueue(w)
           ttls == [e \in Emails |-> IF e \in rest THEN ttl[e] ELSE 0]
<1>1. Sound(worker[w]) /\ worker[w].pc = "filter" /\ UNCHANGED <<tickets, queue>>
  BY DEF IInv, Filter
<1>2. CASE Update(w, Idle)
  BY <1>1, <1>2, IdleKeeps
<1>3. CASE Update(w, [worker[w] EXCEPT !.pc = "fetch", !.batch = rest, !.ttls = ttls])
  <2>1. PICK r : r = [worker[w] EXCEPT !.pc = "fetch", !.batch = rest, !.ttls = ttls]
    OBVIOUS
  <2>2. worker' = [worker EXCEPT ![w] = r]
    BY <1>3, <2>1 DEF Update
  <2>3. rest \subseteq worker[w].batch
    OBVIOUS
  <2> HIDE DEF rest, ttls
  <2>4. /\ r.pc = "fetch" /\ r.batch = rest /\ r.scores = worker[w].scores
        /\ r.back = worker[w].back /\ r.then = worker[w].then /\ Shape(r)
    BY <1>1, <2>1 DEF Sound, Shape
  <2>5. Sound(r) /\ Owned(r) \subseteq Owned(worker[w])
    BY <1>1, <2>3, <2>4 DEF Sound, Owned
  <2> QED BY <1>1, <2>2, <2>4, <2>5, HandKeeps
<1> QED BY <1>2, <1>3 DEF Filter

\* The whole batch, or a part of it, goes back and the worker starts anew.
LEMMA GiveUpKeeps ==
  ASSUME IInv, NEW w \in Workers, worker[w].pc \in {"filter", "fetch", "send"},
         NEW back \in SUBSET worker[w].batch, NEW keep,
         RollBack(w, worker[w], back, keep, "lock"), UNCHANGED <<tickets, queue>>
  PROVE  IInv'
<1>1. Sound(worker[w]) /\ back \in SUBSET Emails
  BY DEF IInv, Sound
<1>2. PICK r : r = Back(worker[w], back, keep, "lock")
  OBVIOUS
<1>3. Sound(r) /\ r.scores = worker[w].scores /\ Owned(r) = back
  BY <1>1, <1>2, RolledBack
<1>4. worker' = [worker EXCEPT ![w] = r]
  BY <1>2 DEF RollBack, Update, Back
<1>5. Owned(worker[w]) = worker[w].batch
  BY DEF Owned
<1> QED BY <1>3, <1>4, <1>5, HandKeeps

LEMMA FetchKeeps ==
  ASSUME IInv, NEW w \in Workers, Fetch(w)
  PROVE  IInv'
<1>1. Sound(worker[w]) /\ worker[w].pc = "fetch" /\ UNCHANGED <<tickets, queue>>
  BY DEF IInv, Fetch
<1>2. CASE Update(w, Idle)
  BY <1>1, <1>2, IdleKeeps
<1>3. ASSUME NEW s \in Newest(Pending(w), worker[w].limit), NEW messages,
             messages = {<<t[1], t[2], row[t[1]][t[2]].code>> : t \in s},
             Update(w, [worker[w] EXCEPT !.pc = "send", !.now = 0, !.limit = 0,
                                         !.messages = messages])
      PROVE  IInv'
  <2>1. PICK r : r = [worker[w] EXCEPT !.pc = "send", !.now = 0, !.limit = 0,
                                       !.messages = messages]
    OBVIOUS
  <2>2. worker' = [worker EXCEPT ![w] = r]
    BY <1>3, <2>1 DEF Update
  <2>3. \A m \in messages : m[1] \in worker[w].batch
    BY <1>3 DEF Newest, Pending
  <2>4. /\ r.pc = "send" /\ r.batch = worker[w].batch /\ r.scores = worker[w].scores
        /\ r.back = worker[w].back /\ r.then = worker[w].then
        /\ r.messages = messages /\ Shape(r)
    BY <1>1, <2>1 DEF Sound, Shape
  <2>5. Sound(r) /\ Owned(r) = Owned(worker[w])
    BY <1>1, <2>3, <2>4 DEF Sound, Owned
  <2> QED BY <1>1, <2>2, <2>4, <2>5, HandKeeps
<1> QED BY <1>2, <1>3 DEF Fetch

LEMMA SendKeeps ==
  ASSUME IInv, NEW w \in Workers, Send(w)
  PROVE  IInv'
<1>1. Sound(worker[w]) /\ worker[w].pc = "send" /\ UNCHANGED <<tickets, queue>>
  BY DEF IInv, Send
<1>2. CASE Update(w, Idle)
  BY <1>1, <1>2, IdleKeeps
<1>3. ASSUME NEW unsent \in SUBSET worker[w].messages,
             RollBack(w, worker[w], {m[1] : m \in unsent}, TRUE, "lock")
      PROVE  IInv'
  <2>1. {m[1] : m \in unsent} \in SUBSET worker[w].batch
    BY <1>1 DEF Sound
  <2> QED BY <1>1, <1>3, <2>1, GiveUpKeeps
<1> QED BY <1>2, <1>3 DEF Send

\* What a worker goes on with after a roll back is what it has besides.
LEMMA ResumeSound ==
  ASSUME NEW w \in Workers, Sound(worker[w]),
         \/ worker[w].pc = "rollback" /\ RestoreTTLs(w)
         \/ worker[w].pc = "rollbackTTL" /\ Resume(w)
  PROVE  \E r : /\ worker' = [worker EXCEPT ![w] = r] /\ Sound(r)
                /\ Owned(r) \subseteq Owned(worker[w])
                /\ Owned(r) # {} => r.scores = worker[w].scores
                /\ worker[w].pc = "rollback" => Owned(r) \cap worker[w].back = {}
<1>1. CASE Update(w, Idle)
  BY <1>1, IdleSound DEF Update
<1>2. CASE /\ worker[w].then # "lock" /\ worker[w].pc = "rollback"
           /\ Update(w, [worker[w] EXCEPT !.pc = worker[w].then, !.back = {}])
  <2>1. PICK r : r = [worker[w] EXCEPT !.pc = worker[w].then, !.back = {}]
    OBVIOUS
  <2>2. /\ r.pc = worker[w].then /\ r.batch = worker[w].batch
        /\ r.scores = worker[w].scores /\ r.back = {} /\ r.then = worker[w].then /\ Shape(r)
    BY <2>1 DEF Sound, Shape
  <2>3. Sound(r) /\ Owned(r) = worker[w].batch
    BY <1>2, <2>2 DEF Sound, Owned
  <2>4. Owned(r) \subseteq Owned(worker[w]) /\ Owned(r) \cap worker[w].back = {}
    BY <1>2, <2>3 DEF Sound, Owned
  <2> QED BY <1>2, <2>1, <2>2, <2>3, <2>4 DEF Update
<1>3. CASE /\ worker[w].then = "lock"
           /\ Update(w, [worker[w] EXCEPT !.pc = "rollbackTTL"])
  <2>1. PICK r : r = [worker[w] EXCEPT !.pc = "rollbackTTL"]
    OBVIOUS
  <2>2. /\ r.pc = "rollbackTTL" /\ r.batch = worker[w].batch
        /\ r.scores = worker[w].scores /\ r.back = worker[w].back
        /\ r.then = worker[w].then /\ Shape(r)
    BY <2>1 DEF Sound, Shape
  <2>3. Sound(r) /\ Owned(r) = {}
    BY <1>3, <2>2 DEF Sound, Owned
  <2> QED BY <1>3, <2>1, <2>2, <2>3 DEF Update
<1> QED BY <1>1, <1>2, <1>3 DEF Sound, RestoreTTLs, Resume

LEMMA PutBackKeeps ==
  ASSUME IInv, NEW w \in Workers, worker[w].pc = "rollback", RestoreTTLs(w), tickets' = tickets,
         \/ UNCHANGED queue
         \/ queue' = [e \in Emails |->
              IF e \in worker[w].back /\ queue[e] = 0 THEN worker[w].scores[e] ELSE queue[e]]
  PROVE  IInv'
<1>1. Sound(worker[w])
  BY DEF IInv
<1>2. PICK r : /\ worker' = [worker EXCEPT ![w] = r] /\ Sound(r)
               /\ Owned(r) \subseteq Owned(worker[w])
               /\ Owned(r) # {} => r.scores = worker[w].scores
               /\ worker[w].pc = "rollback" => Owned(r) \cap worker[w].back = {}
  BY <1>1, ResumeSound, Zenon
<1>3. CASE UNCHANGED queue
  BY <1>2, <1>3, HandKeeps
<1>4. CASE queue' = [e \in Emails |->
             IF e \in worker[w].back /\ queue[e] = 0 THEN worker[w].scores[e] ELSE queue[e]]
  <2>1. queue' \in [Emails -> Nat]
    BY <1>1, <1>4 DEF IInv, Sound
  <2>2. worker[w].back \subseteq Owned(worker[w])
    BY DEF Owned
  <2>3. worker[w].back \subseteq Owned(worker[w]) \ Owned(r)
    BY <1>2, <2>2
  <2>4. \A e \in Emails :
          queue'[e] = IF e \in worker[w].back /\ queue[e] = 0 THEN worker[w].scores[e]
                      ELSE queue[e]
    BY <1>4
  <2>5. \A e \in Emails :
          \/ queue'[e] = queue[e]
          \/ e \in Owned(worker[w]) \ Owned(r) /\ queue'[e] = worker[w].scores[e]
    BY <2>3, <2>4
  <2>6. \A e \in Owned(r) : e \in Owned(worker[w]) /\ r.scores[e] = worker[w].scores[e]
    BY <1>2
  <2> QED BY <1>2, <2>1, <2>5, <2>6, WorkKeeps
<1> QED BY <1>3, <1>4

LEMMA PutBackTTLKeeps ==
  ASSUME IInv, NEW w \in Workers, worker[w].pc = "rollbackTTL", Resume(w),
         UNCHANGED <<tickets, queue>>
  PROVE  IInv'
BY ResumeSound, HandKeeps DEF IInv

\* A client that is not in the queue gets the next score.
LEMMA EnqueueKeeps ==
  ASSUME IInv, NEW p \in Requests, NEW e \in Emails, NEW d \in Devices, Enqueue(p, e, d)
  PROVE  IInv'
<1>1. worker' = worker
  BY DEF Enqueue
<1>2. CASE UNCHANGED <<queue, tickets>>
  BY <1>1, <1>2 DEF IInv, Numbered, OwnedOnce, Owned, Sound, Shape
<1>3. CASE tickets' = tickets + 1 /\ queue' = [queue EXCEPT ![e] = tickets + 1]
  <2>1. /\ tickets' \in Nat /\ queue' \in [Emails -> Nat]
        /\ \A f \in Emails : queue'[f] = IF f = e THEN tickets + 1 ELSE queue[f]
    BY <1>3 DEF IInv
  <2>2. \A w \in Workers : Owned(worker[w]) \subseteq Emails /\ worker[w].scores \in [Emails -> Nat]
    BY OwnedEmails DEF IInv, Sound
  <2>3. \A w \in Workers : Sound(worker[w]) /\ Owned(worker'[w]) = Owned(worker[w])
    BY <1>1 DEF IInv
  <2>4. Numbered'
    BY <1>1, <1>3, <2>1, <2>2, <2>3 DEF IInv, Numbered
  <2>5. OwnedOnce'
    BY <1>1, <1>3, <2>1, <2>2, <2>3 DEF IInv, Numbered, OwnedOnce
  <2> QED BY <1>1, <2>1, <2>3, <2>4, <2>5 DEF IInv
<1> QED BY <1>2, <1>3 DEF Enqueue

LEMMA QuietKeeps ==
  ASSUME IInv, UNCHANGED <<queue, tickets, worker>>
  PROVE  IInv'
BY DEF IInv, Numbered, OwnedOnce

LEMMA InitHolds == Init => IInv
<1> SUFFICES ASSUME Init PROVE IInv
  OBVIOUS
<1>1. /\ tickets = 0 /\ queue = [e \in Emails |-> 0]
      /\ worker = [w \in Workers |-> Idle]
  BY DEF Init
<1>2. \A w \in Workers : Sound(worker[w]) /\ Owned(worker[w]) = {}
  BY <1>1, IdleSound
<1> QED BY <1>1, <1>2 DEF IInv, Numbered, OwnedOnce

LEMMA NextKeeps == IInv /\ [Next]_vars => IInv'
<1> SUFFICES ASSUME IInv, [Next]_vars PROVE IInv'
  OBVIOUS
<1>1. CASE \E p \in Requests : \E e \in Emails, d \in Devices : Enqueue(p, e, d)
  BY <1>1, EnqueueKeeps
<1>2. CASE UNCHANGED <<queue, tickets, worker>>
  BY <1>2, QuietKeeps
<1>3. ASSUME NEW w \in Workers, Work(w)
      PROVE  IInv'
  <2>1. CASE PutBack(w)
    BY <2>1, PutBackKeeps DEF PutBack
  <2>2. CASE PutBackTTL(w)
    BY <2>2, PutBackTTLKeeps DEF PutBackTTL
  <2> QED BY <1>3, <2>1, <2>2, BeginsKeeps, DequeueKeeps, FilterKeeps, FetchKeeps,
             SendKeeps DEF Work
<1>4. ASSUME NEW w \in Workers, Fails(w)
      PROVE  IInv'
  <2>1. worker[w].batch \in SUBSET worker[w].batch
    OBVIOUS
  <2>2. CASE FilterFails(w) \/ FetchFails(w) \/ WaitCancelled(w)
    BY <2>1, <2>2, GiveUpKeeps DEF FilterFails, FetchFails, WaitCancelled
  <2>3. CASE PutBackFails(w)
    BY <2>3, PutBackKeeps DEF PutBackFails
  <2>4. CASE PutBackTTLFails(w)
    BY <2>4, PutBackTTLKeeps DEF PutBackTTLFails
  <2>5. CASE Crash(w)
    BY <2>5, IdleKeeps DEF Crash
  <2> QED BY <1>4, <2>2, <2>3, <2>4, <2>5, RateUnparseableKeeps, DequeueFailsKeeps DEF Fails
<1>5. CASE \E p \in Requests : StoreCode(p) \/ Abort(p)
  BY <1>2, <1>5 DEF StoreCode, Abort
<1>6. CASE (\E e \in Emails, d \in Devices : Redeem(e, d)) \/ Tick
  BY <1>2, <1>6 DEF Redeem, Tick
<1>7. CASE UNCHANGED vars
  BY <1>2, <1>7 DEF vars
<1>8. CASE \E w \in Workers : LockAborted(w)
  BY <1>8, BeginsKeeps
<1> QED BY <1>1, <1>3, <1>4, <1>5, <1>6, <1>7, <1>8 DEF Next

LEMMA IInvMeans == IInv => EntryTakenOnce
<1> SUFFICES ASSUME IInv PROVE EntryTakenOnce
  OBVIOUS
<1>1. \A w \in Workers : Holds(w) \subseteq Owned(worker[w])
  BY HoldsOwned
<1> QED BY <1>1 DEF IInv, OwnedOnce, EntryTakenOnce

\* An entry of the queue is in one place, the queue or the hands of one worker
\* (processEmailQueue, rollbackEmailsBackToQueue), whatever runs without the
\* mutex, fails half-way or dies.
THEOREM EntryTakenOnceHolds == Spec => []EntryTakenOnce
BY InitHolds, NextKeeps, IInvMeans, PTL DEF Spec
-----------------------------------------------------------------------------
(* Who waits is not dropped.  An entry of login_queue_ttl is the time of the *)
(* last request, or missing; so are the times a worker has in hand while the *)
(* entry is missing, for it took them before the entry went.  Only if one    *)
(* worker takes a newer time while another has an older one in hand is the   *)
(* older one all that is left, and the email doubtful.  Neither the mutex    *)
(* nor the faults come into it.                                              *)

\* Only with a TTL is there a "filter" stage, and until then no time is in hand.
Early(r) == r.pc \in {"dequeue", "filter"} \/ (r.pc = "rollback" /\ r.then # "lock")

Staged(r) ==
  /\ r.then \in {"lock", NextStage} /\ (r.pc = "filter" => TTLEnabled)
  /\ Early(r) => \A e \in Emails : r.ttls[e] = 0

Latest == \A e \in Emails \ doubtful : ttl[e] # 0 => ttl[e] = asked[e]

Fresh ==
  \A w \in Workers : \A e \in Emails \ doubtful :
    ttl[e] = 0 /\ worker[w].ttls[e] # 0 => worker[w].ttls[e] = asked[e]

WaitInv ==
  /\ now \in Nat /\ now # 0
  /\ ttl = [e \in Emails |-> ttl[e]] /\ asked = [e \in Emails |-> asked[e]]
  /\ \A w \in Workers : Staged(worker[w])
  /\ TTLEnabled => Latest /\ Fresh

\* What a step of worker w, from record x to r, does to the time of e: nothing;
\* or the worker puts back what it has; or takes what there is, which is
\* doubtful when another has a time of e.
Entry(w, x, r, e) ==
  \/ ttl'[e] = ttl[e] /\ r.ttls[e] \in {0, x.ttls[e]}
  \/ ttl[e] = 0 /\ ttl'[e] = x.ttls[e] /\ r.ttls[e] \in {0, x.ttls[e]}
  \/ /\ ttl[e] # 0 /\ ttl'[e] = 0 /\ r.ttls[e] \in {0, ttl[e]}
     /\ e \in doubtful' \/ \A v \in Workers \ {w} : worker[v].ttls[e] = 0

Moves(w, r) ==
  /\ worker' = [worker EXCEPT ![w] = r] /\ UNCHANGED <<asked, now>>
  /\ Staged(r)
  /\ ttl' = [e \in Emails |-> ttl'[e]] /\ doubtful \subseteq doubtful'
  /\ TTLEnabled => \A e \in Emails : Entry(w, worker[w], r, e)

LEMMA MovesKeeps ==
  ASSUME IInv, WaitInv, NEW w \in Workers, NEW r, Moves(w, r)
  PROVE  WaitInv'
<1>1. /\ \A v \in Workers : worker'[v] = IF v = w THEN r ELSE worker[v]
      /\ asked' = asked /\ now' = now
  BY DEF IInv, Moves
<1>2. \A v \in Workers : Staged(worker'[v])
  BY <1>1 DEF Moves, WaitInv
<1>3. ASSUME TTLEnabled, NEW e \in Emails \ doubtful'
      PROVE  /\ ttl'[e] # 0 => ttl'[e] = asked[e]
             /\ \A v \in Workers : ttl'[e] = 0 /\ worker'[v].ttls[e] # 0
                                     => worker'[v].ttls[e] = asked[e]
  <2>1. /\ e \in Emails \ doubtful /\ e \notin doubtful'
        /\ ttl[e] # 0 => ttl[e] = asked[e]
        /\ \A v \in Workers : ttl[e] = 0 /\ worker[v].ttls[e] # 0 => worker[v].ttls[e] = asked[e]
    BY <1>3 DEF Moves, WaitInv, Latest, Fresh
  <2>2. Entry(w, worker[w], r, e)
    BY <1>3 DEF Moves
  <2> QED BY <1>1, <2>1, <2>2 DEF Entry
<1> QED BY <1>1, <1>2, <1>3 DEF WaitInv, Moves, Latest, Fresh

LEMMA IdleStaged == Staged(Idle) /\ Idle.then = "lock" /\ \A e \in Emails : Idle.ttls[e] = 0
BY DEF Staged, Early, Idle

\* A worker that starts anew has no times in hand.
LEMMA ForgetMoves ==
  ASSUME NEW w \in Workers, NEW r, \A e \in Emails : r.ttls[e] = 0, Staged(r),
         worker' = [worker EXCEPT ![w] = r], UNCHANGED <<asked, now>>,
         ttl' = [e \in Emails |-> ttl'[e]], doubtful \subseteq doubtful',
         TTLEnabled =>
           \A e \in Emails :
             \/ ttl'[e] = ttl[e]
             \/ ttl[e] = 0 /\ ttl'[e] = worker[w].ttls[e]
             \/ /\ ttl[e] # 0 /\ ttl'[e] = 0
                /\ e \in doubtful' \/ \A v \in Workers \ {w} : worker[v].ttls[e] = 0
  PROVE  Moves(w, r)
BY DEF Moves, Entry

\* A worker that goes on, with the entries as they are.
LEMMA GoesOnMoves ==
  ASSUME WaitInv, NEW w \in Workers, NEW r, worker' = [worker EXCEPT ![w] = r],
         UNCHANGED <<asked, now, ttl, doubtful>>, Staged(r), r.ttls = worker[w].ttls
  PROVE  Moves(w, r)
BY DEF Moves, Entry, WaitInv

LEMMA BeginsWaits ==
  ASSUME IInv, WaitInv, NEW w \in Workers, EnsureLocked(w) \/ LockAborted(w)
  PROVE  WaitInv'
<1>1. PICK r : worker' = [worker EXCEPT ![w] = r]
               /\ (r = [Idle EXCEPT !.pc = "dequeue", !.now = now] \/ r = [Idle EXCEPT !.pc = "stopped"])
  BY DEF EnsureLocked, LockAborted, Update
<1>2. r.pc # "filter" /\ r.then = "lock" /\ r.ttls = Idle.ttls
  BY <1>1 DEF Idle
<1>3. Staged(r) /\ \A e \in Emails : r.ttls[e] = 0
  BY <1>2, IdleStaged DEF Staged, Early
<1>4. UNCHANGED <<asked, now, ttl, doubtful>> /\ ttl = [e \in Emails |-> ttl[e]]
  BY DEF EnsureLocked, LockAborted, WaitInv
<1>5. Moves(w, r)
  BY <1>1, <1>3, <1>4, ForgetMoves
<1> QED BY <1>5, MovesKeeps

\* What is rolled back, from a record that is as the worker's own but for what
\* it took.
LEMMA RollBackWaits ==
  ASSUME IInv, WaitInv, NEW w \in Workers, NEW x, Shape(x), x.ttls = worker[w].ttls,
         NEW back, NEW keep, NEW then \in {"lock", NextStage},
         RollBack(w, x, back, keep, then), UNCHANGED <<asked, now, ttl, doubtful>>,
         then = "lock" \/ worker[w].pc = "dequeue"
  PROVE  WaitInv'
<1>1. PICK r : r = Back(x, back, keep, then)
  OBVIOUS
<1>2. r = [pc |-> "rollback", batch |-> x.batch, scores |-> x.scores, ttls |-> x.ttls,
           limit |-> x.limit, now |-> x.now, messages |-> {}, back |-> back,
           keepTTL |-> keep, then |-> then]
  BY <1>1 DEF Shape, Back
<1>3. r.pc = "rollback" /\ r.then = then /\ r.ttls = worker[w].ttls
  BY <1>2
<1>6. Staged(r)
  BY <1>3 DEF Staged, Early, WaitInv
<1>4. worker' = [worker EXCEPT ![w] = r]
  BY <1>1 DEF RollBack, Update, Back
<1>5. Moves(w, r)
  BY <1>3, <1>4, <1>6, GoesOnMoves
<1> QED BY <1>5, MovesKeeps

LEMMA TakenFields ==
  ASSUME IInv, NEW w \in Workers
  PROVE  /\ Shape(Taken(w)) /\ Taken(w).ttls = worker[w].ttls
         /\ Taken(w).then = worker[w].then
<1> DEFINE picked == [e \in Emails |-> IF e \in Oldest THEN queue[e] ELSE 0]
<1>1. Taken(w) = [worker[w] EXCEPT !.batch = Oldest, !.scores = picked] /\ Shape(worker[w])
  BY DEF Taken, IInv, Sound
<1> HIDE DEF picked
<1> QED BY <1>1 DEF Shape

\* A worker that forgets what it has, and leaves the entries alone.
LEMMA IdleWaits ==
  ASSUME IInv, WaitInv, NEW w \in Workers, Update(w, Idle), UNCHANGED <<asked, now, ttl, doubtful>>
  PROVE  WaitInv'
<1>1. Moves(w, Idle)
  BY IdleStaged, ForgetMoves DEF WaitInv, Update
<1> QED BY <1>1, MovesKeeps

LEMMA DequeueWaits ==
  ASSUME IInv, WaitInv, NEW w \in Workers, Dequeue(w)
  PROVE  WaitInv'
<1>1. worker[w].pc = "dequeue" /\ UNCHANGED <<asked, now, ttl, doubtful>>
  BY DEF Dequeue
<1>2. CASE Update(w, Idle)
  BY <1>1, <1>2, IdleWaits
<1>3. ASSUME NEW beyond, NEW limit, NEW picked,
             picked = [Taken(w) EXCEPT !.batch = @ \ beyond, !.limit = limit],
             IF beyond = {} THEN Update(w, [picked EXCEPT !.pc = NextStage])
             ELSE RollBack(w, picked, beyond, FALSE, NextStage)
      PROVE  WaitInv'
  <2>0. Shape(Taken(w)) /\ Taken(w).ttls = worker[w].ttls /\ Taken(w).then = worker[w].then
    BY TakenFields
  <2>1. Shape(picked) /\ picked.ttls = worker[w].ttls /\ picked.then = worker[w].then
    <3>1. PICK x : x = Taken(w)
      OBVIOUS
    <3>2. picked = [x EXCEPT !.batch = x.batch \ beyond, !.limit = limit]
      BY <1>3, <3>1
    <3>3. Shape(x) /\ x.ttls = worker[w].ttls /\ x.then = worker[w].then
      BY <2>0, <3>1
    <3>4. x = [pc |-> x.pc, batch |-> x.batch, scores |-> x.scores, ttls |-> x.ttls,
               limit |-> x.limit, now |-> x.now, messages |-> x.messages,
               back |-> x.back, keepTTL |-> x.keepTTL, then |-> x.then]
      BY <3>3 DEF Shape
    <3>5. Shape(picked) /\ picked.ttls = x.ttls /\ picked.then = x.then
      BY <3>2, <3>4 DEF Shape
    <3> QED BY <3>3, <3>5
  <2>2. CASE beyond = {}
    <3>1. PICK r : r = [picked EXCEPT !.pc = NextStage]
      OBVIOUS
    <3>2. r.pc = NextStage /\ r.then = worker[w].then /\ r.ttls = worker[w].ttls
      BY <2>1, <3>1 DEF Shape
    <3>3. worker' = [worker EXCEPT ![w] = r]
      BY <1>3, <2>2, <3>1 DEF Update
    <3>4. Staged(r)
      BY <1>1, <3>2 DEF Staged, Early, NextStage, WaitInv
    <3>5. Moves(w, r)
      BY <1>1, <3>2, <3>3, <3>4, GoesOnMoves
    <3> QED BY <3>5, MovesKeeps
  <2>3. CASE beyond # {}
    <3>1. RollBack(w, picked, beyond, FALSE, NextStage)
      BY <1>3, <2>3
    <3> QED BY <1>1, <2>1, <3>1, RollBackWaits
  <2> QED BY <2>2, <2>3
<1> QED BY <1>2, <1>3 DEF Dequeue

\* What taking the times of the batch does to each entry.
LEMMA TakesTimes ==
  ASSUME WaitInv, NEW w \in Workers,
         ttl' = [e \in Emails |-> IF e \in worker[w].batch THEN 0 ELSE ttl[e]],
         doubtful' = Doubtful(w), NEW e \in Emails
  PROVE  \/ ttl'[e] = ttl[e] /\ (e \notin worker[w].batch \/ ttl[e] = 0)
         \/ /\ ttl[e] # 0 /\ ttl'[e] = 0
            /\ e \in doubtful' \/ \A v \in Workers \ {w} : worker[v].ttls[e] = 0
BY DEF Doubtful

LEMMA FilterWaits ==
  ASSUME IInv, WaitInv, NEW w \in Workers, Filter(w)
  PROVE  WaitInv'
<1> DEFINE rest == worker[w].batch \ LeftQueue(w)
           ttls == [e \in Emails |-> IF e \in rest THEN ttl[e] ELSE 0]
<1>1. /\ worker[w].pc = "filter" /\ UNCHANGED <<asked, now>>
      /\ ttl' = [e \in Emails |-> IF e \in worker[w].batch THEN 0 ELSE ttl[e]]
      /\ doubtful' = Doubtful(w)
  BY DEF Filter
<1>2. ttl' = [e \in Emails |-> ttl'[e]] /\ doubtful \subseteq doubtful'
  BY <1>1 DEF Doubtful
<1>3. \A e \in Emails :
        \/ ttl'[e] = ttl[e] /\ (e \notin worker[w].batch \/ ttl[e] = 0)
        \/ /\ ttl[e] # 0 /\ ttl'[e] = 0
           /\ e \in doubtful' \/ \A v \in Workers \ {w} : worker[v].ttls[e] = 0
  BY <1>1, TakesTimes
<1>4. CASE Update(w, Idle)
  <2>1. Moves(w, Idle)
    BY <1>1, <1>2, <1>3, <1>4, IdleStaged, ForgetMoves DEF Update
  <2> QED BY <2>1, MovesKeeps
<1>5. CASE Update(w, [worker[w] EXCEPT !.pc = "fetch", !.batch = rest, !.ttls = ttls])
  <2>1. PICK r : r = [worker[w] EXCEPT !.pc = "fetch", !.batch = rest, !.ttls = ttls]
    OBVIOUS
  <2>2. worker' = [worker EXCEPT ![w] = r]
    BY <1>5, <2>1 DEF Update
  <2>3. \A e \in Emails : ttls[e] = 0 \/ (e \in worker[w].batch /\ ttls[e] = ttl[e])
    OBVIOUS
  <2> HIDE DEF rest, ttls
  <2>4. r.pc = "fetch" /\ r.then = worker[w].then /\ r.ttls = ttls
    BY <2>1 DEF IInv, Sound, Shape
  <2>5. Staged(r)
    BY <2>4 DEF Staged, Early, WaitInv
  <2>6. \A e \in Emails : Entry(w, worker[w], r, e)
    BY <1>3, <2>3, <2>4 DEF Entry
  <2>7. Moves(w, r)
    BY <1>1, <1>2, <2>2, <2>5, <2>6 DEF Moves
  <2> QED BY <2>7, MovesKeeps
<1> QED BY <1>4, <1>5 DEF Filter

\* The times may be gone, and are not put back.
LEMMA FilterFailsWaits ==
  ASSUME IInv, WaitInv, NEW w \in Workers, FilterFails(w)
  PROVE  WaitInv'
<1>1. Shape(worker[w]) /\ worker[w].pc = "filter"
      /\ RollBack(w, worker[w], worker[w].batch, FALSE, "lock")
      /\ UNCHANGED <<asked, now>>
  BY DEF IInv, Sound, FilterFails
<1>2. CASE UNCHANGED <<ttl, doubtful>>
  BY <1>1, <1>2, RollBackWaits
<1>3. CASE /\ ttl' = [e \in Emails |-> IF e \in worker[w].batch THEN 0 ELSE ttl[e]]
           /\ doubtful' = Doubtful(w)
  <2>1. PICK r : r = Back(worker[w], worker[w].batch, FALSE, "lock")
    OBVIOUS
  <2>2. worker' = [worker EXCEPT ![w] = r]
    BY <1>1, <2>1 DEF RollBack, Update, Back
  <2>3. r.pc = "rollback" /\ r.then = "lock" /\ r.ttls = worker[w].ttls
    BY <1>1, <2>1 DEF Back, Shape
  <2>4. \A e \in Emails : worker[w].ttls[e] = 0
    BY <1>1 DEF WaitInv, Staged, Early
  <2>5. Staged(r) /\ \A e \in Emails : r.ttls[e] = 0
    BY <2>3, <2>4 DEF Staged, Early
  <2>6. ttl' = [e \in Emails |-> ttl'[e]] /\ doubtful \subseteq doubtful'
    BY <1>3 DEF Doubtful
  <2>7. \A e \in Emails :
          \/ ttl'[e] = ttl[e]
          \/ /\ ttl[e] # 0 /\ ttl'[e] = 0
             /\ e \in doubtful' \/ \A v \in Workers \ {w} : worker[v].ttls[e] = 0
    BY <1>3, TakesTimes
  <2>8. Moves(w, r)
    <3>1. \A e \in Emails :
            \/ ttl'[e] = ttl[e]
            \/ ttl[e] = 0 /\ ttl'[e] = worker[w].ttls[e]
            \/ /\ ttl[e] # 0 /\ ttl'[e] = 0
               /\ e \in doubtful' \/ \A v \in Workers \ {w} : worker[v].ttls[e] = 0
      BY <2>7
    <3> QED BY <1>1, <2>2, <2>5, <2>6, <3>1, ForgetMoves
  <2> QED BY <2>8, MovesKeeps
<1> QED BY <1>2, <1>3 DEF FilterFails

LEMMA FetchWaits ==
  ASSUME IInv, WaitInv, NEW w \in Workers, Fetch(w)
  PROVE  WaitInv'
<1>1. UNCHANGED <<asked, now, ttl, doubtful>>
  BY DEF Fetch
<1>2. CASE Update(w, Idle)
  BY <1>1, <1>2, IdleWaits
<1>3. ASSUME NEW messages,
             Update(w, [worker[w] EXCEPT !.pc = "send", !.now = 0, !.limit = 0,
                                         !.messages = messages])
      PROVE  WaitInv'
  <2>1. PICK r : r = [worker[w] EXCEPT !.pc = "send", !.now = 0, !.limit = 0,
                                       !.messages = messages]
    OBVIOUS
  <2>2. worker' = [worker EXCEPT ![w] = r]
    BY <1>3, <2>1 DEF Update
  <2>3. r.pc = "send" /\ r.then = worker[w].then /\ r.ttls = worker[w].ttls
    BY <2>1 DEF IInv, Sound, Shape
  <2>4. Staged(r)
    BY <2>3 DEF Staged, Early, WaitInv
  <2>5. Moves(w, r)
    BY <1>1, <2>2, <2>3, <2>4, GoesOnMoves
  <2> QED BY <2>5, MovesKeeps
<1> QED BY <1>2, <1>3 DEF Fetch

LEMMA SendWaits ==
  ASSUME IInv, WaitInv, NEW w \in Workers, Send(w)
  PROVE  WaitInv'
<1>1. UNCHANGED <<asked, now, ttl, doubtful>> /\ Shape(worker[w])
  BY DEF Send, IInv, Sound
<1>2. CASE Update(w, Idle)
  BY <1>1, <1>2, IdleWaits
<1>3. ASSUME NEW back, RollBack(w, worker[w], back, TRUE, "lock")
      PROVE  WaitInv'
  BY <1>1, <1>3, RollBackWaits
<1> QED BY <1>2, <1>3 DEF Send

\* After a roll back: the times are put back, or the worker goes on.
LEMMA ResumeMoves ==
  ASSUME IInv, WaitInv, NEW w \in Workers,
         \/ worker[w].pc = "rollback" /\ RestoreTTLs(w)
         \/ worker[w].pc = "rollbackTTL" /\ Resume(w),
         UNCHANGED <<asked, now, doubtful>>,
         ttl' = [e \in Emails |-> ttl'[e]],
         \A e \in Emails :
           ttl'[e] = ttl[e] \/ (ttl[e] = 0 /\ ttl'[e] = worker[w].ttls[e])
  PROVE  WaitInv'
<1>1. Sound(worker[w]) /\ Staged(worker[w])
  BY DEF IInv, WaitInv
<1>2. CASE Update(w, Idle)
  <2>1. Moves(w, Idle)
    BY <1>2, IdleStaged, ForgetMoves DEF Update
  <2> QED BY <2>1, MovesKeeps
<1>3. ASSUME NEW r, worker' = [worker EXCEPT ![w] = r], r.ttls = worker[w].ttls, Staged(r)
      PROVE  WaitInv'
  <2>1. Moves(w, r)
    BY <1>3 DEF Moves, Entry
  <2> QED BY <2>1, MovesKeeps
<1>4. CASE /\ worker[w].pc = "rollback" /\ worker[w].then # "lock"
           /\ Update(w, [worker[w] EXCEPT !.pc = worker[w].then, !.back = {}])
  <2>1. PICK r : r = [worker[w] EXCEPT !.pc = worker[w].then, !.back = {}]
    OBVIOUS
  <2>2. r.pc = worker[w].then /\ r.then = worker[w].then /\ r.ttls = worker[w].ttls
    BY <1>1, <2>1 DEF Sound, Shape
  <2>3. Staged(r)
    BY <1>1, <1>4, <2>2 DEF Staged, Early, NextStage
  <2> QED BY <1>3, <1>4, <2>1, <2>2, <2>3 DEF Update
<1>5. CASE Update(w, [worker[w] EXCEPT !.pc = "rollbackTTL"])
  <2>1. PICK r : r = [worker[w] EXCEPT !.pc = "rollbackTTL"]
    OBVIOUS
  <2>2. r.pc = "rollbackTTL" /\ r.then = worker[w].then /\ r.ttls = worker[w].ttls
    BY <1>1, <2>1 DEF Sound, Shape
  <2>3. Staged(r)
    BY <1>1, <2>2 DEF Staged, Early
  <2> QED BY <1>3, <1>5, <2>1, <2>2, <2>3 DEF Update
<1> QED BY <1>1, <1>2, <1>4, <1>5 DEF Sound, RestoreTTLs, Resume

LEMMA PutBackTTLWaits ==
  ASSUME IInv, WaitInv, NEW w \in Workers, PutBackTTL(w)
  PROVE  WaitInv'
<1>1. /\ worker[w].pc = "rollbackTTL" /\ Resume(w)
      /\ UNCHANGED <<asked, now, doubtful>>
      /\ ttl' = [e \in Emails |->
           IF e \in worker[w].back /\ ttl[e] = 0 THEN worker[w].ttls[e] ELSE ttl[e]]
  BY DEF PutBackTTL
<1>2. ttl' = [e \in Emails |-> ttl'[e]]
  BY <1>1
<1>3. \A e \in Emails : ttl'[e] = ttl[e] \/ (ttl[e] = 0 /\ ttl'[e] = worker[w].ttls[e])
  BY <1>1
<1> QED BY <1>1, <1>2, <1>3, ResumeMoves

LEMMA WorkWaits ==
  ASSUME IInv, WaitInv, NEW w \in Workers, Work(w)
  PROVE  WaitInv'
<1>1. CASE PutBack(w)
  BY <1>1, ResumeMoves DEF PutBack, WaitInv
<1> QED BY <1>1, BeginsWaits, DequeueWaits, FilterWaits, FetchWaits, SendWaits,
           PutBackTTLWaits DEF Work

LEMMA FailsWaits ==
  ASSUME IInv, WaitInv, NEW w \in Workers, Fails(w)
  PROVE  WaitInv'
<1>1. Shape(worker[w])
  BY DEF IInv, Sound
<1>2. CASE RateUnparseable(w)
  <2>1. RollBack(w, Taken(w), Oldest, FALSE, "lock") /\ UNCHANGED <<asked, now, ttl, doubtful>>
    BY <1>2 DEF RateUnparseable
  <2> QED BY <2>1, TakenFields, RollBackWaits
<1>3. CASE DequeueFails(w)
  BY <1>3, IdleWaits DEF DequeueFails
<1>4. CASE FetchFails(w) \/ WaitCancelled(w)
  <2>1. RollBack(w, worker[w], worker[w].batch, TRUE, "lock") /\ UNCHANGED <<asked, now, ttl, doubtful>>
    BY <1>4 DEF FetchFails, WaitCancelled
  <2> QED BY <1>1, <2>1, RollBackWaits
<1>5. CASE PutBackFails(w)
  BY <1>5, ResumeMoves DEF PutBackFails, WaitInv
<1>6. CASE PutBackTTLFails(w)
  BY <1>6, ResumeMoves DEF PutBackTTLFails, WaitInv
<1>7. CASE Crash(w)
  BY <1>7, IdleWaits DEF Crash
<1> QED BY <1>2, <1>3, <1>4, <1>5, <1>6, <1>7, FilterFailsWaits DEF Fails

\* A request refreshes the entry it makes, which is certain again.
LEMMA EnqueueWaits ==
  ASSUME IInv, WaitInv, NEW p \in Requests, NEW e \in Emails, NEW d \in Devices, Enqueue(p, e, d)
  PROVE  WaitInv'
<1>1. /\ UNCHANGED <<now, worker>>
      /\ asked' = [asked EXCEPT ![e] = now] /\ doubtful' = doubtful \ {e}
      /\ ttl' = IF TTLEnabled THEN [ttl EXCEPT ![e] = now] ELSE ttl
  BY DEF Enqueue
<1>2. /\ ttl' = [f \in Emails |-> ttl'[f]] /\ asked' = [f \in Emails |-> asked'[f]]
      /\ \A f \in Emails : asked'[f] = IF f = e THEN now ELSE asked[f]
      /\ TTLEnabled => \A f \in Emails : ttl'[f] = IF f = e THEN now ELSE ttl[f]
  BY <1>1 DEF WaitInv
<1>3. TTLEnabled => Latest' /\ Fresh'
  BY <1>1, <1>2 DEF WaitInv, Latest, Fresh
<1> QED BY <1>1, <1>2, <1>3 DEF WaitInv

LEMMA QuietWaits ==
  ASSUME WaitInv, UNCHANGED <<ttl, asked, worker, doubtful>>, now' \in {now, now + 1}
  PROVE  WaitInv'
BY DEF WaitInv, Latest, Fresh

LEMMA WaitInit == Init => WaitInv
<1> SUFFICES ASSUME Init PROVE WaitInv
  OBVIOUS
<1>1. \A w \in Workers : worker[w] = Idle
  BY DEF Init
<1>2. Fresh /\ Latest
  BY <1>1, IdleStaged DEF Fresh, Latest, Init
<1> QED BY <1>1, <1>2, IdleStaged DEF WaitInv, Init

LEMMA WaitNext == IInv /\ WaitInv /\ [Next]_vars => WaitInv'
<1> SUFFICES ASSUME IInv, WaitInv, [Next]_vars PROVE WaitInv'
  OBVIOUS
<1>1. CASE \E p \in Requests : \E e \in Emails, d \in Devices : Enqueue(p, e, d)
  BY <1>1, EnqueueWaits
<1>2. CASE \E w \in Workers : Work(w) \/ LockAborted(w) \/ Fails(w)
  BY <1>2, WorkWaits, BeginsWaits, FailsWaits
<1>3. CASE \E p \in Requests : StoreCode(p) \/ Abort(p)
  BY <1>3, QuietWaits DEF StoreCode, Abort
<1>4. CASE (\E e \in Emails, d \in Devices : Redeem(e, d)) \/ Tick
  BY <1>4, QuietWaits DEF Redeem, Tick
<1>5. CASE UNCHANGED vars
  BY <1>5, QuietWaits DEF vars
<1> QED BY <1>1, <1>2, <1>3, <1>4, <1>5 DEF Next

LEMMA WaitMeans == IInv /\ WaitInv => WaitingNotDropped
<1> SUFFICES ASSUME IInv, WaitInv, NEW w \in Workers, worker[w].pc = "filter",
                    NEW e \in LeftQueue(w) \ doubtful
             PROVE  asked[e] + AliveTTL < worker[w].now
  BY DEF WaitingNotDropped
<1>1. TTLEnabled
  BY DEF WaitInv, Staged
<1>2. e \in Emails /\ ttl[e] # 0 /\ worker[w].now > ttl[e] + AliveTTL
  BY DEF LeftQueue, IInv, Sound
<1>3. ttl[e] = asked[e]
  BY <1>1, <1>2 DEF WaitInv, Latest
<1> QED BY <1>2, <1>3

\* A worker drops an email only when its client has not asked for the TTL
\* (filterEmailsWithAliveTTL), whatever requests, failed batches that put old
\* times back, crashes, restarts and workers without the mutex came between:
\* unless one of them took the time of the last request while another had an
\* older one in hand.
THEOREM WaitingNotDroppedHolds == Spec => []WaitingNotDropped
<1>1. Init => IInv /\ WaitInv
  BY InitHolds, WaitInit
<1>2. IInv /\ WaitInv /\ [Next]_vars => (IInv /\ WaitInv)'
  BY NextKeeps, WaitNext
<1> QED BY <1>1, <1>2, WaitMeans, PTL DEF Spec

-----------------------------------------------------------------------------
(* The change of an address.                                               *)

\* A change of the address that was asked for: for another address than the
\* one it is from, from the marker only if the account is Telegram's.
SessionOK(s) ==
  /\ s \in Session /\ s.from # s.to
  /\ s.from = Marker => Telegram
  /\ s.notify => s.from \in Addresses

Serving == PCs \ {"idle", "repair", "md_read", "md_write"}
Forward == {"firebase", "note", "notice", "finish"}
Undoing == {"undo", "undo_firebase"}

\* What a request has in hand where it is.
InHand(c) ==
  /\ c.pc \in Serving => SessionOK(c.of)
  /\ c.pc \notin Serving => c.of = Nothing
  /\ c.pc \in (Forward \ {"finish"}) \cup Undoing \cup {"modify"} => c.of.from # Nothing
  /\ c.pc \in {"attempt", "rollback"} => c.of.ip
  /\ c.pc \in {"note", "notice"} => c.of.notify
  /\ c.pc = "mail" => c.code \in 1..codes
  /\ c.pc = "notice" => c.actual \in 1..codes
  /\ c.pc = "repair" => c.actual \in Addresses
  /\ c.pc = "md_write" => c.md \subseteq c.data

ChangeInv ==
  /\ ChangeTypeOK
  /\ \A s \in sessions : SessionOK(s)
  /\ \A p \in Procs : InHand(call[p])

\* The requests whose attempt is neither given back nor paid with a code.
Counting == {p \in Procs : call[p].pc \in {"upsert", "mail", "rollback"} /\ Counted(p)}

CountInv == Cardinality(open) + Cardinality(Counting) <= attempts + late

\* p goes on to write an address to both places.
Writing(p) ==
  \/ call[p].pc = "repair"
  \/ call[p].pc \in Forward \cup Undoing /\ From(p) # Nothing

\* What the property grants.
Granted(a) == a = confirmed.now \/ (doubled /\ a = confirmed.before)

Together ==
  \A p, q \in Procs : p # q /\ Writing(p) /\ Writing(q) =>
    /\ doubled /\ call[p].of = call[q].of
    /\ call[p].pc \in Forward /\ call[q].pc \in Forward

GoesForward(p) ==
  /\ email = To(p) /\ Granted(From(p))
  /\ \/ blind
     \/ /\ InFirebase(p)
        /\ IF call[p].pc = "firebase"
           THEN firebase = From(p) \/ (doubled /\ firebase = To(p))
           ELSE firebase = To(p)
GoesBack(p) ==
  /\ Granted(From(p))
  /\ IF call[p].pc = "undo" THEN blind \/ InFirebase(p) \/ firebase = From(p)
                            ELSE email = From(p)
Repairs(p) == blind /\ Granted(email)

Places ==
  \A p \in Procs : Writing(p) =>
    /\ call[p].pc \in Forward => GoesForward(p)
    /\ call[p].pc \in Undoing => GoesBack(p)
    /\ call[p].pc = "repair" => Repairs(p)

Settled ==
  (\A p \in Procs : ~ Writing(p)) => Granted(email) /\ (blind \/ firebase = email)

Undisturbed == failures = 0 /\ ~ mixed /\ taken = {} /\ ~ Telegram
Whole == Together /\ Places /\ Settled
AtomicInv == Undisturbed => Whole
-----------------------------------------------------------------------------
LEMMA AddressFacts ==
  /\ Marker \notin Addresses /\ Nothing \notin Addresses /\ Nothing # Marker
  /\ Nothing \notin Session
BY AddressAssumption

LEMMA IdleCall == IdleReq \in Call /\ IdleReq.pc = "idle"
BY DEF IdleReq, Call, PCs

LEMMA CallFields ==
  ASSUME NEW c \in Call
  PROVE  /\ c.pc \in PCs /\ c.of \in Session \cup {Nothing} /\ c.code \in Nat /\ c.seq \in Nat
         /\ c.md \subseteq Keys /\ c.data \subseteq Keys /\ c.found \in BOOLEAN
         /\ c.actual \in Addresses \cup {Nothing} \cup Nat
BY DEF Call

\* A session stays one: an account is Telegram's or not for good.
LEMMA SessionsKept ==
  ASSUME NEW s, SessionOK(s), Telegram => Telegram'
  PROVE  SessionOK(s)'
BY DEF SessionOK

\* What a request has in hand stays sound while codes are added.
LEMMA InHandKept ==
  ASSUME NEW p \in Procs, InHand(call[p]), call'[p] = call[p], codes' >= codes,
         codes \in Nat, codes' \in Nat, call[p] \in Call, Telegram => Telegram'
  PROVE  InHand(call[p])'
<1>1. /\ call[p].pc = "mail" => call[p].code \in 1..codes'
      /\ call[p].pc = "notice" => call[p].actual \in 1..codes'
  BY CallFields DEF InHand
<1>2. call[p].pc \in Serving => SessionOK(call[p].of)'
  BY DEF InHand, SessionOK
<1> QED BY <1>1, <1>2 DEF InHand, Serving

\* One request goes on, the others wait.
LEMMA OneMoves ==
  ASSUME ChangeInv, NEW p \in Procs, NEW c \in Call, call' = [call EXCEPT ![p] = c],
         codes' >= codes, codes' \in Nat, Telegram => Telegram', InHand(c)'
  PROVE  /\ call' \in [Procs -> Call] /\ \A q \in Procs : InHand(call[q])'
         /\ call'[p] = c /\ \A q \in Procs \ {p} : call'[q] = call[q]
<1>1. call' \in [Procs -> Call] /\ call'[p] = c /\ \A q \in Procs \ {p} : call'[q] = call[q]
  BY DEF ChangeInv, ChangeTypeOK
<1>2. ASSUME NEW q \in Procs PROVE InHand(call[q])'
  <2>1. CASE q = p BY <2>1, <1>1 DEF InHand, SessionOK
  <2>2. CASE q # p
    BY <2>2, <1>1, InHandKept DEF ChangeInv, ChangeTypeOK
  <2> QED BY <2>1, <2>2
<1> QED BY <1>1, <1>2

\* What the type invariant says of everything but the calls.
StoreTyped ==
  /\ email \in Addresses \cup {OwnId, Marker}
  /\ firebase \in Addresses \cup {Nothing}
  /\ metadata \subseteq Keys /\ taken \subseteq Registrable
  /\ rows \in [Addresses -> Row]
  /\ attempts \in 0..MaxAttempts
  /\ codes \in Nat /\ delivered \subseteq Addresses \X (1..codes)
  /\ claim \in Addresses \cup {Marker}
  /\ started \in 0..MaxRequests /\ failures \in 0..MaxFailures
  /\ open \subseteq 1..codes /\ late \in Nat
  /\ confirmed \in [now : Addresses \cup {OwnId, Marker},
                    before : Addresses \cup {OwnId, Marker}]
  /\ {doubled, mixed, blind} \subseteq BOOLEAN

LEMMA StoreIsTyped == ChangeInv => StoreTyped
BY DEF ChangeInv, ChangeTypeOK, StoreTyped

LEMMA StepTyped ==
  ASSUME ChangeInv, NEW p \in Procs, NEW c \in Call, call' = [call EXCEPT ![p] = c],
         InHand(c)', StoreTyped', codes' >= codes, Telegram => Telegram',
         \A s \in sessions' : s \in sessions \/ SessionOK(s)'
  PROVE  ChangeInv'
<1>1. call' \in [Procs -> Call] /\ \A q \in Procs : InHand(call[q])'
  BY OneMoves DEF StoreTyped
<1>2. \A s \in sessions' : SessionOK(s)'
  BY SessionsKept DEF ChangeInv
<1>3. sessions' \subseteq Session
  BY <1>2 DEF SessionOK
<1> QED BY <1>1, <1>2, <1>3 DEF ChangeInv, ChangeTypeOK, StoreTyped

LEMMA IdleInHand == InHand(IdleReq)'
BY DEF InHand, IdleReq, Serving, PCs, Forward, Undoing

LEMMA GotoCall ==
  ASSUME ChangeTypeOK, NEW p \in Procs, NEW pc \in PCs, Goto(p, pc)
  PROVE  \E c \in Call :
           /\ call' = [call EXCEPT ![p] = c]
           /\ c.pc = pc /\ c.of = call[p].of /\ c.code = call[p].code
           /\ c.md = call[p].md /\ c.data = call[p].data
<1> DEFINE d == [call[p] EXCEPT !.pc = pc]
<1>1. call[p] \in Call
  BY DEF ChangeTypeOK
<1>2. d \in Call
  BY <1>1 DEF Call
<1>3. /\ d.pc = pc /\ d.of = call[p].of /\ d.code = call[p].code
      /\ d.md = call[p].md /\ d.data = call[p].data
  BY <1>1 DEF Call
<1>4. call' = [call EXCEPT ![p] = d]
  BY DEF Goto
<1> HIDE DEF d
<1> QED BY <1>2, <1>3, <1>4

\* A request that ends leaves nothing behind.
LEMMA FinishedTyped ==
  ASSUME ChangeInv, NEW p \in Procs, Finished(p), StoreTyped', codes' >= codes,
         Telegram => Telegram', \A s \in sessions' : s \in sessions \/ SessionOK(s)'
  PROVE  ChangeInv'
BY IdleCall, IdleInHand, StepTyped DEF Finished

\* A request that only goes on somewhere else keeps its session.
LEMMA GotoTyped ==
  ASSUME ChangeInv, NEW p \in Procs, NEW pc \in PCs, Goto(p, pc),
         \A c \in Call : c.pc = pc /\ c.of = call[p].of /\ c.code = call[p].code
                         /\ c.md = call[p].md /\ c.data = call[p].data => InHand(c)',
         StoreTyped', codes' >= codes,
         Telegram => Telegram', \A s \in sessions' : s \in sessions \/ SessionOK(s)'
  PROVE  ChangeInv'
<1>1. PICK c \in Call : /\ call' = [call EXCEPT ![p] = c] /\ c.pc = pc
                        /\ c.of = call[p].of /\ c.code = call[p].code
                        /\ c.md = call[p].md /\ c.data = call[p].data
  <2>1. ChangeTypeOK
    BY DEF ChangeInv
  <2> QED BY <2>1, GotoCall
<1>2. InHand(c)'
  BY <1>1
<1> QED BY <1>1, <1>2, StepTyped

LEMMA SessionOf ==
  ASSUME ChangeInv, NEW p \in Procs, call[p].pc \in Serving, Telegram => Telegram'
  PROVE  \E s \in Session : s = call[p].of /\ SessionOK(s) /\ SessionOK(s)'
<1>1. SessionOK(call[p].of) /\ call[p].of \in Session
  BY DEF ChangeInv, InHand, SessionOK
<1>2. PICK s \in Session : s = call[p].of
  BY <1>1
<1>3. SessionOK(s)
  BY <1>1, <1>2
<1> QED BY <1>2, <1>3, SessionsKept

\* A request that serves a session goes on with it.
LEMMA GotoServing ==
  ASSUME ChangeInv, NEW p \in Procs, NEW pc \in Serving \ {"mail", "notice"},
         call[p].pc \in Serving,
         pc \in (Forward \ {"finish"}) \cup Undoing \cup {"modify"} => From(p) # Nothing,
         pc \in {"attempt", "rollback"} => Counted(p),
         pc = "note" => call[p].of.notify,
         Goto(p, pc), StoreTyped', codes' >= codes,
         Telegram => Telegram', \A s \in sessions' : s \in sessions \/ SessionOK(s)'
  PROVE  ChangeInv'
<1>1. PICK s \in Session : s = call[p].of /\ SessionOK(s)'
  BY SessionOf
<1>2. /\ pc \in (Forward \ {"finish"}) \cup Undoing \cup {"modify"} => s.from # Nothing
      /\ pc \in {"attempt", "rollback"} => s.ip
      /\ pc = "note" => s.notify
  BY <1>1 DEF From, Counted
<1>3. ASSUME NEW c \in Call, c.pc = pc, c.of = call[p].of PROVE InHand(c)'
  BY <1>1, <1>2, <1>3 DEF InHand, Serving, Forward, Undoing
<1>4. pc \in PCs
  BY DEF Serving
<1> QED BY <1>3, <1>4, GotoTyped

LEMMA RowsTyped ==
  ASSUME StoreTyped, NEW a \in Addresses, WithCode(a)
  PROVE  rows' \in [Addresses -> Row] /\ codes' \in Nat /\ codes' = codes + 1
<1>1. rows[a] \in Row /\ codes + 1 \in Nat
  BY DEF StoreTyped
<1>2. [rows[a] EXCEPT !.code = codes + 1, !.used = FALSE, !.mine = FALSE] \in Row
  BY <1>1 DEF Row
<1> QED BY <1>1, <1>2 DEF WithCode, StoreTyped

LEMMA Steady ==
  ASSUME ChangeInv, UNCHANGED <<codes, claim, sessions>>
  PROVE  /\ codes' >= codes /\ (Telegram => Telegram')
         /\ \A s \in sessions' : s \in sessions \/ SessionOK(s)'
BY StoreIsTyped DEF StoreTyped, Telegram

LEMMA UndoGoes == ASSUME NEW p \in Procs, Undo(p, Undone) PROVE Goto(p, "undo")
BY DEF Undo, Undone, Goto

-----------------------------------------------------------------------------
(* Every step keeps the type invariant, one lemma per part of the service. *)

LEMMA StartLoginTyped ==
  ASSUME ChangeInv, NEW p \in Procs, NEW a \in Addresses, StartLogin(p, a)
  PROVE  ChangeInv'
<1>1. PICK s \in Session : s = [to |-> a, from |-> Nothing, notify |-> FALSE, ip |-> TRUE]
  BY DEF Session
<1>2. PICK c \in Call : c = [IdleReq EXCEPT !.pc = "attempt", !.of = s]
  BY DEF IdleReq, Call, PCs
<1>3. c.pc = "attempt" /\ c.of = s /\ s.ip
  BY <1>1, <1>2 DEF IdleReq
<1>4. SessionOK(s)'
  BY <1>1, AddressFacts DEF SessionOK
<1>5. InHand(c)'
  BY <1>3, <1>4 DEF InHand, Serving, PCs, Forward, Undoing
<1>6. StoreTyped'
  BY StoreIsTyped, LimitsAssumption DEF StoreTyped, StartLogin, Start, service, observed
<1>7. /\ call' = [call EXCEPT ![p] = c]
      /\ codes' = codes /\ claim' = claim /\ sessions' = sessions
  BY <1>1, <1>2 DEF StartLogin, Start, service
<1>8. codes' >= codes /\ (Telegram => Telegram')
  BY <1>6, <1>7 DEF StoreTyped, Telegram
<1> QED BY <1>5, <1>6, <1>7, <1>8, StepTyped

LEMMA StartChangeTyped ==
  ASSUME ChangeInv, NEW p \in Procs, NEW a \in Addresses, StartChange(p, a)
  PROVE  ChangeInv'
<1>1. claim \in Addresses \cup {Marker} /\ Telegram \in BOOLEAN
  BY DEF Telegram, ChangeInv, ChangeTypeOK
<1>2. PICK b \in BOOLEAN : b = ~ Telegram
  BY <1>1
<1>2a. PICK s \in Session : s = [to |-> a, from |-> claim, notify |-> b, ip |-> FALSE]
  BY <1>1 DEF Session
<1>3. PICK c \in Call : c = [IdleReq EXCEPT !.pc = "upsert", !.of = s]
  BY DEF IdleReq, Call, PCs
<1>4. c.pc = "upsert" /\ c.of = s
  BY <1>3 DEF IdleReq
<1>5. claim' = claim /\ s.from = claim /\ s.to = a /\ a # claim /\ (s.notify => claim # Marker)
  BY <1>2, <1>2a DEF StartChange, Telegram
<1>6. SessionOK(s)'
  BY <1>1, <1>5 DEF SessionOK, Telegram
<1>7. InHand(c)'
  BY <1>4, <1>6 DEF InHand, Serving, PCs, Forward, Undoing
<1>8. StoreTyped'
  BY StoreIsTyped, LimitsAssumption DEF StoreTyped, StartChange, Start, service, observed
<1>9. /\ call' = [call EXCEPT ![p] = c]
      /\ codes' = codes /\ claim' = claim /\ sessions' = sessions
  <2>1. s = [to |-> a, from |-> claim, notify |-> ~ Telegram, ip |-> FALSE]
    BY <1>2, <1>2a, Zenon
  <2> QED BY <2>1, <1>3 DEF StartChange, Start, service
<1>10. codes' >= codes /\ (Telegram => Telegram')
  BY <1>8, <1>9 DEF StoreTyped, Telegram
<1> QED BY <1>7, <1>8, <1>9, <1>10, StepTyped

LEMMA UpsertIPLoginAttemptTyped ==
  ASSUME ChangeInv, NEW p \in Procs, UpsertIPLoginAttempt(p)
  PROVE  ChangeInv'
<1>1. UNCHANGED <<codes, claim, sessions>>
  BY DEF UpsertIPLoginAttempt
<1>2. CASE TooManyAttempts
  <2>1. StoreTyped' /\ Finished(p)
    BY <1>2, StoreIsTyped DEF StoreTyped, UpsertIPLoginAttempt, observed
  <2> QED BY <2>1, <1>1, Steady, FinishedTyped
<1>3. CASE ~ TooManyAttempts
  <2>1. StoreTyped'
    BY <1>3, StoreIsTyped, LimitsAssumption
    DEF StoreTyped, UpsertIPLoginAttempt, TooManyAttempts, observed
  <2>2. Goto(p, "upsert") /\ call[p].pc \in Serving
    BY <1>3 DEF UpsertIPLoginAttempt, Serving, PCs
  <2> QED BY <2>1, <2>2, <1>1, Steady, GotoServing DEF Serving, PCs, Forward, Undoing
<1> QED BY <1>2, <1>3

LEMMA UpsertEmailLinkSignInTyped ==
  ASSUME ChangeInv, NEW p \in Procs, UpsertEmailLinkSignIn(p)
  PROVE  ChangeInv'
<1>1. call[p].pc \in Serving /\ claim' = claim /\ (Telegram => Telegram')
  BY DEF UpsertEmailLinkSignIn, Serving, PCs, Telegram
<1>2. PICK s \in Session : s = call[p].of /\ SessionOK(s) /\ SessionOK(s)'
  BY <1>1, SessionOf
<1>3. s.to \in Addresses /\ To(p) = s.to
  BY <1>2 DEF Session, To
<1>4. CASE /\ WithCode(To(p)) /\ UNCHANGED <<sessions, failures>>
           /\ call' = [call EXCEPT ![p].pc = "mail", ![p].code = codes + 1]
  <2>1. rows' \in [Addresses -> Row] /\ codes' \in Nat /\ codes' = codes + 1 /\ codes \in Nat
    BY <1>3, <1>4, RowsTyped, StoreIsTyped DEF StoreTyped
  <2>2. StoreTyped'
    <3>1. 1..codes \subseteq 1..codes' /\ delivered' = delivered /\ open' = open
      BY <2>1 DEF UpsertEmailLinkSignIn, observed
    <3>2. delivered' \subseteq Addresses \X (1..codes') /\ open' \subseteq 1..codes'
      BY <3>1, StoreIsTyped DEF StoreTyped
    <3> QED BY <1>4, <2>1, <3>2, StoreIsTyped DEF StoreTyped, UpsertEmailLinkSignIn, observed
  <2>3. call[p] \in Call
    BY DEF ChangeInv, ChangeTypeOK
  <2>4. PICK c \in Call : c = [call[p] EXCEPT !.pc = "mail", !.code = codes + 1]
    BY <2>1, <2>3 DEF Call, PCs
  <2>5. c.pc = "mail" /\ c.of = s /\ c.code = codes'
    BY <2>1, <2>3, <2>4, <1>2 DEF Call
  <2>6. InHand(c)'
    BY <2>1, <2>5, <1>2 DEF InHand, Serving, PCs, Forward, Undoing
  <2>7. call' = [call EXCEPT ![p] = c]
    BY <2>4, <1>4
  <2>8. codes' >= codes /\ sessions' = sessions
    BY <2>1, <1>4
  <2> QED BY <2>2, <2>6, <2>7, <2>8, <1>1, StepTyped
<1>5. ASSUME \/ /\ IsDuplicate(To(p)) /\ sessions' = sessions \cup {call[p].of}
                /\ UNCHANGED <<rows, codes, failures>>
             \/ /\ Failure /\ UNCHANGED <<rows, codes, sessions>>,
             IF Counted(p) THEN Goto(p, "rollback") ELSE Finished(p)
      PROVE  ChangeInv'
  <2>1. sessions' = sessions \/ sessions' = sessions \cup {s}
    BY <1>2, <1>5
  <2>2. \A t \in sessions' : t \in sessions \/ SessionOK(t)'
    BY <2>1, <1>2
  <2>3. StoreTyped' /\ codes' >= codes
    BY <1>5, StoreIsTyped, LimitsAssumption DEF StoreTyped, UpsertEmailLinkSignIn, Failure, observed
  <2>4. CASE Counted(p)
    BY <2>2, <2>3, <2>4, <1>1, <1>5, GotoServing DEF Serving, PCs, Forward, Undoing
  <2>5. CASE ~ Counted(p)
    BY <2>2, <2>3, <2>5, <1>1, <1>5, FinishedTyped
  <2> QED BY <2>4, <2>5
<1> QED BY <1>4, <1>5 DEF UpsertEmailLinkSignIn

LEMMA SendEmailTyped ==
  ASSUME ChangeInv, NEW p \in Procs, SendEmail(p)
  PROVE  ChangeInv'
<1>1. /\ call[p].pc \in Serving /\ UNCHANGED <<codes, claim>> /\ (Telegram => Telegram')
      /\ codes \in Nat /\ codes' >= codes /\ call[p].code \in 1..codes
  BY StoreIsTyped DEF SendEmail, Serving, PCs, Telegram, ChangeInv, InHand, StoreTyped
<1>2. PICK s \in Session : s = call[p].of /\ SessionOK(s) /\ SessionOK(s)'
  BY <1>1, SessionOf
<1>3. s.to \in Addresses /\ To(p) = s.to
  BY <1>2 DEF Session, To
<1>4. CASE /\ delivered' = delivered \cup {<<To(p), call[p].code>>}
           /\ sessions' = sessions \cup {call[p].of}
           /\ open' = IF Counted(p) THEN open \cup {call[p].code} ELSE open
           /\ Finished(p)
  <2>1. \A t \in sessions' : t \in sessions \/ SessionOK(t)'
    BY <1>2, <1>4
  <2>2. StoreTyped'
    BY <1>1, <1>3, <1>4, StoreIsTyped DEF StoreTyped, SendEmail
  <2> QED BY <1>1, <1>4, <2>1, <2>2, FinishedTyped
<1>5. CASE /\ IF Counted(p) THEN Goto(p, "rollback") ELSE Finished(p)
           /\ UNCHANGED <<delivered, sessions, open>>
  <2>1. StoreTyped' /\ UNCHANGED <<codes, claim, sessions>>
    BY <1>5, <1>1, StoreIsTyped DEF StoreTyped, SendEmail
  <2>2. CASE Counted(p)
    BY <2>1, <2>2, <1>1, <1>5, Steady, GotoServing DEF Serving, PCs, Forward, Undoing
  <2>3. CASE ~ Counted(p)
    BY <2>1, <2>3, <1>5, Steady, FinishedTyped
  <2> QED BY <2>2, <2>3
<1> QED BY <1>4, <1>5 DEF SendEmail

LEMMA DecrementIPLoginAttemptsTyped ==
  ASSUME ChangeInv, NEW p \in Procs, DecrementIPLoginAttempts(p)
  PROVE  ChangeInv'
<1>1. StoreTyped' /\ Finished(p) /\ UNCHANGED <<codes, claim, sessions>>
  BY StoreIsTyped, LimitsAssumption
  DEF StoreTyped, DecrementIPLoginAttempts, Decremented, observed
<1> QED BY <1>1, Steady, FinishedTyped

LEMMA FindOrGenerateUserIDTyped ==
  ASSUME ChangeInv, NEW p \in Procs, NEW s \in sessions, NEW n \in 1..codes,
         FindOrGenerateUserID(p, s, n)
  PROVE  ChangeInv'
<1>1. UNCHANGED <<codes, claim, sessions>> /\ s \in Session /\ SessionOK(s)
  BY DEF FindOrGenerateUserID, service, ChangeInv, SessionOK
<1>2. SessionOK(s)'
  BY <1>1, SessionsKept, Steady
<1>3. Resolves(s) \in BOOLEAN
  BY Zenon DEF Resolves
<1>3a. PICK b \in BOOLEAN : b = Resolves(s)
  BY <1>3
<1>4. PICK c \in Call : c = [IdleReq EXCEPT !.pc = "read", !.of = s, !.code = n, !.found = b]
  <2>1. n \in Nat
    BY StoreIsTyped DEF StoreTyped
  <2>2. [IdleReq EXCEPT !.pc = "read", !.of = s, !.code = n, !.found = b] \in Call
    BY <1>1, <2>1 DEF IdleReq, Call, PCs
  <2> QED BY <2>2
<1>5. c.pc = "read" /\ c.of = s
  BY <1>4 DEF IdleReq
<1>6. InHand(c)'
  BY <1>2, <1>5 DEF InHand, Serving, PCs, Forward, Undoing
<1>7. c = [IdleReq EXCEPT !.pc = "read", !.of = s, !.code = n, !.found = Resolves(s)]
  BY <1>3a, <1>4, Zenon
<1>8. call' = [call EXCEPT ![p] = c]
  BY <1>7 DEF FindOrGenerateUserID, Start
<1>9. StoreTyped'
  BY StoreIsTyped, LimitsAssumption
  DEF StoreTyped, FindOrGenerateUserID, Start, service, observed
<1> QED BY <1>1, <1>6, <1>8, <1>9, Steady, StepTyped

LEMMA GetUserByIDOrPkTyped ==
  ASSUME ChangeInv, NEW p \in Procs, GetUserByIDOrPk(p)
  PROVE  ChangeInv'
<1> DEFINE r == rows[To(p)]
           q == [call[p] EXCEPT !.seq = r.seq, !.md = IF call[p].found THEN metadata ELSE {}]
           pc == IF From(p) = Nothing THEN "finish" ELSE "modify"
<1>1. /\ UNCHANGED <<codes, claim, sessions>> /\ call[p].pc \in Serving /\ StoreTyped'
  BY StoreIsTyped
  DEF GetUserByIDOrPk, service, observed, StoreTyped, Serving, PCs
<1>2. PICK s \in Session : s = call[p].of /\ SessionOK(s) /\ SessionOK(s)'
  BY <1>1, SessionOf, Steady
<1>3. /\ call[p] \in Call /\ r \in Row /\ metadata \subseteq Keys
  BY <1>2, StoreIsTyped DEF ChangeInv, ChangeTypeOK, StoreTyped, To, Session
<1>4. CASE Finished(p)
  BY <1>1, <1>4, Steady, FinishedTyped
<1>5. CASE call' = [call EXCEPT ![p] = [q EXCEPT !.pc = pc]]
  <2>1. q \in Call
    BY <1>3 DEF Call, Row
  <2>2. q.of = s /\ pc \in {"finish", "modify"} /\ (pc = "modify" => s.from # Nothing)
    BY <1>2, <1>3 DEF Call, From
  <2>3. PICK c \in Call : c = [q EXCEPT !.pc = pc]
    <3> HIDE DEF q
    <3> QED BY <2>1 DEF Call, PCs
  <2>4. c.pc = pc /\ c.of = s
    <3> HIDE DEF q
    <3> QED BY <2>1, <2>2, <2>3 DEF Call
  <2>5. c.pc \in {"finish", "modify"} /\ (c.pc = "modify" => s.from # Nothing)
    BY <2>2, <2>4
  <2>6. InHand(c)'
    BY <2>4, <2>5, <1>2 DEF InHand, Serving, PCs, Forward, Undoing
  <2>7. call' = [call EXCEPT ![p] = c]
    BY <2>3, <1>5
  <2> QED BY <2>6, <2>7, <1>1, Steady, StepTyped
<1> QED BY <1>4, <1>5 DEF GetUserByIDOrPk

LEMMA ModifyUserTyped ==
  ASSUME ChangeInv, NEW p \in Procs, ModifyUser(p)
  PROVE  ChangeInv'
<1>1. /\ UNCHANGED <<codes, claim, sessions>> /\ call[p].pc \in Serving /\ call[p].pc = "modify"
  BY DEF ModifyUser, Serving, PCs
<1>2. PICK s \in Session : s = call[p].of /\ SessionOK(s) /\ SessionOK(s)'
  BY <1>1, SessionOf, Steady
<1>3. To(p) \in Addresses /\ From(p) # Nothing
  BY <1>1, <1>2 DEF ChangeInv, InHand, To, From, Session
<1>4. CASE To(p) \in taken
  <2>1. StoreTyped' /\ Finished(p)
    BY <1>4, StoreIsTyped DEF ModifyUser, StoreTyped
  <2> QED BY <2>1, <1>1, Steady, FinishedTyped
<1>5. CASE To(p) \notin taken
  <2>1. mixed' \in BOOLEAN /\ blind' \in BOOLEAN /\ doubled' \in BOOLEAN
    BY <1>5 DEF ModifyUser
  <2>2. StoreTyped'
    BY <1>3, <1>5, <2>1, StoreIsTyped DEF ModifyUser, StoreTyped
  <2>3. PICK pc \in {"firebase", "note", "finish"} :
          /\ pc = (IF InFirebase(p) THEN "firebase" ELSE AfterFirebase(p))
          /\ pc = "note" => call[p].of.notify
    BY DEF AfterFirebase
  <2>4. Goto(p, pc)
    BY <1>5, <2>3 DEF ModifyUser
  <2>5. pc \in Serving \ {"mail", "notice"} /\ pc \notin {"attempt", "rollback"}
    BY DEF Serving, PCs
  <2> QED BY <1>1, <1>3, <2>2, <2>3, <2>4, <2>5, Steady, GotoServing
<1> QED BY <1>4, <1>5

LEMMA UpdateFirebaseTyped ==
  ASSUME ChangeInv, NEW p \in Procs, UpdateFirebase(p)
  PROVE  ChangeInv'
<1>1. /\ UNCHANGED <<codes, claim, sessions>> /\ call[p].pc \in Serving /\ call[p].pc = "firebase"
  BY DEF UpdateFirebase, Serving, PCs
<1>2. PICK s \in Session : s = call[p].of /\ SessionOK(s) /\ SessionOK(s)'
  BY <1>1, SessionOf, Steady
<1>3. To(p) \in Addresses /\ From(p) # Nothing
  BY <1>1, <1>2 DEF ChangeInv, InHand, To, From, Session, Forward
<1>4. CASE firebase' = To(p) /\ Goto(p, AfterFirebase(p)) /\ UNCHANGED mixed
  <2>1. StoreTyped'
    BY <1>3, <1>4, StoreIsTyped DEF UpdateFirebase, StoreTyped
  <2>2. PICK pc \in {"note", "finish"} :
          pc = AfterFirebase(p) /\ (pc = "note" => call[p].of.notify)
    BY DEF AfterFirebase
  <2>3. pc \in Serving \ {"mail", "notice"} /\ pc \notin {"attempt", "rollback"}
    BY DEF Serving, PCs
  <2> QED BY <1>1, <1>3, <1>4, <2>1, <2>2, <2>3, Steady, GotoServing
<1>5. CASE /\ call' = [call EXCEPT ![p] = IF Undone = "idle" THEN IdleReq
                                          ELSE [@ EXCEPT !.pc = Undone, !.md = {}]]
           /\ mixed' = (mixed \/ doubled \/ Others(p) # {}) /\ UNCHANGED firebase
  <2>1. mixed' \in BOOLEAN
    BY <1>5
  <2>2. StoreTyped'
    BY <1>5, <2>1, StoreIsTyped DEF UpdateFirebase, StoreTyped
  <2>3. call[p] \in Call
    BY DEF ChangeInv, ChangeTypeOK
  <2>4. PICK c \in Call : c = [call[p] EXCEPT !.pc = "undo", !.md = {}]
    BY <2>3 DEF Call, PCs
  <2>5. c.pc = "undo" /\ c.of = s /\ s.from # Nothing
    BY <2>3, <2>4, <1>2, <1>3 DEF Call, From
  <2>6. InHand(c)'
    BY <2>5, <1>2 DEF InHand, Serving, PCs, Forward, Undoing
  <2>7. call' = [call EXCEPT ![p] = c]
    BY <2>4, <1>5 DEF Undone
  <2> QED BY <2>2, <2>6, <2>7, <1>1, Steady, StepTyped
<1> QED BY <1>4, <1>5 DEF UpdateFirebase

\* What a step that notifies or undoes knows of its session.
LEMMA ChangingSession ==
  ASSUME ChangeInv, NEW p \in Procs, Telegram => Telegram',
         call[p].pc \in {"modify", "firebase", "note", "notice", "undo", "undo_firebase"}
  PROVE  \E s \in Session :
           /\ s = call[p].of /\ SessionOK(s)' /\ SessionOK(s) /\ To(p) = s.to /\ From(p) = s.from
           /\ s.to \in Addresses /\ s.from # Nothing /\ s.from \in Addresses \cup {Marker}
           /\ call[p].pc \in {"note", "notice"} => s.from \in Addresses
<1>1. call[p].pc \in Serving
  BY DEF Serving, PCs
<1>2. PICK s \in Session : s = call[p].of /\ SessionOK(s) /\ SessionOK(s)'
  BY <1>1, SessionOf
<1>3. InHand(call[p])
  BY DEF ChangeInv
<1>4. s.from # Nothing /\ (call[p].pc \in {"note", "notice"} => s.notify)
  BY <1>2, <1>3 DEF InHand, Forward, Undoing
<1>5. s.to \in Addresses /\ s.from \in Addresses \cup {Marker, Nothing}
  BY DEF Session
<1> QED BY <1>2, <1>4, <1>5 DEF To, From, SessionOK

LEMMA StoreResetCodeTyped ==
  ASSUME ChangeInv, NEW p \in Procs, StoreResetCode(p)
  PROVE  ChangeInv'
<1>1. /\ UNCHANGED <<claim, sessions>> /\ call[p].pc = "note" /\ (Telegram => Telegram')
      /\ call[p].pc \in Serving
  BY DEF StoreResetCode, Serving, PCs, Telegram
<1>2. PICK s \in Session :
        /\ s = call[p].of /\ SessionOK(s)' /\ SessionOK(s) /\ To(p) = s.to /\ From(p) = s.from
        /\ s.from # Nothing /\ s.from \in Addresses /\ s.notify
  BY <1>1, ChangingSession DEF ChangeInv, InHand
<1>3. CASE /\ WithCode(From(p)) /\ UNCHANGED mixed
           /\ call' = [call EXCEPT ![p].pc = "notice", ![p].actual = codes + 1]
  <2>1. rows' \in [Addresses -> Row] /\ codes' \in Nat /\ codes' = codes + 1 /\ codes \in Nat
    BY <1>2, <1>3, RowsTyped, StoreIsTyped DEF StoreTyped
  <2>2. StoreTyped'
    <3>1. 1..codes \subseteq 1..codes' /\ delivered' = delivered /\ open' = open
      BY <2>1 DEF StoreResetCode
    <3>2. delivered' \subseteq Addresses \X (1..codes') /\ open' \subseteq 1..codes'
      BY <3>1, StoreIsTyped DEF StoreTyped
    <3> QED BY <1>3, <2>1, <3>2, StoreIsTyped DEF StoreTyped, StoreResetCode
  <2>3. call[p] \in Call
    BY DEF ChangeInv, ChangeTypeOK
  <2>4. PICK c \in Call : c = [call[p] EXCEPT !.pc = "notice", !.actual = codes + 1]
    BY <2>1, <2>3 DEF Call, PCs
  <2>5. c.pc = "notice" /\ c.of = s /\ c.actual = codes'
    BY <2>1, <2>3, <2>4, <1>2 DEF Call
  <2>6. InHand(c)'
    BY <2>1, <2>5, <1>2 DEF InHand, Serving, PCs, Forward, Undoing
  <2>7. call' = [call EXCEPT ![p] = c]
    BY <2>4, <1>3
  <2>8. codes' >= codes /\ \A t \in sessions' : t \in sessions
    BY <2>1, <1>1
  <2> QED BY <2>2, <2>6, <2>7, <2>8, <1>1, StepTyped
<1>4. CASE Undo(p, Undone) /\ UNCHANGED <<rows, codes>>
  <2>1. mixed' \in BOOLEAN
    BY <1>4 DEF Undo, Observe
  <2>2. StoreTyped'
    BY <1>4, <2>1, StoreIsTyped DEF StoreResetCode, StoreTyped
  <2>3. "undo" \in Serving \ {"mail", "notice"} /\ "undo" \notin {"attempt", "rollback", "note"}
    BY DEF Serving, PCs
  <2> QED BY <1>1, <1>2, <1>4, <2>2, <2>3, UndoGoes, Steady, GotoServing
<1> QED BY <1>3, <1>4 DEF StoreResetCode

LEMMA SendNotifyEmailChangedTyped ==
  ASSUME ChangeInv, NEW p \in Procs, SendNotifyEmailChanged(p)
  PROVE  ChangeInv'
<1>1. /\ UNCHANGED <<claim, codes>> /\ call[p].pc = "notice" /\ (Telegram => Telegram')
      /\ call[p].pc \in Serving /\ codes \in Nat /\ codes' >= codes
  BY StoreIsTyped DEF SendNotifyEmailChanged, Serving, PCs, Telegram, StoreTyped
<1>2. PICK s \in Session :
        /\ s = call[p].of /\ SessionOK(s)' /\ SessionOK(s) /\ To(p) = s.to /\ From(p) = s.from
        /\ s.from # Nothing /\ s.from \in Addresses /\ s.to \in Addresses
  BY <1>1, ChangingSession
<1>3. call[p].actual \in 1..codes
  BY <1>1 DEF ChangeInv, InHand
<1>4. CASE /\ delivered' = delivered \cup {<<From(p), call[p].actual>>}
           /\ sessions' = sessions \cup
                {[to |-> From(p), from |-> To(p), notify |-> FALSE, ip |-> FALSE]}
           /\ Goto(p, "finish") /\ UNCHANGED mixed
  <2>1. StoreTyped'
    BY <1>1, <1>2, <1>3, <1>4, StoreIsTyped DEF SendNotifyEmailChanged, StoreTyped
  <2>2. PICK t \in Session : t = [to |-> s.from, from |-> s.to, notify |-> FALSE, ip |-> FALSE]
    BY <1>2 DEF Session
  <2>3. t.from \in Addresses /\ t.from # t.to /\ ~ t.notify
    BY <1>2, <2>2 DEF SessionOK
  <2>4. SessionOK(t)'
    BY <2>3, AddressFacts DEF SessionOK
  <2>5. \A x \in sessions' : x \in sessions \/ SessionOK(x)'
    BY <1>2, <1>4, <2>2, <2>4
  <2>6. "finish" \in Serving \ {"mail", "notice"} /\ "finish" \notin {"attempt", "rollback", "note"}
        /\ "finish" \notin (Forward \ {"finish"}) \cup Undoing \cup {"modify"}
    BY DEF Serving, PCs, Undoing
  <2> QED BY <1>1, <1>4, <2>1, <2>5, <2>6, GotoServing
<1>5. CASE Undo(p, Undone) /\ UNCHANGED <<delivered, sessions>>
  <2>1. mixed' \in BOOLEAN
    BY <1>5 DEF Undo, Observe
  <2>2. StoreTyped'
    BY <1>5, <2>1, StoreIsTyped DEF SendNotifyEmailChanged, StoreTyped
  <2>3. "undo" \in Serving \ {"mail", "notice"} /\ "undo" \notin {"attempt", "rollback", "note"}
    BY DEF Serving, PCs
  <2> QED BY <1>1, <1>2, <1>5, <2>2, <2>3, UndoGoes, Steady, GotoServing
<1> QED BY <1>4, <1>5 DEF SendNotifyEmailChanged

LEMMA FinishAuthProcessTyped ==
  ASSUME ChangeInv, NEW p \in Procs, FinishAuthProcess(p)
  PROVE  ChangeInv'
<1> DEFINE first == rows[To(p)].seq = call[p].seq
<1>1. /\ UNCHANGED <<codes, claim, sessions>> /\ call[p].pc = "finish" /\ call[p].pc \in Serving
  BY DEF FinishAuthProcess, Serving, PCs
<1>2. PICK s \in Session : s = call[p].of /\ SessionOK(s) /\ SessionOK(s)'
  BY <1>1, SessionOf, Steady
<1>3. /\ s.to \in Addresses /\ To(p) = s.to
      /\ From(p) = s.from /\ s.from \in Addresses \cup {Marker, Nothing}
  BY <1>2 DEF Session, To, From
<1>4. call[p] \in Call /\ call[p].found \in BOOLEAN /\ call[p].md \subseteq Keys
  BY CallFields DEF ChangeInv, ChangeTypeOK
<1>5. metadata' \subseteq Keys
  BY <1>4, StoreIsTyped DEF FinishAuthProcess, Merged, Keys, StoreTyped
<1>6. CASE first
  <2>1. rows' \in [Addresses -> Row]
    <3>1. rows[To(p)] \in Row /\ rows \in [Addresses -> Row]
      BY <1>3, StoreIsTyped DEF StoreTyped
    <3>2. [rows[To(p)] EXCEPT !.seq = @ + 1, !.mine = call[p].found] \in Row
      <4>1. PICK r \in Row : r = rows[To(p)]
        BY <3>1
      <4>2. PICK b \in BOOLEAN : b = call[p].found
        BY <1>4
      <4>3. r.seq + 1 \in Nat /\ r \in Row
        BY DEF Row
      <4>4. [r EXCEPT !.seq = r.seq + 1, !.mine = b] \in Row
        BY <4>3 DEF Row
      <4>5. [r EXCEPT !.seq = @ + 1, !.mine = b] = [r EXCEPT !.seq = r.seq + 1, !.mine = b]
        BY <4>3 DEF Row
      <4> QED BY <4>1, <4>2, <4>4, <4>5
    <3>3. rows' = [rows EXCEPT ![To(p)] =
                     [rows[To(p)] EXCEPT !.seq = @ + 1, !.mine = call[p].found]]
      BY <1>6 DEF FinishAuthProcess
    <3> QED BY <3>1, <3>2, <3>3
  <2>2. confirmed' = confirmed \/ (confirmed' = [now |-> s.to, before |-> s.from]
                                   /\ s.from # Nothing)
    BY <1>3, <1>6 DEF FinishAuthProcess
  <2>3. /\ UNCHANGED <<email, firebase, taken, attempts, codes, delivered, claim, started,
                       failures, doubled, blind, open, late, mixed>>
        /\ Goto(p, "reset")
    BY <1>6 DEF FinishAuthProcess
  <2>4. StoreTyped'
    BY <1>3, <1>5, <2>1, <2>2, <2>3, StoreIsTyped DEF StoreTyped
  <2>5. "reset" \in Serving \ {"mail", "notice"} /\ "reset" \notin {"attempt", "rollback", "note"}
        /\ "reset" \notin (Forward \ {"finish"}) \cup Undoing \cup {"modify"}
    BY DEF Serving, PCs, Forward, Undoing
  <2> QED BY <1>1, <2>3, <2>4, <2>5, Steady, GotoServing
<1>7. CASE ~ first
  <2>1. /\ UNCHANGED <<email, firebase, taken, attempts, codes, delivered, claim, started,
                       failures, doubled, blind, open, late, rows, confirmed>>
        /\ IF From(p) = Nothing THEN Finished(p) /\ UNCHANGED mixed ELSE Undo(p, "undo")
    BY <1>7 DEF FinishAuthProcess
  <2>2. mixed' \in BOOLEAN
    BY <2>1, StoreIsTyped DEF Undo, Observe, StoreTyped
  <2>3. StoreTyped'
    BY <1>5, <2>1, <2>2, StoreIsTyped DEF StoreTyped
  <2>4. "undo" \in Serving \ {"mail", "notice"} /\ "undo" \notin {"attempt", "rollback", "note"}
    BY DEF Serving, PCs
  <2>5. CASE From(p) = Nothing
    BY <1>1, <2>1, <2>3, <2>5, Steady, FinishedTyped
  <2>6. CASE From(p) # Nothing
    <3>1. Goto(p, "undo")
      BY <2>1, <2>6, UndoGoes DEF Undone
    <3> QED BY <1>1, <2>3, <2>4, <2>6, <3>1, Steady, GotoServing
  <2> QED BY <2>5, <2>6
<1> QED BY <1>6, <1>7

LEMMA ResetEmailModificationTyped ==
  ASSUME ChangeInv, NEW p \in Procs, ResetEmailModification(p)
  PROVE  ChangeInv'
<1>1. /\ UNCHANGED <<codes, claim, sessions>> /\ call[p].pc = "undo" /\ call[p].pc \in Serving
      /\ Telegram => Telegram'
  BY DEF ResetEmailModification, Serving, PCs, Telegram
<1>2. From(p) # Nothing /\ From(p) \in Addresses \cup {Marker}
  BY <1>1, ChangingSession
<1>3. StoreTyped'
  BY <1>2, StoreIsTyped DEF StoreTyped, ResetEmailModification, observed
<1>4. "undo_firebase" \in Serving \ {"mail", "notice"}
      /\ "undo_firebase" \notin {"attempt", "rollback", "note"}
  BY DEF Serving, PCs
<1>5. CASE InFirebase(p)
  <2>1. Goto(p, "undo_firebase")
    BY <1>5 DEF ResetEmailModification
  <2> QED BY <1>1, <1>2, <1>3, <1>4, <2>1, Steady, GotoServing
<1>6. CASE ~ InFirebase(p)
  <2>1. Finished(p)
    BY <1>6 DEF ResetEmailModification
  <2> QED BY <1>1, <1>3, <2>1, Steady, FinishedTyped
<1> QED BY <1>5, <1>6

LEMMA ResetFirebaseTyped ==
  ASSUME ChangeInv, NEW p \in Procs, ResetFirebase(p)
  PROVE  ChangeInv'
<1>1. UNCHANGED <<codes, claim, sessions>> /\ Finished(p)
  BY DEF ResetFirebase
<1>2. StoreTyped'
  BY StoreIsTyped, LimitsAssumption DEF StoreTyped, ResetFirebase, Failure, observed
<1> QED BY <1>1, <1>2, Steady, FinishedTyped

LEMMA ResetLoginSessionTyped ==
  ASSUME ChangeInv, NEW p \in Procs, ResetLoginSession(p)
  PROVE  ChangeInv'
<1>1. UNCHANGED <<codes, claim, sessions>> /\ Finished(p) /\ call[p].pc \in Serving
  BY DEF ResetLoginSession, Serving, PCs
<1>2. To(p) \in Addresses
  <2>1. PICK s \in Session : s = call[p].of
    BY <1>1, SessionOf, Steady
  <2> QED BY <2>1 DEF Session, To
<1>3. rows' \in [Addresses -> Row]
  <2>1. rows \in [Addresses -> Row] /\ rows[To(p)] \in Row
    BY <1>2, StoreIsTyped DEF StoreTyped
  <2>2. [rows[To(p)] EXCEPT !.used = TRUE] \in Row
    BY <2>1 DEF Row
  <2>3. rows' = rows \/ rows' = [rows EXCEPT ![To(p)] = [rows[To(p)] EXCEPT !.used = TRUE]]
    BY DEF ResetLoginSession
  <2> QED BY <2>1, <2>2, <2>3
<1>4. attempts' \in 0..MaxAttempts /\ late' \in Nat /\ open' \subseteq 1..codes
  BY StoreIsTyped, LimitsAssumption DEF StoreTyped, ResetLoginSession, Decremented
<1>5. StoreTyped'
  BY <1>3, <1>4, StoreIsTyped DEF StoreTyped, ResetLoginSession
<1> QED BY <1>1, <1>5, Steady, FinishedTyped

LEMMA GetMetadataTyped ==
  ASSUME ChangeInv, NEW p \in Procs, GetMetadata(p)
  PROVE  ChangeInv'
<1>1. PICK c \in Call :
        /\ c.pc \in {"repair", "md_read"} /\ c.of = Nothing
        /\ c.pc = "repair" => c.actual \in Addresses
        /\ call' = [call EXCEPT ![p] = c]
  <2>1. CASE call' = [call EXCEPT ![p] = [IdleReq EXCEPT !.pc = "md_read"]]
    <3>1. PICK c \in Call : c = [IdleReq EXCEPT !.pc = "md_read"]
      BY DEF IdleReq, Call, PCs
    <3>2. c.pc = "md_read" /\ c.of = Nothing
      BY <3>1 DEF IdleReq
    <3> QED BY <2>1, <3>1, <3>2
  <2>2. CASE Mismatch /\ call' = [call EXCEPT ![p] =
                  [IdleReq EXCEPT !.pc = "repair", !.actual = email]]
    <3>1. email \in Addresses
      BY <2>2 DEF Mismatch
    <3>2. PICK c \in Call : c = [IdleReq EXCEPT !.pc = "repair", !.actual = email]
      BY <3>1 DEF IdleReq, Call, PCs
    <3>3. c.pc = "repair" /\ c.of = Nothing /\ c.actual = email
      BY <3>2 DEF IdleReq
    <3> QED BY <2>2, <3>1, <3>2, <3>3
  <2> QED BY <2>1, <2>2 DEF GetMetadata
<1>2. InHand(c)'
  BY <1>1 DEF InHand, Serving, PCs, Forward, Undoing
<1>3. mixed' \in BOOLEAN
  BY StoreIsTyped DEF GetMetadata, Observe, StoreTyped
<1>4. StoreTyped' /\ UNCHANGED <<codes, claim, sessions>>
  BY <1>3, StoreIsTyped DEF StoreTyped, GetMetadata, service
<1> QED BY <1>1, <1>2, <1>4, Steady, StepTyped

LEMMA HandleFirebaseEmailMismatchTyped ==
  ASSUME ChangeInv, NEW p \in Procs, HandleFirebaseEmailMismatch(p)
  PROVE  ChangeInv'
<1>1. call[p].actual \in Addresses /\ UNCHANGED <<codes, claim, sessions>>
  BY DEF HandleFirebaseEmailMismatch, ChangeInv, InHand
<1>2. StoreTyped'
  BY <1>1, StoreIsTyped, LimitsAssumption
  DEF StoreTyped, HandleFirebaseEmailMismatch, Failure, observed
<1>3. CASE Finished(p)
  BY <1>1, <1>2, <1>3, Steady, FinishedTyped
<1>4. CASE call' = [call EXCEPT ![p] = [IdleReq EXCEPT !.pc = "md_read"]]
  <2>1. PICK c \in Call : c = [IdleReq EXCEPT !.pc = "md_read"]
    BY DEF IdleReq, Call, PCs
  <2>2. c.pc = "md_read" /\ c.of = Nothing
    BY <2>1 DEF IdleReq
  <2>3. InHand(c)'
    BY <2>2 DEF InHand, Serving, PCs, Forward, Undoing
  <2>4. call' = [call EXCEPT ![p] = c]
    BY <2>1, <1>4
  <2> QED BY <1>1, <1>2, <2>3, <2>4, Steady, StepTyped
<1> QED BY <1>3, <1>4 DEF HandleFirebaseEmailMismatch

LEMMA ReadMetadataTyped ==
  ASSUME ChangeInv, NEW p \in Procs, ReadMetadata(p)
  PROVE  ChangeInv'
<1>1. /\ StoreTyped' /\ UNCHANGED <<codes, claim, sessions>>
      /\ call[p] \in Call /\ metadata \subseteq Keys
  BY StoreIsTyped DEF StoreTyped, ReadMetadata, service, observed, ChangeInv, ChangeTypeOK
<1>1a. call[p].of = Nothing
  BY DEF ReadMetadata, ChangeInv, InHand, Serving
<1>2. PICK c \in Call : c = [call[p] EXCEPT !.pc = "md_write", !.md = metadata,
                                            !.data = @ \cup metadata \cup {"firebaseId"}]
  BY <1>1 DEF Call, PCs, Keys
<1>3. c.pc = "md_write" /\ c.md \subseteq c.data /\ c.of = Nothing
  BY <1>1, <1>1a, <1>2 DEF Call
<1>4. InHand(c)'
  BY <1>3 DEF InHand, Serving, PCs, Forward, Undoing
<1>5. call' = [call EXCEPT ![p] = c]
  BY <1>2 DEF ReadMetadata
<1> QED BY <1>1, <1>4, <1>5, Steady, StepTyped

LEMMA UpdateMetadataTyped ==
  ASSUME ChangeInv, NEW p \in Procs, UpdateMetadata(p)
  PROVE  ChangeInv'
<1>1. UNCHANGED <<codes, claim, sessions>> /\ call[p] \in Call
  BY DEF UpdateMetadata, ChangeInv, ChangeTypeOK
<1>2. call[p].data \subseteq Keys
  BY <1>1, CallFields
<1>2a. call[p].of = Nothing
  BY DEF UpdateMetadata, ChangeInv, InHand, Serving
<1>3. StoreTyped'
  BY <1>2, StoreIsTyped DEF StoreTyped, UpdateMetadata, observed
<1>4. CASE Finished(p)
  BY <1>1, <1>3, <1>4, Steady, FinishedTyped
<1>5. CASE Goto(p, "md_read")
  <2>1. "md_read" \in PCs
    BY DEF PCs
  <2>2. ASSUME NEW c \in Call, c.pc = "md_read", c.of = call[p].of PROVE InHand(c)'
    BY <1>2a, <2>2 DEF InHand, Serving, PCs, Forward, Undoing
  <2> QED BY <1>1, <1>3, <1>5, <2>1, <2>2, Steady, GotoTyped
<1> QED BY <1>4, <1>5 DEF UpdateMetadata

LEMMA CutOffTyped ==
  ASSUME ChangeInv, NEW p \in Procs, CutOff(p)
  PROVE  ChangeInv'
<1>1. StoreTyped' /\ UNCHANGED <<codes, claim, sessions>> /\ Finished(p)
  BY StoreIsTyped, LimitsAssumption DEF StoreTyped, CutOff, Failure, service, observed
<1> QED BY <1>1, Steady, FinishedTyped

\* No call goes on.
LEMMA CallsKept ==
  ASSUME ChangeInv, UNCHANGED <<call, codes, sessions>>, StoreTyped', Telegram => Telegram'
  PROVE  ChangeInv'
<1>1. \A s \in sessions' : SessionOK(s)'
  BY SessionsKept DEF ChangeInv
<1>2. ASSUME NEW p \in Procs PROVE InHand(call[p])'
  BY InHandKept DEF ChangeInv, ChangeTypeOK
<1> QED BY <1>1, <1>2 DEF ChangeInv, ChangeTypeOK, StoreTyped

LEMMA RefreshClaimTyped == ASSUME ChangeInv, RefreshClaim PROVE ChangeInv'
<1>1. /\ StoreTyped' /\ UNCHANGED <<call, codes, sessions>> /\ (Telegram => Telegram')
  BY StoreIsTyped DEF StoreTyped, RefreshClaim, service, observed, Telegram
<1> QED BY <1>1, CallsKept

LEMMA SomebodyRegistersTyped ==
  ASSUME ChangeInv, NEW a \in Registrable, SomebodyRegisters(a)
  PROVE  ChangeInv'
<1>1. /\ StoreTyped' /\ UNCHANGED <<call, codes, sessions>> /\ (Telegram => Telegram')
  BY StoreIsTyped DEF StoreTyped, SomebodyRegisters, observed, Telegram
<1> QED BY <1>1, CallsKept

LEMMA StepKeepsInv == ASSUME ChangeInv, NEW p \in Procs, Step(p) PROVE ChangeInv'
BY UpsertIPLoginAttemptTyped, UpsertEmailLinkSignInTyped, SendEmailTyped,
   DecrementIPLoginAttemptsTyped, GetUserByIDOrPkTyped, ModifyUserTyped, UpdateFirebaseTyped,
   StoreResetCodeTyped, SendNotifyEmailChangedTyped, FinishAuthProcessTyped,
   ResetEmailModificationTyped, ResetFirebaseTyped, ResetLoginSessionTyped,
   HandleFirebaseEmailMismatchTyped, ReadMetadataTyped, UpdateMetadataTyped DEF Step

LEMMA ChangeInvInitially == ChangeInit => ChangeInv
<1> SUFFICES ASSUME ChangeInit PROVE ChangeInv
  OBVIOUS
<1>1. \A p \in Procs : call[p] = IdleReq
  BY DEF ChangeInit
<1>2. \A p \in Procs : InHand(call[p])
  BY <1>1 DEF InHand, IdleReq, Serving, PCs, Forward, Undoing
<1>3. call \in [Procs -> Call]
  BY IdleCall DEF ChangeInit
<1>4. rows \in [Addresses -> Row]
  BY DEF ChangeInit, NoRow, Row
<1>5. confirmed \in [now : Addresses \cup {OwnId, Marker}, before : Addresses \cup {OwnId, Marker}]
  BY DEF ChangeInit, Addresses
<1>6. /\ email \in Addresses \cup {OwnId, Marker} /\ firebase \in Addresses \cup {Nothing}
      /\ metadata \subseteq Keys /\ claim \in Addresses \cup {Marker}
  BY DEF ChangeInit, Addresses, Keys
<1>7. /\ attempts \in 0..MaxAttempts /\ started \in 0..MaxRequests
      /\ failures \in 0..MaxFailures /\ codes \in Nat /\ late \in Nat
  BY LimitsAssumption DEF ChangeInit
<1>8. /\ taken \subseteq Registrable /\ delivered \subseteq Addresses \X (1..codes)
      /\ sessions \subseteq Session /\ open \subseteq 1..codes
      /\ {doubled, mixed, blind} \subseteq BOOLEAN
  BY DEF ChangeInit
<1>9. ChangeTypeOK
  BY <1>3, <1>4, <1>5, <1>6, <1>7, <1>8 DEF ChangeTypeOK
<1> QED BY <1>2, <1>9 DEF ChangeInv, ChangeInit

LEMMA ChangeInvKept == ChangeInv /\ [ChangeNext]_changeVars => ChangeInv'
<1> SUFFICES ASSUME ChangeInv, [ChangeNext]_changeVars PROVE ChangeInv'
  OBVIOUS
<1>1. CASE UNCHANGED changeVars
  <2>1. StoreTyped' /\ UNCHANGED <<call, codes, sessions>> /\ (Telegram => Telegram')
    BY <1>1, StoreIsTyped DEF StoreTyped, changeVars, service, observed, Telegram
  <2> QED BY <2>1, CallsKept
<1>2. CASE ChangeNext
  BY <1>2, StartLoginTyped, StartChangeTyped, FindOrGenerateUserIDTyped, GetMetadataTyped,
     StepKeepsInv, CutOffTyped, RefreshClaimTyped, SomebodyRegistersTyped DEF ChangeNext
<1> QED BY <1>1, <1>2

\* The types of everything, and what a request has in hand where it is: a
\* change is for another address than the one it is from, only one that asked
\* for a notice sends it, and only a counted login takes its attempt back.
THEOREM ChangeInvHolds == ChangeSpec => []ChangeInv
BY ChangeInvInitially, ChangeInvKept, PTL DEF ChangeSpec

-----------------------------------------------------------------------------
(* The metadata.                                                           *)

LEMMA MetadataMoves ==
  ASSUME ChangeInv, NEW p \in Procs, Step(p)
  PROVE  \/ metadata \subseteq metadata'
         \/ \A k \in metadata \ metadata' : call[p].pc = "finish" /\ k \notin call[p].md
<1>1. CASE FinishAuthProcess(p)
  BY <1>1 DEF FinishAuthProcess, Merged
<1>2. CASE UpdateMetadata(p)
  <2>1. InHand(call[p])
    BY DEF ChangeInv
  <2> QED BY <2>1, <1>2 DEF UpdateMetadata, Unchanged, InHand
<1>3. CASE ~ FinishAuthProcess(p) /\ ~ UpdateMetadata(p)
  <2>1. metadata' = metadata
    BY <1>3
    DEF Step, UpsertIPLoginAttempt, UpsertEmailLinkSignIn, SendEmail, DecrementIPLoginAttempts,
        GetUserByIDOrPk, ModifyUser, UpdateFirebase, StoreResetCode, SendNotifyEmailChanged,
        ResetEmailModification, ResetFirebase, ResetLoginSession, HandleFirebaseEmailMismatch,
        ReadMetadata, service
  <2> QED BY <2>1
<1> QED BY <1>1, <1>2, <1>3

\* The endpoint and the sign-ins merge what they read; only a sign-in that had
\* read the metadata before a key was written writes over that key, since its
\* statement does not compare, and the endpoint's does.
THEOREM MetadataKeptHolds == ChangeSpec => MetadataKept
<1> DEFINE Kept == \A k \in metadata \ metadata' :
                     \E p \in Procs : call[p].pc = "finish" /\ k \notin call[p].md
<1>1. ChangeInv /\ [ChangeNext]_changeVars => [Kept]_changeVars
  <2> SUFFICES ASSUME ChangeInv, ChangeNext PROVE Kept
    OBVIOUS
  <2>1. ASSUME NEW p \in Procs, Step(p) PROVE Kept
    BY <2>1, MetadataMoves
  <2>2. ASSUME ~ \E p \in Procs : Step(p) PROVE Kept
    <3>1. metadata' = metadata
      BY <2>2 DEF ChangeNext, StartLogin, StartChange, FindOrGenerateUserID, GetMetadata, CutOff,
                  RefreshClaim, SomebodyRegisters, service
    <3> QED BY <3>1
  <2> QED BY <2>1, <2>2
<1> QED BY <1>1, ChangeInvInitially, ChangeInvKept, PTL DEF ChangeSpec, MetadataKept

-----------------------------------------------------------------------------
(* The attempts of one client IP.                                          *)

\* What the request that goes on has in hand, and that the others wait.
LEMMA GotoMoves ==
  ASSUME ChangeInv, NEW p \in Procs, NEW pc \in PCs, Goto(p, pc)
  PROVE  /\ call'[p].pc = pc /\ call'[p].of = call[p].of /\ call'[p].md = call[p].md
         /\ \A q \in Procs \ {p} : call'[q] = call[q]
<1>1. call \in [Procs -> Call] /\ ChangeTypeOK
  BY DEF ChangeInv, ChangeTypeOK
<1>2. PICK c \in Call : /\ call' = [call EXCEPT ![p] = c]
                        /\ c.pc = pc /\ c.of = call[p].of /\ c.md = call[p].md
  BY <1>1, GotoCall
<1> QED BY <1>1, <1>2

LEMMA CallMoves ==
  ASSUME ChangeInv, NEW p \in Procs, NEW c, call' = [call EXCEPT ![p] = c]
  PROVE  call'[p] = c /\ \A q \in Procs \ {p} : call'[q] = call[q]
BY DEF ChangeInv, ChangeTypeOK

LEMMA FinishedMoves ==
  ASSUME ChangeInv, NEW p \in Procs, Finished(p)
  PROVE  call'[p] = IdleReq /\ \A q \in Procs \ {p} : call'[q] = call[q]
BY CallMoves DEF Finished

LEMMA CountsFinite ==
  ASSUME ChangeInv
  PROVE  /\ IsFiniteSet(open) /\ IsFiniteSet(Counting)
         /\ Cardinality(open) \in Nat /\ Cardinality(Counting) \in Nat
<1>1. codes \in Nat /\ open \subseteq 1..codes
  BY StoreIsTyped DEF StoreTyped
<1>2. IsFiniteSet(1..codes)
  BY <1>1, FS_Interval
<1>3. IsFiniteSet(open) /\ IsFiniteSet(Counting)
  BY <1>1, <1>2, LimitsAssumption, FS_Subset DEF Counting
<1> QED BY <1>3, FS_CardinalityType

LEMMA CountShrinks ==
  ASSUME ChangeInv, ChangeInv', CountInv, attempts' = attempts, late' >= late,
         Counting' \subseteq Counting, open' \subseteq open
  PROVE  CountInv'
<1>1. /\ Cardinality(open)' <= Cardinality(open)
      /\ Cardinality(Counting)' <= Cardinality(Counting)
  BY CountsFinite, FS_Subset
<1>2. /\ Cardinality(open) \in Nat /\ Cardinality(Counting) \in Nat
      /\ Cardinality(open)' \in Nat /\ Cardinality(Counting)' \in Nat
  <2>1. IsFiniteSet(open') /\ IsFiniteSet(Counting')
    BY CountsFinite, FS_Subset
  <2> QED BY <2>1, CountsFinite, FS_CardinalityType
<1>3. attempts \in Nat /\ late \in Nat /\ late' \in Nat
  BY StoreIsTyped, LimitsAssumption DEF StoreTyped, ChangeInv, ChangeTypeOK
<1> QED BY <1>1, <1>2, <1>3 DEF CountInv

\* The steps that count nothing.
LEMMA OthersCountNothing ==
  ASSUME ChangeInv, ChangeInv', CountInv, NEW p \in Procs, UNCHANGED <<attempts, open, late>>,
         \A q \in Procs \ {p} : call'[q] = call[q],
         call'[p].pc \in {"upsert", "mail", "rollback"} /\ call'[p].of.ip =>
           call[p].pc \in {"upsert", "mail", "rollback"} /\ call[p].of.ip
  PROVE  CountInv'
<1>1. Counting' \subseteq Counting
  BY DEF Counting, Counted
<1>2. late' >= late
  BY StoreIsTyped DEF StoreTyped
<1> QED BY <1>1, <1>2, CountShrinks

LEMMA Starts ==
  ASSUME ChangeInv, NEW p \in Procs, NEW c, Start(p, c)
  PROVE  call'[p] = c /\ \A q \in Procs \ {p} : call'[q] = call[q]
BY CallMoves DEF Start

LEMMA AddOne ==
  ASSUME NEW S, NEW x, IsFiniteSet(S)
  PROVE  /\ IsFiniteSet(S \cup {x}) /\ Cardinality(S) \in Nat
         /\ Cardinality(S \cup {x}) <= Cardinality(S) + 1 /\ Cardinality(S \cup {x}) \in Nat
<1>1. IsFiniteSet(S \cup {x}) /\ Cardinality(S) \in Nat
  BY FS_AddElement, FS_CardinalityType
<1>2. Cardinality(S \cup {x}) = IF x \in S THEN Cardinality(S) ELSE Cardinality(S) + 1
  BY FS_AddElement
<1> QED BY <1>1, <1>2

LEMMA StartsKeepCount ==
  ASSUME ChangeInv, ChangeInv', CountInv, NEW p \in Procs,
         \/ \E a \in Addresses : StartLogin(p, a) \/ StartChange(p, a)
         \/ \E s \in sessions, code \in 1..codes : FindOrGenerateUserID(p, s, code)
         \/ GetMetadata(p) \/ CutOff(p)
  PROVE  CountInv'
<1> SUFFICES /\ UNCHANGED <<attempts, open, late>> /\ \A q \in Procs \ {p} : call'[q] = call[q]
             /\ \/ call'[p].pc \notin {"upsert", "mail", "rollback"}
                \/ ~ call'[p].of.ip
  BY OthersCountNothing
<1>1. ASSUME NEW a \in Addresses, StartLogin(p, a)
      PROVE  /\ UNCHANGED <<attempts, open, late>> /\ \A q \in Procs \ {p} : call'[q] = call[q]
             /\ call'[p].pc = "attempt"
  <2>1. PICK s : Start(p, [IdleReq EXCEPT !.pc = "attempt", !.of = s])
    BY <1>1 DEF StartLogin
  <2>2. call'[p] = [IdleReq EXCEPT !.pc = "attempt", !.of = s]
        /\ \A q \in Procs \ {p} : call'[q] = call[q]
    BY <2>1, Starts
  <2> QED BY <2>2, <1>1 DEF StartLogin, service, observed, IdleReq
<1>2. ASSUME NEW a \in Addresses, StartChange(p, a)
      PROVE  /\ UNCHANGED <<attempts, open, late>> /\ \A q \in Procs \ {p} : call'[q] = call[q]
             /\ ~ call'[p].of.ip
  <2> DEFINE s == [to |-> a, from |-> claim, notify |-> ~ Telegram, ip |-> FALSE]
  <2>1. Start(p, [IdleReq EXCEPT !.pc = "upsert", !.of = s])
    BY <1>2 DEF StartChange
  <2>2. ~ s.ip
    BY Zenon
  <2> HIDE DEF s
  <2>3. call'[p] = [IdleReq EXCEPT !.pc = "upsert", !.of = s]
        /\ \A q \in Procs \ {p} : call'[q] = call[q]
    BY <2>1, Starts
  <2>4. call'[p].of = s
    BY <2>3 DEF IdleReq
  <2> QED BY <2>2, <2>3, <2>4, <1>2 DEF StartChange, service, observed
<1>3. ASSUME NEW s, NEW code, FindOrGenerateUserID(p, s, code)
      PROVE  /\ UNCHANGED <<attempts, open, late>> /\ \A q \in Procs \ {p} : call'[q] = call[q]
             /\ call'[p].pc = "read"
  <2> DEFINE c == [IdleReq EXCEPT !.pc = "read", !.of = s, !.code = code, !.found = Resolves(s)]
  <2>1. Start(p, c)
    BY <1>3 DEF FindOrGenerateUserID
  <2>2. c.pc = "read"
    BY DEF IdleReq
  <2>3. call'[p] = c /\ \A q \in Procs \ {p} : call'[q] = call[q]
    <3> HIDE DEF c
    <3> QED BY <2>1, Starts
  <2> QED BY <2>2, <2>3, <1>3 DEF FindOrGenerateUserID, service, observed
<1>4. ASSUME GetMetadata(p)
      PROVE  /\ UNCHANGED <<attempts, open, late>> /\ \A q \in Procs \ {p} : call'[q] = call[q]
             /\ call'[p].pc \in {"repair", "md_read"}
  <2>1. PICK c : /\ call' = [call EXCEPT ![p] = c]
                 /\ \/ c = [IdleReq EXCEPT !.pc = "repair", !.actual = email]
                    \/ c = [IdleReq EXCEPT !.pc = "md_read"]
    BY <1>4 DEF GetMetadata
  <2>2. call'[p] = c /\ c.pc \in {"repair", "md_read"}
        /\ \A q \in Procs \ {p} : call'[q] = call[q]
    BY <2>1, CallMoves DEF IdleReq
  <2> QED BY <2>2, <1>4 DEF GetMetadata, service, IdleReq
<1>5. ASSUME CutOff(p)
      PROVE  /\ UNCHANGED <<attempts, open, late>> /\ \A q \in Procs \ {p} : call'[q] = call[q]
             /\ call'[p].pc = "idle"
  BY <1>5, FinishedMoves, IdleCall DEF CutOff, service, observed
<1> QED BY <1>1, <1>2, <1>3, <1>4, <1>5

LEMMA UpsertIPLoginAttemptCounts ==
  ASSUME ChangeInv, ChangeInv', CountInv, NEW p \in Procs, UpsertIPLoginAttempt(p)
  PROVE  CountInv'
<1>1. open' = open /\ late' = late /\ attempts \in Nat /\ late \in Nat
  BY StoreIsTyped, LimitsAssumption DEF UpsertIPLoginAttempt, observed, StoreTyped
<1>2. CASE TooManyAttempts
  BY <1>1, <1>2, FinishedMoves, IdleCall, OthersCountNothing DEF UpsertIPLoginAttempt
<1>3. CASE ~ TooManyAttempts
  <2>1. attempts' = attempts + 1 /\ \A q \in Procs \ {p} : call'[q] = call[q]
    BY <1>3, GotoMoves DEF UpsertIPLoginAttempt, PCs
  <2>2. Counting' \subseteq Counting \cup {p}
    BY <2>1 DEF Counting, Counted
  <2>3. /\ Cardinality(Counting') <= Cardinality(Counting) + 1 /\ Cardinality(Counting') \in Nat
        /\ Cardinality(Counting) \in Nat /\ Cardinality(open) \in Nat
    <3>1. /\ IsFiniteSet(Counting \cup {p})
          /\ Cardinality(Counting \cup {p}) <= Cardinality(Counting) + 1
      BY CountsFinite, AddOne
    <3>2. /\ IsFiniteSet(Counting') /\ Cardinality(Counting') <= Cardinality(Counting \cup {p})
      BY <2>2, <3>1, FS_Subset
    <3>3. Cardinality(Counting') \in Nat /\ Cardinality(Counting \cup {p}) \in Nat
      BY <3>1, <3>2, FS_CardinalityType
    <3> QED BY <3>1, <3>2, <3>3, CountsFinite
  <2> QED BY <1>1, <2>1, <2>3 DEF CountInv
<1> QED BY <1>2, <1>3

\* One who held an attempt is done with it.
LEMMA CountingLeft ==
  ASSUME ChangeInv, NEW p \in Procs, p \in Counting, Finished(p)
  PROVE  Cardinality(Counting') = Cardinality(Counting) - 1
<1>1. Counting' = Counting \ {p}
  BY FinishedMoves, IdleCall DEF Counting, Counted
<1> QED BY <1>1, CountsFinite, FS_RemoveElement

LEMMA SendEmailCounts ==
  ASSUME ChangeInv, ChangeInv', CountInv, NEW p \in Procs, SendEmail(p)
  PROVE  CountInv'
<1>1. attempts' = attempts /\ late' = late /\ call[p].pc = "mail"
  BY DEF SendEmail
<1>2. CASE Finished(p) /\ open' = IF Counted(p) THEN open \cup {call[p].code} ELSE open
  <2>1. CASE Counted(p)
    <3>1. p \in Counting
      BY <1>1, <2>1 DEF Counting
    <3>2. Cardinality(Counting') = Cardinality(Counting) - 1
      BY <1>2, <3>1, CountingLeft
    <3>3. Cardinality(open') <= Cardinality(open) + 1 /\ Cardinality(open') \in Nat
      <4>1. open' = open \cup {call[p].code}
        BY <1>2, <2>1
      <4> QED BY <4>1, CountsFinite, AddOne
    <3>4. attempts \in Nat /\ late \in Nat
      BY StoreIsTyped, LimitsAssumption DEF StoreTyped
    <3> QED BY <1>1, <3>2, <3>3, <3>4, CountsFinite DEF CountInv
  <2>2. CASE ~ Counted(p)
    BY <1>1, <1>2, <2>2, FinishedMoves, IdleCall, OthersCountNothing
  <2> QED BY <2>1, <2>2
<1>3. CASE /\ IF Counted(p) THEN Goto(p, "rollback") ELSE Finished(p)
           /\ UNCHANGED <<delivered, sessions, open>>
  <2>1. CASE Counted(p)
    BY <1>1, <1>3, <2>1, GotoMoves, OthersCountNothing DEF Counted, PCs
  <2>2. CASE ~ Counted(p)
    BY <1>1, <1>3, <2>2, FinishedMoves, IdleCall, OthersCountNothing
  <2> QED BY <2>1, <2>2
<1> QED BY <1>2, <1>3 DEF SendEmail

LEMMA DecrementIPLoginAttemptsCounts ==
  ASSUME ChangeInv, ChangeInv', CountInv, NEW p \in Procs, DecrementIPLoginAttempts(p)
  PROVE  CountInv'
<1>1. /\ open' = open /\ late' = late /\ attempts \in Nat /\ late \in Nat
      /\ attempts' \in Nat /\ attempts' >= attempts - 1
  BY StoreIsTyped, LimitsAssumption
  DEF DecrementIPLoginAttempts, Decremented, observed, StoreTyped
<1>2. p \in Counting /\ Finished(p)
  BY DEF DecrementIPLoginAttempts, Counting, Counted, ChangeInv, InHand
<1> QED BY <1>1, <1>2, CountingLeft, CountsFinite DEF CountInv

LEMMA ResetLoginSessionCounts ==
  ASSUME ChangeInv, ChangeInv', CountInv, NEW p \in Procs, ResetLoginSession(p)
  PROVE  CountInv'
<1>1. call[p].pc = "reset" /\ Finished(p) /\ open' = open \ {call[p].code}
  BY DEF ResetLoginSession
<1>2. Counting' \subseteq Counting
  BY <1>1, FinishedMoves, IdleCall DEF Counting, Counted
<1>3. attempts \in Nat /\ late \in Nat
  BY StoreIsTyped, LimitsAssumption DEF StoreTyped
<1>4. CASE Counted(p)
  <2>1. /\ attempts' \in Nat /\ attempts' >= attempts - 1
        /\ late' = IF call[p].code \notin open THEN late + 1 ELSE late
    BY <1>3, <1>4 DEF ResetLoginSession, Decremented
  <2>2. Cardinality(Counting') <= Cardinality(Counting) /\ Cardinality(Counting') \in Nat
    <3>1. IsFiniteSet(Counting') /\ Cardinality(Counting') <= Cardinality(Counting)
      BY <1>2, CountsFinite, FS_Subset
    <3> QED BY <3>1, FS_CardinalityType
  <2>3. Cardinality(open') = IF call[p].code \in open THEN Cardinality(open) - 1
                                                     ELSE Cardinality(open)
    BY <1>1, CountsFinite, FS_RemoveElement
  <2> QED BY <1>3, <2>1, <2>2, <2>3, CountsFinite DEF CountInv
<1>5. CASE ~ Counted(p)
  <2>1. attempts' = attempts /\ late' >= late /\ open' \subseteq open
    BY <1>1, <1>3, <1>5 DEF ResetLoginSession
  <2> QED BY <1>2, <2>1, CountShrinks
<1> QED BY <1>4, <1>5

LEMMA UpsertEmailLinkSignInCounts ==
  ASSUME ChangeInv, ChangeInv', CountInv, NEW p \in Procs, UpsertEmailLinkSignIn(p)
  PROVE  CountInv'
<1>1. UNCHANGED <<attempts, open, late>> /\ call[p].pc = "upsert"
  BY DEF UpsertEmailLinkSignIn, observed
<1>2. CASE call' = [call EXCEPT ![p].pc = "mail", ![p].code = codes + 1]
  <2>1. call[p] \in Call
    BY DEF ChangeInv, ChangeTypeOK
  <2>2. call' = [call EXCEPT ![p] = [call[p] EXCEPT !.pc = "mail", !.code = codes + 1]]
    BY <1>2
  <2>3. call'[p] = [call[p] EXCEPT !.pc = "mail", !.code = codes + 1]
        /\ \A q \in Procs \ {p} : call'[q] = call[q]
    BY <2>2, CallMoves
  <2>4. call'[p].of = call[p].of
    BY <2>1, <2>3 DEF Call
  <2> QED BY <1>1, <2>3, <2>4, OthersCountNothing
<1>3. CASE Counted(p) /\ Goto(p, "rollback")
  BY <1>1, <1>3, GotoMoves, OthersCountNothing DEF Counted, PCs
<1>4. CASE Finished(p)
  BY <1>1, <1>4, FinishedMoves, IdleCall, OthersCountNothing
<1> QED BY <1>2, <1>3, <1>4 DEF UpsertEmailLinkSignIn

\* Signing in and the metadata count nothing but at their end.
SigningIn(p) ==
  \/ GetUserByIDOrPk(p) \/ ModifyUser(p) \/ UpdateFirebase(p) \/ StoreResetCode(p)
  \/ SendNotifyEmailChanged(p) \/ FinishAuthProcess(p) \/ ResetEmailModification(p)
  \/ ResetFirebase(p) \/ HandleFirebaseEmailMismatch(p) \/ ReadMetadata(p) \/ UpdateMetadata(p)

LEMMA SigningInGoesTo ==
  ASSUME ChangeInv, NEW p \in Procs, SigningIn(p)
  PROVE  \E c : call' = [call EXCEPT ![p] = c] /\ c.pc \notin {"upsert", "mail", "rollback"}
<1> DEFINE G == \E c : call' = [call EXCEPT ![p] = c] /\ c.pc \notin {"upsert", "mail", "rollback"}
<1>1. call[p] \in Call
  BY DEF ChangeInv, ChangeTypeOK
<1>2. ASSUME Finished(p) PROVE G
  BY <1>2, IdleCall DEF Finished
<1>3. ASSUME NEW pc \in PCs \ {"upsert", "mail", "rollback"}, Goto(p, pc) PROVE G
  <2>1. ChangeTypeOK
    BY DEF ChangeInv
  <2> QED BY <1>3, <2>1, GotoCall
<1>3a. ASSUME NEW c, call' = [call EXCEPT ![p] = c], c.pc \notin {"upsert", "mail", "rollback"}
       PROVE  G
  BY <1>3a
<1>4. CASE GetUserByIDOrPk(p)
  <2>1. CASE Finished(p)
    BY <2>1, <1>2
  <2>2. ASSUME NEW q \in Call, NEW pc \in {"finish", "modify"},
               call' = [call EXCEPT ![p] = [q EXCEPT !.pc = pc]]
        PROVE  G
    <3>1. [q EXCEPT !.pc = pc].pc = pc
      BY DEF Call
    <3> QED BY <2>2, <3>1
  <2>3. CASE ~ Finished(p)
    <3> DEFINE q == [call[p] EXCEPT !.seq = rows[To(p)].seq,
                                    !.md = IF call[p].found THEN metadata ELSE {}]
               pc == IF From(p) = Nothing THEN "finish" ELSE "modify"
    <3>1. call' = [call EXCEPT ![p] = [q EXCEPT !.pc = pc]] /\ To(p) \in Addresses
      <4>1. call[p].of \in Session
        BY <1>4 DEF GetUserByIDOrPk, ChangeInv, InHand, SessionOK, Serving, PCs
      <4> QED BY <1>4, <2>3, <4>1 DEF GetUserByIDOrPk, To, Session
    <3>2. q \in Call
      BY <1>1, <3>1, StoreIsTyped DEF Call, Row, StoreTyped
    <3> HIDE DEF q
    <3> QED BY <2>2, <3>1, <3>2
  <2> QED BY <2>1, <2>3
<1>5. CASE ModifyUser(p)
  BY <1>2, <1>3, <1>5 DEF ModifyUser, AfterFirebase, PCs
<1>6. CASE UpdateFirebase(p)
  <2>1. CASE Goto(p, AfterFirebase(p))
    BY <1>3, <2>1 DEF AfterFirebase, PCs
  <2>2. CASE call' = [call EXCEPT ![p] = [call[p] EXCEPT !.pc = "undo", !.md = {}]]
    <3>1. [call[p] EXCEPT !.pc = "undo", !.md = {}].pc = "undo"
      BY <1>1 DEF Call
    <3> QED BY <2>2, <3>1, <1>3a
  <2>3. \/ Goto(p, AfterFirebase(p))
        \/ call' = [call EXCEPT ![p] = [call[p] EXCEPT !.pc = "undo", !.md = {}]]
    BY <1>6 DEF UpdateFirebase, Undone
  <2> HIDE DEF G
  <2> QED BY <2>1, <2>2, <2>3
<1>7. CASE StoreResetCode(p)
  <2>1. CASE call' = [call EXCEPT ![p] = [call[p] EXCEPT !.pc = "notice", !.actual = codes + 1]]
    <3>1. [call[p] EXCEPT !.pc = "notice", !.actual = codes + 1].pc = "notice"
      BY <1>1 DEF Call
    <3> QED BY <2>1, <3>1, <1>3a
  <2>2. CASE Undo(p, Undone)
    BY <1>3, <2>2, UndoGoes DEF PCs
  <2> QED BY <2>1, <2>2, <1>7 DEF StoreResetCode
<1>8. CASE SendNotifyEmailChanged(p)
  BY <1>3, <1>8, UndoGoes DEF SendNotifyEmailChanged, PCs
<1>9. CASE FinishAuthProcess(p)
  BY <1>2, <1>3, <1>9, UndoGoes DEF FinishAuthProcess, Undone, PCs
<1>10. CASE ResetEmailModification(p) \/ ResetFirebase(p)
  BY <1>2, <1>3, <1>10 DEF ResetEmailModification, ResetFirebase, PCs
<1>11. CASE HandleFirebaseEmailMismatch(p)
  <2>1. CASE call' = [call EXCEPT ![p] = [IdleReq EXCEPT !.pc = "md_read"]]
    <3>1. [IdleReq EXCEPT !.pc = "md_read"].pc = "md_read"
      BY DEF IdleReq
    <3> QED BY <2>1, <3>1, <1>3a
  <2> QED BY <1>2, <2>1, <1>11 DEF HandleFirebaseEmailMismatch
<1>12. CASE ReadMetadata(p)
  <2>1. call' = [call EXCEPT ![p] = [call[p] EXCEPT !.pc = "md_write", !.md = metadata,
                                       !.data = @ \cup metadata \cup {"firebaseId"}]]
    BY <1>12 DEF ReadMetadata
  <2>2. [call[p] EXCEPT !.pc = "md_write", !.md = metadata,
                        !.data = @ \cup metadata \cup {"firebaseId"}].pc = "md_write"
    BY <1>1 DEF Call
  <2> QED BY <2>1, <2>2, <1>3a
<1>13. CASE UpdateMetadata(p)
  BY <1>2, <1>3, <1>13 DEF UpdateMetadata, PCs
<1> QED BY <1>4, <1>5, <1>6, <1>7, <1>8, <1>9, <1>10, <1>11, <1>12, <1>13 DEF SigningIn

LEMMA SigningInKeepsCount ==
  ASSUME ChangeInv, ChangeInv', CountInv, NEW p \in Procs, SigningIn(p)
  PROVE  CountInv'
<1>1. PICK c : call' = [call EXCEPT ![p] = c] /\ c.pc \notin {"upsert", "mail", "rollback"}
  BY SigningInGoesTo
<1>2. call'[p] = c /\ \A q \in Procs \ {p} : call'[q] = call[q]
  BY <1>1, CallMoves
<1>3. UNCHANGED <<attempts, open, late>>
  BY DEF SigningIn, GetUserByIDOrPk, ModifyUser, UpdateFirebase, StoreResetCode,
         SendNotifyEmailChanged, FinishAuthProcess, ResetEmailModification, ResetFirebase,
         HandleFirebaseEmailMismatch, ReadMetadata, UpdateMetadata, service, observed
<1> QED BY <1>1, <1>2, <1>3, OthersCountNothing

LEMMA CountInvKept ==
  ASSUME ChangeInv, ChangeInv', CountInv, [ChangeNext]_changeVars
  PROVE  CountInv'
<1>1. CASE UNCHANGED <<call, attempts, open, late>>
  <2>1. Counting' = Counting /\ open' = open /\ attempts' = attempts /\ late' = late
    BY <1>1 DEF Counting, Counted
  <2> QED BY <2>1 DEF CountInv
<1>2. ASSUME NEW p \in Procs, Step(p) PROVE CountInv'
  BY <1>2, UpsertIPLoginAttemptCounts, UpsertEmailLinkSignInCounts, SendEmailCounts,
     DecrementIPLoginAttemptsCounts, ResetLoginSessionCounts, SigningInKeepsCount
  DEF Step, SigningIn
<1>3. CASE RefreshClaim \/ (\E a \in Registrable : SomebodyRegisters(a)) \/ UNCHANGED changeVars
  BY <1>1, <1>3 DEF RefreshClaim, SomebodyRegisters, service, observed, changeVars
<1> QED BY <1>2, <1>3, StartsKeepCount DEF ChangeNext

\* A client IP never has more codes mailed and not redeemed than attempts,
\* however its logins overlap, fail on the way or are given up: an attempt is
\* taken before a code is stored and given back at most once for it.
THEOREM CodesPerIPBoundedHolds == ChangeSpec => []CodesPerIPBounded
<1>1. ChangeInit => CountInv
  <2> SUFFICES ASSUME ChangeInit PROVE CountInv
    OBVIOUS
  <2>1. open = {} /\ Counting = {}
    BY IdleCall DEF ChangeInit, Counting
  <2> QED BY <2>1, FS_EmptySet DEF CountInv, ChangeInit
<1>2. ChangeInv /\ CountInv => CodesPerIPBounded
  <2> SUFFICES ASSUME ChangeInv, CountInv PROVE CodesPerIPBounded
    OBVIOUS
  <2>1. attempts \in Nat /\ attempts <= MaxAttempts /\ late \in Nat /\ MaxAttempts \in Nat
    BY StoreIsTyped, LimitsAssumption DEF StoreTyped
  <2> QED BY <2>1, CountsFinite DEF CountInv, CodesPerIPBounded
<1>3. ChangeInv /\ ChangeInv' /\ CountInv /\ [ChangeNext]_changeVars => CountInv'
  BY CountInvKept
<1> QED BY <1>1, <1>2, <1>3, ChangeInvInitially, ChangeInvKept, PTL DEF ChangeSpec

-----------------------------------------------------------------------------
(* All or nothing.                                                         *)

LEMMA UndisturbedBefore ==
  ASSUME ChangeInv, [ChangeNext]_changeVars, Undisturbed'
  PROVE  Undisturbed
<1>1. failures \in Nat /\ mixed \in BOOLEAN
  BY StoreIsTyped, LimitsAssumption DEF StoreTyped
<1>2. CASE UNCHANGED changeVars \/ RefreshClaim \/ \E a \in Registrable : SomebodyRegisters(a)
  BY <1>2 DEF changeVars, service, observed, RefreshClaim, SomebodyRegisters, Undisturbed, Telegram
<1>3. ASSUME NEW p \in Procs,
             \/ \E a \in Addresses : StartLogin(p, a) \/ StartChange(p, a)
             \/ \E s \in sessions, code \in 1..codes : FindOrGenerateUserID(p, s, code)
             \/ GetMetadata(p) \/ Step(p) \/ CutOff(p)
      PROVE  Undisturbed
  <2>1. taken' = taken /\ claim' = claim
    BY <1>3
    DEF StartLogin, StartChange, FindOrGenerateUserID, GetMetadata, CutOff, Step,
        UpsertIPLoginAttempt, UpsertEmailLinkSignIn, SendEmail, DecrementIPLoginAttempts,
        GetUserByIDOrPk, ModifyUser, UpdateFirebase, StoreResetCode, SendNotifyEmailChanged,
        FinishAuthProcess, ResetEmailModification, ResetFirebase, ResetLoginSession,
        HandleFirebaseEmailMismatch, ReadMetadata, UpdateMetadata, service
  <2>2. failures' = failures \/ failures' = failures + 1
    BY <1>3
    DEF StartLogin, StartChange, FindOrGenerateUserID, GetMetadata, CutOff, Step, Failure,
        UpsertIPLoginAttempt, UpsertEmailLinkSignIn, SendEmail, DecrementIPLoginAttempts,
        GetUserByIDOrPk, ModifyUser, UpdateFirebase, StoreResetCode, SendNotifyEmailChanged,
        FinishAuthProcess, ResetEmailModification, ResetFirebase, ResetLoginSession,
        HandleFirebaseEmailMismatch, ReadMetadata, UpdateMetadata
  <2>3. mixed => mixed'
    <3>1. CASE ModifyUser(p) \/ UpdateFirebase(p)
      BY <3>1, Zenon DEF ModifyUser, UpdateFirebase
    <3>2. CASE StoreResetCode(p) \/ SendNotifyEmailChanged(p)
      BY <3>2, Zenon DEF StoreResetCode, SendNotifyEmailChanged, Undo, Observe
    <3>3. CASE FinishAuthProcess(p) \/ GetMetadata(p)
      BY <3>3, Zenon DEF FinishAuthProcess, GetMetadata, Undo, Observe
    <3>4. CASE mixed' = mixed
      BY <3>4
    <3> QED BY <1>3, <3>1, <3>2, <3>3, <3>4
        DEF StartLogin, StartChange, FindOrGenerateUserID, CutOff, Step, observed,
        UpsertIPLoginAttempt, UpsertEmailLinkSignIn, SendEmail, DecrementIPLoginAttempts,
        GetUserByIDOrPk, ResetEmailModification, ResetFirebase, ResetLoginSession,
        HandleFirebaseEmailMismatch, ReadMetadata, UpdateMetadata
  <2>4. failures = 0
    BY <1>1, <2>2 DEF Undisturbed
  <2> QED BY <2>1, <2>3, <2>4 DEF Undisturbed, Telegram
<1> QED BY <1>2, <1>3 DEF ChangeNext

LEMMA WritingIs ==
  ASSUME ChangeInv, NEW q \in Procs, Writing(q)
  PROVE  /\ q \in Procs /\ Changing(q)
         /\ call[q].pc \in Forward => Writes(q) = {To(q)}
         /\ call[q].pc \in Undoing => Writes(q) = {From(q)}
         /\ call[q].pc = "repair" => Writes(q) = {Nothing}
         /\ call[q].pc \in Forward \cup Undoing =>
              /\ call[q].of \in Session /\ To(q) \in Addresses /\ From(q) # To(q)
              /\ From(q) = Marker => Telegram
              /\ From(q) \in Addresses \cup {Marker}
<1>1. call[q].pc \in Forward => Writes(q) = {To(q)}
  BY DEF Writing, Forward, Undoing, Writes
<1>2. call[q].pc \in Undoing => Writes(q) = {From(q)}
  BY DEF Writing, Forward, Undoing, Writes
<1>3. call[q].pc = "repair" => Writes(q) = {Nothing}
  BY DEF Writes
<1>4. call[q].pc \in Forward \cup Undoing \cup {"repair"}
  BY DEF Writing
<1>5. call[q].pc \in Forward \cup Undoing => SessionOK(call[q].of) /\ From(q) # Nothing
  BY DEF ChangeInv, InHand, Serving, PCs, Forward, Undoing, Writing
<1>6. call[q].pc \in Forward \cup Undoing =>
        /\ call[q].of \in Session /\ To(q) \in Addresses /\ From(q) # To(q)
        /\ From(q) = Marker => Telegram
        /\ From(q) \in Addresses \cup {Marker}
  BY <1>5 DEF SessionOK, To, From, Session
<1> QED BY <1>1, <1>2, <1>3, <1>4, <1>6 DEF Changing

LEMMA ChangingWrites ==
  ASSUME ChangeInv, NEW q \in Procs, Changing(q)
  PROVE  Writing(q)
<1>1. call[q].pc \in Forward \cup Undoing \cup {"repair"}
  BY DEF Changing, Writes, Forward, Undoing
<1>2. call[q].pc \in Forward => From(q) # Nothing
  BY DEF Changing, Writes, Forward
<1>3. call[q].pc \in Undoing => From(q) # Nothing
  BY DEF ChangeInv, InHand, From
<1> QED BY <1>1, <1>2, <1>3 DEF Writing

\* Without a clash the others that write make the same change as p.
LEMMA OthersAlike ==
  ASSUME ChangeInv, NEW p \in Procs, NEW a, ~ Clash(p, a), NEW q \in Procs \ {p}, Writing(q)
  PROVE  Writes(q) = {a} /\ call[q].of = call[p].of
BY WritingIs DEF Clash, Others

SoleWriter(p) == \A q \in Procs \ {p} : ~ Writing(q)

LEMMA StillWriting ==
  ASSUME NEW p \in Procs, \A q \in Procs \ {p} : call'[q] = call[q]
  PROVE  \A q \in Procs \ {p} : Writing(q)' <=> Writing(q)
BY DEF Writing, From

\* A request that writes alone answers for both places by itself.
LEMMA AloneGoes ==
  ASSUME NEW p \in Procs, \A q \in Procs \ {p} : call'[q] = call[q], SoleWriter(p),
         Writing(p)' =>
           /\ call'[p].pc \in Forward => GoesForward(p)'
           /\ call'[p].pc \in Undoing => GoesBack(p)'
           /\ call'[p].pc = "repair" => Repairs(p)',
         ~ Writing(p)' => Granted(email)' /\ (blind' \/ firebase' = email')
  PROVE  Whole'
<1>1. \A q \in Procs : Writing(q)' => q = p
  BY StillWriting DEF SoleWriter
<1>2. Together' /\ Places' /\ Settled'
  BY <1>1 DEF Together, Places, Settled
<1> QED BY <1>2 DEF Whole

\* A step of a request that writes no address, before or after.
LEMMA StandsAside ==
  ASSUME NEW p \in Procs, \A q \in Procs \ {p} : call'[q] = call[q], Whole,
         ~ Writing(p), ~ Writing(p)', UNCHANGED <<email, firebase, confirmed, doubled, blind>>
  PROVE  Whole'
<1>1. \A q \in Procs : Writing(q)' <=> Writing(q)
  BY StillWriting
<1>2. \A q \in Procs : Writing(q) => call'[q] = call[q]
  OBVIOUS
<1>3. Together'
  BY <1>1, <1>2 DEF Whole, Together
<1>4. Places'
  BY <1>1, <1>2 DEF Whole, Places, GoesForward, GoesBack, Repairs, Granted, To, From, InFirebase
<1>5. Settled'
  BY <1>1 DEF Whole, Settled, Granted
<1> QED BY <1>3, <1>4, <1>5 DEF Whole

\* Where one goes back or repairs, no other writes.
LEMMA BackIsAlone ==
  ASSUME Together, NEW p \in Procs, Writing(p), call[p].pc \notin Forward
  PROVE  SoleWriter(p)
BY DEF Together, SoleWriter

\* A change that is given up alone: both places are its to change back.
LEMMA GivesUpAlone ==
  ASSUME ChangeInv, Whole, NEW p \in Procs, \A q \in Procs \ {p} : call'[q] = call[q],
         call[p].pc \in {"note", "notice", "finish"}, Writing(p), ~ Clash(p, From(p)),
         call'[p].pc = "undo", call'[p].of = call[p].of, call'[p].md = call[p].md,
         UNCHANGED <<email, firebase, confirmed, doubled, blind>>
  PROVE  Whole'
<1>1. call[p].pc \in Forward /\ From(p) # To(p)
  BY WritingIs DEF Forward
<1>2. ASSUME NEW q \in Procs \ {p}, Writing(q) PROVE FALSE
  <2>1. call[q].pc \in Forward /\ Writes(q) = {From(p)} /\ call[q].of = call[p].of
    BY <1>2, OthersAlike DEF Whole, Together
  <2>2. Writes(q) = {To(q)} /\ To(q) = To(p)
    BY <1>2, <2>1, WritingIs DEF To
  <2> QED BY <1>1, <2>1, <2>2
<1>3. SoleWriter(p)
  BY <1>2 DEF SoleWriter
<1>4. GoesForward(p)
  BY <1>1 DEF Whole, Places
<1>5. Writing(p)'
  BY DEF Writing, From, Forward, Undoing
<1>6. GoesBack(p)'
  BY <1>4 DEF GoesBack, GoesForward, Granted, InFirebase, From
<1>7. call'[p].pc \notin Forward /\ call'[p].pc # "repair"
  BY DEF Forward
<1> QED BY <1>3, <1>5, <1>6, <1>7, AloneGoes

LEMMA GoesAside ==
  ASSUME ChangeInv, Whole, NEW p \in Procs, NEW c, call' = [call EXCEPT ![p] = c],
         ~ Writing(p), UNCHANGED <<email, firebase, confirmed, doubled, blind>>,
         c.pc \notin Forward \cup Undoing \cup {"repair"} \/ (c.pc = "finish" /\ c.of.from = Nothing)
  PROVE  Whole'
<1>1. call'[p] = c /\ \A q \in Procs \ {p} : call'[q] = call[q]
  BY CallMoves
<1>2. ~ Writing(p)'
  BY <1>1 DEF Writing, From
<1> QED BY <1>1, <1>2, StandsAside

\* The steps around a change write no address.
LEMMA StartsWhole ==
  ASSUME ChangeInv, Whole, NEW p \in Procs,
         \/ \E a \in Addresses : StartLogin(p, a) \/ StartChange(p, a)
         \/ \E s \in sessions, code \in 1..codes : FindOrGenerateUserID(p, s, code)
  PROVE  Whole'
<1>1. PICK c : Start(p, c) /\ c.pc \in {"attempt", "upsert", "read"}
  <2>1. ASSUME NEW a \in Addresses, StartLogin(p, a)
        PROVE  \E c : Start(p, c) /\ c.pc \in {"attempt", "upsert", "read"}
    <3>1. PICK s : Start(p, [IdleReq EXCEPT !.pc = "attempt", !.of = s])
      BY <2>1 DEF StartLogin
    <3>2. [IdleReq EXCEPT !.pc = "attempt", !.of = s].pc = "attempt"
      BY DEF IdleReq
    <3> QED BY <3>1, <3>2
  <2>2. ASSUME NEW a \in Addresses, StartChange(p, a)
        PROVE  \E c : Start(p, c) /\ c.pc \in {"attempt", "upsert", "read"}
    <3> DEFINE s == [to |-> a, from |-> claim, notify |-> ~ Telegram, ip |-> FALSE]
    <3>1. Start(p, [IdleReq EXCEPT !.pc = "upsert", !.of = s])
      BY <2>2 DEF StartChange
    <3> HIDE DEF s
    <3>2. [IdleReq EXCEPT !.pc = "upsert", !.of = s].pc = "upsert"
      BY DEF IdleReq
    <3> QED BY <3>1, <3>2
  <2>3. ASSUME NEW s, NEW code, FindOrGenerateUserID(p, s, code)
        PROVE  \E c : Start(p, c) /\ c.pc \in {"attempt", "upsert", "read"}
    <3> DEFINE b == Resolves(s)
               c == [IdleReq EXCEPT !.pc = "read", !.of = s, !.code = code, !.found = b]
    <3>1. Start(p, c)
      BY <2>3 DEF FindOrGenerateUserID
    <3> HIDE DEF b
    <3>2. c.pc = "read"
      BY DEF IdleReq
    <3> HIDE DEF c
    <3> QED BY <3>1, <3>2
  <2> QED BY <2>1, <2>2, <2>3
<1>2. call[p].pc = "idle" /\ call' = [call EXCEPT ![p] = c]
  BY <1>1 DEF Start
<1>3. ~ Writing(p) /\ c.pc \notin Forward \cup Undoing \cup {"repair"}
  BY <1>1, <1>2 DEF Writing, Forward, Undoing
<1>4. UNCHANGED <<email, firebase, confirmed, doubled, blind>>
  BY DEF StartLogin, StartChange, FindOrGenerateUserID, service, observed
<1> QED BY <1>2, <1>3, <1>4, GoesAside

Aside(p) ==
  \/ UpsertIPLoginAttempt(p) \/ UpsertEmailLinkSignIn(p) \/ SendEmail(p)
  \/ DecrementIPLoginAttempts(p) \/ GetUserByIDOrPk(p) \/ ResetLoginSession(p)
  \/ ReadMetadata(p) \/ UpdateMetadata(p)

LEMMA AsideWhole ==
  ASSUME ChangeInv, Whole, NEW p \in Procs, Aside(p)
  PROVE  Whole'
<1>1. ~ Writing(p)
  BY DEF Aside, UpsertIPLoginAttempt, UpsertEmailLinkSignIn, SendEmail, DecrementIPLoginAttempts,
         GetUserByIDOrPk, ResetLoginSession, ReadMetadata, UpdateMetadata, Writing, Forward, Undoing
<1>2. UNCHANGED <<email, firebase, confirmed, doubled, blind>>
  BY DEF Aside, UpsertIPLoginAttempt, UpsertEmailLinkSignIn, SendEmail, DecrementIPLoginAttempts,
         GetUserByIDOrPk, ResetLoginSession, ReadMetadata, UpdateMetadata, service, observed
<1>3. call[p] \in Call /\ ChangeTypeOK
  BY DEF ChangeInv, ChangeTypeOK
<1>4. ASSUME NEW c, call' = [call EXCEPT ![p] = c],
             \/ c.pc \notin Forward \cup Undoing \cup {"repair"}
             \/ c.pc = "finish" /\ c.of.from = Nothing
      PROVE  Whole'
  BY <1>1, <1>2, <1>4, GoesAside
<1>5. ASSUME Finished(p) PROVE Whole'
  BY <1>4, <1>5, IdleCall DEF Finished, Forward, Undoing
<1>6. ASSUME NEW pc \in PCs \ (Forward \cup Undoing \cup {"repair"}), Goto(p, pc) PROVE Whole'
  BY <1>3, <1>4, <1>6, GotoCall
<1>7. CASE UpsertIPLoginAttempt(p) \/ SendEmail(p) \/ DecrementIPLoginAttempts(p)
           \/ ResetLoginSession(p) \/ UpdateMetadata(p)
  BY <1>5, <1>6, <1>7 DEF UpsertIPLoginAttempt, SendEmail, DecrementIPLoginAttempts,
     ResetLoginSession, UpdateMetadata, PCs, Forward, Undoing
<1>8. CASE UpsertEmailLinkSignIn(p)
  <2>1. CASE call' = [call EXCEPT ![p] = [call[p] EXCEPT !.pc = "mail", !.code = codes + 1]]
    <3>1. [call[p] EXCEPT !.pc = "mail", !.code = codes + 1].pc = "mail"
      BY <1>3 DEF Call
    <3> QED BY <1>4, <2>1, <3>1 DEF Forward, Undoing
  <2> QED BY <1>5, <1>6, <1>8, <2>1 DEF UpsertEmailLinkSignIn, PCs, Forward, Undoing
<1>9. CASE ReadMetadata(p)
  <2> DEFINE c == [call[p] EXCEPT !.pc = "md_write", !.md = metadata,
                                  !.data = @ \cup metadata \cup {"firebaseId"}]
  <2>1. c.pc = "md_write"
    BY <1>3 DEF Call
  <2>2. call' = [call EXCEPT ![p] = c]
    BY <1>9 DEF ReadMetadata
  <2> HIDE DEF c
  <2> QED BY <1>4, <2>1, <2>2 DEF Forward, Undoing
<1>10. CASE GetUserByIDOrPk(p)
  <2> DEFINE q == [call[p] EXCEPT !.seq = rows[To(p)].seq,
                                  !.md = IF call[p].found THEN metadata ELSE {}]
             pc == IF From(p) = Nothing THEN "finish" ELSE "modify"
             c == [q EXCEPT !.pc = pc]
  <2>1. Finished(p) \/ call' = [call EXCEPT ![p] = c]
    BY <1>10 DEF GetUserByIDOrPk
  <2>2. q.of = call[p].of /\ c.pc = pc /\ c.of = q.of
    <3>1. call[p].of \in Session
      BY <1>10 DEF GetUserByIDOrPk, ChangeInv, InHand, SessionOK, Serving, PCs
    <3>2. To(p) \in Addresses
      BY <3>1 DEF To, Session
    <3>3. q \in Call /\ q.of = call[p].of
      BY <1>3, <3>2, StoreIsTyped DEF Call, Row, StoreTyped
    <3>4. pc \in {"finish", "modify"}
      OBVIOUS
    <3> HIDE DEF q, pc
    <3> QED BY <3>3, <3>4 DEF Call
  <2>3. c.pc = "modify" \/ (c.pc = "finish" /\ c.of.from = Nothing)
    <3> HIDE DEF q, c
    <3> QED BY <2>2 DEF From
  <2> HIDE DEF c
  <2> QED BY <1>4, <1>5, <2>1, <2>3 DEF Forward, Undoing
<1> QED BY <1>7, <1>8, <1>9, <1>10 DEF Aside

\* SoleWriter, a change was made already only if it was confirmed.
LEMMA WritesAlone ==
  ASSUME ChangeInv, NEW p \in Procs, SoleWriter(p), Repeated(p)
  PROVE  confirmed = [now |-> To(p), before |-> From(p)] /\ email = To(p)
<1>1. ASSUME NEW q \in Others(p), Writes(q) = {To(p)}, call[q].of = call[p].of
      PROVE  FALSE
  <2>1. q \in Procs \ {p} /\ Changing(q)
    BY <1>1 DEF Others
  <2>2. Writing(q)
    BY <2>1, ChangingWrites
  <2> QED BY <2>1, <2>2 DEF SoleWriter
<1> QED BY <1>1 DEF Repeated

\* The users row: the others that write are at the same change.
LEMMA ModifyUserWhole ==
  ASSUME ChangeInv, Whole, Undisturbed, Undisturbed', NEW p \in Procs, ModifyUser(p)
  PROVE  Whole'
<1>1. PICK s \in Session :
        /\ s = call[p].of /\ SessionOK(s) /\ To(p) = s.to /\ From(p) = s.from
        /\ s.to \in Addresses /\ s.from # Nothing
  <2>1. Telegram => Telegram'
    BY DEF ModifyUser, Telegram
  <2> QED BY <2>1, ChangingSession DEF ModifyUser
<1>2. /\ email' = To(p) /\ UNCHANGED <<firebase, confirmed>> /\ To(p) # From(p)
      /\ Goto(p, IF InFirebase(p) THEN "firebase" ELSE AfterFirebase(p))
      /\ ~ Clash(p, To(p)) /\ (email = From(p) \/ Repeated(p))
      /\ (doubled \/ Repeated(p) => doubled') /\ (blind \/ ~ InFirebase(p) => blind')
  <2>1. To(p) \notin taken
    BY DEF Undisturbed
  <2>2. mixed' = (mixed \/ Clash(p, To(p)) \/ (~ Telegram /\ email # From(p) /\ ~ Repeated(p)))
        /\ doubled' = (doubled \/ Repeated(p)) /\ blind' = (blind \/ ~ InFirebase(p))
    BY <2>1 DEF ModifyUser
  <2>3. ~ Clash(p, To(p)) /\ (email = From(p) \/ Repeated(p))
    BY <2>2, Zenon DEF Undisturbed
  <2>4. (doubled \/ Repeated(p) => doubled') /\ (blind \/ ~ InFirebase(p) => blind')
    BY <2>2, Zenon
  <2> QED BY <1>1, <2>1, <2>3, <2>4 DEF ModifyUser, SessionOK
<1>3. PICK pc \in {"firebase", "note", "finish"} :
        pc = (IF InFirebase(p) THEN "firebase" ELSE AfterFirebase(p))
  BY DEF AfterFirebase
<1>4. /\ call'[p].pc = pc /\ call'[p].of = call[p].of /\ call'[p].md = call[p].md
      /\ \A q \in Procs \ {p} : call'[q] = call[q]
  <2>1. Goto(p, pc) /\ pc \in PCs
    BY <1>2, <1>3 DEF PCs
  <2> QED BY <2>1, GotoMoves
<1>5. /\ call'[p].pc \in Forward /\ Writing(p)' /\ ~ Writing(p)
      /\ \A q \in Procs \ {p} : Writing(q)' <=> Writing(q)
  <2>1. call'[p].pc \in Forward
    BY <1>4 DEF Forward
  <2>2. Writing(p)'
    BY <2>1, <1>1, <1>4 DEF Writing, From
  <2>3. ~ Writing(p)
    BY DEF ModifyUser, Writing, Forward, Undoing
  <2> QED BY <2>1, <2>2, <2>3, <1>4, StillWriting
<1>6. ASSUME NEW q \in Procs \ {p}, Writing(q)
      PROVE  /\ call[q].pc \in Forward /\ call[q].of = call[p].of /\ To(q) = To(p)
             /\ From(q) = From(p) /\ GoesForward(q) /\ Repeated(p)
  <2>1. Writes(q) = {To(p)} /\ call[q].of = call[p].of
    BY <1>2, <1>6, OthersAlike
  <2>2. call[q].pc \in Forward
    BY <1>1, <1>2, <1>6, <2>1, WritingIs, AddressFacts DEF Writing, From
  <2>3. GoesForward(q)
    BY <1>6, <2>2 DEF Whole, Places
  <2>4. Repeated(p)
    BY <1>6, <2>1, WritingIs DEF Repeated, Others
  <2> QED BY <2>1, <2>2, <2>3, <2>4 DEF To, From
<1>7. Together'
  BY <1>2, <1>4, <1>5, <1>6 DEF Whole, Together
<1>8. \A q \in Procs \ {p} : Writing(q) => GoesForward(q)'
  BY <1>2, <1>4, <1>6 DEF GoesForward, Granted, To, From, InFirebase
<1>9. GoesForward(p)'
  <2>1. Granted(From(p))'
    <3>1. CASE SoleWriter(p)
      <4>1. Granted(email)
        BY <1>5, <3>1 DEF Whole, Settled, SoleWriter
      <4>2. CASE email = From(p)
        BY <4>1, <4>2, <1>2, <1>4 DEF Granted, From
      <4>3. CASE Repeated(p)
        <5>1. confirmed.before = From(p)
          BY <3>1, <4>3, WritesAlone DEF Repeated
        <5> QED BY <5>1, <4>3, <1>2, <1>4 DEF Granted, From
      <4> QED BY <4>2, <4>3, <1>2
    <3>2. ASSUME NEW q \in Procs \ {p}, Writing(q) PROVE Granted(From(p))'
      BY <3>2, <1>2, <1>4, <1>6 DEF GoesForward, Granted, From
    <3> QED BY <3>1, <3>2 DEF SoleWriter
  <2>2. blind' \/ firebase = From(p) \/ (doubled' /\ firebase = To(p))
    <3>1. CASE SoleWriter(p)
      <4>1. blind \/ firebase = email
        BY <1>5, <3>1 DEF Whole, Settled, SoleWriter
      <4>2. CASE email = From(p)
        BY <4>1, <4>2, <1>2
      <4>3. CASE Repeated(p)
        <5>1. email = To(p)
          BY <3>1, <4>3, WritesAlone DEF Repeated
        <5> QED BY <5>1, <4>1, <4>3, <1>2
      <4> QED BY <4>2, <4>3, <1>2
    <3>2. ASSUME NEW q \in Procs \ {p}, Writing(q)
          PROVE  blind' \/ firebase = From(p) \/ (doubled' /\ firebase = To(p))
      BY <3>2, <1>2, <1>6 DEF GoesForward
    <3> QED BY <3>1, <3>2 DEF SoleWriter
  <2>3. blind' \/ (InFirebase(p)' /\ call'[p].pc = "firebase")
    BY <1>2, <1>3, <1>4 DEF InFirebase
  <2> QED BY <1>2, <1>4, <2>1, <2>2, <2>3 DEF GoesForward, To, From
<1>10. Places'
  <2>1. ASSUME NEW q \in Procs, Writing(q)' PROVE call'[q].pc \in Forward /\ GoesForward(q)'
    BY <2>1, <1>4, <1>5, <1>6, <1>8, <1>9
  <2> QED BY <2>1 DEF Places, Forward, Undoing
<1>11. Settled'
  BY <1>5 DEF Settled
<1> QED BY <1>7, <1>10, <1>11 DEF Whole

LEMMA UpdateFirebaseWhole ==
  ASSUME ChangeInv, Whole, Undisturbed', NEW p \in Procs, UpdateFirebase(p)
  PROVE  Whole'
<1>1. /\ call[p].pc = "firebase" /\ UNCHANGED <<email, confirmed, doubled, blind>>
      /\ call[p].pc \in Forward
  BY DEF UpdateFirebase, Forward
<1>2. Writing(p)
  BY <1>1 DEF ChangeInv, InHand, Writing, From, Forward
<1>3. GoesForward(p)
  BY <1>1, <1>2 DEF Whole, Places
<1>4. CASE firebase' = To(p) /\ Goto(p, AfterFirebase(p))
  <2>1. PICK pc \in {"note", "finish"} : pc = AfterFirebase(p)
    BY DEF AfterFirebase
  <2>2. /\ call'[p].pc = pc /\ call'[p].of = call[p].of /\ call'[p].md = call[p].md
        /\ \A q \in Procs \ {p} : call'[q] = call[q]
    <3>1. pc \in PCs
      BY DEF PCs
    <3> QED BY <2>1, <3>1, <1>4, GotoMoves
  <2>3. call'[p].pc \in Forward /\ call'[p].pc # "firebase"
    BY <2>2 DEF Forward
  <2>4. \A q \in Procs : Writing(q)' => Writing(q)
    BY <1>2, <2>2, StillWriting
  <2>5. ASSUME NEW q \in Procs \ {p}, Writing(q)
        PROVE  doubled /\ call[q].of = call[p].of /\ call[q].pc \in Forward
               /\ GoesForward(q) /\ To(q) = To(p)
    <3>1. doubled /\ call[q].of = call[p].of /\ call[q].pc \in Forward
      BY <1>2, <2>5 DEF Whole, Together
    <3> QED BY <2>5, <3>1 DEF Whole, Places, To
  <2>6. GoesForward(p)'
    BY <1>1, <1>3, <1>4, <2>2, <2>3 DEF GoesForward, Granted, To, From, InFirebase
  <2>7. ASSUME NEW q \in Procs \ {p}, Writing(q) PROVE GoesForward(q)'
    BY <1>1, <1>4, <2>2, <2>5, <2>7 DEF GoesForward, Granted, To, From, InFirebase
  <2>8. Together'
    BY <1>1, <1>2, <2>2, <2>3, <2>4 DEF Whole, Together
  <2>9. Places'
    <3>1. ASSUME NEW q \in Procs, Writing(q)' PROVE call'[q].pc \in Forward /\ GoesForward(q)'
      BY <3>1, <2>2, <2>3, <2>4, <2>5, <2>6, <2>7
    <3> QED BY <3>1 DEF Places, Forward, Undoing
  <2>10. Settled'
    <3>1. Writing(p)'
      BY <1>1, <1>2, <2>2, <2>3 DEF Writing, From, Forward, Undoing
    <3> QED BY <3>1 DEF Settled
  <2> QED BY <2>8, <2>9, <2>10 DEF Whole
<1>5. CASE /\ call' = [call EXCEPT ![p] = [call[p] EXCEPT !.pc = "undo", !.md = {}]]
           /\ mixed' = (mixed \/ doubled \/ Others(p) # {}) /\ UNCHANGED firebase
  <2>1. ~ doubled /\ Others(p) = {}
    BY <1>5, Zenon DEF Undisturbed
  <2>2. SoleWriter(p)
    BY <2>1, WritingIs DEF SoleWriter, Others
  <2> DEFINE c == [call[p] EXCEPT !.pc = "undo", !.md = {}]
  <2>3. c.pc = "undo" /\ c.of = call[p].of
    BY DEF ChangeInv, ChangeTypeOK, Call
  <2>4. call' = [call EXCEPT ![p] = c]
    BY <1>5
  <2> HIDE DEF c
  <2>5. call'[p] = c /\ \A q \in Procs \ {p} : call'[q] = call[q]
    BY <2>4, CallMoves
  <2>6. Writing(p)' /\ call'[p].pc \notin Forward /\ call'[p].pc # "repair"
    BY <1>1, <1>2, <2>3, <2>5 DEF Writing, From, Forward, Undoing
  <2>7. GoesBack(p)'
    BY <1>1, <1>3, <1>5, <2>1, <2>3, <2>5 DEF GoesBack, GoesForward, Granted, From
  <2> QED BY <2>2, <2>5, <2>6, <2>7, AloneGoes
<1> QED BY <1>4, <1>5 DEF UpdateFirebase, Undone

\* A change goes on to its next step, or is given up: alone.
LEMMA UndoWhole ==
  ASSUME ChangeInv, Whole, Undisturbed', NEW p \in Procs, Writing(p),
         call[p].pc \in {"note", "notice", "finish"}, Undo(p, Undone),
         UNCHANGED <<email, firebase, confirmed, doubled, blind>>
  PROVE  Whole'
<1>1. ~ Clash(p, From(p))
  BY Zenon DEF Undo, Observe, Undisturbed
<1>2. /\ call'[p].pc = "undo" /\ call'[p].of = call[p].of /\ call'[p].md = call[p].md
      /\ \A q \in Procs \ {p} : call'[q] = call[q]
  <2>1. Goto(p, "undo") /\ "undo" \in PCs
    BY UndoGoes DEF PCs
  <2> QED BY <2>1, GotoMoves
<1> QED BY <1>1, <1>2, GivesUpAlone

LEMMA GoesOnWhole ==
  ASSUME ChangeInv, Whole, NEW p \in Procs, Writing(p), call[p].pc \in {"note", "notice"},
         call'[p].pc \in {"notice", "finish"},
         call'[p].of = call[p].of, call'[p].md = call[p].md,
         \A q \in Procs \ {p} : call'[q] = call[q],
         UNCHANGED <<email, firebase, confirmed, doubled, blind>>
  PROVE  Whole'
<1>1. /\ call[p].pc \in Forward /\ call'[p].pc \in Forward
      /\ call[p].pc # "firebase" /\ call'[p].pc # "firebase"
  BY DEF Forward
<1>2. \A q \in Procs : Writing(q)' <=> Writing(q)
  <2>1. Writing(p)'
    BY <1>1 DEF Writing, From, Forward, Undoing
  <2> QED BY <2>1, StillWriting
<1>3. GoesForward(p)
  BY <1>1 DEF Whole, Places
<1>4. GoesForward(p)'
  BY <1>1, <1>3 DEF GoesForward, Granted, To, From, InFirebase
<1>5. Together'
  BY <1>1, <1>2 DEF Whole, Together
<1>6. Places'
  <2>1. ASSUME NEW q \in Procs \ {p}, Writing(q)'
        PROVE  /\ call'[q].pc \in Forward => GoesForward(q)'
               /\ call'[q].pc \in Undoing => GoesBack(q)'
               /\ call'[q].pc = "repair" => Repairs(q)'
    BY <2>1, <1>2
    DEF Whole, Places, GoesForward, GoesBack, Repairs, Granted, To, From, InFirebase
  <2>2. call'[p].pc \notin Undoing /\ call'[p].pc # "repair"
    BY DEF Undoing
  <2> QED BY <1>4, <2>1, <2>2 DEF Places
<1>7. Settled'
  BY <1>2 DEF Settled
<1> QED BY <1>5, <1>6, <1>7 DEF Whole

LEMMA StoreResetCodeWhole ==
  ASSUME ChangeInv, Whole, Undisturbed', NEW p \in Procs, StoreResetCode(p)
  PROVE  Whole'
<1>1. call[p].pc = "note" /\ UNCHANGED <<email, firebase, confirmed, doubled, blind>>
  BY DEF StoreResetCode
<1>2. Writing(p)
  BY <1>1 DEF ChangeInv, InHand, Writing, From, Forward
<1>3. CASE call' = [call EXCEPT ![p].pc = "notice", ![p].actual = codes + 1]
  <2> DEFINE c == [call[p] EXCEPT !.pc = "notice", !.actual = codes + 1]
  <2>1. c.pc = "notice" /\ c.of = call[p].of /\ c.md = call[p].md
    BY DEF ChangeInv, ChangeTypeOK, Call
  <2>2. call' = [call EXCEPT ![p] = c]
    BY <1>3
  <2> HIDE DEF c
  <2>3. call'[p] = c /\ \A q \in Procs \ {p} : call'[q] = call[q]
    BY <2>2, CallMoves
  <2> QED BY <1>1, <1>2, <2>1, <2>3, GoesOnWhole
<1>4. CASE Undo(p, Undone)
  BY <1>1, <1>2, <1>4, UndoWhole
<1> QED BY <1>3, <1>4 DEF StoreResetCode

LEMMA SendNotifyEmailChangedWhole ==
  ASSUME ChangeInv, Whole, Undisturbed', NEW p \in Procs, SendNotifyEmailChanged(p)
  PROVE  Whole'
<1>1. call[p].pc = "notice" /\ UNCHANGED <<email, firebase, confirmed, doubled, blind>>
  BY DEF SendNotifyEmailChanged
<1>2. Writing(p)
  BY <1>1 DEF ChangeInv, InHand, Writing, From, Forward
<1>3. CASE Goto(p, "finish")
  <2>1. "finish" \in PCs
    BY DEF PCs
  <2>2. /\ call'[p].pc = "finish" /\ call'[p].of = call[p].of /\ call'[p].md = call[p].md
        /\ \A q \in Procs \ {p} : call'[q] = call[q]
    BY <1>3, <2>1, GotoMoves
  <2> QED BY <1>1, <1>2, <2>2, GoesOnWhole
<1>4. CASE Undo(p, Undone)
  BY <1>1, <1>2, <1>4, UndoWhole
<1> QED BY <1>3, <1>4 DEF SendNotifyEmailChanged

\* The last step of a sign-in confirms the change, for the others too.
LEMMA FinishAuthProcessWhole ==
  ASSUME ChangeInv, Whole, Undisturbed', NEW p \in Procs, FinishAuthProcess(p)
  PROVE  Whole'
<1>1. call[p].pc = "finish" /\ UNCHANGED <<email, firebase, doubled, blind>>
  BY DEF FinishAuthProcess
<1>2. CASE From(p) = Nothing
  <2>1. ~ Writing(p) /\ confirmed' = confirmed /\ (Goto(p, "reset") \/ Finished(p))
    BY <1>1, <1>2 DEF FinishAuthProcess, Writing
  <2>2. "reset" \in PCs
    BY DEF PCs
  <2>3. /\ call'[p].pc \in {"reset", "idle"} /\ \A q \in Procs \ {p} : call'[q] = call[q]
    BY <2>1, <2>2, GotoMoves, FinishedMoves, IdleCall
  <2>4. ~ Writing(p)'
    BY <2>3 DEF Writing, Forward, Undoing
  <2> QED BY <1>1, <2>1, <2>3, <2>4, StandsAside
<1>3. CASE From(p) # Nothing /\ Undo(p, "undo") /\ UNCHANGED confirmed
  <2>1. Writing(p)
    BY <1>1, <1>3 DEF Writing, Forward
  <2> QED BY <1>1, <1>3, <2>1, UndoWhole DEF Undone
<1>4. CASE /\ From(p) # Nothing /\ Goto(p, "reset")
           /\ confirmed' = [now |-> To(p), before |-> From(p)]
  <2>1. Writing(p) /\ call[p].pc \in Forward
    BY <1>1, <1>4 DEF Writing, Forward
  <2>2. GoesForward(p)
    BY <2>1 DEF Whole, Places
  <2>3. /\ call'[p].pc = "reset" /\ \A q \in Procs \ {p} : call'[q] = call[q]
    <3>1. "reset" \in PCs
      BY DEF PCs
    <3> QED BY <1>4, <3>1, GotoMoves
  <2>4. ~ Writing(p)'
    BY <2>3 DEF Writing, Forward, Undoing
  <2>5. \A q \in Procs : Writing(q)' => Writing(q) /\ q # p
    BY <2>3, <2>4, StillWriting
  <2>6. ASSUME NEW q \in Procs, Writing(q)'
        PROVE  call'[q] = call[q] /\ call[q].pc \in Forward /\ GoesForward(q)'
    <3>1. /\ Writing(q) /\ q # p /\ call'[q] = call[q]
          /\ doubled /\ call[q].of = call[p].of /\ call[q].pc \in Forward
      BY <2>1, <2>3, <2>5, <2>6 DEF Whole, Together
    <3>2. GoesForward(q)
      BY <3>1 DEF Whole, Places
    <3>3. Granted(From(q))'
      BY <1>1, <1>4, <3>1 DEF Granted, From
    <3> QED BY <1>1, <3>1, <3>2, <3>3 DEF GoesForward, To, From, InFirebase
  <2>7. Together'
    BY <1>1, <2>5, <2>6 DEF Whole, Together
  <2>8. Places'
    BY <2>6 DEF Places, Forward, Undoing
  <2>9. Settled'
    BY <1>1, <1>4, <2>2 DEF Settled, Granted, GoesForward
  <2> QED BY <2>7, <2>8, <2>9 DEF Whole
<1> QED BY <1>2, <1>3, <1>4 DEF FinishAuthProcess

LEMMA ResetEmailModificationWhole ==
  ASSUME ChangeInv, Whole, Undisturbed, NEW p \in Procs, ResetEmailModification(p)
  PROVE  Whole'
<1>1. call[p].pc = "undo" /\ UNCHANGED <<firebase, confirmed, doubled, blind>>
      /\ email' = From(p)
  BY DEF ResetEmailModification, observed, Undisturbed
<1>2. Writing(p) /\ From(p) # Nothing
  BY <1>1 DEF ChangeInv, InHand, Writing, From, Undoing
<1>3. SoleWriter(p)
  BY <1>1, <1>2, BackIsAlone DEF Whole, Forward
<1>4. GoesBack(p)
  BY <1>1, <1>2 DEF Whole, Places, Undoing
<1>5. CASE Goto(p, "undo_firebase")
  <2>1. "undo_firebase" \in PCs
    BY DEF PCs
  <2>2. /\ call'[p].pc = "undo_firebase" /\ call'[p].of = call[p].of
        /\ \A q \in Procs \ {p} : call'[q] = call[q]
    BY <1>5, <2>1, GotoMoves
  <2>3. call'[p].pc \notin Forward /\ call'[p].pc # "repair" /\ Writing(p)'
    BY <1>2, <2>2 DEF Forward, Undoing, Writing, From
  <2>4. GoesBack(p)'
    BY <1>1, <1>4, <2>2 DEF GoesBack, Granted, From
  <2> QED BY <1>3, <2>2, <2>3, <2>4, AloneGoes
<1>6. CASE Finished(p) /\ ~ InFirebase(p)
  <2>1. call'[p].pc = "idle" /\ \A q \in Procs \ {p} : call'[q] = call[q]
    BY <1>6, FinishedMoves, IdleCall
  <2>2. ~ Writing(p)'
    BY <2>1 DEF Writing, Forward, Undoing
  <2>3. Granted(email)' /\ (blind' \/ firebase' = email')
    BY <1>1, <1>4, <1>6 DEF GoesBack, Granted
  <2> QED BY <1>3, <2>1, <2>2, <2>3, AloneGoes
<1> QED BY <1>5, <1>6 DEF ResetEmailModification

\* The two that end in Firebase.
LEMMA ResetFirebaseWhole ==
  ASSUME ChangeInv, Whole, Undisturbed, Undisturbed', NEW p \in Procs, ResetFirebase(p)
  PROVE  Whole'
<1>1. /\ call[p].pc = "undo_firebase" /\ UNCHANGED <<email, confirmed, doubled, blind>>
      /\ Finished(p)
  BY DEF ResetFirebase, observed
<1>2. Writing(p)
  BY <1>1 DEF ChangeInv, InHand, Writing, From, Undoing
<1>3. SoleWriter(p)
  BY <1>1, <1>2, BackIsAlone DEF Whole, Forward
<1>4. GoesBack(p)
  BY <1>1, <1>2 DEF Whole, Places, Undoing
<1>5. From(p) \in Addresses
  BY <1>1, <1>2, WritingIs DEF Undoing, Undisturbed
<1>6. ~ Failure
  BY DEF Failure, Undisturbed
<1>7. firebase' = From(p)
  BY <1>5, <1>6 DEF ResetFirebase
<1>8. call'[p].pc = "idle" /\ \A q \in Procs \ {p} : call'[q] = call[q]
  BY <1>1, FinishedMoves, IdleCall
<1>9. ~ Writing(p)'
  BY <1>8 DEF Writing, Forward, Undoing
<1>10. Granted(email)' /\ (blind' \/ firebase' = email')
  BY <1>1, <1>4, <1>7 DEF GoesBack, Granted
<1> QED BY <1>3, <1>8, <1>9, <1>10, AloneGoes

LEMMA HandleFirebaseEmailMismatchWhole ==
  ASSUME ChangeInv, Whole, Undisturbed, Undisturbed', NEW p \in Procs,
         HandleFirebaseEmailMismatch(p)
  PROVE  Whole'
<1>1. call[p].pc = "repair" /\ UNCHANGED <<email, confirmed, doubled, blind>>
  BY DEF HandleFirebaseEmailMismatch, observed
<1>2. Writing(p)
  BY <1>1 DEF Writing
<1>3. SoleWriter(p)
  BY <1>1, <1>2, BackIsAlone DEF Whole, Forward
<1>4. Repairs(p)
  BY <1>1, <1>2 DEF Whole, Places
<1>5. ~ Failure
  BY DEF Failure, Undisturbed
<1>6. call' = [call EXCEPT ![p] = [IdleReq EXCEPT !.pc = "md_read"]]
  BY <1>5 DEF HandleFirebaseEmailMismatch
<1>7. [IdleReq EXCEPT !.pc = "md_read"].pc = "md_read"
  BY DEF IdleReq
<1>8. call'[p].pc = "md_read" /\ \A q \in Procs \ {p} : call'[q] = call[q]
  BY <1>6, <1>7, CallMoves
<1>9. ~ Writing(p)'
  BY <1>8 DEF Writing, Forward, Undoing
<1>10. Granted(email)' /\ blind'
  BY <1>1, <1>4 DEF Repairs, Granted
<1> QED BY <1>3, <1>8, <1>9, <1>10, AloneGoes

\* A repair starts alone, where a change knew nothing of Firebase.
LEMMA GetMetadataWhole ==
  ASSUME ChangeInv, Whole, Undisturbed', NEW p \in Procs, GetMetadata(p)
  PROVE  Whole'
<1>1. call[p].pc = "idle" /\ UNCHANGED <<email, firebase, confirmed, doubled, blind>>
  BY DEF GetMetadata, service
<1>2. ~ Writing(p)
  BY <1>1 DEF Writing, Forward, Undoing
<1>3. CASE Mismatch
  <2>1. /\ ~ Clash(p, email) /\ email \in Addresses /\ firebase # email
    <3>1. mixed' = (mixed \/ Clash(p, email))
      BY <1>3, Zenon DEF GetMetadata, Observe
    <3> QED BY <1>3, <3>1, Zenon DEF Undisturbed, Mismatch
  <2>2. ASSUME NEW q \in Procs \ {p}, Writing(q) PROVE FALSE
    <3>1. Writes(q) = {email} /\ call[q].of = call[p].of
      BY <2>1, <2>2, OthersAlike
    <3>2. call[p].of = Nothing
      BY <1>1 DEF ChangeInv, InHand, Serving
    <3>3. call[q].pc \notin Forward \cup Undoing
      BY <2>2, <3>1, <3>2, WritingIs, AddressFacts
    <3>4. Writes(q) = {Nothing}
      BY <2>2, <3>3, WritingIs DEF Writing
    <3> QED BY <2>1, <3>1, <3>4, AddressFacts
  <2>3. SoleWriter(p)
    BY <2>2 DEF SoleWriter
  <2>4. Granted(email) /\ blind
    BY <1>2, <2>1, <2>3 DEF SoleWriter, Whole, Settled
  <2> DEFINE c == [IdleReq EXCEPT !.pc = "repair", !.actual = email]
  <2>5. c.pc = "repair"
    BY DEF IdleReq
  <2>6. call' = [call EXCEPT ![p] = c]
    BY <1>3 DEF GetMetadata
  <2> HIDE DEF c
  <2>7. call'[p].pc = "repair" /\ \A q \in Procs \ {p} : call'[q] = call[q]
    BY <2>5, <2>6, CallMoves
  <2>8. Repairs(p)' /\ Writing(p)' /\ call'[p].pc \notin Forward \cup Undoing
    BY <1>1, <2>4, <2>7 DEF Repairs, Granted, Writing, Forward, Undoing
  <2> QED BY <2>3, <2>7, <2>8, AloneGoes
<1>4. CASE ~ Mismatch
  <2> DEFINE c == [IdleReq EXCEPT !.pc = "md_read"]
  <2>1. c.pc = "md_read"
    BY DEF IdleReq
  <2>2. call' = [call EXCEPT ![p] = c]
    BY <1>4 DEF GetMetadata
  <2> HIDE DEF c
  <2> QED BY <1>1, <1>2, <2>1, <2>2, GoesAside DEF Forward, Undoing
<1> QED BY <1>3, <1>4

LEMMA AtomicInvKept ==
  ASSUME ChangeInv, AtomicInv, [ChangeNext]_changeVars
  PROVE  AtomicInv'
<1> SUFFICES ASSUME Undisturbed' PROVE Whole'
  BY DEF AtomicInv
<1>1. Undisturbed /\ Whole
  BY UndisturbedBefore DEF AtomicInv
<1>2. CASE UNCHANGED changeVars \/ RefreshClaim
  <2>1. UNCHANGED <<call, email, firebase, confirmed, doubled, blind>>
    BY <1>2 DEF changeVars, service, observed, RefreshClaim
  <2> QED BY <1>1, <2>1 DEF Whole, Together, Places, Settled, Writing, GoesForward, GoesBack,
                        Repairs, Granted, To, From, InFirebase
<1>3. ~ (\E a \in Registrable : SomebodyRegisters(a)) /\ ~ (\E p \in Procs : CutOff(p))
  BY <1>1 DEF SomebodyRegisters, CutOff, Failure, Undisturbed
<1>4. ASSUME NEW p \in Procs, Step(p) PROVE Whole'
  BY <1>1, <1>4, AsideWhole, ModifyUserWhole, UpdateFirebaseWhole, StoreResetCodeWhole,
     SendNotifyEmailChangedWhole, FinishAuthProcessWhole, ResetEmailModificationWhole,
     ResetFirebaseWhole, HandleFirebaseEmailMismatchWhole DEF Step, Aside
<1> QED BY <1>1, <1>2, <1>3, <1>4, StartsWhole, GetMetadataWhole DEF ChangeNext

LEMMA AtomicInvInitially == ChangeInit => AtomicInv
<1> SUFFICES ASSUME ChangeInit, Undisturbed PROVE Whole
  BY DEF AtomicInv
<1>1. \A p \in Procs : ~ Writing(p)
  BY IdleCall DEF ChangeInit, Writing, Forward, Undoing
<1>2. firebase = email /\ Granted(email)
  BY DEF ChangeInit, Undisturbed, Telegram, Granted
<1> QED BY <1>1, <1>2 DEF Whole, Together, Places, Settled

\* With no request running the address of an account is the confirmed one, in
\* the users row and in Firebase: a change that fails on the way is taken back
\* in both places, and none is kept that was not confirmed.
THEOREM AllOrNothingHolds == ChangeSpec => []AllOrNothing
<1>1. AtomicInv => AllOrNothing
  <2> SUFFICES ASSUME AtomicInv, Quiet, Undisturbed
               PROVE  /\ email \in {confirmed.now} \cup IF doubled THEN {confirmed.before} ELSE {}
                      /\ blind \/ firebase = email
    BY DEF AllOrNothing, Undisturbed
  <2>1. \A p \in Procs : ~ Writing(p)
    BY DEF Quiet, Writing, Forward, Undoing
  <2> QED BY <2>1 DEF AtomicInv, Whole, Settled, Granted
<1>2. ChangeInv /\ AtomicInv /\ [ChangeNext]_changeVars => AtomicInv'
  BY AtomicInvKept
<1> QED BY <1>1, <1>2, AtomicInvInitially, ChangeInvInitially, ChangeInvKept, PTL DEF ChangeSpec

=============================================================================
