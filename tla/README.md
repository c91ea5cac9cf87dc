# eskimo in TLA+

Eskimo is the user-account service of the ICE ecosystem: it signs users in by
email or Telegram, keeps their profiles and referrals, and runs the steps of
their KYC. It is a set of stateless Go processes over Postgres, Redis
(Dragonfly), Kafka, Firebase and a provider of face recognition. Everything that
can go wrong goes wrong between two statements, between a database and a message
or a call, or between two instances; that is what these modules model.

## Running

    tlc -workers 2 -config EmailSignIn.cfg MCEmailSignIn      # and the other .cfg files
    tlapm EmailSignInProofs.tla                               # and the other *Proofs modules

`PROJECT.json` lists the runs, which definition models which lines of `src/`,
the hazards and the theorems.

## Inventory

| part (`src/`) | state it keeps | operations | what is hard | what makes it correct | module |
|---|---|---|---|---|---|
| `auth/email_link` sign-in | a row of `email_link_sign_ins` per email and device: code, wrong codes, block, token numbers | `SendSignInLinkToEmail`, `SignIn`, `RefreshToken` | every request is 3 to 6 statements without a transaction; reads may come from a replica | one token number per request, bounded guesses, a used code is used, no old token comes back | `EmailSignIn`, `TokenSeq` |
| `auth/email_link` queue | two Redis sorted sets, a database mutex | enqueue, the worker loop, putting back | instances that die, transactions that fail after they ran, two workers at once | an entry is in one place; who waits is served | `EmailQueue` |
| `auth/email_link` email change | the same rows, `users.email`, Firebase | `handleEmailModification` and its undo steps, `handleFirebaseEmailMismatch` | a saga whose undo may fail, two confirmations of one change | all copies of the address agree | `EmailChange` |
| `auth/email_link` IP counters | `sign_ins_per_ip` with a CHECK | increment, decrement | an attempt is given back by somebody else's request | no more codes out than attempts | `EmailChange` |
| `auth` metadata | `account_metadata` | `UpdateMetadata`, `Metadata` | an optimistic update that recurses next to one that does not check | no lost key | `EmailChange` |
| `auth/telegram` | `telegram_sign_ins` | `SignIn`, `RefreshToken` | ids generated at once, users rows that change under it | one account is one user; as sign-in | `TelegramSignIn` |
| `users` lifecycle | `users` | `CreateUser`, `ModifyUser`, `DeleteUser` | writes back the row it read when a message fails; a deletion calls `ModifyUser` for every referral | referrers kept, nobody referred to is deleted | `Membership`, `UserLifecycle` |
| `users` referrals | `referral_acquisition_history`, `processed_referrals` | consuming snapshots, the referral endpoints | at-least-once delivery, optimistic retries, days that shift | every referral counted once | `ReferralCounts`, `UserLifecycle` |
| `users` growth | `global`, `users_per_country` | consuming snapshots and mining sessions | redelivery, sessions that meet in an interval | counters equal the events | `ReferralCounts`, `MiningSessions` |
| `users` contacts | `users.agenda_contact_user_ids` | PATCHing the agenda | a list read and written as a whole | everybody in it was told of | `Contacts` |
| `users` KYC reset | `kyc_steps_reset_requests` | `TryResetKYCSteps` | steps in parallel, deletion of the whole request | each requested step is reset | `KYCFace` |
| `kyc/face` | users forwarded, in-memory counters, a copy of the provider's verdict | `CheckStatus`, `ForwardToKYC`, `Reset` | check-then-add, verdicts computed from what was read | the copy follows the provider | `KYCFace` |
| `kyc/social` | attempts, socials, completed steps, `users.kyc_step_passed` | `VerifyPost`, `SkipVerification` | nothing is locked | what is passed is earned, one owner per account, bounded tries | `KYCSocial` |
| `kyc/quiz` | `quiz_sessions`, failed ones, their history, `quiz_resets`, `users` | `StartQuizSession`, `ContinueQuizSession`, `SkipQuizSession` | a transaction that calls out to another connection; statements without one | one verdict per session, resets paid for, the quiz closes | `KYCQuiz` |
| `kyc/linking`, `kyc/verification_scenarios` | links between tenants, completed scenarios | `Verify`, `VerifyScenarios` | a list read, extended and written as a whole | eligible means completed, and the other way round | `Scenarios` |
| `users/internal/device/metadata` | device rows | replace, delete all | upsert, message, revert; next to the deletion of the user | the platform knows the row | `DeviceMetadata` |
| `kyc/scraper`, third-party claims, `cmd/eskimo`, fixtures | none | HTTP; one UPDATE; reads | little | unit tests | |

Interactions: the REST services (`cmd/eskimo-hut` writes, `cmd/eskimo` reads)
call the packages above; `kyc/*` and the email change write the user through
`users.ModifyUser`, which tells the rest of the world in a Kafka message and
writes the old row back if that fails; the same process consumes these messages
to keep referrals and growth, and the messages of mining sessions that another
service sends. The sign-ins look into `users` for whose address or Telegram
account it is, and the deletion of a user deletes its devices first.

## Conventions

A request is a record `req[p]` (`call[p]` in `EmailChange`) with a program counter; an action is one SQL
statement (or Redis transaction, or call of a service) together with the Go code up
to the next one, so every interleaving of statements is a behaviour. What a request
read is in its record and may be old when it is used. A statement that fails, a
cancelled context and a crash of the process all cut a request off: what it wrote
stays. Faults are counted against `MaxFaults` (there `MaxFailures`).

Variables that only an observer has never guard an action: `exchanged`, `guesses`,
`lapses`, `late`, `asked`, `lost`, `starts`, `panicked`, `conflict`, `gone`, `mutual`,
`seeded`, `skewed`, `mixed`, `doubled`, `blind`, `open`, `due`, `last`, `crossed`,
`settled`, `earned`, `undone`, `disturbed`, `told`, `broken`. Some properties excuse what
these record. Each excuse is a behaviour of the code that breaks the property
without it, and is listed below under "What the models say of the code".

## Modules

| module | models | proofs |
|---|---|---|
| `TokenSeq` | the refresh-token numbers of a sign-in row (`auth/token.go`, `finishAuthProcess`), as pure operators on a row | |
| `EmailSignIn` | one address: codes, sign-in, blocking, refreshing | `EmailSignInProofs` |
| `EmailQueue` | the queue of login emails and its workers | `EmailLinkProofs` |
| `EmailChange` | the change of address, logins per IP, account metadata, Firebase | `EmailLinkProofs` |
| `KYCSocial` | the social steps, with the part of `ModifyUser` they use | `KYCSocialProofs` |
| `KYCQuiz` | the quiz step, with the part of `ModifyUser` it uses | `KYCQuizProofs` |
| `KYCFace` | the face steps, their verdict and the requests to reset steps | `KYCFaceProofs` |
| `Membership` | what the users table promises about referrers (abstract) | |
| `UserLifecycle` | creating, modifying, deleting users; implements `Membership` | `UserLifecycleProofs` |
| `ReferralCounts` | the consumers of user snapshots | `ReferralCountsProofs` |
| `TelegramSignIn` | Telegram sign-in next to changes of the users row | `AccountProofs` |
| `DeviceMetadata` | devices and the deletion of their user | `AccountProofs` |
| `Scenarios` | scenarios of eligibility, linked accounts, the part of `ModifyUser` they use | `AccountProofs` |
| `MiningSessions` | the consumer of mining sessions and the active users | `AccountProofs` |
| `Contacts` | the agenda | `AccountProofs` |
| `Account` | composes the last five | `AccountProofs` |
| `MC...` | instances for TLC: symmetry, functions given to constants | |

### EmailSignIn

`SendSignInLinkToEmail` is `ValidateEmailSignIn` (read the block) and
`UpsertEmailLinkSignIn` (the conditional upsert). `SignIn` is `ResolveUser`
(which id is this email's), `ReadSignIn` (read the row, decide), then either
`IncreaseWrongAttempts`, or `FinishAuthProcess` (compare-and-set on the token
number), `ResetLoginSession` (retire the code) and `Reply`. `RefreshToken` is one
UPDATE and `Reply`; the read before it decides nothing that the UPDATE does not
decide again. `Crash` cuts a request off, `Replicate` brings a replica up to date,
`CreateUser` registers the owner of a token.

Simplified: no client IP and no change of address (`EmailChange` has them); one
tick is the two-second window in which a repeated request is a duplicate, so
"created less than 2 s ago" is "created in this tick", and of two instants within
a tick the code's "before" is the model's "not after"; a redeemed code is stored
as the id of its user, as in the code.

### EmailQueue

Scores are tickets: the score of an entry is the time it was made, which is
unique here. `EnsureLocked`, `Dequeue`, `Filter`, `Fetch`, `Send` are the stages of
`processEmailQueue`; `PutBack` and `PutBackTTL` the two transactions of
`rollbackEmailsBackToQueue`. Each stage has a failing sibling, with the two ways a
transaction fails: not executed, or executed without an answer; the stages that
undo one may fail too. `LockErrors` lets a worker go on without the mutex, which is
what the code does when the mutex cannot be asked; it is explored as the last fault.
The operator may set any rate limit at any time (`Rates`), also one that cannot be
parsed.

### EmailChange

One account, one device, one client IP. A session is what the token in a mail
says (`to`, `from`, whether the IP was counted). `StartLogin` and `StartChange`
begin `SendSignInLinkToEmail` (`UpsertIPLoginAttempt`, `UpsertEmailLinkSignIn`,
`SendEmail`); `FindOrGenerateUserID` to `ResetLoginSession` are `SignIn` with
`handleEmailModification` in the middle: `ModifyUser`, `UpdateFirebase`,
`StoreResetCode`, `SendNotifyEmailChanged`, `FinishAuthProcess`, and their undoing in
`ResetEmailModification`, `ResetFirebase`, `DecrementIPLoginAttempts`. `GetMetadata`,
`HandleFirebaseEmailMismatch`, `ReadMetadata`, `UpdateMetadata` are the Metadata
endpoint. `SomebodyRegisters` takes an address away, `CutOff` ends a request where it
is, `RefreshClaim` is the client that refreshes its tokens and has the new address in
its claim; a Telegram account keeps the marker there. The definitions have names of
their own (`ChangeInit`, `ChangeSpec`, `CutOff`, `Failure`), so that one module can
prove about this model and `EmailQueue`.

What `AllOrNothing` excuses, in the observer's terms: `doubled`, a change was made that
was made already or was being made by another sign-in; `mixed`, two requests went on to
write different addresses (a change, its undoing, a repair), or a change was made from
an address that the user no longer had, or the call to Firebase failed for one of two
sign-ins for a change; `blind`, a change did not know of the Firebase account. A login
writes no address and disturbs nothing.

### KYCSocial

`ValidateKycStep` to `CountAttempts` are the reads at the beginning of a request;
`Verify` the scraper; `SaveSocial`, `SaveSocialKYCStep`, `RecordFailure`,
`RecordSession` the writes; `ReadUser` to `RollBackUser` are `users.ModifyUser`
reduced to `kyc_step_passed`. Attempts are counted per time of their request, not
listed. The query's `reason != ANY($3)` is true of every row when `$3` has two
elements, so the rows that end a session are counted with the failed posts.

### KYCQuiz

`StartQuizSession` is a sequence of autocommitted statements
(`FinishUnfinishedSession`, `CountFailed`, `MoveFailed`, `AppendReset`,
`IsQuizEnabledForUser`, `CheckUserKYC`, `StartNewSession`), with `modifyUser` in
between when a session was left. `ContinueQuizSession` and `SkipQuizSession` are
serialisable transactions: the tables they will leave are kept in the request
(`session`, `added`, `moved`) until `Commit`, the row of the session is locked, and
of two that read what the other writes the second is `doomed`. Their `modifyUser`
runs outside the transaction and is visible at once. `PassSocial1` is the social
step that comes before. The storage library (`DoInTransaction`, serialisable
isolation, locks) is external; `Commit` and `Release` model what the code relies on.

### KYCFace

One user. `tryResetKYCSteps` is `Load` (the user and its request), `FindApplicant`,
`EraseApplicant`, `RemoveStep`, `ClearRequest`, then `CheckStatus`: `SearchApplicant`,
`SaveFaceID`, and the part of `ModifyUser` that the verdict needs (`ReadUser`,
`UpdateUser`, `SendSnapshot`, `RollBackUser`). `checkFaceKYCStatus` is `ReadForwarded`,
`CheckAvailable` (the polled metrics are a choice), `TakePlace`, `SaveForwarded`.
`clearUsers` and `clearErrs` are the two tickers; `BeginFace` and `JudgeFace` the
user and the provider; `RequestReset` the operator, `PassSocial` the social steps.

### Membership and UserLifecycle

`Membership` is the abstract specification: members have referrers; a member joins
with one, chooses one once, and is moved to another only while the first is
leaving or an update is undone; a member leaves when nobody refers to it.
`UserLifecycle` has the statements. `CreateUser` is `InsertUser` and `SendCreated`
(with the deletion that undoes it); `ModifyUser` is `ReadUser`, `ShareReferral`
(the diversion of a referral to another user), `UpdateUser`, `SendSnapshot`,
`RollbackUser`, one record `call[p][u]` per goroutine; `DeleteUser` is
`DeleteUserReferences`, `SelectReferrals`, the goroutines, `JoinReferrals`, and
`DeleteRow`, which starts again on a foreign key. `Triggered` is the trigger of
`DDL.sql` that counts verified referrals. The referral endpoints are state
functions (`GetReferrals`, `TeamTotal`, `TeamListed`): they are single statements,
and `TeamAddsUp` compares what they answer in every reachable state.

### ReferralCounts

A consumer is a partition (`Feed[c]`) read in order. `UpdateTotalUsersCount`,
`InsertProcessed`, `GetCurrentReferralCount`, `IncrementOrDecrementReferralCount`
and `EndProcess` are the statements of one message; `Crash` and `Redeliver` make the
delivery at-least-once. `Source`, `Shifted`, `Updated` are what the generated SQL does
to the columns of the days, with the lag of the row and that of its referrer's row.
`AcquisitionHistory` is the read endpoint.

### TelegramSignIn, DeviceMetadata, Contacts, Scenarios, MiningSessions, Account

`TelegramSignIn` has one request per statement and `CreateUser`, `ModifyUser`,
`DeleteUser` as what may happen to the users row in between. `DeviceMetadata` has
`GetBefore`, `Upsert`, `SendSnapshot`, `Revert` of a replacement and `DeleteUser` to
`DeleteMember` of a deletion, where the devices are deleted and told of in parallel.
`Contacts` has `FindAgendaContactIDs`, `Update`, the messages and `Rollback`.
`Scenarios` has `VerifyJoin` and `VerifySignUp` (the request with its reads),
`GetLinks` to `StoreLinkedAccounts` (linking, one remote answer at a time),
`SetTenantVerified`, and `ModifyUser`. `MiningSessions` has the log (`Begin`,
`Extend`), `UpdateMiningSession` and `IncrementTotalActiveUsersCount`, and `Rewind`.

`Account` composes these five as conjunctions of a step of one and unchanged
variables of the others. A behaviour has a scene, the set of components that move
in it. `Scenarios` and `MiningSessions` share the users row (a roll back of
`ModifyUser` takes back the columns of the mining session as well), so they move
together; the other three have no state in common with anything, and scenes of
their own, for interleaving them would show nothing new. The theorems of
`AccountProofs` are about any set of scenes.

## Runs

| run | instance | shows |
|---|---|---|
| `sign_in` | 1 device, 2 requests, 2 codes, 2 users, 2 wrong codes, crashes, codes repeat | `SeqInvariant`, `GuessesBounded`, `BlockNotMissed` |
| `sign_in_replica` | the same with a lagging replica and fresh codes, no crashes | `LateSignInsBounded`, `CodeBuysSession`, `NoOlderTokenExchanged` |
| `email_queue` | 2 emails, 2 workers that may both run unlocked, 1 fault, batches of 2, rates 1 and 2, fair workers | `EntryTakenOnce`, `WaitingNotDropped`, `CodeReachesClient` |
| `email_change` | 2 requests at once of 3, 2 new addresses, 1 attempt per IP, 1 fault | `AllOrNothing`, `CodesPerIPBounded`, `MetadataKept`, `AgreeInTheEnd` |
| `kyc_social` | 2 users, 2 requests, 1 social account, 2 sessions of 1 attempt, 1 fault | `PassedIsEarned`, `HandleOwned`, `SessionsBounded`, `PassedNeverLowered` |
| `kyc_social_conflict` | 1 user, 2 requests | violates `ConflictMeansPassed` |
| `kyc_quiz` | 2 requests, 2 questions, 2 attempts, 1 fault, clock to 6 | `PassedIsEarned`, `VerdictOnce`, `StartsBounded`, `ResetsPaid` |
| `kyc_quiz_unreachable` | 2 requests, 1 attempt | violates `UnreachableNotReached` |
| `kyc_face` | 2 requests, 1 place, 2 events (results, faces begun, resets, faults) | `TypeOK`, `RequestHonoured`, `VerdictArrives`, `RequestsEnd` |
| `user_lifecycle` | 3 users and the default referral, 2 requests, 1 fault | `VerifiedCounted`, `TeamAddsUp`, `ReferrerKept`, `RequestsEnd` |
| `referral_counts` | 3 partitions, a chain of 3 referrers, midnight, 1 fault | `NotCountedTwice`, `DaysWithinTotal`, `TotalOffByFaults`, `MessagesSettle` |
| `account` | 4 scenes; 2 Telegram accounts, 2 users; 2 devices, 4 versions; 2 contacts; 1 scenario and 2 tenants, 3 sessions; 1 fault | `OneIdentity`, `TelegramSeqInvariant`, `KnownDevices`, `ContactsTold`, `VerifiedIsEarned`, `NeverStuck`, `CountedOnce` |

Sizes: `kyc_quiz` 2.3 million distinct states, `sign_in` 2.0 million, `kyc_social` 1.6,
`kyc_face` 1.1, `email_change` 0.83, `email_queue` 0.74, `account` 0.62,
`sign_in_replica` 0.58, `user_lifecycle` 0.29, `referral_counts` 0.16; the longest takes
between two and three minutes on two workers.

`TypeOK` is the property of a run only in `KYCFace`, where it says something: the
counter of users that take a place may exceed the places by the requests that
checked at once, and not by more. In the other modules it held in every run while
they were developed, and it is proved where there are proofs.

Bounds. Two requests are enough for every race of a read with a write of another
request; bounds that grow with the number of requests (`GuessesBounded`,
`BlockNotMissed`, `SessionsBounded`) are stated with `Cardinality(Procs)`. Clocks run
long enough for a code to expire and a block to end, for a session to pass its
deadline and a cool down to end twice. Counters of tokens (`MaxSeq = 3`) allow a
sign-in and two refreshes, or three sign-ins, in any order. The chain of three
referrers is the shortest in which one row is the referrer of one team and the
referrer's referrer of another; three partitions let two of them race on it while a
third is delivered again. One fault is one message that fails, one call that fails
or one request cut off; a fault in the undoing of a fault is the second.

Larger instances were checked once, with the same results: `UserLifecycle` with 3
requests and no fault (1.6 million states), `ReferralCounts` with two first days, users
who leave on the day they came, and all rows (4.8), `KYCFace` with 3 events (2.9), `EmailQueue` with `MaxFaults = 2` (1.1),
and components of `Account` alone: `Scenarios` (5.6), `Contacts` with 3 others and 3
requests (5.6), `TelegramSignIn` with 2 changes (0.8), `MiningSessions` with 4 sessions
(0.1).

Deadlock is not checked: all models stop at their bounds, or with every request
answered.

### Fairness

  - `EmailQueue`: `WF_vars(Work(w))`. A worker is a goroutine in an endless loop
    (`NewClient` starts it); the Go runtime keeps scheduling it, and its calls have
    time-outs. Nothing is assumed of clients. `CodeReachesClient` excuses codes that
    expired, were replaced, were redeemed, whose client stopped asking, or whose entry
    a fault took.
  - `UserLifecycle`: `WF` on every step of a request and of its goroutines, for the
    same reason, and `SF` on `SelectNobody`. The new referrers of a deleted user's
    referrals are drawn at random, and a draw may find nobody, in which case the
    referral becomes its own; a draw that is repeated for ever comes out so again and
    again. `RequestsEnd` has a disjunct for the one way it does not end (see below).
  - `ReferralCounts`: `WF_vars(Step(c))`. The retry of the optimistic update has no
    bound in the code, and needs none: another one, or midnight, must have got ahead.
  - `EmailChange`: `WF` on the steps of a request and on `GetMetadata`: the client asks
    for its metadata now and then. `AgreeInTheEnd` rests on that, on nobody else having
    a Firebase account with the address, and on the account being one with a password.
  - `KYCFace`: `WF` on the steps of a request and on the ticker `clearErrs`.
    `VerdictArrives` is about users who keep asking, as its premise says.

### The refinement

`ReferrerKept == Directory!Spec` says that `UserLifecycle` implements `Membership`: a
request that deletes a user maps to `leaving`, a goroutine that moves a referral to
`moving`, one that rolls back to `undoing`, and every statement to one step of
`Membership` or to none. It fails, for instance, once the UPDATE forgets its
condition on `referred_by` and the last of two choices wins.

## What is proved

Every theorem is about the specification of its module, for all values of the
constants that satisfy the module's assumptions: any number of requests, users,
emails, attempts, sessions and faults. Most invariants of the runs are not
inductive, because a request writes what it worked out several statements ago. The
inductive invariant then says, for every request in flight, what still stands of
what it read; and one lemma per action shows that its step keeps it. Each was
checked by TLC on the run's instance before it was proved.

### EmailSignInProofs

  - `TypeCorrect`, `SeqCorrect` (`SeqInvariant`), `NoOlderTokenExchangedHolds`;
  - `GuessesBoundedHolds` and `BlockNotMissedHolds`, from `~StaleReads`;
  - `LateSignInsBoundedHolds`;
  - `CodeBuysSessionHolds`, from `~Crashes` and `~CodesRepeat`.

The hypotheses are those of the runs: the code does break the three properties
without them ("What the models say of the code").

`SeqInvariant` is `SeqGrantedOnce` made inductive: a number is new because it is one
more than `issued`, and that only helps if nobody, neither a client nor a request
that has yet to answer, is ahead of `issued`; and a refresh cannot go back because
`prev`, the end of the accepted range, is the number last exchanged.

`TriesInv`: a wrong code that was compared is counted in the row, or by a request that
is to count it, or lapsed; and as long as the row is not blocked, its count and the
requests that will count without blocking stay two below the limit and the number
of requests. It is an argument about cardinalities: `Procs` is finite and not empty
(`ProcsAssumption`). `LateInv`: the late sign-in raises the token number, so that no
other request and no replica has the number of the row together with its code.
`SessionInv`: every number the row accepts was given to the user of the row, and a
row whose code was used has given one.

### EmailLinkProofs

Two models that nothing composes. The queue: `EntryTakenOnceHolds` and
`WaitingNotDroppedHolds`, with and without the mutex.

`EntryTakenOnce` speaks of the entries a worker knows and the mails it may send; a
worker also puts back entries that it has no message for, so the invariant says
that everything of a batch is in no other hand and not in the queue (`OwnedOnce`),
that a roll back in the middle of a batch leaves nothing of what it puts back in the
batch (`Sound`), and that no score is above the tickets given out (`Numbered`).

`WaitInv`: a time in the sorted set is the time its client asked last (`Latest`), and a
worker that may put times back is alone and has the newest (`Fresh`). That a worker
which goes on without the mutex does so as the last fault, with nothing put back
afterwards (`Calm`), is how the model bounds `LockErrors`, and the proof rests on it:
the code breaks the property otherwise.

The change of address: `ChangeInvHolds`, `CodesPerIPBoundedHolds`, `MetadataKeptHolds`,
`AllOrNothingHolds`, for any number of requests at once, addresses and limits.

  - `ChangeInv` is the typing and what a request has in hand where it is (`InHand`): a
    session is for another address than the one it replaces, and from the marker only
    for a Telegram account; a request that mails has a code that was made; one that
    takes an attempt back has taken one; what the Metadata endpoint is to write has all
    that it read. The last of these, and that `Merged` only adds, give `MetadataKept`.
  - `CountInv`: the codes mailed and not redeemed, with the logins that took an attempt
    and have yet to mail or to give it back (`Counting`), are at most the attempts and
    `late`. A login moves its attempt from the second number to the first when its mail
    goes out, and a sign-in gives it back with the code, unless the code was redeemed
    before: that one is `late`. A login cut off leaves its attempt behind, which only
    helps.
  - `AtomicInv` is about a system that is not at rest and was not disturbed. Of each
    request that goes on to write (`Writing`) it says what it has written and that the
    address it would go back to is granted to it (`GoesForward`, `GoesBack`, `Repairs`:
    the row has its address, Firebase has the old one until its own call); that two
    write at once only if both make the same change and both go forward (`Together`); and
    what the property says once none is left (`Settled`). One that goes back or repairs
    is alone, because any other would have clashed when it began (`BackIsAlone`,
    `OthersAlike`). That a clash is recorded when the second request begins, and never
    later, is what makes `Together` inductive.

The attempt to prove `AllOrNothing` refuted it as it stood: the run was too short to show
it. With six requests TLC finds a change that was confirmed and is signed in for again,
one after the other, with a newer code: a call of the second fails, and the row goes
back although the change had been confirmed. Two sign-ins that follow each other therefore
count as `doubled`, like two at once, and a failed call to Firebase of one of two as
`mixed`. `confirmed.before`, which was the address confirmed before, is now the address
the change was from; and a login that finishes next to a change, which used to count as
`mixed`, no longer does.

### KYCSocialProofs

`TypeCorrect`, `PassedIsEarnedHolds`, `HandleOwnedHolds`, `PassedNeverLoweredHolds`,
`SessionsBoundedHolds`.

`IInv` says of every request that the number of sessions it read is not above the
number on record (`CountStands`), the account it is about to complete a step with is
the user's (`AccountStands`), the step it is about to pass and the old step it may
write back are earned (`TargetStands`, `OldStands`), and a rollback follows a failed
message (`RollbackStands`). These survive the steps of all other requests because the
three tables only grow (`Grows`), so the only thing left per action is the request
that moved (`Move`). For the bound, `SessionsInv` adds to the sessions on record the
requests that may still use one up; only `VerifySkipped` adds a request to them, and
only while the sessions are below the maximum.

### KYCQuizProofs

`TypeOKHolds`, `VerdictOnceHolds`, `PassedIsEarnedHolds`, `ResetsPaidHolds`,
`StartsBoundedHolds`: all invariants of the run.

`IInv`: what an open transaction will write fits what the tables say until it commits
(`TransactionOK`): the session whose row it has locked, the attempts it adds and
those it moves, which are on record as failed. It stays so because the row is locked
and, of two transactions that recorded anything, the second is doomed.

`PaidInv`: the statements of `moveFailedAttempts` are no transaction, so two requests
could move the attempts of one reset. What keeps them apart is time: a request takes
at most a tick (`InTime`) and a cool down takes at least two (`QuizAssumption`), so
until the request that counts has ended, nobody else can fail a session (`OneCounts`).

`ClosingInv`: the sessions on record are at most `MaxAttempts` for each reset and each
fault, and a full count until the next reset (`BoundInv`). A session is started only
when all before it are on record (`AllRecorded`) and when the quiz was open as the
request looked, or is cooling down since (`StillOpen`).

### KYCFaceProofs

`TypeOKHolds` and `RequestHonouredHolds`. The bound on the users forwarded is part of
`TypeOK` and the one of its parts that is not typing: `isAvailable` and the increment
are two steps, so the places taken, with the requests that found one and have yet to
take it, stay below `ConcurrentUsers` and the number of requests (`PlacesKept`); and
events are finite because every applicant and every error comes of one
(`EventsCounted`). For `RequestHonoured`: as long as a reset that was asked for has
not begun, each reset in flight has yet to erase the applicant it found (`DueServed`),
so the one that clears the request is past it.

### UserLifecycleProofs

  - `ReferrerKeptHolds`: `Spec => ReferrerKept`, the refinement of `Membership`. Each
    statement is one step of `Membership` for the referrer (`RefStep`), and none gives
    a member a new referrer (`CallsStay`) but `Reassign`, whose members all refer to a
    user that is leaving (`ReassignMoves`); `StepMaps` puts both together. What holds of
    updates in general, for a request or to undo one, is `ReferrerStep`: the COALESCE of
    the statement and the foreign key allow a choice by a user without referrer and the
    moves, nothing else.
  - `VerifiedCountedHolds`: the trigger is proved to add or take away what a change of
    one row adds to or takes from the verified referrals of both referrers, old and new,
    as long as the three rows are different, which `mutual` records.
  - `TeamAddsUpHolds`: the three queries of the team agree on every table, because the
    tiers are disjoint and tier two is a disjoint union over tier one; the run shows the
    same of the tables that are reached.

### ReferralCountsProofs

`NotCountedTwiceHolds`, `DaysWithinTotalHolds`, `TotalOffByFaultsHolds`: all invariants
of the run. `IInv` has one part for each, besides `Shape` (typing, no row from the
future, and a consumer that is to count has its entry in `processed_referrals`).

  - `CountedOnce`: what a row counts, with the consumers that made an entry and have yet
    to count it, is at most what it began with and the entries. A message makes an entry
    and becomes pending, or finds the entry and is dropped; an upsert trades a pending
    consumer for one count, and a crash or a redelivery only loses one.
  - `DaysAddUp`: the days of a row add up to at most its total. `ShiftSum` is the reason
    that time does not break it: days that are shifted by the lag of their own row move
    into the past or drop out, for the upsert and for `AcquisitionHistory` alike. A row
    shifted by the lag of another one (`skewed`) is what the property excepts.
  - `TotalKept`: the messages passed are finite sets, and the difference between the total
    and their count changes by at most one with each fault. The cut off at 0 hides no
    more, because no more users are deleted than were counted at first: a user is deleted
    once (`FewLeave`).

### AccountProofs

For any set of scenes: `OneIdentityHolds`, `TelegramSeqInvariantHolds`,
`ContactsToldHolds`, `VerifiedIsEarnedHolds`, `NeverStuckHolds`, `KnownDevicesHolds`,
`CountedOnceHolds`: all invariants of the run. A step of `Account` is a step of one
component, which keeps that component's invariant, and leaves the variables of the
others unchanged. The exception is the users row, two columns of which the consumer
of mining sessions writes: the invariant of the scenarios does not look at them, and
it is proved that a row which differs only there keeps it.

  - Telegram (`SigningInv`): a row which gave out a number has a user and never changes
    it (`RowsOwned`), and the token a refresh works on is one that was handed out
    (`TokensHeld`); both writes of the row name its own user.
  - Contacts (`ContactsInv`): what a request read and may write back must have been told
    of by then, or be in the hands of somebody else. That is false of the last request
    running, unless it ran alone, which is what `alone` records.
  - Scenarios (`ScenariosInv`): everything a request holds is sound: what it read was
    completed then, what it adds was verified, and every account it adds is linked
    before the row says so. A request that marks the user as verified has added
    everything that was pending; the cardinalities that the code compares decide this
    because the sets are finite and scenarios and tenants differ (`ScenariosDiffer`,
    which `Account` assumes). `StuckInv` is the other direction: what a request found
    pending is all of what is mandatory that was not in the list it read.
  - Devices (`DevicesInv`): a replacement that is alone with its device, at every stage,
    can go back to what the platform knows (`Backs`), whichever of its upsert, message
    and revert failed, and so can a deletion for each of its devices.
  - Mining (`MiningInv`): the messages of the miner are a chain (`LogOK`): each extends
    the session before, between `MinDuration` after the last message and the end of the
    session, or begins a new one after it. Until a redelivery or a roll back disturbs
    them, the columns are those of the last message taken, and an interval counts the
    user exactly if a message taken covers it (`Counted`).

### Assumptions on constants

Finite sets where cardinalities are compared (`Procs`, `Users`, `Consumers`); positive limits;
in `ReferralCounts` also that a user is deleted once, in one message (its row is gone
after it, and `processed_referrals` knows a user to leave only once); `None` differs from
whatever stands next to it in a column; in `EmailChange` the marker, the id that a
Telegram account has for an address and the empty string are no addresses
(`AddressAssumption`); what is forwarded to the face provider is
forwarded by a request (`Forwarders`); in `KYCQuiz` a cool down lasts longer than a
request (3600 seconds in `kyc/quiz/.testdata/application.yaml`); in `Account` the least
time between two mining messages is not longer than a session, or no session could be
extended. TLC evaluates all of them on the runs.

### Model-checked only

Liveness, under fairness, is out of the prover's reach: `CodeReachesClient`,
`RequestsEnd` (of `UserLifecycle` and of `KYCFace`), `MessagesSettle`, `AgreeInTheEnd`,
`VerdictArrives`. Every invariant and every action property of the passing runs, and
the refinement, is a theorem. `TokenSeq` has no proofs of its own; its operators are
expanded where `EmailSignIn` and `TelegramSignIn` use them.

## What the models say of the code

Two runs end in a violation (`findings` in `PROJECT.json`):

  - **Social step that can never be passed.** The last session passes the step in
    the request that read exactly one less than the maximum (`social.go:119`, `:212`,
    `:236`). Two requests that end a session at once both read less, none of them
    passes the step, and from then on `verifySkipped` answers `ErrDuplicate`, which
    clients are told as "already completed successfully".
  - **A panic that is reachable.** `startNewSession` panics (`quiz.go:669`) when another
    request has started a session in between.

Met while modelling, as an excuse in a property or a choice in a model:

Sign-in and queue

  - a request cut off after `finishAuthProcess` burns the code (`CodeBuysSession` holds
    only without crashes); codes of three digits repeat, and a late
    `resetLoginSession` may retire a newer code with the same digits;
    with a lagging replica the wrong codes are not bounded by `GuessesBounded`;
  - a new `SendSignInLinkToEmail` sets `user_id` to NULL, so no token of the device
    can be refreshed until that sign-in ends (`link_start_auth.go:281`);
  - an email is enqueued before its code is stored (`link_start_auth.go:36`, `:72`): a
    worker in between finds no row and forgets it;
  - `WaitingNotDropped` fails when a worker goes on without the mutex after another
    fault: it puts back an old time. A mutex that cannot be asked is therefore the
    last fault of the run;
  - with several devices per email the `LIMIT` of `queue.go:320` leaves emails of the
    batch out; a rate limit of zero divides by zero (`queue.go:177`, `:179`).

Change of address

  - of two confirmations of one change the loser undoes what the winner wrote
    (`link_verify.go:69-80`), also when the second comes after the first, with a newer
    code, and its Firebase call or its notice fails: `doubled` in `AllOrNothing`;
  - a confirmation whose Firebase call is a repetition and fails undoes the users row
    only (`email_modify.go:29-40`); for a Telegram account the undo writes the marker
    `telegram@@...` into `users.email` (`email_modify.go:82`, `hut/users.go:244`); the
    undo restores the address of the token, whatever the row had;
  - the Metadata endpoint repairs Firebase in the middle of a change; that the address
    belongs to another Firebase user is ignored there;
  - `finishAuthProcess` writes the metadata it read earlier and loses a key that was
    added since (`MetadataKept` says this is the only way), even when its
    compare-and-set then fails;
  - `resetLoginSession` gives an attempt per IP back even when no row matched: `late` in
    `CodesPerIPBounded`;
  - the code that is stored for going back fails within two seconds of a login to the
    old address, and undoes the change.

Telegram, devices, contacts

  - a refresh puts the Telegram id of the users row into the new token
    (`auth/telegram`), so after a change of account a number of the old row is
    presented at the new one: `crossed`. A sign-in row is kept when its user goes to
    another Telegram account; signing in with the first one still gives tokens of it;
  - a required app version of four parts is no valid semantic version, compares as
    the oldest, and its first three parts decide nothing; a newer version with a
    smaller fourth part is refused; a fourth part that is no number panics
    (`metadata.go:228-230`);
  - the revert of a device deletes or overwrites what another request wrote later;
    the message of a replacement may come after that of the deletion; a deletion that
    fails after the row went finds no row when it is retried, and the tombstone is
    never sent: `settled` in `KnownDevices`;
  - the list of contacts is read and written as a whole, so a concurrent request's
    contacts are lost, or stay untold after a roll back: `broken` in `ContactsTold`.

Users and referrals

  - the diversion of referrals may choose the user that is being deleted
    (`users_create.go:124-151`), and again each time its deletion starts over: the first
    disjunct of `RequestsEnd`;
  - `sanitizeUser` changes the old user in place before it is written back
    (`users_modify.go:108`): a roll back does not undo a first username, email or
    referrer, and writes a whole URL into `profile_picture_name`;
  - two choices of a referrer at once: the row has the first, the second is answered
    and published with its own; the checksum against lost updates is switched off
    (`users.go:176-182`); the message of a modification after the tombstone brings the
    user back downstream;
  - a creation whose `UpdateMetadata` fails is answered with 500 though the user exists
    (`hut/users.go:51-92`);
  - `getTeamReferrals` lists tier 1 twice for a user without referrer, whose id is its
    own (premise of `TeamAddsUp`); its number of active users is a sum over a join and
    may exceed the total; of users who refer each other the lists show each itself;
  - one statement shifts both rows of a referral though only one lags
    (`users_referrals.go:588-592`): `skewed`; a row of the referrer's referrer is inserted
    with a referral of tier 1 that was none: `seeded`; an OR in the guard of the upsert
    loses the other row's count; midnight between the clock and the read gives a
    negative lag and a column that does not exist; a crash between
    `processed_referrals` (`:440`) and the upsert loses a count; and
    `GetReferralAcquisitionHistory` (`:390`) indexes a slice at -1 for a row ahead of its
    clock;
  - the total of users is counted again by every redelivery (`TotalOffByFaults`); the
    retry after a serialisation failure is unreachable (`user_growth.go:233-239`).

KYC

  - `remainingAttempts` is a `uint8` decremented once per row (`social.go:176-183`); posts
    that fail at once leave more rows in a window than attempts, and the next request
    has 255. The models need no bound on it;
  - a request cut off between `saveSocialKYCStep` and `modifyUser` makes every retry
    fail on the primary key (`social.go:250`);
  - the quiz step is credited only when the step before it is the last passed
    (`quiz.go:920`); a session won earlier is never credited; a skip before the first
    session has no row to lock, and together with a `StartQuizSession` its attempts
    may pay for two resets, which is why `ResetsPaid` speaks of histories without them;
  - the place of a forwarded user is checked and taken in two steps, so N requests may
    overshoot by N - 1;
  - a face reset that fails after the applicant was erased finds none when it is
    retried and leaves the user verified until the next `CheckStatus`
    (`threedivi.go:199-207`); `CheckAndUpdateStatus` tells nothing of a row that was
    passed by another request, so linked accounts are not marked (`face.go:66-77`); a
    user verified by the other provider loses that once forwarded (`face.go:74-77`), and
    a row that it left at step 1 is never raised (excused in `VerdictArrives`);
  - a reset requested while another runs is deleted with it (`kyc.go:78`), and steps other
    than the face ones are only logged (`kyc.go:90`);
  - a failing message takes back `verified` but not a first list of completed scenarios
    (`users_modify.go:109-118`): the user has completed everything and no request looks
    again (`undone` in `NeverStuck`); each linked account overwrites `verified` of the
    one before (`linking.go:46-75`), and `SetTenantVerified` (`:236`) before linking updates
    no row.

Growth

  - a consumer that fails after `updateMiningSession` finds a duplicate at the next
    delivery and never counts the session; one that goes back two messages counts
    twice; a roll back of `ModifyUser` takes back the columns of the session:
    `disturbed` and `undone` in `CountedOnce`. A day without change has no row and is
    shown as 0.

## Not modelled, and why

  - Parsing, templates, translations, geolocation, the texts of posts, HTTP handlers
    that only translate, and the scraper: sequential, and covered by unit tests.
  - The read service changes no state; the generated documentation of both services
    (`docs.go`) is a quarter of the repository's code.
  - The merge script runs by hand, one user at a time.
  - `CheckQuizStatus` returns before its changes (`if true`), `prepareUserForReset` and
    `ResetQuizSession` are not called.
  - Users per country (`top_countries.go:58-106`): one statement with a floor at 0, whose
    conditions are disabled by `if false`; third-party claims: one conditional UPDATE.
    There is nothing to promise beyond the statement.
  - The migration of phone numbers, the change of address with a Firebase token, and the
    second login session number: more of the same steps as `EmailChange` has, on other
    columns.
  - The cleaners of old rows (`processed_referrals`, `sign_ins_per_ip`): they delete what
    is older than anything the models look back at.

## Plan

Done: all modules above.

What would come next, by importance:

 1. the phone migration in `EmailChange`, with a second login session number;
 2. a composition of `KYCFace` and `KYCSocial` over one users row, whose
    `kyc_step_passed` both raise and roll back;
 3. links that another tenant began, in `Scenarios`.
