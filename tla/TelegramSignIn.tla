--------------------------- MODULE TelegramSignIn ---------------------------
(***************************************************************************)
(* Signing in with a Telegram account and refreshing the tokens that come  *)
(* out of it (auth/telegram, auth/users.go, auth/token.go), next to the    *)
(* requests that create, change and delete the users rows the sign-in      *)
(* looks at.                                                               *)
(*                                                                         *)
(* Every request reads first and writes in one later statement.  A request *)
(* may be cut off in between, and its answer may be lost; an answer that   *)
(* comes late is a token pair that the client uses late.                   *)
(***************************************************************************)
EXTENDS TokenSeq

CONSTANTS
  Telegrams,   \* telegram_user_id values
  Users,       \* ids of users, generated or created
  Procs,       \* requests that may be running at once
  None,        \* SQL NULL, no row
  Gone,        \* no users row any more
  MaxSeq,      \* bound on the numbers a sign-in row gives out
  MaxChanges   \* bound on the writes to users rows

VARIABLES
  member,    \* member[u]: telegram_user_id of the users row u, u for "none"
  signIn,    \* signIn[t]: the telegram_sign_ins row; issued = 0: no row
  req,       \* req[p]: the request p is serving
  tokens,    \* the token pairs clients have received
  changes,   \* writes to users rows so far
  \* What an observer notes; no action's guard reads these.
  last,      \* last[t]: the number of row t that was exchanged last
  crossed    \* rows where a number of another row was exchanged

signInVars == <<signIn, tokens, last, crossed>>
vars == <<member, signIn, req, tokens, changes, last, crossed>>

Row == [user : Users \cup {None}, issued : Nat, prev : Nat]
NoRow == [user |-> None, issued |-> 0, prev |-> 0]

\* A pair names its user and a Telegram account (the claims), and the number
\* "seq" that the row "from" gave it; clients and server do not see "from".
Token == [user : Users, claim : Telegrams, from : Telegrams, seq : Nat]

Req == [pc : {"idle"}]
       \cup [pc : {"upsert"}, telegram : Telegrams, user : Users]
       \cup [pc : {"increment"}, token : Token, claim : Telegrams]
Idle == [pc |-> "idle"]

TypeOK ==
  /\ member \in [Users -> Telegrams \cup Users \cup {None, Gone}]
  /\ signIn \in [Telegrams -> Row]
  /\ req \in [Procs -> Req]
  /\ tokens \subseteq Token
  /\ changes \in Nat
  /\ last \in [Telegrams -> Nat]
  /\ crossed \subseteq Telegrams

Init ==
  /\ member \in {[u \in Users |-> IF u \in E THEN u ELSE None] : E \in SUBSET Users}
  /\ signIn = [t \in Telegrams |-> NoRow]
  /\ req = [p \in Procs |-> Idle]
  /\ tokens = {}
  /\ changes = 0
  /\ last = [t \in Telegrams |-> 0]
  /\ crossed = {}

Members == {u \in Users : member[u] \notin {None, Gone}}
-----------------------------------------------------------------------------
(* SignIn: find or generate the user, then insert or advance the row.      *)

\* Ids that nobody has ever seen: uuid.NewString.
Unseen == {u \in Users : /\ member[u] = None
                         /\ \A t \in Telegrams : signIn[t].user # u
                         /\ \A k \in tokens : k.user # u
                         /\ \A p \in Procs : req[p].pc = "upsert" => req[p].user # u}

\* FindOrGenerateUserID: the users row counts more than the sign-in row.
FindOrGenerateUserID(t) ==
  LET owners == {u \in Users : member[u] = t}
  IN IF owners # {} THEN owners
     ELSE IF signIn[t].issued # 0 THEN {signIn[t].user}
     ELSE Unseen

SignIn(p, t) ==
  /\ req[p] = Idle
  /\ \E u \in FindOrGenerateUserID(t) :
       req' = [req EXCEPT ![p] = [pc |-> "upsert", telegram |-> t, user |-> u]]
  /\ UNCHANGED <<member, signIn, tokens, changes, last, crossed>>

\* Mutant of Upserted: the conflict overwrites the user of the row.
UpsertedUser(row, u) ==
  IF row.issued = 0 THEN [user |-> u, issued |-> 1, prev |-> 0]
  ELSE [SessionStarted(row) EXCEPT !.user = u]

\* The INSERT .. ON CONFLICT of upsertTelegramSignIn; a conflict keeps the
\* user that the row has, whatever the request has read.
Upserted(row, u) ==
  IF row.issued = 0 THEN [user |-> u, issued |-> 1, prev |-> 0]
  ELSE SessionStarted(row)

\* The answer to request p reaches its client, or is lost.
Answer(p, token) ==
  /\ tokens' \in {tokens, tokens \cup {token}}
  /\ req' = [req EXCEPT ![p] = Idle]

UpsertTelegramSignIn(p) ==
  /\ req[p].pc = "upsert"
  /\ LET t   == req[p].telegram
         row == Upserted(signIn[t], req[p].user)
     IN /\ row.issued <= MaxSeq
        /\ signIn' = [signIn EXCEPT ![t] = row]
        /\ last' = [last EXCEPT ![t] = IF signIn[t].issued = 0 THEN 0 ELSE row.issued]
        /\ Answer(p, [user |-> row.user, claim |-> t, from |-> t, seq |-> row.issued])
  /\ UNCHANGED <<member, changes, crossed>>
-----------------------------------------------------------------------------
(* RefreshToken: look the user up, then advance the row the token names.   *)

\* getUserByIDOrTelegram: a users row with a Telegram account comes first, and
\* the new token will carry that account; otherwise the sign-in row's.
TelegramOf(u, t) == IF member[u] \in Telegrams THEN member[u] ELSE t

RefreshToken(p, k) ==
  /\ req[p] = Idle
  /\ req' = [req EXCEPT ![p] = [pc |-> "increment", token |-> k,
                                claim |-> TelegramOf(k.user, k.claim)]]
  /\ UNCHANGED <<member, signIn, tokens, changes, last, crossed>>

IncrementRefreshTokenSeq(p) ==
  /\ req[p].pc = "increment"
  /\ LET k   == req[p].token
         t   == k.claim
         row == Refreshed(signIn[t], k.user, k.seq)
     IN IF CanRefresh(signIn[t], k.user, k.seq)
        THEN /\ row.issued <= MaxSeq
             /\ signIn' = [signIn EXCEPT ![t] = row]
             /\ last' = [last EXCEPT ![t] = k.seq]
             /\ crossed' = IF k.from = t THEN crossed ELSE crossed \cup {t}
             /\ Answer(p, [user |-> k.user, claim |-> req[p].claim,
                           from |-> t, seq |-> row.issued])
        ELSE req' = [req EXCEPT ![p] = Idle] /\ UNCHANGED signInVars
  /\ UNCHANGED <<member, changes>>

\* The request is cancelled, or its instance stops, before it writes.
CutOff(p) ==
  /\ req[p] # Idle
  /\ req' = [req EXCEPT ![p] = Idle]
  /\ UNCHANGED <<member, signIn, tokens, changes, last, crossed>>
-----------------------------------------------------------------------------
(* The requests on users rows, as far as they change telegram_user_id.     *)

\* The column is unique; another row with the account is ErrDuplicate.
Free(t) == \A u \in Users : member[u] # t

WriteUser(u, value) ==
  /\ changes < MaxChanges
  /\ changes' = changes + 1
  /\ member' = [member EXCEPT ![u] = value]
  /\ UNCHANGED <<signIn, req, tokens, last, crossed>>

\* CreateUser, by a client that has signed in; the account is in the body.
CreateUser(u) ==
  /\ u \notin Members
  /\ \E k \in tokens : k.user = u
  /\ \E t \in {t \in Telegrams : Free(t)} \cup {u} : WriteUser(u, t)

\* ModifyUser: another account, or ClearTelegramInfo.
ModifyUser(u) ==
  /\ u \in Members
  /\ \E t \in {t \in Telegrams : Free(t)} \cup {u} : t # member[u] /\ WriteUser(u, t)

\* DeleteUser leaves the sign-in row where it is.
DeleteUser(u) == u \in Members /\ WriteUser(u, Gone)
-----------------------------------------------------------------------------
Next ==
  \/ \E p \in Procs :
       \/ \E t \in Telegrams : SignIn(p, t)
       \/ UpsertTelegramSignIn(p)
       \/ \E k \in tokens : RefreshToken(p, k)
       \/ IncrementRefreshTokenSeq(p)
       \/ CutOff(p)
  \/ \E u \in Users : CreateUser(u) \/ ModifyUser(u) \/ DeleteUser(u)

Spec == Init /\ [][Next]_vars
-----------------------------------------------------------------------------
(* Properties                                                              *)

\* A Telegram account is one user: whatever first sign-ins ran at once with
\* different generated ids, and whatever became of the users rows since, every
\* token pair its row ever gave out names the user the row has.
OneIdentity ==
  \A k \in tokens : k.user = signIn[k.from].user

\* Numbers are given out once and none is ahead of its row.  As long as no
\* number of another row was exchanged at a row, the row still accepts the
\* number exchanged last, so that a client whose answer was lost can ask again.
TelegramSeqInvariant ==
  /\ \A k \in tokens : k.seq \in 1..signIn[k.from].issued
  /\ \A j, k \in tokens : j.from = k.from /\ j.seq = k.seq => j = k
  /\ \A t \in Telegrams \ crossed :
       last[t] # 0 => CanRefresh(signIn[t], signIn[t].user, last[t])
=============================================================================
