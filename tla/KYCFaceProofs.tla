---------------------------- MODULE KYCFaceProofs ----------------------------
(***************************************************************************)
(* Proofs about the face steps: no more users are sent to the provider     *)
(* than it takes and requests check at once, and a reset that was asked    *)
(* for happens, for any requests, places, limits and number of events.     *)
(***************************************************************************)
EXTENDS KYCFace, FiniteSetTheorems, TLAPS

\* The requests that have found a place and not yet taken it; those that
\* undo what they wrote.
Taking  == {p \in Procs : req[p].pc = "add"}
Undoing == {p \in Procs : req[p].pc = "rollback"}

PlacesKept == loadBalanced + Cardinality(Taking) <= ConcurrentUsers + Cardinality(Procs) - 1

\* Applicants and errors come of events, one each at most.
EventsCounted ==
  /\ applicant.id <= events
  /\ unexpectedErrors + Cardinality(Undoing) <= events

\* The reset of this request has yet to erase the applicant it has found.
ToErase(r) ==
  /\ r.pc \in {"load", "find", "erase"}
  /\ r.pc = "erase" => r.found = applicant.id /\ applicant.status # "absent"

DueServed ==
  due => /\ HasFacePipeline(request)
         /\ \A p \in Procs : req[p].op = "reset" => ToErase(req[p])

\* Only a reset erases, removes and clears; CheckStatus begins after it.
Serves(r) ==
  /\ r \in Req /\ (r.pc # "idle" => r.op # "none")
  /\ r.pc = "load" => r.op \in {"reset", "forward"}
  /\ r.pc \in {"find", "erase", "remove", "clear"} => r.op = "reset"

IInv ==
  /\ TypeOK /\ (\A p \in Procs : Serves(req[p]))
  /\ PlacesKept /\ EventsCounted /\ DueServed
-----------------------------------------------------------------------------
LEMMA Numbers ==
  /\ ConcurrentUsers \in Nat \ {0} /\ ErrorsAllowed \in Nat \ {0} /\ MaxEvents \in Nat
  /\ Cardinality(Procs) \in Nat /\ Nexts \subseteq {0} \cup FaceSteps
BY FaceAssumption, FS_CardinalityType

LEMMA Counts ==
  ASSUME NEW S, S \subseteq Procs
  PROVE  /\ Cardinality(S) \in Nat /\ Cardinality(S) <= Cardinality(Procs)
         /\ \A p \in S : Cardinality(S \ {p}) = Cardinality(S) - 1
         /\ \A p \in Procs \ S : Cardinality(S \cup {p}) = Cardinality(S) + 1
<1>1. IsFiniteSet(Procs)
  BY FaceAssumption
<1>2. IsFiniteSet(S) /\ Cardinality(S) <= Cardinality(Procs)
  BY <1>1, FS_Subset
<1>3. Cardinality(S) \in Nat
  BY <1>2, FS_CardinalityType
<1>4. \A p \in S : Cardinality(S \ {p}) = Cardinality(S) - 1
  BY <1>2, FS_RemoveElement
<1>5. \A p \in Procs \ S : Cardinality(S \cup {p}) = Cardinality(S) + 1
  BY <1>2, FS_AddElement
<1> QED BY <1>2, <1>3, <1>4, <1>5

\* What follows for the requests at one statement when p moves on.
LEMMA MovedCounts ==
  ASSUME NEW S, S \subseteq Procs, NEW T, NEW p \in Procs, T \subseteq S \cup {p}
  PROVE  /\ Cardinality(T) \in Nat /\ Cardinality(S) \in Nat
         /\ Cardinality(T) <= Cardinality(S) + 1
         /\ p \notin T => Cardinality(T) <= Cardinality(S)
         /\ p \in S => Cardinality(T) <= Cardinality(S)
         /\ p \in S /\ p \notin T => Cardinality(T) <= Cardinality(S) - 1
<1>0. \A U : U \subseteq Procs => IsFiniteSet(U)
  BY FaceAssumption, FS_Subset
<1>1. \A U, V : V \subseteq Procs /\ U \subseteq V => Cardinality(U) <= Cardinality(V)
  BY <1>0, FS_Subset
<1>2. /\ Cardinality(T) \in Nat /\ Cardinality(S) \in Nat
      /\ p \in S => Cardinality(S \ {p}) = Cardinality(S) - 1
      /\ p \notin S => Cardinality(S \cup {p}) = Cardinality(S) + 1
  BY Counts
<1>3. p \in S => Cardinality(T) <= Cardinality(S)
  BY <1>1
<1>4. p \notin T => Cardinality(T) <= Cardinality(S)
  BY <1>1
<1>5. p \in S /\ p \notin T => Cardinality(T) <= Cardinality(S \ {p})
  BY <1>1
<1>6. p \notin S => Cardinality(T) <= Cardinality(S \cup {p})
  <2>1. S \cup {p} \subseteq Procs
    OBVIOUS
  <2> QED BY <1>1, <2>1
<1> QED BY <1>2, <1>3, <1>4, <1>5, <1>6
-----------------------------------------------------------------------------
(* What a step of a request has to show.  It goes on as w.                 *)

TablesOK ==
  /\ applicant \in Applicant
  /\ row \in User /\ (row.live => row.dates)
  /\ forwarded \in BOOLEAN /\ (applicant.status # "absent" => forwarded)
  /\ request = {} \/ request \in RequestedSteps \cup {{Social1}}
  /\ loadBalanced \in Nat /\ unexpectedErrors \in Nat
  /\ events \in 0..MaxEvents /\ due \in BOOLEAN

LEMMA TypeParts ==
  ASSUME IInv
  PROVE  /\ TablesOK /\ req \in [Procs -> Req] /\ \A p \in Procs : Serves(req[p])
         /\ Taking \subseteq Procs /\ Undoing \subseteq Procs
BY Numbers DEF IInv, TypeOK, TablesOK, Taking, Undoing

LEMMA MoveKeeps ==
  ASSUME IInv, NEW p \in Procs, NEW w, Serves(w), req' = [req EXCEPT ![p] = w], TablesOK',
         \/ loadBalanced' <= loadBalanced /\ (w.pc = "add" => req[p].pc = "add")
         \/ loadBalanced' = loadBalanced + 1 /\ req[p].pc = "add" /\ w.pc # "add"
         \/ loadBalanced' = loadBalanced /\ loadBalanced <= ConcurrentUsers - 1,
         applicant'.id = applicant.id,
         \/ events' = events /\ unexpectedErrors' = unexpectedErrors /\ w.pc # "rollback"
         \/ events' = events + 1 /\ unexpectedErrors' = unexpectedErrors
         \/ events' = events + 1 /\ unexpectedErrors' <= unexpectedErrors + 1 /\ w.pc = "idle"
         \/ /\ events' = events /\ unexpectedErrors' <= unexpectedErrors + 1
            /\ w.pc = "idle" /\ req[p].pc = "rollback",
         due' => /\ due /\ UNCHANGED applicant
                 /\ HasFacePipeline(request') /\ (w.op = "reset" => ToErase(w))
  PROVE  IInv'
<1>1. TablesOK /\ req \in [Procs -> Req] /\ \A q \in Procs : Serves(req[q])
  BY TypeParts
<1>2. \A q \in Procs : req'[q] = IF q = p THEN w ELSE req[q]
  BY <1>1
<1>3. PICK A, B, F, G : A = Taking /\ B = Taking' /\ F = Undoing /\ G = Undoing'
  OBVIOUS
<1>4. /\ A \subseteq Procs /\ B \subseteq A \cup {p} /\ B \subseteq Procs
      /\ p \in A <=> req[p].pc = "add"
      /\ p \in B <=> w.pc = "add"
  BY <1>2, <1>3 DEF Taking
<1>5. /\ F \subseteq Procs /\ G \subseteq F \cup {p}
      /\ p \in F <=> req[p].pc = "rollback"
      /\ p \in G <=> w.pc = "rollback"
  BY <1>2, <1>3 DEF Undoing
<1>6. /\ loadBalanced \in Nat /\ unexpectedErrors \in Nat /\ events \in Nat
      /\ loadBalanced' \in Nat /\ unexpectedErrors' \in Nat
      /\ events' \in Nat /\ events' <= MaxEvents /\ MaxEvents \in Nat
      /\ applicant.id \in Nat
      /\ applicant.id <= events /\ unexpectedErrors + Cardinality(F) <= events
      /\ loadBalanced + Cardinality(A) <= ConcurrentUsers + Cardinality(Procs) - 1
  BY <1>1, <1>3, Numbers DEF IInv, TablesOK, Applicant, EventsCounted, PlacesKept
<1>7. loadBalanced' + Cardinality(B) <= ConcurrentUsers + Cardinality(Procs) - 1
  <2>1. /\ Cardinality(B) \in Nat /\ Cardinality(A) \in Nat
        /\ p \notin B => Cardinality(B) <= Cardinality(A)
        /\ p \in A => Cardinality(B) <= Cardinality(A)
        /\ p \in A /\ p \notin B => Cardinality(B) <= Cardinality(A) - 1
    BY <1>4, MovedCounts
  <2>2. Cardinality(B) <= Cardinality(Procs)
    BY <1>4, Counts
  <2> QED BY <1>4, <1>6, <2>1, <2>2, Numbers
<1>8. unexpectedErrors' + Cardinality(G) <= events'
  <2>1. /\ Cardinality(G) \in Nat /\ Cardinality(F) \in Nat
        /\ Cardinality(G) <= Cardinality(F) + 1
        /\ p \notin G => Cardinality(G) <= Cardinality(F)
        /\ p \in F /\ p \notin G => Cardinality(G) <= Cardinality(F) - 1
    BY <1>5, MovedCounts
  <2> QED BY <1>5, <1>6, <2>1
<1>9. PlacesKept' /\ EventsCounted'
  <2>1. applicant'.id <= events'
    BY <1>6
  <2> QED BY <1>3, <1>7, <1>8, <2>1 DEF PlacesKept, EventsCounted
<1>10. DueServed'
  <2> SUFFICES ASSUME due' PROVE DueServed'
    BY DEF DueServed
  <2>1. due /\ UNCHANGED applicant /\ HasFacePipeline(request') /\ (w.op = "reset" => ToErase(w))
    OBVIOUS
  <2>2. \A q \in Procs : req[q].op = "reset" => ToErase(req[q])
    BY <2>1 DEF IInv, DueServed
  <2>3. ASSUME NEW q \in Procs, req'[q].op = "reset" PROVE ToErase(req[q])'
    BY <1>2, <2>1, <2>2, <2>3 DEF ToErase
  <2> QED BY <2>1, <2>3 DEF DueServed, HasFacePipeline
<1>11. TypeOK'
  <2>1. req' \in [Procs -> Req]
    BY <1>1 DEF Serves
  <2>2. \A q \in Procs : req'[q].pc # "idle" => req'[q].op # "none"
    BY <1>1, <1>2 DEF Serves
  <2>3. loadBalanced' \in 0..(ConcurrentUsers + Cardinality(Procs) - 1)
    <3>1. Cardinality(B) \in Nat
      BY <1>4, Counts
    <3> QED BY <1>6, <1>7, <3>1, Numbers
  <2>4. unexpectedErrors' \in 0..MaxEvents
    <3>1. Cardinality(G) \in Nat
      BY <1>5, MovedCounts
    <3> QED BY <1>6, <1>8, <3>1
  <2> QED BY <2>1, <2>2, <2>3, <2>4 DEF TypeOK, TablesOK
<1>12. \A q \in Procs : Serves(req[q])'
  BY <1>1, <1>2 DEF Serves
<1> QED BY <1>9, <1>10, <1>11, <1>12 DEF IInv
-----------------------------------------------------------------------------
(* What is written to the row.                                             *)

LEMMA VerdictType ==
  ASSUME NEW u \in User, NEW a \in Applicant
  PROVE  parseApplicant(u, a) \in Update
<1>1. u.dates \in BOOLEAN
  BY DEF User
<1>2. (IF a.status = "passed" THEN IF ~ u.dates \/ u.passed = 0 THEN LivenessDetection ELSE None
       ELSE IF u.dates /\ u.passed \in FaceSteps THEN 0 ELSE None) \in {None, 0, LivenessDetection}
  OBVIOUS
<1>3. (IF a.status = "passed" THEN TRUE ELSE IF u.dates THEN FALSE ELSE None) \in BOOLEAN \cup {None}
  OBVIOUS
<1>4. (a.status = "risk") \in BOOLEAN
  OBVIOUS
<1> QED BY <1>2, <1>3, <1>4 DEF parseApplicant, Update

LEMMA UpdatedType ==
  ASSUME NEW r \in User, r.live => r.dates, NEW passed, NEW live, NEW blocked \in BOOLEAN,
         passed = None \/ passed \in 0..Social1, live \in BOOLEAN \cup {None}
  PROVE  LET new == Updated(r, [passed |-> passed, live |-> live, blocked |-> blocked])
         IN  new \in User /\ (new.live => new.dates)
<1>1. r.passed \in 0..Social1 /\ r.dates \in BOOLEAN /\ r.live \in BOOLEAN
  BY DEF User
<1>2. PICK w : w = [passed |-> passed, live |-> live, blocked |-> blocked]
  OBVIOUS
<1>3. w.passed = passed /\ w.live = live /\ w.blocked = blocked
  BY <1>2
<1>4. (IF w.passed = None THEN r.passed ELSE Raised(r.passed, w.passed)) \in 0..Social1
  BY <1>1, <1>3 DEF Raised
<1>5. (r.dates \/ w.live # None) \in BOOLEAN
  OBVIOUS
<1>6. (IF w.live = None THEN r.live ELSE w.live) \in BOOLEAN
  BY <1>1, <1>3
<1>7. (IF w.live = None THEN r.live ELSE w.live) => r.dates \/ w.live # None
  OBVIOUS
<1> QED BY <1>2, <1>3, <1>4, <1>5, <1>6, <1>7 DEF Updated, User

LEMMA UpdateKeepsType ==
  ASSUME NEW r \in User, r.live => r.dates, NEW w \in Update
  PROVE  Updated(r, w) \in User /\ (Updated(r, w).live => Updated(r, w).dates)
<1>1. PICK passed, live, blocked : /\ w = [passed |-> passed, live |-> live, blocked |-> blocked]
                                   /\ passed \in {None, 0, LivenessDetection}
                                   /\ live \in BOOLEAN \cup {None} /\ blocked \in BOOLEAN
  BY DEF Update
<1>2. passed = None \/ passed \in 0..Social1
  BY <1>1 DEF LivenessDetection, Social1
<1> QED BY <1>1, <1>2, UpdatedType

LEMMA RolledBackType ==
  ASSUME NEW r \in User, r.live => r.dates, NEW old \in User
  PROVE  RolledBack(r, old) \in User /\ (RolledBack(r, old).live => RolledBack(r, old).dates)
<1>1. old.passed \in 0..Social1 /\ old.blocked \in BOOLEAN
  BY DEF User
<1>2. (IF old.dates THEN old.live ELSE None) \in BOOLEAN \cup {None}
  BY DEF User
<1>3. PICK live : live = IF old.dates THEN old.live ELSE None
  OBVIOUS
<1>4. RolledBack(r, old) = Updated(r, [passed |-> old.passed, live |-> live, blocked |-> old.blocked])
  BY <1>3 DEF RolledBack
<1> QED BY <1>1, <1>2, <1>3, <1>4, UpdatedType
-----------------------------------------------------------------------------
(* One lemma per action.                                                   *)

LEMMA IdleServes == Serves(Idle) /\ Idle.pc = "idle" /\ Idle.op = "none"
<1>1. NewUser \in User /\ NoUpdate \in Update /\ 0 \in 0..MaxEvents
  BY Numbers DEF NewUser, User, NoUpdate, Update, Social1
<1> QED BY <1>1 DEF Serves, Idle, Req

LEMMA Current ==
  ASSUME IInv, NEW p \in Procs
  PROVE  /\ TablesOK /\ req[p] \in Req /\ (req[p].pc # "idle" => req[p].op # "none")
         /\ req[p].pc = "load" => req[p].op \in {"reset", "forward"}
         /\ req[p].pc \in {"find", "erase", "remove", "clear"} => req[p].op = "reset"
         /\ due => HasFacePipeline(request) /\ (req[p].op = "reset" => ToErase(req[p]))
         /\ \A w : [req EXCEPT ![p] = w][p] = w
BY TypeParts DEF Serves, IInv, DueServed

\* A step that touches no table.
LEMMA QuietKeeps ==
  ASSUME IInv, NEW p \in Procs, NEW w, Serves(w), req' = [req EXCEPT ![p] = w],
         w.pc \notin {"add", "rollback"},
         UNCHANGED <<applicant, row, forwarded, request, loadBalanced, unexpectedErrors, events>>,
         due' \in BOOLEAN, due' => due /\ (w.op = "reset" => ToErase(w))
  PROVE  IInv'
<1>1. TablesOK'
  BY TypeParts DEF TablesOK
<1>2. loadBalanced \in Nat
  BY TypeParts DEF TablesOK
<1>3. due' => due /\ UNCHANGED applicant /\ HasFacePipeline(request') /\ (w.op = "reset" => ToErase(w))
  BY Current
<1>4. loadBalanced' <= loadBalanced /\ applicant'.id = applicant.id
  BY <1>2
<1> QED BY <1>1, <1>3, <1>4, MoveKeeps

LEMMA StartsKeep ==
  ASSUME IInv, NEW p \in Procs,
         \/ \E next \in Nexts : StartTryResetKYCSteps(p, next)
         \/ StartForwardToFaceKYC(p)
  PROVE  IInv'
<1>1. ASSUME NEW w, Serves(w), w.pc = "load", req' = [req EXCEPT ![p] = w],
             UNCHANGED <<applicant, row, forwarded, request, loadBalanced, unexpectedErrors, events, due>>
      PROVE  IInv'
  BY <1>1, Current, QuietKeeps DEF ToErase, TablesOK
<1>2. CASE \E next \in Nexts : StartTryResetKYCSteps(p, next)
  <2>1. PICK next \in Nexts : StartTryResetKYCSteps(p, next)
    BY <1>2
  <2>2. PICK w : w = [Idle EXCEPT !.pc = "load", !.op = "reset", !.next = next]
    OBVIOUS
  <2>3. Serves(w) /\ w.pc = "load"
    BY <2>2, IdleServes DEF Serves, Req
  <2> QED BY <1>1, <2>1, <2>2, <2>3 DEF StartTryResetKYCSteps
<1>3. CASE StartForwardToFaceKYC(p)
  <2>1. PICK w : w = [Idle EXCEPT !.pc = "load", !.op = "forward"]
    OBVIOUS
  <2>2. Serves(w) /\ w.pc = "load"
    BY <2>1, IdleServes DEF Serves, Req
  <2> QED BY <1>1, <1>3, <2>1, <2>2 DEF StartForwardToFaceKYC
<1> QED BY <1>2, <1>3

LEMMA LoadKeeps ==
  ASSUME IInv, NEW p \in Procs, Load(p)
  PROVE  IInv'
<1>0. /\ req[p].pc = "load" /\ req[p] \in Req /\ row \in User /\ req[p].op \in {"reset", "forward"}
      /\ UNCHANGED <<applicant, row, forwarded, request, loadBalanced, unexpectedErrors, events, due>>
  BY Current DEF Load, TablesOK
<1>1. PICK w : /\ req' = [req EXCEPT ![p] = w]
               /\ \/ w = Idle
                  \/ w = [req[p] EXCEPT !.pc = "clear"] /\ req[p].op = "reset" /\ ~ HasFacePipeline(request)
                  \/ w = [req[p] EXCEPT !.usr = row, !.pc = "find"] /\ req[p].op = "reset"
                  \/ w = [req[p] EXCEPT !.usr = row, !.pc = "search"] /\ req[p].op = "forward"
                  \/ w = [req[p] EXCEPT !.usr = row, !.pc = "sync", !.op = "check"]
  <2>1. req[p] = [pc |-> req[p].pc, op |-> req[p].op, next |-> req[p].next, usr |-> req[p].usr,
                  found |-> req[p].found, upd |-> req[p].upd, old |-> req[p].old, known |-> req[p].known]
    BY <1>0 DEF Req
  <2> QED BY <1>0, <2>1 DEF Load
<1>2. Serves(w) /\ w.pc \notin {"add", "rollback"}
  BY <1>0, <1>1, IdleServes DEF Serves, Req
<1>3. due => (w.op = "reset" => ToErase(w))
  BY <1>0, <1>1, Current, IdleServes DEF ToErase, Req
<1> QED BY <1>0, <1>1, <1>2, <1>3, Current, QuietKeeps DEF TablesOK

LEMMA FindKeeps ==
  ASSUME IInv, NEW p \in Procs, FindApplicant(p)
  PROVE  IInv'
<1>0. /\ req[p].pc = "find" /\ req[p] \in Req /\ req[p].op = "reset" /\ due \in BOOLEAN
      /\ applicant \in Applicant /\ NewUser \in User
      /\ UNCHANGED <<applicant, row, forwarded, request, loadBalanced, unexpectedErrors, events>>
  BY Current, IdleServes DEF FindApplicant, TablesOK, Serves, Idle, Req
<1>1. CASE applicant.status = "absent"
  <2>1. PICK w : w = [req[p] EXCEPT !.pc = "remove", !.usr = NewUser]
    OBVIOUS
  <2>2. Serves(w) /\ w.pc = "remove"
    BY <1>0, <2>1 DEF Serves, Req
  <2>3. req' = [req EXCEPT ![p] = w] /\ due' = FALSE
    BY <1>0, <1>1, <2>1, TypeParts DEF FindApplicant
  <2> QED BY <1>0, <2>2, <2>3, QuietKeeps
<1>2. CASE applicant.status # "absent"
  <2>1. PICK w : w = [req[p] EXCEPT !.pc = "erase", !.found = applicant.id]
    OBVIOUS
  <2>2. Serves(w) /\ w.pc = "erase" /\ w.found = applicant.id
    BY <1>0, <2>1 DEF Serves, Req, Applicant
  <2>3. req' = [req EXCEPT ![p] = w] /\ due' = due
    BY <1>0, <1>2, <2>1, TypeParts DEF FindApplicant
  <2> QED BY <1>0, <1>2, <2>2, <2>3, QuietKeeps DEF ToErase
<1> QED BY <1>1, <1>2

LEMMA EraseKeeps ==
  ASSUME IInv, NEW p \in Procs, EraseApplicant(p)
  PROVE  IInv'
<1>0. /\ req[p].pc = "erase" /\ req[p] \in Req /\ req[p].op # "none" /\ due \in BOOLEAN
      /\ UNCHANGED <<row, forwarded, request, loadBalanced, unexpectedErrors, events>>
      /\ loadBalanced \in Nat /\ applicant \in Applicant
  BY Current DEF EraseApplicant, TablesOK
<1>1. PICK w : w = [req[p] EXCEPT !.pc = "search", !.found = 0]
  OBVIOUS
<1>2. Serves(w) /\ w.pc = "search" /\ w.op = req[p].op
  <2>1. 0 \in 0..MaxEvents
    BY Numbers
  <2> QED BY <1>0, <1>1, <2>1 DEF Serves, Req
<1>3. CASE applicant.id = req[p].found /\ applicant.status # "absent"
  <2>1. /\ applicant' = [applicant EXCEPT !.status = "absent"]
        /\ due' = FALSE /\ req' = [req EXCEPT ![p] = w]
    BY <1>0, <1>1, <1>3, TypeParts DEF EraseApplicant
  <2>2. applicant' \in Applicant /\ applicant'.id = applicant.id /\ applicant'.status = "absent"
    BY <1>0, <2>1 DEF Applicant
  <2>3. TablesOK'
    BY <1>0, <2>1, <2>2, TypeParts DEF TablesOK
  <2>4. loadBalanced' <= loadBalanced
    BY <1>0
  <2> QED BY <1>0, <1>2, <2>1, <2>2, <2>3, <2>4, MoveKeeps
<1>4. CASE ~ (applicant.id = req[p].found /\ applicant.status # "absent")
  <2>1. /\ UNCHANGED <<applicant, due>>
        /\ req' = [req EXCEPT ![p] = w] \/ req' = [req EXCEPT ![p] = Idle]
    BY <1>0, <1>1, <1>4, TypeParts DEF EraseApplicant, Finish
  <2>2. due => req[p].op # "reset"
    BY <1>0, <1>4, Current DEF ToErase
  <2> QED BY <1>0, <1>2, <2>1, <2>2, IdleServes, QuietKeeps
<1> QED BY <1>3, <1>4

LEMMA SearchKeeps ==
  ASSUME IInv, NEW p \in Procs, SearchApplicant(p)
  PROVE  IInv'
<1>0. /\ req[p].pc = "search" /\ req[p] \in Req /\ req[p].op # "none" /\ due \in BOOLEAN
      /\ applicant \in Applicant /\ NewUser \in User
      /\ due => req[p].op # "reset"
      /\ UNCHANGED <<applicant, row, forwarded, request, loadBalanced, unexpectedErrors, events, due>>
  BY Current, IdleServes DEF SearchApplicant, TablesOK, Serves, Idle, Req, ToErase
<1>1. PICK u : u = parseApplicant(req[p].usr, applicant)
  OBVIOUS
<1>2. u \in Update
  BY <1>0, <1>1, VerdictType DEF Req
<1>3. PICK w : w = [req[p] EXCEPT !.pc = "read", !.usr = NewUser, !.upd = u]
  OBVIOUS
<1>4. Serves(w) /\ w.pc = "read" /\ w.op = req[p].op
  BY <1>0, <1>2, <1>3 DEF Serves, Req
<1>5. req' = [req EXCEPT ![p] = w]
  BY <1>0, <1>1, <1>3, TypeParts DEF SearchApplicant
<1> QED BY <1>0, <1>4, <1>5, QuietKeeps

LEMMA ReadKeeps ==
  ASSUME IInv, NEW p \in Procs, ReadUser(p)
  PROVE  IInv'
<1>0. /\ req[p].pc = "read" /\ req[p] \in Req /\ req[p].op # "none" /\ due \in BOOLEAN
      /\ row \in User /\ (due => req[p].op # "reset")
      /\ UNCHANGED <<applicant, row, forwarded, request, loadBalanced, unexpectedErrors, events, due>>
  BY Current DEF ReadUser, TablesOK, ToErase
<1>1. PICK w : w = [req[p] EXCEPT !.pc = "update", !.old = row]
  OBVIOUS
<1>2. Serves(w) /\ w.pc = "update" /\ w.op = req[p].op
  BY <1>0, <1>1 DEF Serves, Req
<1>3. req' = [req EXCEPT ![p] = w]
  BY <1>0, <1>1, TypeParts DEF ReadUser
<1> QED BY <1>0, <1>2, <1>3, QuietKeeps

LEMMA UpdateKeeps ==
  ASSUME IInv, NEW p \in Procs, UpdateUser(p)
  PROVE  IInv'
<1>0. /\ req[p].pc = "update" /\ req[p] \in Req /\ req[p].op # "none" /\ due \in BOOLEAN
      /\ row \in User /\ (row.live => row.dates) /\ row' = Updated(row, req[p].upd)
      /\ (due => req[p].op # "reset") /\ loadBalanced \in Nat
      /\ UNCHANGED <<applicant, forwarded, request, loadBalanced, unexpectedErrors, events, due>>
  BY Current DEF UpdateUser, TablesOK, ToErase
<1>1. PICK w : w = [req[p] EXCEPT !.pc = "send"]
  OBVIOUS
<1>2. Serves(w) /\ w.pc = "send" /\ w.op = req[p].op
  BY <1>0, <1>1 DEF Serves, Req
<1>3. req' = [req EXCEPT ![p] = w]
  BY <1>0, <1>1, TypeParts DEF UpdateUser, Move
<1>4. req[p].upd \in Update
  BY <1>0 DEF Req
<1>5. row' \in User /\ (row'.live => row'.dates)
  BY <1>0, <1>4, UpdateKeepsType
<1>6. TablesOK'
  BY <1>0, <1>5, TypeParts DEF TablesOK
<1>7. loadBalanced' <= loadBalanced /\ applicant'.id = applicant.id
  BY <1>0
<1>8. due' => due /\ UNCHANGED applicant /\ HasFacePipeline(request') /\ (w.op = "reset" => ToErase(w))
  BY <1>0, <1>2, Current
<1> QED BY <1>0, <1>2, <1>3, <1>6, <1>7, <1>8, MoveKeeps

LEMMA SendKeeps ==
  ASSUME IInv, NEW p \in Procs, SendSnapshot(p)
  PROVE  IInv'
<1>0. /\ req[p].pc = "send" /\ req[p] \in Req /\ req[p].op # "none" /\ due \in BOOLEAN
      /\ (due => req[p].op # "reset")
      /\ UNCHANGED <<applicant, row, forwarded, request, loadBalanced, unexpectedErrors, events, due>>
  BY Current DEF SendSnapshot, TablesOK, ToErase
<1>1. PICK pc \in {"remove", "save", "gate", "known"} :
        /\ pc = "remove" => req[p].op = "reset"
        /\ req' = [req EXCEPT ![p] = [Idle EXCEPT !.op = req[p].op, !.next = req[p].next,
                                                  !.known = req[p].known, !.pc = pc]]
  BY <1>0 DEF SendSnapshot
<1>2. PICK w : w = [Idle EXCEPT !.op = req[p].op, !.next = req[p].next,
                                !.known = req[p].known, !.pc = pc]
  OBVIOUS
<1>3. Serves(w) /\ w.pc = pc /\ w.op = req[p].op
  BY <1>0, <1>1, <1>2, IdleServes DEF Serves, Req
<1> QED BY <1>0, <1>1, <1>2, <1>3, QuietKeeps

LEMMA SendFailsKeeps ==
  ASSUME IInv, NEW p \in Procs, SendFails(p)
  PROVE  IInv'
<1>0. /\ req[p].pc = "send" /\ req[p] \in Req /\ req[p].op # "none" /\ due \in BOOLEAN
      /\ (due => req[p].op # "reset") /\ loadBalanced \in Nat
      /\ events \in 0..MaxEvents /\ events < MaxEvents /\ events' = events + 1
      /\ UNCHANGED <<applicant, row, forwarded, request, loadBalanced, unexpectedErrors, due>>
  BY Current DEF SendFails, Happens, TablesOK, ToErase
<1>1. PICK w : w = [req[p] EXCEPT !.pc = "rollback"]
  OBVIOUS
<1>2. Serves(w) /\ w.pc = "rollback" /\ w.op = req[p].op
  BY <1>0, <1>1 DEF Serves, Req
<1>3. req' = [req EXCEPT ![p] = w]
  BY <1>0, <1>1, TypeParts DEF SendFails, Move
<1>4. TablesOK'
  <2>1. events' \in 0..MaxEvents
    BY <1>0, Numbers
  <2> QED BY <1>0, <2>1, TypeParts DEF TablesOK
<1>5. loadBalanced' <= loadBalanced /\ applicant'.id = applicant.id
  BY <1>0
<1>6. due' => due /\ UNCHANGED applicant /\ HasFacePipeline(request') /\ (w.op = "reset" => ToErase(w))
  BY <1>0, <1>2, Current
<1> QED BY <1>0, <1>2, <1>3, <1>4, <1>5, <1>6, MoveKeeps

LEMMA ErrorsGrow ==
  ASSUME IInv, NEW p \in Procs
  PROVE  ErrorsAfter(p) \in {unexpectedErrors, unexpectedErrors + 1}
BY Current DEF ErrorsAfter, TablesOK

LEMMA RollBackKeeps ==
  ASSUME IInv, NEW p \in Procs, RollBackUser(p)
  PROVE  IInv'
<1>0. /\ req[p].pc = "rollback" /\ req[p] \in Req /\ due \in BOOLEAN
      /\ row \in User /\ (row.live => row.dates) /\ row' = RolledBack(row, req[p].old)
      /\ loadBalanced \in Nat /\ unexpectedErrors \in Nat
      /\ req' = [req EXCEPT ![p] = Idle]
      /\ unexpectedErrors' = ErrorsAfter(p)
      /\ UNCHANGED <<applicant, forwarded, request, loadBalanced, events, due>>
  BY Current DEF RollBackUser, TablesOK, Finish
<1>1. row' \in User /\ (row'.live => row'.dates)
  BY <1>0, RolledBackType DEF Req
<1>2. unexpectedErrors' \in Nat /\ unexpectedErrors' <= unexpectedErrors + 1
  BY <1>0, ErrorsGrow
<1>3. TablesOK'
  BY <1>0, <1>1, <1>2, TypeParts DEF TablesOK
<1>4. loadBalanced' <= loadBalanced /\ applicant'.id = applicant.id
  BY <1>0
<1>5. due' => due /\ UNCHANGED applicant /\ HasFacePipeline(request')
                  /\ (Idle.op = "reset" => ToErase(Idle))
  BY <1>0, IdleServes, Current
<1> QED BY <1>0, <1>2, <1>3, <1>4, <1>5, IdleServes, MoveKeeps

LEMMA FailKeeps ==
  ASSUME IInv, NEW p \in Procs, Fail(p)
  PROVE  IInv'
<1>0. /\ due \in BOOLEAN
      /\ loadBalanced \in Nat /\ unexpectedErrors \in Nat
      /\ events \in 0..MaxEvents /\ events < MaxEvents /\ events' = events + 1
      /\ req' = [req EXCEPT ![p] = Idle]
      /\ unexpectedErrors' = ErrorsAfter(p)
      /\ UNCHANGED <<applicant, row, forwarded, request, loadBalanced, due>>
  BY Current DEF Fail, Happens, TablesOK, Finish
<1>1. unexpectedErrors' \in Nat /\ unexpectedErrors' <= unexpectedErrors + 1
  BY <1>0, ErrorsGrow
<1>2. TablesOK'
  <2>1. events' \in 0..MaxEvents
    BY <1>0, Numbers
  <2> QED BY <1>0, <1>1, <2>1, TypeParts DEF TablesOK
<1>3. loadBalanced' <= loadBalanced /\ applicant'.id = applicant.id
  BY <1>0
<1>4. due' => due /\ UNCHANGED applicant /\ HasFacePipeline(request')
                  /\ (Idle.op = "reset" => ToErase(Idle))
  BY <1>0, IdleServes, Current
<1> QED BY <1>0, <1>1, <1>2, <1>3, <1>4, IdleServes, MoveKeeps

LEMMA RemoveKeeps ==
  ASSUME IInv, NEW p \in Procs, RemoveStep(p)
  PROVE  IInv'
<1>0. /\ req[p].pc = "remove" /\ req[p] \in Req /\ req[p].op = "reset" /\ due \in BOOLEAN
      /\ ~ due /\ loadBalanced \in Nat
      /\ request = {} \/ request \in RequestedSteps \cup {{Social1}}
      /\ UNCHANGED <<applicant, row, forwarded, loadBalanced, unexpectedErrors, events, due>>
  BY Current DEF RemoveStep, TablesOK, ToErase
<1>1. request' = {} \/ request' \in RequestedSteps \cup {{Social1}}
  <2>1. {FacialRecognition, Social1} \ {FacialRecognition} = {Social1}
        /\ {LivenessDetection} \ {FacialRecognition} = {LivenessDetection}
        /\ {Social1} \ {FacialRecognition} = {Social1}
        /\ {FacialRecognition} \ {FacialRecognition} = {}
    BY DEF FacialRecognition, LivenessDetection, Social1
  <2> QED BY <1>0, <2>1 DEF RemoveStep, RequestedSteps
<1>2. TablesOK'
  BY <1>0, <1>1, TypeParts DEF TablesOK
<1>3. PICK w : w = [req[p] EXCEPT !.pc = "clear"]
  OBVIOUS
<1>4. Serves(w) /\ w.pc = "clear"
  BY <1>0, <1>3 DEF Serves, Req
<1>5. req' = [req EXCEPT ![p] = w] \/ req' = [req EXCEPT ![p] = Idle]
  BY <1>0, <1>3, TypeParts DEF RemoveStep, Finish, Move
<1>6. loadBalanced' <= loadBalanced /\ applicant'.id = applicant.id /\ ~ due'
  BY <1>0
<1> QED BY <1>0, <1>2, <1>4, <1>5, <1>6, IdleServes, MoveKeeps

LEMMA ClearKeeps ==
  ASSUME IInv, NEW p \in Procs, ClearRequest(p)
  PROVE  IInv'
<1>0. /\ req[p].pc = "clear" /\ req[p] \in Req /\ req[p].op = "reset" /\ due \in BOOLEAN
      /\ ~ due /\ loadBalanced \in Nat /\ request' = {}
      /\ UNCHANGED <<applicant, row, forwarded, loadBalanced, unexpectedErrors, events, due>>
  BY Current DEF ClearRequest, Cleared, TablesOK, ToErase
<1>1. TablesOK'
  BY <1>0, TypeParts DEF TablesOK
<1>2. PICK w : w = [req[p] EXCEPT !.pc = "load"]
  OBVIOUS
<1>3. Serves(w) /\ w.pc = "load"
  BY <1>0, <1>2 DEF Serves, Req
<1>4. req' = [req EXCEPT ![p] = w]
  BY <1>0, <1>2, TypeParts DEF ClearRequest, Move
<1>5. loadBalanced' <= loadBalanced /\ applicant'.id = applicant.id /\ ~ due'
  BY <1>0
<1> QED BY <1>0, <1>1, <1>3, <1>4, <1>5, MoveKeeps

LEMMA CheckForwardedKeeps ==
  ASSUME IInv, NEW p \in Procs, CheckForwarded(p) \/ ReadForwarded(p)
  PROVE  IInv'
<1>0. /\ req[p].pc \in {"sync", "known"} /\ req[p] \in Req /\ req[p].op # "none" /\ due \in BOOLEAN
      /\ (due => req[p].op # "reset") /\ forwarded \in BOOLEAN /\ NewUser \in User
      /\ UNCHANGED <<applicant, row, forwarded, request, loadBalanced, unexpectedErrors, events, due>>
  BY Current, IdleServes DEF CheckForwarded, ReadForwarded, TablesOK, ToErase, Serves, Idle, Req
<1>1. CASE req' = [req EXCEPT ![p] = Idle]
  BY <1>0, <1>1, IdleServes, QuietKeeps
<1>2. ASSUME NEW pc \in {"search", "gate"}, NEW usr \in User,
             req' = [req EXCEPT ![p].known = forwarded, ![p].pc = pc, ![p].usr = usr]
      PROVE  IInv'
  <2>1. PICK w : w = [req[p] EXCEPT !.known = forwarded, !.pc = pc, !.usr = usr]
    OBVIOUS
  <2>2. Serves(w) /\ w.pc = pc /\ w.op = req[p].op
    BY <1>0, <2>1 DEF Serves, Req
  <2>3. req' = [req EXCEPT ![p] = w]
    BY <1>2, <2>1, TypeParts
  <2> QED BY <1>0, <2>2, <2>3, QuietKeeps
<1>3. CASE CheckForwarded(p)
  <2>1. PICK usr, pc : /\ usr = IF NeedsSync(req[p].usr) THEN req[p].usr ELSE NewUser
                       /\ pc = IF NeedsSync(req[p].usr) THEN "search" ELSE "gate"
    OBVIOUS
  <2>2. usr \in User /\ pc \in {"search", "gate"}
    BY <1>0, <2>1 DEF Req
  <2>3. \/ req' = [req EXCEPT ![p] = Idle]
        \/ req' = [req EXCEPT ![p].known = forwarded, ![p].pc = pc, ![p].usr = usr]
    BY <1>3, <2>1, TypeParts DEF CheckForwarded, Finish
  <2> QED BY <1>1, <1>2, <2>2, <2>3
<1>4. CASE ReadForwarded(p)
  <2>1. PICK w : w = [req[p] EXCEPT !.known = forwarded, !.pc = "gate"]
    OBVIOUS
  <2>2. Serves(w) /\ w.pc = "gate" /\ w.op = req[p].op
    BY <1>0, <2>1 DEF Serves, Req
  <2>3. req' = [req EXCEPT ![p] = w]
    BY <1>4, <2>1, TypeParts DEF ReadForwarded
  <2> QED BY <1>0, <2>2, <2>3, QuietKeeps
<1> QED BY <1>3, <1>4

\* A user is known as forwarded; where the request goes on, it keeps its kind.
LEMMA SaveKeeps ==
  ASSUME IInv, NEW p \in Procs, SaveFaceID(p) \/ SaveForwarded(p)
  PROVE  IInv'
<1>0. /\ req[p].pc \in {"save", "admit"} /\ req[p] \in Req /\ req[p].op # "none" /\ due \in BOOLEAN
      /\ (due => req[p].op # "reset") /\ forwarded' = TRUE /\ loadBalanced \in Nat
      /\ UNCHANGED <<applicant, row, request, loadBalanced, unexpectedErrors, events, due>>
  BY Current DEF SaveFaceID, SaveForwarded, TablesOK, ToErase
<1>1. PICK w : w = [req[p] EXCEPT !.pc = "gate"]
  OBVIOUS
<1>2. Serves(w) /\ w.pc = "gate" /\ w.op = req[p].op
  BY <1>0, <1>1 DEF Serves, Req
<1>3. req' = [req EXCEPT ![p] = w] \/ req' = [req EXCEPT ![p] = Idle]
  BY <1>0, <1>1, TypeParts DEF SaveFaceID, SaveForwarded, Move, Finish
<1>4. TablesOK'
  BY <1>0, TypeParts DEF TablesOK
<1>5. loadBalanced' <= loadBalanced /\ applicant'.id = applicant.id
  BY <1>0
<1>6. due' => due /\ UNCHANGED applicant /\ HasFacePipeline(request') /\ req[p].op # "reset"
  BY <1>0, Current
<1> QED BY <1>0, <1>2, <1>3, <1>4, <1>5, <1>6, IdleServes, MoveKeeps

\* Who finds a place finds one that is not taken.
LEMMA CheckAvailableKeeps ==
  ASSUME IInv, NEW p \in Procs, NEW active \in updateAvailability, CheckAvailable(p, active)
  PROVE  IInv'
<1>0. /\ req[p].pc = "gate" /\ req[p] \in Req /\ req[p].op # "none" /\ due \in BOOLEAN
      /\ (due => req[p].op # "reset") /\ loadBalanced \in Nat
      /\ UNCHANGED <<applicant, row, forwarded, request, loadBalanced, unexpectedErrors, events, due>>
  BY Current DEF CheckAvailable, TablesOK, ToErase
<1>1. active \in Nat
  <2>1. PICK conns \in 0..(2 * ConcurrentUsers) : active = conns \div 2
    BY DEF updateAvailability, activeUsers, connsPerUser
  <2>2. conns \in Nat
    BY Numbers
  <2> QED BY <2>1, <2>2
<1>2. HasPlace(active) => loadBalanced <= ConcurrentUsers - 1
  BY <1>0, <1>1, Numbers DEF HasPlace
<1>3. PICK pc : /\ pc \in {"add", "admit", "idle"} /\ (pc = "add" => HasPlace(active))
                /\ IF pc = "idle" THEN req' = [req EXCEPT ![p] = Idle]
                   ELSE req' = [req EXCEPT ![p].pc = pc]
  BY DEF CheckAvailable, Move, Finish
<1>4. CASE pc = "idle"
  BY <1>0, <1>3, <1>4, IdleServes, QuietKeeps
<1>5. CASE pc # "idle"
  <2>1. PICK w : w = [req[p] EXCEPT !.pc = pc]
    OBVIOUS
  <2>2. Serves(w) /\ w.pc = pc /\ w.op = req[p].op
    BY <1>0, <1>3, <1>5, <2>1 DEF Serves, Req
  <2>3. req' = [req EXCEPT ![p] = w]
    BY <1>3, <1>5, <2>1, TypeParts
  <2>4. TablesOK' /\ loadBalanced' <= loadBalanced /\ applicant'.id = applicant.id
    BY <1>0, TypeParts DEF TablesOK
  <2>5. due' => due /\ UNCHANGED applicant /\ HasFacePipeline(request') /\ (w.op = "reset" => ToErase(w))
    BY <1>0, <2>2, Current
  <2> QED BY <1>0, <1>2, <1>3, <2>2, <2>3, <2>4, <2>5, MoveKeeps
<1> QED BY <1>4, <1>5

LEMMA TakeKeeps ==
  ASSUME IInv, NEW p \in Procs, TakePlace(p)
  PROVE  IInv'
<1>0. /\ req[p].pc = "add" /\ req[p] \in Req /\ req[p].op # "none" /\ due \in BOOLEAN
      /\ (due => req[p].op # "reset") /\ loadBalanced \in Nat /\ loadBalanced' = loadBalanced + 1
      /\ UNCHANGED <<applicant, row, forwarded, request, unexpectedErrors, events, due>>
  BY Current DEF TakePlace, TablesOK, ToErase
<1>1. PICK w : w = [req[p] EXCEPT !.pc = "admit"]
  OBVIOUS
<1>2. Serves(w) /\ w.pc = "admit" /\ w.op = req[p].op
  BY <1>0, <1>1 DEF Serves, Req
<1>3. req' = [req EXCEPT ![p] = w]
  BY <1>0, <1>1, TypeParts DEF TakePlace, Move
<1>4. TablesOK' /\ applicant'.id = applicant.id
  BY <1>0, TypeParts DEF TablesOK
<1>5. due' => due /\ UNCHANGED applicant /\ HasFacePipeline(request') /\ (w.op = "reset" => ToErase(w))
  BY <1>0, <1>2, Current
<1> QED BY <1>0, <1>2, <1>3, <1>4, <1>5, MoveKeeps
-----------------------------------------------------------------------------
(* The tickers, the provider and everybody else.                           *)

LEMMA WorldKeeps ==
  ASSUME IInv, req' = req, TablesOK', loadBalanced' <= loadBalanced,
         applicant'.id <= events', unexpectedErrors' <= unexpectedErrors, events <= events',
         DueServed'
  PROVE  IInv'
<1>1. /\ TablesOK /\ Taking \subseteq Procs /\ Undoing \subseteq Procs
      /\ Taking' = Taking /\ Undoing' = Undoing
  BY TypeParts DEF Taking, Undoing
<1>2. /\ Cardinality(Taking) \in Nat /\ Cardinality(Undoing) \in Nat
  BY <1>1, Counts
<1>3. /\ loadBalanced \in Nat /\ unexpectedErrors \in Nat /\ events \in Nat
      /\ loadBalanced' \in Nat /\ unexpectedErrors' \in Nat /\ events' \in 0..MaxEvents
      /\ loadBalanced + Cardinality(Taking) <= ConcurrentUsers + Cardinality(Procs) - 1
      /\ unexpectedErrors + Cardinality(Undoing) <= events
  BY <1>1, Numbers DEF IInv, TablesOK, PlacesKept, EventsCounted
<1>4. loadBalanced' + Cardinality(Taking) <= ConcurrentUsers + Cardinality(Procs) - 1
  BY <1>2, <1>3, Numbers
<1>5. unexpectedErrors' + Cardinality(Undoing) <= events'
  BY <1>2, <1>3, Numbers
<1>6. PlacesKept' /\ EventsCounted'
  BY <1>1, <1>4, <1>5 DEF PlacesKept, EventsCounted
<1>7. /\ loadBalanced' \in 0..(ConcurrentUsers + Cardinality(Procs) - 1)
      /\ unexpectedErrors' \in 0..MaxEvents
  BY <1>2, <1>3, <1>4, <1>5, Numbers
<1>8. TypeOK'
  BY <1>7 DEF IInv, TypeOK, TablesOK
<1>9. \A p \in Procs : Serves(req[p])'
  BY DEF IInv, Serves
<1> QED BY <1>6, <1>8, <1>9 DEF IInv

LEMMA TickersKeep ==
  ASSUME IInv, clearErrs \/ clearUsers \/ PassSocial
  PROVE  IInv'
<1>0. TablesOK /\ DueServed /\ applicant.id <= events
  BY TypeParts DEF IInv, EventsCounted
<1>1. /\ UNCHANGED <<applicant, forwarded, request, req, events, due>>
      /\ loadBalanced' \in {0, loadBalanced} /\ unexpectedErrors' \in {0, unexpectedErrors}
  BY DEF clearErrs, clearUsers, PassSocial
<1>2. row' \in User /\ (row'.live => row'.dates)
  BY <1>0 DEF clearErrs, clearUsers, PassSocial, TablesOK, User, Social1
<1>3. TablesOK'
  BY <1>0, <1>1, <1>2 DEF TablesOK
<1>4. loadBalanced' <= loadBalanced /\ unexpectedErrors' <= unexpectedErrors /\ events <= events'
  BY <1>0, <1>1 DEF TablesOK
<1>5. DueServed'
  BY <1>0, <1>1 DEF DueServed, ToErase
<1> QED BY <1>0, <1>1, <1>3, <1>4, <1>5, WorldKeeps

LEMMA ProviderKeeps ==
  ASSUME IInv, BeginFace \/ JudgeFace
  PROVE  IInv'
<1>0. /\ TablesOK /\ DueServed /\ applicant.id <= events /\ applicant \in Applicant
      /\ applicant.id \in Nat /\ events \in Nat /\ events <= MaxEvents /\ MaxEvents \in Nat
  BY TypeParts, Numbers DEF IInv, EventsCounted, TablesOK, Applicant
<1>1. UNCHANGED <<row, forwarded, request, req, loadBalanced, unexpectedErrors, due>>
  BY DEF BeginFace, JudgeFace
<1>2. CASE BeginFace
  <2>1. /\ forwarded /\ applicant.status = "absent" /\ events < MaxEvents /\ events' = events + 1
        /\ applicant' = [id |-> applicant.id + 1, status |-> "open"]
    BY <1>2 DEF BeginFace, Happens
  <2>2. /\ applicant' \in Applicant /\ applicant'.id <= events' /\ events' \in 0..MaxEvents
        /\ events <= events'
    BY <1>0, <2>1 DEF Applicant
  <2>3. TablesOK'
    BY <1>0, <1>1, <2>1, <2>2 DEF TablesOK
  <2>4. DueServed'
    BY <1>0, <1>1, <2>1 DEF DueServed, ToErase
  <2>5. loadBalanced' <= loadBalanced /\ unexpectedErrors' <= unexpectedErrors
    BY <1>0, <1>1 DEF TablesOK
  <2> QED BY <1>1, <2>2, <2>3, <2>4, <2>5, WorldKeeps
<1>3. CASE JudgeFace
  <2>1. PICK status \in {"passed", "risk"} :
          /\ applicant.status = "open" /\ events' = events
          /\ applicant' = [applicant EXCEPT !.status = status]
    BY <1>3 DEF JudgeFace
  <2>2. /\ applicant' \in Applicant /\ applicant'.id = applicant.id /\ applicant'.status = status
        /\ events <= events'
    BY <1>0, <2>1 DEF Applicant
  <2>3. TablesOK'
    BY <1>0, <1>1, <2>1, <2>2 DEF TablesOK
  <2>4. DueServed'
    BY <1>0, <1>1, <2>1, <2>2 DEF DueServed, ToErase
  <2>5. loadBalanced' <= loadBalanced /\ unexpectedErrors' <= unexpectedErrors
    BY <1>0, <1>1 DEF TablesOK
  <2> QED BY <1>0, <1>1, <2>1, <2>2, <2>3, <2>4, <2>5, WorldKeeps
<1> QED BY <1>2, <1>3

LEMMA AskingKeeps ==
  ASSUME IInv, NEW steps \in RequestedSteps, RequestReset(steps)
  PROVE  IInv'
<1>0. /\ TablesOK /\ DueServed /\ applicant.id <= events /\ applicant.id \in Nat
      /\ events \in Nat /\ events <= MaxEvents /\ MaxEvents \in Nat
  BY TypeParts, Numbers DEF IInv, EventsCounted, TablesOK, Applicant
<1>1. /\ events < MaxEvents /\ events' = events + 1 /\ request' = steps
      /\ due' = (due \/ (steps \cap FaceSteps # {}
                   /\ \A p \in Procs : req[p].op = "reset" => req[p].pc = "load"))
      /\ UNCHANGED <<applicant, row, forwarded, req, loadBalanced, unexpectedErrors>>
  BY DEF RequestReset, Happens
<1>2. steps \cap FaceSteps # {}
  BY DEF RequestedSteps, FaceSteps, FacialRecognition, LivenessDetection, Social1
<1>3. TablesOK'
  <2>1. events' \in 0..MaxEvents
    BY <1>0, <1>1
  <2>2. due' \in BOOLEAN
    BY <1>1
  <2> QED BY <1>0, <1>1, <2>1, <2>2 DEF TablesOK
<1>4. DueServed'
  BY <1>0, <1>1, <1>2 DEF DueServed, ToErase, HasFacePipeline
<1>5. /\ loadBalanced' <= loadBalanced /\ unexpectedErrors' <= unexpectedErrors
      /\ events <= events' /\ applicant'.id <= events'
  BY <1>0, <1>1 DEF TablesOK
<1> QED BY <1>1, <1>3, <1>4, <1>5, WorldKeeps
-----------------------------------------------------------------------------
LEMMA InitIInv == Init => IInv
<1> SUFFICES ASSUME Init PROVE IInv
  OBVIOUS
<1>1. /\ request = {} /\ loadBalanced = 0 /\ unexpectedErrors = 0 /\ events = 0 /\ due = FALSE
      /\ req = [p \in Procs |-> Idle]
  BY DEF Init
<1>2. NewUser \in User /\ ~ NewUser.live /\ 0 \in 0..MaxEvents
  BY Numbers DEF NewUser, User, Social1
<1>3. Absent \in Applicant /\ Absent.id = 0 /\ Absent.status = "absent"
  BY <1>2 DEF Absent, Applicant
<1>4. applicant \in Applicant /\ applicant.id = 0 /\ forwarded \in BOOLEAN
      /\ (applicant.status # "absent" => forwarded)
  <2>1. PICK a : a = [id |-> 0, status |-> "passed"]
    OBVIOUS
  <2>2. a \in Applicant /\ a.id = 0
    BY <1>2, <2>1 DEF Applicant
  <2>3. applicant \in {Absent, a} /\ forwarded \in BOOLEAN /\ (forwarded \/ applicant = Absent)
    BY <2>1 DEF Init
  <2> QED BY <1>3, <2>2, <2>3
<1>5. row \in User /\ (row.live => row.dates)
  <2>1. CASE row = NewUser
    BY <1>2, <2>1
  <2>2. ASSUME NEW n \in Results, NEW disabled \in BOOLEAN,
               row = ProcessFaceRecognitionResult(NewUser, n, disabled)
        PROVE  row \in User /\ (row.live => row.dates)
    <3>1. n \in 0..2
      BY FaceAssumption DEF FaceSteps, FacialRecognition, LivenessDetection
    <3>2. PICK passed, dates, live :
            /\ row = [passed |-> passed, blocked |-> disabled, dates |-> dates, live |-> live]
            /\ passed = Raised(NewUser.passed, n)
            /\ dates = (n > 0) /\ live = (n >= LivenessDetection)
      BY <2>2 DEF ProcessFaceRecognitionResult
    <3>3. passed \in 0..Social1
      BY <3>1, <3>2 DEF Raised, NewUser, Social1
    <3>4. dates \in BOOLEAN /\ live \in BOOLEAN /\ (live => dates)
      BY <3>1, <3>2 DEF LivenessDetection
    <3> QED BY <3>2, <3>3, <3>4 DEF User
  <2>3. CASE row = Synced
    <3>1. [id |-> 0, status |-> "passed"] \in Applicant
      BY <1>2 DEF Applicant
    <3>2. parseApplicant(NewUser, [id |-> 0, status |-> "passed"]) \in Update
      BY <1>2, <3>1, VerdictType
    <3> QED BY <1>2, <2>3, <3>2, UpdateKeepsType DEF Synced
  <2> QED BY <2>1, <2>2, <2>3 DEF Init
<1>6. TablesOK
  BY <1>1, <1>2, <1>4, <1>5 DEF TablesOK
<1>7. Taking = {} /\ Undoing = {} /\ Cardinality({}) = 0
  BY <1>1, IdleServes, FS_EmptySet DEF Taking, Undoing
<1>8. \A p \in Procs : Serves(req[p])
  BY <1>1, IdleServes
<1>9. PlacesKept /\ EventsCounted
  <2>1. Procs = {} \/ Cardinality(Procs) >= 0
    BY Numbers
  <2> QED BY <1>1, <1>4, <1>7, Numbers DEF PlacesKept, EventsCounted
<1>10. TypeOK
  <2>1. /\ loadBalanced \in 0..(ConcurrentUsers + Cardinality(Procs) - 1)
        /\ unexpectedErrors \in 0..MaxEvents
    BY <1>1, Numbers
  <2>2. req \in [Procs -> Req] /\ \A p \in Procs : req[p].pc # "idle" => req[p].op # "none"
    BY <1>1, <1>8 DEF Serves
  <2> QED BY <1>6, <2>1, <2>2 DEF TablesOK, TypeOK
<1> QED BY <1>1, <1>8, <1>9, <1>10 DEF IInv, DueServed

LEMMA NextIInv ==
  ASSUME IInv, [Next]_vars
  PROVE  IInv'
<1>1. ASSUME NEW p \in Procs, Step(p) \/ SendFails(p) \/ Fail(p)
      PROVE  IInv'
  <2>1. CASE \E active \in updateAvailability : CheckAvailable(p, active)
    BY <2>1, CheckAvailableKeeps
  <2> QED BY <1>1, <2>1, LoadKeeps, FindKeeps, EraseKeeps, SearchKeeps, ReadKeeps, UpdateKeeps,
             SendKeeps, SendFailsKeeps, RollBackKeeps, FailKeeps, RemoveKeeps, ClearKeeps,
             CheckForwardedKeeps, SaveKeeps, TakeKeeps
          DEF Step
<1>2. CASE UNCHANGED vars
  <2>1. TablesOK' /\ DueServed'
    BY <1>2, TypeParts DEF vars, TablesOK, IInv, DueServed, ToErase
  <2>2. /\ loadBalanced' <= loadBalanced /\ unexpectedErrors' <= unexpectedErrors
        /\ events <= events' /\ applicant'.id <= events' /\ req' = req
    BY <1>2, TypeParts, Numbers DEF vars, TablesOK, IInv, EventsCounted
  <2> QED BY <2>1, <2>2, WorldKeeps
<1>3. Forwarders \subseteq Procs
  BY FaceAssumption
<1> QED BY <1>1, <1>2, <1>3, StartsKeep, TickersKeep, ProviderKeeps, AskingKeeps DEF Next

LEMMA Always == Spec => []IInv
BY InitIInv, NextIInv, PTL DEF Spec
-----------------------------------------------------------------------------
\* N requests that find the last place at once take at most N - 1 places too
\* many, however the provider's counts and the ticker that frees them come in
\* between: isAvailable and the increment after it are two steps.
THEOREM TypeOKHolds == Spec => []TypeOK
<1>1. IInv => TypeOK
  BY DEF IInv
<1> QED BY <1>1, Always, PTL

\* A request to reset a face step is only deleted after the applicant was
\* erased, or seen to be none, since it was made.
THEOREM RequestHonouredHolds == Spec => RequestHonoured
<1>1. ASSUME IInv, [Next]_vars
      PROVE  [request # {} /\ request' = {} => ~ due]_vars
  <2> SUFFICES ASSUME Next, request # {}, request' = {}
               PROVE  ~ due
    BY <1>1
  <2>1. \A steps \in RequestedSteps : steps # {}
    BY DEF RequestedSteps
  <2>2. PICK p \in Procs : ClearRequest(p) \/ RemoveStep(p)
    BY <2>1 DEF Next, Step, Load, FindApplicant, EraseApplicant, SearchApplicant, ReadUser,
                UpdateUser, SendSnapshot, RollBackUser, CheckForwarded, SaveFaceID, ReadForwarded,
                TakePlace, SaveForwarded, CheckAvailable, SendFails, Fail,
                StartTryResetKYCSteps, StartForwardToFaceKYC, clearErrs, clearUsers,
                BeginFace, JudgeFace, PassSocial, RequestReset
  <2>3. req[p].pc \in {"clear", "remove"}
    BY <2>2 DEF ClearRequest, RemoveStep
  <2> QED BY <1>1, <2>3, Current DEF ToErase
<1> QED BY <1>1, Always, PTL DEF Spec, RequestHonoured
=============================================================================
