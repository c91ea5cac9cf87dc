------------------------------ MODULE Account -------------------------------
(***************************************************************************)
(* What else hangs on one user account: signing in with Telegram, the      *)
(* devices, the contacts, the scenarios of eligibility, and the consumer   *)
(* of mining sessions.                                                     *)
(*                                                                         *)
(* A scene names the components that move in a behaviour.  Those that      *)
(* write the same rows belong to one scene: scenarios end in ModifyUser,   *)
(* which takes back, if its message fails, the columns that the mining     *)
(* sessions write as well.  Components without common state have scenes    *)
(* of their own, since interleaving them shows nothing new.                *)
(***************************************************************************)
EXTENDS Integers, Sequences, FiniteSets

CONSTANTS
  Scenes, Procs, None, MaxFaults,
  Telegrams, Users, Gone, MaxSeq, MaxChanges,
  Devices, Versions, Required, MaxReplaced,
  Others, MaxPatches,
  Joins, Tenants, Own, Mandatories, MaxAsked,
  Child, Parent, MinDuration, Duration, MaxTime, MaxSessions, MaxRewinds,
  MaxEvents    \* bound on requests, which count three times, sessions and rewinds

ASSUME ScenesAssumption ==
  Scenes \subseteq SUBSET {"telegram", "devices", "contacts", "scenarios", "mining"}
ASSUME NamesAssumption ==
  {None, Gone} \cap (Telegrams \cup Users) = {} /\ None # Gone /\ None \notin Versions
ASSUME ScenariosAssumption ==
  /\ Own \in Tenants /\ Joins \cap Tenants = {} /\ IsFiniteSet(Joins \cup Tenants)
  /\ Mandatories \subseteq SUBSET (Joins \cup Tenants)
ASSUME IntervalsAssumption ==
  /\ {Child, Parent, MinDuration, Duration} \subseteq Nat \ {0} /\ None \notin Nat
  /\ Parent % Child = 0 /\ MinDuration <= Child /\ MinDuration <= Duration

VARIABLES
  scene,
  telegramOf, signIn, tokenReq, tokens, changes, last, crossed,
  member, dev, known, deviceReq, replaced, settled,
  agenda, told, contactReq, patches, broken,
  mandatory, row, links, scenarioReq, asked, faults, earned, undone,
  log, pos, phase, active, rewinds, done, disturbed

Telegram == INSTANCE TelegramSignIn WITH member <- telegramOf, req <- tokenReq
Metadata == INSTANCE DeviceMetadata WITH req <- deviceReq
Agenda   == INSTANCE Contacts WITH req <- contactReq
Scenario == INSTANCE Scenarios WITH req <- scenarioReq
Mining   == INSTANCE MiningSessions

telegramVars == <<telegramOf, signIn, tokenReq, tokens, changes, last, crossed>>
deviceVars   == <<member, dev, known, deviceReq, replaced, settled>>
contactVars  == <<agenda, told, contactReq, patches, broken>>
scenarioVars == <<mandatory, links, scenarioReq, asked, earned, undone>>
miningVars   == <<log, pos, phase, active, rewinds, done, disturbed>>
vars == <<scene, telegramVars, deviceVars, contactVars, scenarioVars, miningVars,
          row, faults>>

TypeOK ==
  /\ Telegram!TypeOK /\ Metadata!TypeOK /\ Agenda!TypeOK
  /\ Scenario!TypeOK /\ Mining!TypeOK

Init ==
  /\ scene \in Scenes
  /\ Telegram!Init /\ Metadata!Init /\ Agenda!Init
  /\ Scenario!Init /\ Mining!MiningInit
  \* A behaviour without the component need not choose how it begins.
  /\ "telegram" \notin scene => \A u \in Users : telegramOf[u] = None
  /\ "scenarios" \notin scene => mandatory = {}

TelegramStep ==
  /\ "telegram" \in scene
  /\ Telegram!Next
  /\ UNCHANGED <<deviceVars, contactVars, scenarioVars, miningVars, row, faults>>

DeviceStep ==
  /\ "devices" \in scene
  /\ Metadata!Next
  /\ UNCHANGED <<telegramVars, contactVars, scenarioVars, miningVars, row>>

ContactStep ==
  /\ "contacts" \in scene
  /\ Agenda!Next
  /\ UNCHANGED <<telegramVars, deviceVars, scenarioVars, miningVars, row>>

ScenarioStep ==
  /\ "scenarios" \in scene
  /\ Scenario!Next
  /\ UNCHANGED <<telegramVars, deviceVars, contactVars, miningVars>>

MiningStep ==
  /\ "mining" \in scene
  /\ Mining!Next
  /\ UNCHANGED <<telegramVars, deviceVars, contactVars, scenarioVars, faults>>

Next ==
  /\ TelegramStep \/ DeviceStep \/ ContactStep \/ ScenarioStep \/ MiningStep
  /\ 3 * asked' + Len(log') + rewinds' <= MaxEvents
  /\ UNCHANGED scene

Spec == Init /\ [][Next]_vars
-----------------------------------------------------------------------------
\* A Telegram account is one user, whatever first sign-ins ran at once.
OneIdentity == Telegram!OneIdentity

\* Numbers of tokens are given out once per Telegram account, and an answer that
\* was lost can be asked for again.
TelegramSeqInvariant == Telegram!TelegramSeqInvariant

\* What the platform was told of a device is what its row says, once a request has
\* had the device for itself and told of it, and while none overlaps with another.
KnownDevices == Metadata!KnownDevices

\* Nobody stays among the contacts without having been told of, unless the request
\* that found them was cut off between writing and telling, or took them back when
\* another had read them: nobody would be told ever again.
ContactsTold == Agenda!ContactsTold

\* Nobody is eligible who has not completed what is mandatory, whatever lists
\* requests write over each other or back.
VerifiedIsEarned == Scenario!VerifiedIsEarned

\* Who has completed what is mandatory is eligible, unless a row was taken back.
NeverStuck == Scenario!NeverStuck

\* The user is counted once in every interval the sessions cover, unless the
\* failing message of another request has taken back when the last one began.
CountedOnce == undone \/ Mining!CountedOnce
=============================================================================
