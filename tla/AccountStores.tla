---------------------------- MODULE AccountStores ----------------------------
(***************************************************************************)
(* The requests of one account: its Bungie tokens, its roll targets, its   *)
(* visits, its role and the roles it administers, its wish list and its    *)
(* preferences.  A behaviour works on one of these stores ("part"), which  *)
(* share no state but the callers, whose requests are each about one.      *)
(***************************************************************************)
EXTENDS Naturals, Sequences

CONSTANTS Callers, None,
          TokenReplicas, MaxGrants,                         \* TokenStore
          Weapons, Perks, RollManifests, FirstPools, Files, \* RollTargets
          OfferedRolls, Edits, MaxPerks, MaxBulkTargets, MaxTargets,
          Collectibles, VisitGap, MaxVisitTime,             \* Digest
          RoleReplicas, Users, Bootstrap, OfferedRoles,     \* Authority
          FlagPatches, MaxAudit,
          Items, ItemManifests, FirstItems, WishCommands,   \* Wishlist
          WishPatches, MaxNoteRunes, MaxBulkEntries, MaxEntries,
          PreferencePatches, MaxPreferenceTime,             \* Preferences
          MaxFaults                                         \* bound, in every part

\* None is nothing that is told apart from it.
ASSUME NoneAssumption ==
    /\ None \notin Nat \cup Callers \cup TokenReplicas \cup Weapons \cup Users \cup Items
    /\ None \notin [grant: Nat, durable: BOOLEAN]

\* Clocks count from 0.
ASSUME ClockAssumption == MaxVisitTime \in Nat /\ MaxPreferenceTime \in Nat

VARIABLES part, call, faults, now, lastId, installed, disturbed,
          issued, valid, renewable, spent, grant, mem, userMu,
          targets, gone,
          owned, digest, first, reported,
          role, flag, audit, lock, cached, hadAdmin,
          entries, wrote,
          preferences

Tokens == INSTANCE TokenStore WITH Replicas <- TokenReplicas, row <- grant

Rolls == INSTANCE RollTargets
         WITH Manifests <- RollManifests, First <- FirstPools, Offered <- OfferedRolls

Visits == INSTANCE Digest WITH Items <- Collectibles, MaxTime <- MaxVisitTime, row <- digest

Roles == INSTANCE Authority
         WITH Replicas <- RoleReplicas, Offered <- OfferedRoles, Patches <- FlagPatches

Wishes == INSTANCE Wishlist
          WITH Manifests <- ItemManifests, First <- FirstItems, Commands <- WishCommands,
               Patches <- WishPatches

Devices == INSTANCE Preferences
           WITH Patches <- PreferencePatches, MaxTime <- MaxPreferenceTime, row <- preferences

\* What players ask for has the types that the handlers' binding gives it, and a
\* parsed line has one of the parser's four kinds.
ASSUME InputAssumption ==
    /\ OfferedRolls \subseteq Rolls!Rolls /\ Edits \subseteq SUBSET Perks
    /\ Files \subseteq Seq([kind: {"roll", "comment", "unsupported", "malformed"},
                            roll: Rolls!Rolls])
    /\ OfferedRoles \subseteq Roles!Roles
    /\ \A patch \in FlagPatches : /\ DOMAIN patch \subseteq Roles!Fields
                                   /\ \A f \in DOMAIN patch : patch[f] \in Nat
    /\ \A patch \in PreferencePatches :
          "personalize" \in DOMAIN patch => patch.personalize \in BOOLEAN

\* A user is no field of a flag: the audit log tells them apart.
ASSUME UserAssumption == Users \cap Roles!Fields = {}

\* None is no row.
ASSUME RowAssumption == None \notin Visits!Row \cup Devices!Values

tokenVars == <<issued, valid, renewable, spent, grant, mem, userMu>>
rollVars == <<targets, gone>>
visitVars == <<owned, digest, first, reported>>
roleVars == <<role, flag, audit, lock, cached, hadAdmin>>
wishVars == <<entries, wrote>>
vars == <<part, call, faults, now, lastId, installed, disturbed, tokenVars, rollVars, visitVars,
          roleVars, wishVars, preferences>>

NoTokens == /\ issued = None /\ valid = None /\ renewable = None /\ spent = None
            /\ grant = None /\ mem = None /\ userMu = None
NoRolls == targets = None /\ gone = None
NoVisits == owned = None /\ digest = None /\ first = None /\ reported = None
NoRoles == role = None /\ flag = None /\ audit = None /\ lock = None /\ cached = None /\ hadAdmin = None
NoWishes == entries = None /\ wrote = None
NoDevices == preferences = None
NoClock == now = None
NoRows == lastId = None /\ installed = None
NoHistory == disturbed = None

Init ==
    \/ /\ part = "tokens" /\ Tokens!Init
       /\ NoClock /\ NoRows /\ NoRolls /\ NoVisits /\ NoRoles /\ NoWishes /\ NoDevices
    \/ /\ part = "rolls" /\ Rolls!Init
       /\ NoHistory /\ NoClock /\ NoTokens /\ NoVisits /\ NoRoles /\ NoWishes /\ NoDevices
    \/ /\ part = "visits" /\ Visits!Init
       /\ NoRows /\ NoTokens /\ NoRolls /\ NoRoles /\ NoWishes /\ NoDevices
    \/ /\ part = "roles" /\ Roles!Init
       /\ NoHistory /\ NoClock /\ NoRows /\ NoTokens /\ NoRolls /\ NoVisits /\ NoWishes /\ NoDevices
    \/ /\ part = "wishes" /\ Wishes!Init
       /\ NoHistory /\ NoClock /\ NoTokens /\ NoRolls /\ NoVisits /\ NoRoles /\ NoDevices
    \/ /\ part = "devices" /\ Devices!Init
       /\ NoHistory /\ NoRows /\ NoTokens /\ NoRolls /\ NoVisits /\ NoRoles /\ NoWishes

Next ==
    \/ /\ part = "tokens" /\ Tokens!Next
       /\ UNCHANGED <<part, now, lastId, installed, rollVars, visitVars, roleVars, wishVars, preferences>>
    \/ /\ part = "rolls" /\ Rolls!Next
       /\ UNCHANGED <<part, now, disturbed, tokenVars, visitVars, roleVars, wishVars, preferences>>
    \/ /\ part = "visits" /\ Visits!Next
       /\ UNCHANGED <<part, lastId, installed, tokenVars, rollVars, roleVars, wishVars, preferences>>
    \/ /\ part = "roles" /\ Roles!Next
       /\ UNCHANGED <<part, now, disturbed, lastId, installed, tokenVars, rollVars, visitVars, wishVars,
                      preferences>>
    \/ /\ part = "wishes" /\ Wishes!Next
       /\ UNCHANGED <<part, now, disturbed, tokenVars, rollVars, visitVars, roleVars, preferences>>
    \/ /\ part = "devices" /\ Devices!Next
       /\ UNCHANGED <<part, disturbed, lastId, installed, tokenVars, rollVars, visitVars, roleVars, wishVars>>

Spec == Init /\ [][Next]_vars

\* Every store's rows, and every caller's request, have their types.
TypeOK ==
    /\ part = "tokens" => Tokens!TypeOK
    /\ part = "rolls" => Rolls!TypeOK
    /\ part = "visits" => Visits!TypeOK
    /\ part = "roles" => Roles!TypeOK
    /\ part = "wishes" => Wishes!TypeOK
    /\ part = "devices" => Devices!TypeOK

\* The player stays connected to Bungie while tokens are refreshed.
ConnectionKept == part = "tokens" => Tokens!ConnectionKept

\* A refresh does not put older tokens over newer ones.
RefreshNeverStepsBack == Tokens!RefreshNeverStepsBack

\* A saved roll target can match: one manifest lets its weapon roll its perks.
TargetsCanMatch == part = "rolls" => Rolls!TargetsCanMatch

\* What an import reports as saved is saved.
ReportsHold == part = "rolls" => Rolls!ReportsHold

\* What the player acquires is told of by one visit.
AcquiredToldOnce == part = "visits" => Visits!AcquiredToldOnce

\* The last administrator cannot be demoted.
AdminRemains == part = "roles" => Roles!AdminRemains

\* The audit log tells how roles and flags became what they are.
AuditTells == part = "roles" => Roles!AuditTells

\* A wish list request that is refused has written nothing.
RefusalWritesNothing == part = "wishes" => Wishes!RefusalWritesNothing

\* Preference patches change the fields they name, and no others.
PatchesMerge == Devices!PatchesMerge

=============================================================================
