-------------------------------- MODULE Views --------------------------------
(***************************************************************************)
(* What the services that read Bungie and the manifest show: item facts, a *)
(* player's records, characters, efficiency, This Week, what the vendors   *)
(* sell, record pages and owned rolls.  A behaviour works in one of them   *)
(* ("part"); they share no state but the manifest's file, and each         *)
(* download is followed by one.                                            *)
(***************************************************************************)
EXTENDS Naturals, Sequences, FiniteSets

CONSTANTS Callers, None,
          ItemVersions, Hashes, MaxEntries, MaxItemInstalls,    \* ItemsCache
          Flights, Members, Credentials, MaxFetches,            \* RecordsFlights
          Guardians,                                            \* Characters
          MaxIndexInstalls,                                     \* EfficiencyEngine
          Named, Unnamed, Failed,                               \* Weekly,
          FirstTicks, Floor, Day, MaxTicks, MaxBuild,           \* VendorStock
          Nodes, TriumphRecords, Catalysts, Redeemed, Root,     \* Records
          SealRoots, Children(_, _), Listed(_, _),
          Weapons, Copies, Targets, Pool(_, _),                 \* OwnedRolls
          MaxRefreshes, MaxInstalls, MaxFaults                  \* bounds, in every part

\* What is told apart from None.
ASSUME NoneAssumption ==
    /\ None \notin ItemVersions \cup Nat \cup Flights
    /\ None \notin [fetched: Nat, expired: BOOLEAN] \cup [fetched: Nat, ids: SUBSET Guardians]

\* There is a player.
ASSUME PlayerAssumption == Members # {}

\* The clock counts whole ticks from a weekly reset; five minutes and a day have some.
ASSUME WeekAssumption ==
    /\ FirstTicks \subseteq Nat /\ Floor \in Nat \ {0} /\ Day \in Nat \ {0}
    /\ MaxBuild \in Nat

\* There are so many items, and a cache holds so many entries.
ASSUME ItemsAssumption == IsFiniteSet(Hashes) /\ MaxEntries \in Nat

\* Bounds are numbers.
ASSUME BoundAssumption ==
    /\ MaxInstalls \in Nat /\ MaxItemInstalls \in Nat /\ MaxIndexInstalls \in Nat
    /\ MaxRefreshes \in Nat /\ MaxFaults \in Nat /\ MaxTicks \in Nat

\* The copies are in order, each of a weapon.
ASSUME CopiesAssumption ==
    /\ Len(Copies) \in Nat /\ DOMAIN Copies = 1 .. Len(Copies)
    /\ \A i \in DOMAIN Copies : Copies[i].item \in Weapons

\* The roots, and what is under a node, are nodes, those of seals in order.
ASSUME NodesAssumption ==
    /\ Root \in Nodes /\ SealRoots \in Seq(Nodes)
    /\ \A v \in 0 .. MaxInstalls : \A node \in Nodes : Children(v, node) \in Seq(Nodes)

VARIABLES part, file, version, swap, faults, call,
          installed, installs, announcing, fence, facts, perks, caller,
          cache, refresh, registry, flight, fetches,
          index, building, builder,
          clock, ticks, payload, vendors, live, rows,
          roster, guardians,
          request, reading

Items == INSTANCE ItemsCache
         WITH Versions <- ItemVersions, NoVersion <- None, MaxInstalls <- MaxItemInstalls

Profiles == INSTANCE RecordsFlights

Rosters == INSTANCE Characters

Engine == INSTANCE EfficiencyEngine WITH Builders <- Callers, MaxInstalls <- MaxIndexInstalls

Week == INSTANCE Weekly WITH Starts <- FirstTicks

Stock == INSTANCE VendorStock WITH Starts <- FirstTicks

Pages == INSTANCE Records WITH Records <- TriumphRecords

Arms == INSTANCE OwnedRolls

\* None is no entry of the caches.
ASSUME PayloadAssumption == None \notin Week!Payload \cup Stock!Answer \cup Stock!Rows

manifestVars == <<file, version, swap, faults>>
itemVars == <<installed, installs, announcing, facts, perks, caller>>
flightVars == <<cache, registry, flight, fetches>>
profileVars == <<refresh, flightVars>>
rosterVars == <<roster, guardians>>
engineVars == <<index, building, builder>>
clockVars == <<clock, ticks>>
stockVars == <<vendors, live, rows>>
vars == <<part, manifestVars, call, fence, itemVars, profileVars, rosterVars, engineVars,
          clockVars, payload, stockVars, request, reading>>

NoFile == file = None /\ version = None /\ swap = None /\ faults = None
NoCall == call = None
NoFence == fence = None
NoItems == /\ installed = None /\ installs = None /\ announcing = None
           /\ facts = None /\ perks = None /\ caller = None
NoFlights == cache = None /\ registry = None /\ flight = None /\ fetches = None
NoProfiles == refresh = None /\ NoFlights
NoRosters == roster = None /\ guardians = None
NoEngine == index = None /\ building = None /\ builder = None
NoClock == clock = None /\ ticks = None
NoPayload == payload = None
NoStock == vendors = None /\ live = None /\ rows = None
NoWeek == NoClock /\ NoPayload /\ NoStock
NoPages == request = None
NoArms == reading = None

Init ==
    \/ /\ part = "items" /\ Items!Init
       /\ NoFile /\ NoCall /\ NoProfiles /\ NoEngine /\ NoRosters /\ NoWeek /\ NoPages /\ NoArms
    \/ /\ part = "profiles" /\ Profiles!Init
       /\ NoFile /\ NoFence /\ NoItems /\ NoEngine /\ NoRosters /\ NoWeek /\ NoPages /\ NoArms
    \/ /\ part = "rosters" /\ Rosters!Init
       /\ NoFence /\ NoItems /\ NoFlights /\ NoEngine /\ NoWeek /\ NoPages /\ NoArms
    \/ /\ part = "engine" /\ Engine!Init
       /\ NoCall /\ NoItems /\ NoProfiles /\ NoRosters /\ NoWeek /\ NoPages /\ NoArms
    \/ /\ part = "week" /\ Week!Init
       /\ NoRosters /\ NoFence /\ NoItems /\ NoProfiles /\ NoEngine /\ NoStock /\ NoPages /\ NoArms
    \/ /\ part = "stock" /\ Stock!Init
       /\ NoRosters /\ NoFence /\ NoItems /\ NoProfiles /\ NoEngine /\ NoPayload
       /\ NoPages /\ NoArms
    \/ /\ part = "pages" /\ Pages!Init
       /\ NoCall /\ NoFence /\ NoItems /\ NoProfiles /\ NoEngine /\ NoRosters /\ NoWeek /\ NoArms
    \/ /\ part = "arms" /\ Arms!Init
       /\ NoCall /\ NoFence /\ NoItems /\ NoProfiles /\ NoEngine /\ NoRosters /\ NoWeek /\ NoPages

Next ==
    \/ /\ part = "items" /\ Items!Next
       /\ UNCHANGED <<part, manifestVars, call, profileVars, rosterVars, engineVars,
                    clockVars, payload, stockVars, request, reading>>
    \/ /\ part = "profiles" /\ Profiles!Next
       /\ UNCHANGED <<part, manifestVars, fence, itemVars, rosterVars, engineVars,
                    clockVars, payload, stockVars, request, reading>>
    \/ /\ part = "rosters" /\ Rosters!Next
       /\ UNCHANGED <<part, fence, itemVars, flightVars, engineVars,
                    clockVars, payload, stockVars, request, reading>>
    \/ /\ part = "engine" /\ Engine!Next
       /\ UNCHANGED <<part, call, itemVars, profileVars, rosterVars,
                    clockVars, payload, stockVars, request, reading>>
    \/ /\ part = "week" /\ Week!Next
       /\ UNCHANGED <<part, fence, itemVars, profileVars, rosterVars, engineVars, stockVars, request, reading>>
    \/ /\ part = "stock" /\ Stock!Next
       /\ UNCHANGED <<part, fence, itemVars, profileVars, rosterVars, engineVars, payload, request, reading>>
    \/ /\ part = "pages" /\ Pages!Next
       /\ UNCHANGED <<part, call, fence, itemVars, profileVars, rosterVars, engineVars,
                    clockVars, payload, stockVars, reading>>
    \/ /\ part = "arms" /\ Arms!Next
       /\ UNCHANGED <<part, call, fence, itemVars, profileVars, rosterVars, engineVars,
                    clockVars, payload, stockVars, request>>

Spec == Init /\ [][Next]_vars

\* The state of every service has its types.
TypeOK ==
    /\ part = "items" => Items!TypeOK
    /\ part = "profiles" => Profiles!TypeOK
    /\ part = "rosters" => Rosters!TypeOK
    /\ part = "engine" => Engine!TypeOK
    /\ part = "week" => Week!TypeOK
    /\ part = "stock" => Stock!TypeOK
    /\ part = "pages" => Pages!TypeOK
    /\ part = "arms" => Arms!TypeOK

\* Once a manifest is announced, every cached fact of an item is of it.
FactsFreshWhenSettled == part = "items" => Items!FactsFreshWhenSettled

\* What Records and Characters fetched before a refresh is not shown after it.
RefreshStays ==
    /\ part = "profiles" => Profiles!RefreshStays
    /\ part = "rosters" => Rosters!RosterSinceRefresh

\* A Get that found an expired entry does not take the one that replaced it.
FreshEntryKept == Profiles!FreshEntryKept

\* The index that bears the installed version is of that version.
IndexNotMislabelled == part = "engine" => Engine!IndexNotMislabelled

\* This Week does not show for long what was fetched before the last event, nor
\* what the vendors sold before the last reset.
PayloadEndsAtEvent ==
    /\ part = "week" => Week!PayloadEndsAtEvent
    /\ part = "stock" => Stock!StockEndsAtEvent

\* A version's vendor rows were named by that version.
RowsNamedByTheirVersion == part = "stock" => Stock!RowsNamedByTheirVersion

\* The walk of the presentation nodes collects each at most once.
WalkCollectsOnce == part = "pages" => Pages!WalkCollectsOnce

\* A root of seals that cannot be read does not cost the other its seals.
OneRootFailsAlone == part = "pages" => Pages!OneRootFailsAlone

\* Copies that are alike match alike.
CopiesToldAlike == part = "arms" => Arms!CopiesToldAlike

\* What could not be fetched for This Week is soon asked for again.
EmptyWeekNotPinned == part = "week" => Week!EmptyWeekNotPinned

=============================================================================
