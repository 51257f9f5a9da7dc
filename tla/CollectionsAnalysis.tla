------------------------ MODULE CollectionsAnalysis ------------------------
(***************************************************************************)
(* Collections' membership analysis: what a player owns, read from Bungie, *)
(* joined with the item catalog and the presentation tree, both read from  *)
(* the manifest.  Concurrent callers share one load (a flight) per         *)
(* membership, generations and credential; manifests are swapped and       *)
(* memberships refreshed underneath; callers leave, loads time out.        *)
(*                                                                         *)
(* The module composes Collections' manifest fence (ManifestState), its    *)
(* refresh fence (MembershipState), the flights of flights.go, the Items   *)
(* catalog and the one serial Download that installs a manifest and then   *)
(* tells the observers in their registration order.  The Items catalog     *)
(* appears as what PublicationCache proves of it, a FencedStore: reading   *)
(* and filling it are one step, and hearing of a swap empties it.          *)
(*                                                                         *)
(* Manifest data is a version number: 0 is the file found at startup, n    *)
(* the n-th installed.  Profile data is the number of refreshes of its     *)
(* membership that preceded the read.                                      *)
(***************************************************************************)
EXTENDS MembershipState, FiniteSets

CONSTANTS Requests,      \* callers of getAnalysis
          Flights,       \* loads that may run at once
          Credentials,   \* fingerprints of access tokens
          None,          \* nil, or no caller
          MaxInstalls,   \* bound: manifests installed in a run
          MaxRefreshes   \* bound: refreshes of one membership in a run

Versions == 1 .. MaxInstalls
NoVersion == 0

INSTANCE ManifestState

ASSUME CollectionsAssumption ==
    /\ MaxInstalls \in Nat
    /\ MaxRefreshes \in Nat
    /\ None \notin Requests \cup Flights

VARIABLES
    installed,      \* the version in the manifest file
    swap,           \* "idle", "closed" for the rename, or the observer to tell next
    itemsCatalog,   \* items.Service.catalog: a version, or None
    fence,          \* MembershipAnalysis.publication
    refresh,        \* MembershipAnalysis.refresh
    refreshes,      \* history: refreshes asked for, per membership
    tree,           \* MembershipAnalysis.treeStruct, or None
    cache,          \* per membership, the cached *analysis, or None
    registry,       \* MembershipAnalysis.flights: the flights found by key
    flight,         \* per flight, its fields and its goroutine's locals
    request         \* per caller, where it is

manifestVars   == <<installed, swap>>
generationVars == <<fence, refresh, refreshes>>
vars == <<manifestVars, itemsCatalog, generationVars, tree, cache, registry,
          flight, request>>

FileVersion == 0 .. MaxInstalls

Tree == [nodes: FileVersion, catalog: FileVersion]

Analysis == [fetched: 0 .. MaxRefreshes, catalog: FileVersion, tree: Tree,
             builtUnder: Nat]

FlightKey == [member: Members, credential: Credentials, manifest: Nat, refresh: Nat]

\* The order main.go registers the observers in: Items before Collections.
\* Bug: the reverse.
ObserversReversed == <<"collections", "items">>
Observers == <<"items", "collections">>

-----------------------------------------------------------------------------
(* Requests and flights. *)

\* No call in progress.
NoRequest == [pc |-> "idle", key |-> None, flight |-> None]

\* A slot no goroutine and no waiting caller refers to.
FreeFlight == [pc |-> "free", key |-> None, waiters |-> 0, ctx |-> "live",
               base |-> None, fetched |-> None,
               catalog |-> None, tree |-> None, result |-> None]

\* The flight a caller starts counts that caller.
NewFlight(key) == [FreeFlight EXCEPT !.pc = "recheck", !.key = key, !.waiters = 1]

Finished(f) == flight[f].pc = "exited"

Waiting(f) == {r \in Requests : request[r].flight = f}

StillLive(f) == flight[f].ctx = "live"

\* ifActive: someone still wants this very flight and its context is live.
\* Bug: the flight's own deadline is not looked at.
ActiveDespiteDeadline(f) == f \in registry /\ flight[f].waiters > 0
Active(f) ==
    /\ f \in registry
    /\ flight[f].waiters > 0
    /\ StillLive(f)

\* An exited flight is garbage once nobody waits on it.
Collected(fl, rq) ==
    [f \in Flights |->
        IF fl[f].pc = "exited" /\ \A r \in Requests : rq[r].flight # f
        THEN FreeFlight ELSE fl[f]]

TypeOK ==
    /\ installed \in FileVersion
    /\ swap \in {"idle", "closed", "items", "collections"}
    /\ fence \in Fence
    /\ itemsCatalog \in FileVersion \cup {None}
    /\ refresh \in RefreshFence
    /\ refreshes \in [Members -> 0 .. MaxRefreshes]
    /\ tree \in Tree \cup {None}
    /\ cache \in [Members -> Analysis \cup {None}]
    /\ registry \in SUBSET Flights
    /\ \A f \in Flights :
          /\ flight[f].pc \in {"free", "recheck", "profile", "catalog", "tree",
                               "nodes", "storeTree", "publish", "finish", "exited"}
          /\ flight[f].key \in FlightKey \cup {None}
          /\ flight[f].waiters \in 0 .. Cardinality(Requests)
          /\ flight[f].ctx \in {"live", "cancelled", "deadline"}
          /\ flight[f].result \in Analysis \cup {None}
    /\ \A r \in Requests :
          /\ request[r].pc \in {"idle", "asked", "waiting"}
          /\ request[r].key \in FlightKey \cup {None}
          /\ request[r].flight \in Flights \cup {None}

Init ==
    /\ installed = 0
    /\ swap = "idle"
    /\ itemsCatalog = None
    /\ fence = NewFence
    /\ refresh = NewRefreshFence
    /\ refreshes = [m \in Members |-> 0]
    /\ tree = None
    /\ cache = [m \in Members |-> None]
    /\ registry = {}
    /\ flight = [f \in Flights |-> FreeFlight]
    /\ request = [r \in Requests |-> NoRequest]

-----------------------------------------------------------------------------
(* The one running Download, from closing the readers to the last observer. *)

CloseForSwap ==
    /\ swap = "idle"
    /\ installed < MaxInstalls
    /\ swap' = "closed"
    /\ UNCHANGED <<installed, itemsCatalog, generationVars, tree, cache, registry,
                   flight, request>>

\* The rename fails: the readers reopen the old file, nobody is told.
RollBack ==
    /\ swap = "closed"
    /\ swap' = "idle"
    /\ UNCHANGED <<installed, itemsCatalog, generationVars, tree, cache, registry,
                   flight, request>>

\* Rename, then reopen: from here on reads see the new file.
InstallAndReopen ==
    /\ swap = "closed"
    /\ installed' = installed + 1
    /\ swap' = Observers[1]
    /\ UNCHANGED <<itemsCatalog, generationVars, tree, cache, registry, flight, request>>

Told(observer) ==
    /\ swap = observer
    /\ swap' = IF observer = Observers[1] THEN Observers[2] ELSE "idle"

\* items.OnVersionChanged; clearAll drops the catalog.
TellItems ==
    /\ Told("items")
    /\ itemsCatalog' = None
    /\ UNCHANGED <<installed, generationVars, tree, cache, registry, flight, request>>

\* collections.OnVersionChanged; dropTree keeps the cached analyses.
TellCollections ==
    /\ Told("collections")
    /\ fence' = Advanced(fence, installed)
    /\ tree' = IF Retires(fence, installed) THEN None ELSE tree
    /\ UNCHANGED <<installed, itemsCatalog, refresh, refreshes, cache, registry, flight,
                   request>>

-----------------------------------------------------------------------------
(* Refreshing a membership, and the cache's TTL. *)

\* InvalidateCache: the generation moves and the entry goes, in one step.
Invalidate(m) ==
    /\ refreshes[m] < MaxRefreshes
    /\ refreshes' = [refreshes EXCEPT ![m] = @ + 1]
    /\ refresh' = Refreshed(refresh, m)
    /\ cache' = [cache EXCEPT ![m] = None]
    /\ UNCHANGED <<manifestVars, itemsCatalog, fence, tree, registry, flight, request>>

Expire(m) ==
    /\ cache[m] # None
    /\ cache' = [cache EXCEPT ![m] = None]
    /\ UNCHANGED <<manifestVars, itemsCatalog, generationVars, tree, registry, flight,
                   request>>

-----------------------------------------------------------------------------
(* Callers: getAnalysis and sharedAnalysis. *)

\* Both generations are captured, in one step here, before the cache is read.
Ask(r, m, c) ==
    /\ request[r].pc = "idle"
    /\ request' = [request EXCEPT ![r] =
         [NoRequest EXCEPT !.pc = "asked",
                           !.key = [member |-> m, credential |-> c,
                                    manifest |-> Begin(fence),
                                    refresh |-> BeginRefresh(refresh, m)]]]
    /\ UNCHANGED <<manifestVars, itemsCatalog, generationVars, tree, cache, registry, flight>>

\* Then the cache is read: an entry of the captured generation is the answer.
\* A caller that missed may find it there by the time it joins a load.
Hit(r) ==
    /\ request[r].pc = "asked"
    /\ cache[request[r].key.member] # None
    /\ cache[request[r].key.member].builtUnder = request[r].key.manifest
    /\ request' = [request EXCEPT ![r] = NoRequest]
    /\ UNCHANGED <<manifestVars, itemsCatalog, generationVars, tree, cache, registry, flight>>

\* When two keys name the same load.
\* Bugs: callers share whatever load is running for their membership, or
\* whatever began since its last refresh.
SameMember(k1, k2) == k1.member = k2.member
SameButManifest(k1, k2) == [k1 EXCEPT !.manifest = k2.manifest] = k2
SameLoad(k1, k2) == k1 = k2

\* A registered flight with this key is joined while its context is live;
\* otherwise a new one takes its place in the registry and starts.
Join(r) ==
    /\ request[r].pc = "asked"
    /\ LET same == {f \in registry : SameLoad(flight[f].key, request[r].key)}
           joinable == {f \in same : StillLive(f)}
       IN IF joinable # {}
          THEN \E f \in joinable :
                 /\ flight' = [flight EXCEPT ![f].waiters = @ + 1]
                 /\ request' = [request EXCEPT ![r].pc = "waiting", ![r].flight = f]
                 /\ UNCHANGED registry
          ELSE \E f \in Flights :
                 /\ flight[f].pc = "free"
                 /\ flight' = [flight EXCEPT ![f] = NewFlight(request[r].key)]
                 /\ request' = [request EXCEPT ![r].pc = "waiting", ![r].flight = f]
                 /\ registry' = (registry \ same) \cup {f}
    /\ UNCHANGED <<manifestVars, itemsCatalog, generationVars, tree, cache>>

\* The caller's own context ends before it has joined.
GiveUp(r) ==
    /\ request[r].pc = "asked"
    /\ request' = [request EXCEPT ![r] = NoRequest]
    /\ UNCHANGED <<manifestVars, itemsCatalog, generationVars, tree, cache, registry, flight>>

\* A finished flight answers its callers, with its result or its error.
Answered(r) ==
    /\ request[r].pc = "waiting"
    /\ Finished(request[r].flight)
    /\ flight' = Collected(flight, [request EXCEPT ![r] = NoRequest])
    /\ request' = [request EXCEPT ![r] = NoRequest]
    /\ UNCHANGED <<manifestVars, itemsCatalog, generationVars, tree, cache, registry>>

\* Whether this departure ends the load.
\* Bug: any departing caller ends it for those who still wait.
EndsAlways(f) == TRUE
Ends(f) == flight[f].waiters = 1

\* Bug: the entry goes although others wait on it.
UnregisteredAlways(f) == registry \ {f}
RegistryAfter(f) == IF Ends(f) THEN registry \ {f} ELSE registry

\* A caller leaves an unfinished flight; the last one out unregisters and
\* cancels it.
Depart(r) ==
    LET f == request[r].flight
    IN /\ request[r].pc = "waiting"
       /\ ~Finished(f)
       /\ flight' = [flight EXCEPT ![f].waiters = @ - 1,
                                   ![f].ctx = IF Ends(f) /\ @ = "live" THEN "cancelled" ELSE @]
       /\ registry' = RegistryAfter(f)
       /\ request' = [request EXCEPT ![r] = NoRequest]
       /\ UNCHANGED <<manifestVars, itemsCatalog, generationVars, tree, cache>>

\* Its own context ends: at any time, and never because another caller's did.
Cancel(r) == Depart(r)

\* Or the select sees the flight's context end.
\* Bug: the select waits for completion and for the caller's context only.
TimeOutUnheard(r) == FALSE
TimeOut(r) ==
    /\ request[r].pc = "waiting"
    /\ ~StillLive(request[r].flight)
    /\ Depart(r)

\* analysisLoadTimeout runs out.
Deadline(f) ==
    /\ flight[f].pc \notin {"free", "exited"}
    /\ flight[f].ctx = "live"
    /\ flight' = [flight EXCEPT ![f].ctx = "deadline"]
    /\ UNCHANGED <<manifestVars, itemsCatalog, generationVars, tree, cache, registry, request>>

-----------------------------------------------------------------------------
(* The flight's goroutine: loadAnalysis, step by step between the locks.  It *)
(* runs on after its callers have left: the manifest reads take no context.  *)

\* The flight moves on, changing only its own locals.
Continue(f, locals) ==
    /\ flight' = [flight EXCEPT ![f] = locals]
    /\ UNCHANGED <<manifestVars, itemsCatalog, generationVars, registry, request>>

\* loadAnalysis returns; only what it returns matters from here on.
Ended(f, result) ==
    [FreeFlight EXCEPT !.pc = "finish", !.key = flight[f].key, !.ctx = flight[f].ctx,
                       !.waiters = flight[f].waiters, !.result = result]

\* The cache is read again, in case another flight has filled it.
RecheckCache(f) ==
    LET a == cache[flight[f].key.member]
    IN /\ flight[f].pc = "recheck"
       /\ Continue(f, IF a = None THEN [flight[f] EXCEPT !.pc = "profile"]
                      ELSE IF a.builtUnder = flight[f].key.manifest
                      THEN Ended(f, a)
                      ELSE [flight[f] EXCEPT !.pc = "catalog", !.base = a,
                                             !.fetched = a.fetched])
       /\ UNCHANGED <<tree, cache>>

\* GetProfile: one Bungie call, seeing every refresh made so far.
ReadProfile(f) ==
    /\ flight[f].pc = "profile"
    /\ Continue(f, [flight[f] EXCEPT !.pc = "catalog",
                                     !.fetched = refreshes[flight[f].key.member]])
    /\ UNCHANGED <<tree, cache>>

\* EnsureReady, GetProfile or a manifest query fails.
LoadFails(f) ==
    /\ flight[f].pc \in {"profile", "catalog", "nodes"}
    /\ Continue(f, Ended(f, None))
    /\ UNCHANGED <<tree, cache>>

\* items.Catalog: the cached catalog, or the one in the manifest file, which
\* a load that no swap overtakes leaves in the cache.
LookUpCatalog(f) ==
    LET catalog == IF itemsCatalog # None THEN itemsCatalog ELSE installed
    IN /\ flight[f].pc = "catalog"
       /\ itemsCatalog # None \/ swap # "closed"
       /\ flight' = [flight EXCEPT ![f].pc = "tree", ![f].catalog = catalog]
       /\ itemsCatalog' \in {itemsCatalog, catalog}
       /\ UNCHANGED <<manifestVars, generationVars, tree, cache, registry, request>>

\* The catalog or the nodes are queried between CloseForSwap and Reopen, and
\* the answer is ErrNotReady.  A rebuild then serves the analysis it started
\* from, and so keeps its base to the end; a cold load fails.
NotReady(f) ==
    /\ swap = "closed"
    /\ flight[f].pc = "nodes" \/ (flight[f].pc = "catalog" /\ itemsCatalog = None)
    /\ Continue(f, [Ended(f, flight[f].base) EXCEPT !.base = flight[f].base])
    /\ UNCHANGED <<tree, cache>>

\* treeStructure: the shared tree if there is one, whatever it was built from.
LookUpTree(f) ==
    /\ flight[f].pc = "tree"
    /\ Continue(f, IF tree # None
                   THEN [flight[f] EXCEPT !.pc = "publish", !.base = None, !.tree = tree]
                   ELSE [flight[f] EXCEPT !.pc = "nodes"])
    /\ UNCHANGED <<tree, cache>>

ReadNodes(f) ==
    /\ flight[f].pc = "nodes"
    /\ swap # "closed"
    /\ Continue(f, [flight[f] EXCEPT !.pc = "storeTree", !.base = None,
                                     !.tree = [nodes |-> installed,
                                               catalog |-> flight[f].catalog]])
    /\ UNCHANGED <<tree, cache>>

PublishTree(f) ==
    /\ flight[f].pc = "storeTree"
    /\ Continue(f, [flight[f] EXCEPT !.pc = "publish"])
    /\ tree' = IF IsCurrent(fence, flight[f].key.manifest) /\ Active(f)
               THEN flight[f].tree ELSE tree
    /\ UNCHANGED cache

\* publishAnalysis.  Bug: the refresh fence is not consulted.
BelongsToSwap(key) == IsCurrent(fence, key.manifest)
Belongs(key) ==
    /\ IsCurrent(fence, key.manifest)
    /\ IsUnrefreshed(refresh, key.member, key.refresh)

Built(f) == [fetched |-> flight[f].fetched, catalog |-> flight[f].catalog,
             tree |-> flight[f].tree, builtUnder |-> flight[f].key.manifest]

PublishAnalysis(f) ==
    /\ flight[f].pc = "publish"
    /\ Continue(f, Ended(f, Built(f)))
    /\ cache' = IF Belongs(flight[f].key) /\ Active(f)
                THEN [cache EXCEPT ![flight[f].key.member] = Built(f)] ELSE cache
    /\ UNCHANGED tree

\* The flight finishes: a context that ended meanwhile discards the result.
Finish(f) ==
    LET done == [flight[f] EXCEPT !.pc = "exited", !.ctx = "cancelled", !.waiters = 0,
                                  !.result = IF StillLive(f) THEN @ ELSE None]
    IN /\ flight[f].pc = "finish"
       /\ flight' = Collected([flight EXCEPT ![f] = done], request)
       /\ registry' = registry \ {f}
       /\ UNCHANGED <<manifestVars, itemsCatalog, generationVars, tree, cache, request>>

Download == CloseForSwap \/ RollBack \/ InstallAndReopen \/ TellItems \/ TellCollections

Caller(r) ==
    \/ \E m \in Members, c \in Credentials : Ask(r, m, c)
    \/ Hit(r) \/ Join(r) \/ GiveUp(r) \/ Answered(r) \/ Cancel(r) \/ TimeOut(r)

Load(f) ==
    \/ RecheckCache(f) \/ ReadProfile(f) \/ LoadFails(f)
    \/ LookUpCatalog(f) \/ NotReady(f)
    \/ LookUpTree(f) \/ ReadNodes(f) \/ PublishTree(f)
    \/ PublishAnalysis(f) \/ Finish(f)

Next ==
    \/ Download
    \/ \E m \in Members : Invalidate(m) \/ Expire(m)
    \/ \E r \in Requests : Caller(r)
    \/ \E f \in Flights : Deadline(f) \/ Load(f)

Spec == Init /\ [][Next]_vars

\* The Go scheduler runs a caller whose select is ready, and timers fire.
\* Nothing is assumed of a load: it may hang in a manifest read for ever.
Fairness ==
    /\ \A r \in Requests : WF_vars(Answered(r) \/ TimeOut(r))
    /\ \A f \in Flights : WF_vars(Deadline(f))

FairSpec == Spec /\ Fairness

-----------------------------------------------------------------------------
(* Properties. *)

\* Caller r, unless its own context ends first, is about to be handed an analysis.
Served(r) ==
    /\ request[r].pc = "waiting"
    /\ Finished(request[r].flight)
    /\ flight[request[r].flight].result # None

Answer(r) == flight[request[r].flight].result

\* The answer is the analysis a rebuild started from and could not replace.
FellBack(r) == flight[request[r].flight].base # None

\* A refresh sticks: whatever the cache holds for a membership was fetched
\* after its last refresh, however slow the loads begun before it were
\* (InvalidateCache's promise, and ADR 0018's).
RefreshNotUndone ==
    \A m \in Members : cache[m] # None => cache[m].fetched >= refreshes[m]

\* The next read after a refresh returns fresh data: a caller that asks after
\* a membership's n-th refresh, and so captures generation n, is never answered
\* by a load that fetched before it, even though that load may be running and
\* is for the same player and token.
AnswersSinceRefresh ==
    \A r \in Requests : Served(r) => Answer(r).fetched >= request[r].key.refresh

\* A caller that asks after Collections has heard of a manifest is not given
\* labels from an older one, unless the rebuild met the next swap and fell
\* back on the previous analysis.  (The n-th manifest is announced in the step
\* that begins generation n + 1.)
AnswersSinceSwap ==
    \A r \in Requests :
        Served(r) /\ ~FellBack(r) =>
            LET told == request[r].key.manifest - 1
            IN /\ Answer(r).catalog >= told
               /\ Answer(r).tree.catalog >= told
               /\ Answer(r).tree.nodes >= told

\* Between downloads everything that would be served as current is: the shared
\* tree, and each analysis stamped with the current generation, join catalog
\* and presentation nodes of the installed manifest and of no other.
SettledIsCurrent ==
    swap = "idle" =>
        LET current == [nodes |-> installed, catalog |-> installed]
        IN /\ tree \in {None, current}
           /\ \A m \in Members :
                 cache[m] # None /\ cache[m].builtUnder = fence.generation =>
                     cache[m].catalog = installed /\ cache[m].tree = current

\* A caller leaving never takes the load from those still waiting: a flight is
\* cancelled only when it has finished or nobody is left.
CancelIsPrivate ==
    \A f \in Flights :
        flight[f].ctx = "cancelled" /\ ~Finished(f) => Waiting(f) = {}

\* Completed, failed and abandoned loads leave the in-flight registry, and no
\* other does: callers with the same key share one load, so that two live loads
\* that somebody is waiting on never have the same key.
RegistryHoldsRunningLoads ==
    /\ \A f \in registry :
          /\ flight[f].pc \notin {"free", "exited"}
          /\ flight[f].ctx # "cancelled"
          /\ Waiting(f) # {}
    /\ \A f, g \in Flights :
          /\ f # g /\ flight[f].key = flight[g].key
          /\ ~Finished(f) /\ ~Finished(g)
          /\ Waiting(f) # {} /\ Waiting(g) # {}
          => ~(StillLive(f) /\ StillLive(g))

\* Abandoned or timed-out loads leave nothing behind: the cache and the tree
\* are only ever filled by a live load that a caller is waiting on.
NoLatePublication ==
    [][\/ /\ tree' \in {tree, None}
          /\ \A m \in Members : cache'[m] \in {cache[m], None}
       \/ \E f \in Flights :
             /\ flight[f].pc \in {"storeTree", "publish"} /\ flight'[f].pc # flight[f].pc
             /\ StillLive(f) /\ Waiting(f) # {}]_vars

\* A caller of a shared load is always released, even by a load that hangs.
CallersReleased ==
    \A r \in Requests : request[r].pc = "waiting" ~> request[r].pc # "waiting"

=============================================================================
