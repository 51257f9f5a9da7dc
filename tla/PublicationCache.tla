-------------------------- MODULE PublicationCache --------------------------
(***************************************************************************)
(* One owner of manifest-derived state: a generation fence, the cache it   *)
(* guards, and any number of goroutines running manifeststate.LoadIf (or   *)
(* the same sequence written out, as items.Catalog, items.Lookup and       *)
(* items.WeaponPerkNames do) while manifests are installed underneath.     *)
(*                                                                         *)
(* A value is the set of manifest versions it was read from: that is all   *)
(* that tells a fresh value from a stale one or from a mixture.  A load    *)
(* makes up to MaxReads repository calls, each atomic under the            *)
(* repository's lock, with no lock held in between.  An installation       *)
(* replaces the file first and tells the owner later (Download renames,    *)
(* reopens, then notifies), so readers run in the window.                  *)
(***************************************************************************)
EXTENDS ManifestState, FiniteSets

CONSTANTS Keys,         \* cache keys of this owner
          Loaders,      \* goroutines that may be inside LoadIf at once
          Downloads,    \* goroutines that may be inside Download at once
          NoKey,        \* the loader is not serving any key
          MaxReads,     \* bound: repository calls of one load
          MaxInstalls   \* bound: manifests installed in a run

ASSUME ConstantsAssumption ==
    /\ NoKey \notin Keys
    /\ MaxReads \in Nat
    /\ MaxInstalls \in Nat

VARIABLES installed,   \* version of the manifest file the repository reads
          installs,    \* manifests installed so far
          announcing,  \* per download, the version installed but not announced
          fence,       \* the owner's manifeststate.Publication
          cache,       \* the guarded cache
          loader,      \* the goroutines inside LoadIf
          seen         \* history: versions installed since the fence last moved

vars == <<installed, installs, announcing, fence, cache, loader, seen>>

\* No value: a stored value was read from one version at least.
Absent == {}

Idle == [pc |-> "idle", key |-> NoKey, attempt |-> InertAttempt,
         value |-> Absent, calls |-> 0]

LoaderState == [pc: {"idle", "begun", "loading"}, key: Keys \cup {NoKey},
                attempt: Nat, value: SUBSET Versions, calls: Nat]

TypeOK ==
    /\ installed \in Versions
    /\ installs \in 0 .. MaxInstalls
    /\ announcing \in [Downloads -> Versions \cup {NoVersion}]
    /\ fence \in Fence
    /\ cache \in [Keys -> SUBSET Versions]
    /\ loader \in [Loaders -> LoaderState]
    /\ seen \in SUBSET Versions

EmptyCache == [k \in Keys |-> Absent]

Init ==
    /\ installed \in Versions
    /\ installs = 0
    /\ announcing = [d \in Downloads |-> NoVersion]
    /\ fence = NewFence
    /\ cache = EmptyCache
    /\ loader = [w \in Loaders |-> Idle]
    /\ seen = {installed}

-----------------------------------------------------------------------------
(* A download: the rename, then the observer call. *)

Install(d, v) ==
    /\ announcing[d] = NoVersion
    /\ installs < MaxInstalls
    /\ installs' = installs + 1
    /\ installed' = v
    /\ announcing' = [announcing EXCEPT ![d] = v]
    /\ seen' = seen \cup {v}
    /\ UNCHANGED <<fence, cache, loader>>

\* Bug: the generation moves, but the invalidation is left to a later step.
AdvanceWithoutClear(d) ==
    /\ announcing[d] # NoVersion
    /\ announcing' = [announcing EXCEPT ![d] = NoVersion]
    /\ fence' = Advanced(fence, announcing[d])
    /\ IF Retires(fence, announcing[d]) THEN seen' = {installed} ELSE UNCHANGED seen
    /\ UNCHANGED <<installed, installs, cache, loader>>

\* OnVersionChanged: Advance moves the generation and runs the owner's
\* invalidation inside one critical section, or does neither.
Advance(d) ==
    /\ announcing[d] # NoVersion
    /\ announcing' = [announcing EXCEPT ![d] = NoVersion]
    /\ fence' = Advanced(fence, announcing[d])
    /\ IF Retires(fence, announcing[d])
       THEN cache' = EmptyCache /\ seen' = {installed}
       ELSE UNCHANGED <<cache, seen>>
    /\ UNCHANGED <<installed, installs, loader>>

-----------------------------------------------------------------------------
(* LoadIf, one critical section at a time. *)

BeginLoad(w, k) ==
    /\ loader[w].pc = "idle"
    /\ loader' = [loader EXCEPT ![w] =
                    [Idle EXCEPT !.pc = "begun", !.key = k, !.attempt = Begin(fence)]]
    /\ UNCHANGED <<installed, installs, announcing, fence, cache, seen>>

\* A hit is returned whatever generation it was cached under.
Hit(w) ==
    /\ loader[w].pc = "begun"
    /\ cache[loader[w].key] # Absent
    /\ loader' = [loader EXCEPT ![w] = Idle]
    /\ UNCHANGED <<installed, installs, announcing, fence, cache, seen>>

Miss(w) ==
    /\ loader[w].pc = "begun"
    /\ cache[loader[w].key] = Absent
    /\ loader' = [loader EXCEPT ![w].pc = "loading"]
    /\ UNCHANGED <<installed, installs, announcing, fence, cache, seen>>

\* One repository call of load().
Read(w) ==
    /\ loader[w].pc = "loading"
    /\ loader[w].calls < MaxReads
    /\ loader' = [loader EXCEPT ![w].value = @ \cup {installed},
                                ![w].calls = @ + 1]
    /\ UNCHANGED <<installed, installs, announcing, fence, cache, seen>>

\* load() returns an error, or storeIf declines the value: nothing is cached.
Discard(w) ==
    /\ loader[w].pc = "loading"
    /\ loader' = [loader EXCEPT ![w] = Idle]
    /\ UNCHANGED <<installed, installs, announcing, fence, cache, seen>>

\* Attempt.Publish runs the commit only under the generation it began in; the
\* value is returned to the caller either way.
Publish(w) ==
    /\ loader[w].pc = "loading"
    /\ loader[w].value # Absent
    /\ cache' = IF IsCurrent(fence, loader[w].attempt)
                THEN [cache EXCEPT ![loader[w].key] = loader[w].value]
                ELSE cache
    /\ loader' = [loader EXCEPT ![w] = Idle]
    /\ UNCHANGED <<installed, installs, announcing, fence, seen>>

-----------------------------------------------------------------------------
(* The cache loses entries on its own: by TTL, or evicted at capacity. *)

Expire(k) ==
    /\ cache[k] # Absent
    /\ cache' = [cache EXCEPT ![k] = Absent]
    /\ UNCHANGED <<installed, installs, announcing, fence, loader, seen>>

\* InvalidateCache without a new manifest: the generation stays.
ClearWithoutAdvance ==
    /\ cache' = EmptyCache
    /\ UNCHANGED <<installed, installs, announcing, fence, loader, seen>>

Next ==
    \/ \E d \in Downloads : Advance(d) \/ \E v \in Versions : Install(d, v)
    \/ \E w \in Loaders :
          \/ \E k \in Keys : BeginLoad(w, k)
          \/ Hit(w) \/ Miss(w) \/ Read(w) \/ Discard(w) \/ Publish(w)
    \/ \E k \in Keys : Expire(k)
    \/ ClearWithoutAdvance

Spec == Init /\ [][Next]_vars

-----------------------------------------------------------------------------
(* Properties. *)

\* The cache behaves as a store that retires everything old in one step and
\* lets nothing old back in, however long a load started earlier keeps running.
Fenced == INSTANCE FencedStore WITH eligible <- seen, store <- cache

FencedSpec == Fenced!Spec

\* With one download at a time, once every installation has been announced,
\* whatever the cache holds was read from the manifest that is installed: no
\* load that straddled a swap left an entry behind, and no swap forgot one.
FreshWhenSettled ==
    (\A d \in Downloads : announcing[d] = NoVersion) =>
        \A k \in Keys : cache[k] \in {Absent, {installed}}

\* The inductive strengthening behind the refinement: the current generation
\* has only ever read versions installed since it began.
CurrentReadsSeen ==
    /\ installed \in seen
    /\ \A k \in Keys : cache[k] \subseteq seen
    /\ \A w \in Loaders :
          /\ loader[w].attempt <= fence.generation
          /\ loader[w].pc # "idle" =>
                /\ loader[w].key \in Keys
                /\ loader[w].attempt # InertAttempt
                /\ loader[w].attempt = fence.generation => loader[w].value \subseteq seen

\* The strengthening behind FreshWhenSettled for a download d that runs alone:
\* what is unannounced is what is installed, and announcing it retires all else.
SerialSettles(d) ==
    /\ announcing[d] = NoVersion =>
          /\ seen = {installed}
          /\ fence.version \in {NoVersion, installed}
    /\ announcing[d] # NoVersion =>
          /\ announcing[d] = installed
          /\ announcing[d] = fence.version => seen = {installed}

=============================================================================
