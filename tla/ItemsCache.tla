----------------------------- MODULE ItemsCache -----------------------------
(***************************************************************************)
(* The two ways items.Service caches per-item manifest projections while   *)
(* manifests are swapped underneath: Lookup serves a whole batch of facts  *)
(* from the cache or reloads it, and installs what it loaded through the   *)
(* owner's publication; GetWeaponPerks and GetCatalysts memoize one item   *)
(* at a time in a bounded cache that knows nothing of the publication.     *)
(* (The catalog and the perk-name set are single values behind the same    *)
(* publication: PublicationCache models them.)                             *)
(*                                                                         *)
(* A cached projection is the manifest version it was read from.  Each     *)
(* repository call is atomic; each cache access takes that cache's lock    *)
(* alone, so a batch is looked up one item at a time.                      *)
(***************************************************************************)
EXTENDS ManifestState, FiniteSets, FiniteSetsExt

CONSTANTS Hashes,       \* item hashes, as numbers: Lookup sorts its batch
          Callers,      \* goroutines calling the service
          MaxEntries,   \* capacity of each bounded cache
          MaxInstalls   \* bound: manifests installed in a run

VARIABLES installed,    \* version of the manifest file
          installs,     \* manifests installed so far
          announcing,   \* the version installed but not announced, if any
          fence,        \* items.Service.publication
          facts, perks, \* the bounded caches: per hash a version, or NoVersion
          caller        \* where each goroutine is

manifestVars == <<installed, installs, announcing>>
vars == <<manifestVars, fence, facts, perks, caller>>

Cached == Versions \cup {NoVersion}

Nothing == [h \in Hashes |-> NoVersion]

Entries(c) == {h \in Hashes : c[h] # NoVersion}

\* got: what the batch looked up so far resolved to.
NoCall == [pc |-> "idle", batch |-> {}, got |-> Nothing, attempt |-> InertAttempt]

TypeOK ==
    /\ installed \in Versions
    /\ installs \in 0 .. MaxInstalls
    /\ announcing \in Cached
    /\ fence \in Fence
    /\ facts \in [Hashes -> Cached] /\ Cardinality(Entries(facts)) <= MaxEntries
    /\ perks \in [Hashes -> Cached] /\ Cardinality(Entries(perks)) <= MaxEntries
    /\ caller \in [Callers -> [pc: {"idle", "scan", "query", "store", "answer",
                                    "perksQuery", "perksStore"},
                               batch: SUBSET Hashes, got: [Hashes -> Cached],
                               attempt: Nat]]

Init ==
    /\ installed \in Versions
    /\ installs = 0
    /\ announcing = NoVersion
    /\ fence = NewFence
    /\ facts = Nothing
    /\ perks = Nothing
    /\ caller = [c \in Callers |-> NoCall]

-----------------------------------------------------------------------------
(* boundedCache.put for every item of a batch, in map order: at capacity an *)
(* arbitrary entry makes room for a new one.                                *)

\* Bug: nothing is evicted.
StoredPastCap(c, got, batch) ==
    {[h \in Hashes |-> IF h \in batch THEN got[h] ELSE c[h]]}

Stored(c, got, batch) ==
    LET all  == Entries(c) \cup batch
        size == Min({Cardinality(all), MaxEntries})
    IN {[h \in Hashes |-> IF h \notin kept THEN NoVersion
                          ELSE IF h \in batch THEN got[h] ELSE c[h]] :
           kept \in {k \in kSubset(size, all) : k \cap batch # {}}}

-----------------------------------------------------------------------------
(* The one running Download: the rename, then OnVersionChanged. *)

Install(v) ==
    /\ announcing = NoVersion
    /\ installs < MaxInstalls
    /\ installs' = installs + 1
    /\ installed' = v
    /\ announcing' = v
    /\ UNCHANGED <<fence, facts, perks, caller>>

\* Bug: clearAll, which lists the caches by hand, misses the facts.
OnVersionChangedKeepingFacts ==
    /\ announcing # NoVersion
    /\ announcing' = NoVersion
    /\ fence' = Advanced(fence, announcing)
    /\ perks' = IF Retires(fence, announcing) THEN Nothing ELSE perks
    /\ UNCHANGED <<installed, installs, facts, caller>>

OnVersionChanged ==
    /\ announcing # NoVersion
    /\ announcing' = NoVersion
    /\ fence' = Advanced(fence, announcing)
    /\ IF Retires(fence, announcing)
       THEN facts' = Nothing /\ perks' = Nothing
       ELSE UNCHANGED <<facts, perks>>
    /\ UNCHANGED <<installed, installs, caller>>

-----------------------------------------------------------------------------
(* Lookup. *)

StartLookup(c, batch) ==
    /\ caller[c].pc = "idle"
    /\ caller' = [caller EXCEPT ![c] =
                    [NoCall EXCEPT !.pc = "scan", !.batch = batch, !.attempt = Begin(fence)]]
    /\ UNCHANGED <<manifestVars, fence, facts, perks>>

\* The next item of the sorted batch not yet looked up.
NextHash(c) == Min({h \in caller[c].batch : caller[c].got[h] = NoVersion})

\* cachedBatch reads the items one by one; one miss discards all the hits.
Scan(c) ==
    LET h   == NextHash(c)
        got == [caller[c].got EXCEPT ![h] = facts[h]]
    IN /\ caller[c].pc = "scan"
       /\ caller' = [caller EXCEPT ![c] =
            IF facts[h] = NoVersion THEN [@ EXCEPT !.pc = "query", !.got = Nothing]
            ELSE IF caller[c].batch \subseteq Entries(got)
            THEN [@ EXCEPT !.pc = "answer", !.got = got]
            ELSE [@ EXCEPT !.got = got]]
       /\ UNCHANGED <<manifestVars, fence, facts, perks>>

\* GetAcquisitionRows reads the whole batch in one repository call.
Query(c) ==
    /\ caller[c].pc = "query"
    /\ caller' = [caller EXCEPT ![c].pc = "store",
                    ![c].got = [h \in Hashes |-> IF h \in caller[c].batch
                                                 THEN installed ELSE NoVersion]]
    /\ UNCHANGED <<manifestVars, fence, facts, perks>>

StoreFacts(c) ==
    /\ caller[c].pc = "store"
    /\ caller' = [caller EXCEPT ![c].pc = "answer"]
    /\ IF IsCurrent(fence, caller[c].attempt)
       THEN facts' \in Stored(facts, caller[c].got, caller[c].batch)
       ELSE UNCHANGED facts
    /\ UNCHANGED <<manifestVars, fence, perks>>

Answer(c) ==
    /\ caller[c].pc = "answer"
    /\ caller' = [caller EXCEPT ![c] = NoCall]
    /\ UNCHANGED <<manifestVars, fence, facts, perks>>

-----------------------------------------------------------------------------
(* GetWeaponPerks and GetCatalysts: boundedCache.load, with no publication. *)

\* A hit is answered at once and changes nothing.
StartPerks(c, h) ==
    /\ caller[c].pc = "idle"
    /\ perks[h] = NoVersion
    /\ caller' = [caller EXCEPT ![c] = [NoCall EXCEPT !.pc = "perksQuery", !.batch = {h}]]
    /\ UNCHANGED <<manifestVars, fence, facts, perks>>

QueryPerks(c) ==
    /\ caller[c].pc = "perksQuery"
    /\ caller' = [caller EXCEPT ![c].pc = "perksStore",
                    ![c].got = [h \in Hashes |-> IF h \in caller[c].batch
                                                 THEN installed ELSE NoVersion]]
    /\ UNCHANGED <<manifestVars, fence, facts, perks>>

StorePerks(c) ==
    /\ caller[c].pc = "perksStore"
    /\ perks' \in Stored(perks, caller[c].got, caller[c].batch)
    /\ caller' = [caller EXCEPT ![c] = NoCall]
    /\ UNCHANGED <<manifestVars, fence, facts>>

\* A query fails, for example between CloseForSwap and Reopen: nothing is cached.
Fail(c) ==
    /\ caller[c].pc \in {"query", "perksQuery"}
    /\ caller' = [caller EXCEPT ![c] = NoCall]
    /\ UNCHANGED <<manifestVars, fence, facts, perks>>

Next ==
    \/ \E v \in Versions : Install(v)
    \/ OnVersionChanged
    \/ \E c \in Callers :
          \/ \E batch \in (SUBSET Hashes) \ {{}} : StartLookup(c, batch)
          \/ Scan(c) \/ Query(c) \/ StoreFacts(c) \/ Answer(c)
          \/ \E h \in Hashes : StartPerks(c, h)
          \/ QueryPerks(c) \/ StorePerks(c) \/ Fail(c)

Spec == Init /\ [][Next]_vars

-----------------------------------------------------------------------------
(* Properties. *)

\* Once the installed manifest has been announced, every cached fact is of that
\* manifest, and no Lookup still running from before can bring an older one back.
FactsFreshWhenSettled ==
    announcing = NoVersion => \A h \in Hashes : facts[h] \in {NoVersion, installed}

\* The same of the perks and catalysts, as service.go says of every projection:
\* "work that began under an older manifest generation cannot install itself
\* after a swap".
PerksFreshWhenSettled ==
    announcing = NoVersion => \A h \in Hashes : perks[h] \in {NoVersion, installed}

=============================================================================
