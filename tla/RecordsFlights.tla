--------------------------- MODULE RecordsFlights ---------------------------
(***************************************************************************)
(* The profile records of one membership: a cached entry, and the loads    *)
(* (flights) that concurrent callers share.  There is a refresh fence and  *)
(* no manifest fence.  In the memory cache a Get that finds its entry      *)
(* expired lets go of the read lock and drops it under the write lock, in  *)
(* a second step.                                                          *)
(*                                                                         *)
(* Records are told apart by how many refreshes preceded their fetch.      *)
(***************************************************************************)
EXTENDS MembershipState

CONSTANTS Callers, Flights, Credentials, None,
          MaxRefreshes,   \* bound: refreshes in a run
          MaxFetches      \* bound: fetches from Bungie in a run

VARIABLES cache,          \* the entry: [fetched, expired], or None
          refresh,        \* the refresh fence
          registry,       \* the flights found by their key
          flight, call,
          fetches

vars == <<cache, refresh, registry, flight, call, fetches>>

player == CHOOSE x \in Members : TRUE

NoCall == [pc |-> "idle", key |-> None, flight |-> None, answer |-> None]
Free == [pc |-> "free", key |-> None, waiters |-> 0, ctx |-> "live", result |-> None]
Keys == [refresh: 0 .. MaxRefreshes, credential: Credentials]

TypeOK ==
    /\ cache \in [fetched: 0 .. MaxRefreshes, expired: BOOLEAN] \cup {None}
    /\ refresh[player] \in 0 .. MaxRefreshes
    /\ \A f \in registry : flight[f].pc \in {"lookup", "drop", "fetch", "publish", "finish"}
    /\ \A f \in Flights : /\ flight[f].key \in Keys \cup {None}
                          /\ flight[f].result \in (0 .. MaxRefreshes) \cup {None}
    /\ \A c \in Callers : call[c].pc = "waiting" <=> call[c].flight \in Flights

Init ==
    /\ cache = None
    /\ refresh = NewRefreshFence
    /\ registry = {}
    /\ flight = [f \in Flights |-> Free]
    /\ call = [c \in Callers |-> NoCall]
    /\ fetches = 0

-----------------------------------------------------------------------------
(* The cache. *)

Hit == cache # None /\ ~cache.expired
Stale == cache # None /\ cache.expired

Expire ==
    /\ Hit
    /\ cache' = [cache EXCEPT !.expired = TRUE]
    /\ UNCHANGED <<refresh, registry, flight, call, fetches>>

\* deleteExpired, in one step.
CleanUp ==
    /\ Stale
    /\ cache' = None
    /\ UNCHANGED <<refresh, registry, flight, call, fetches>>

\* The second step of a Get: the entry is looked at again.
\* Bug: it is dropped as it was found.
DroppedUnchecked == None
Dropped == IF Stale THEN None ELSE cache

InvalidateCache ==
    /\ refresh[player] < MaxRefreshes
    /\ refresh' = Refreshed(refresh, player)
    /\ cache' = None
    /\ UNCHANGED <<registry, flight, call, fetches>>

-----------------------------------------------------------------------------
(* Callers. *)

Goes(c, next) == call' = [call EXCEPT ![c] = next]
Returns(c, answer) == Goes(c, [NoCall EXCEPT !.pc = "answered", !.answer = answer, !.key = call[c].key])

\* getProfileRecords captures the generation before it looks at the cache.
GetProfileRecords(c, credential) ==
    /\ call[c].pc \in {"idle", "answered"}
    /\ Goes(c, [NoCall EXCEPT !.pc = "lookup",
                              !.key = [refresh |-> BeginRefresh(refresh, player), credential |-> credential]])
    /\ UNCHANGED <<cache, refresh, registry, flight, fetches>>

LookUp(c) ==
    /\ call[c].pc = "lookup"
    /\ \/ Hit /\ Returns(c, cache.fetched)
       \/ Stale /\ Goes(c, [call[c] EXCEPT !.pc = "drop"])
       \/ cache = None /\ Goes(c, [call[c] EXCEPT !.pc = "join"])
    /\ UNCHANGED <<cache, refresh, registry, flight, fetches>>

Drop(c) ==
    /\ call[c].pc = "drop"
    /\ cache' = Dropped
    /\ Goes(c, [call[c] EXCEPT !.pc = "join"])
    /\ UNCHANGED <<refresh, registry, flight, fetches>>

\* A caller may have left before it joins.
GiveUp(c) ==
    /\ call[c].pc = "join"
    /\ Goes(c, NoCall)
    /\ UNCHANGED <<cache, refresh, registry, flight, fetches>>

\* shareProfile: the flight of the key, if its context is live, or a new one,
\* which takes its place.
Found(c) == {f \in registry : flight[f].key = call[c].key}
Waits(c, f) == Goes(c, [call[c] EXCEPT !.pc = "waiting", !.flight = f])

Join(c) ==
    /\ call[c].pc = "join"
    /\ \/ \E f \in Found(c) :
            /\ flight[f].ctx = "live"
            /\ flight' = [flight EXCEPT ![f].waiters = @ + 1]
            /\ Waits(c, f)
            /\ UNCHANGED registry
       \/ /\ \A f \in Found(c) : flight[f].ctx # "live"
          /\ \E f \in Flights :
               /\ flight[f].pc = "free"
               /\ flight' = [flight EXCEPT ![f] = [Free EXCEPT !.pc = "lookup", !.key = call[c].key,
                                                               !.waiters = 1]]
               /\ registry' = (registry \ Found(c)) \cup {f}
               /\ Waits(c, f)
    /\ UNCHANGED <<cache, refresh, fetches>>

\* A finished flight is free again once nobody waits on it.
Freed(flights, calls) ==
    [f \in Flights |-> IF flights[f].pc = "exited" /\ \A c \in Callers : calls[c].flight # f
                       THEN Free ELSE flights[f]]

Answered(c) ==
    LET f == call[c].flight
    IN /\ call[c].pc = "waiting" /\ flight[f].pc = "exited"
       /\ Returns(c, flight[f].result)
       /\ flight' = Freed(flight, call')
       /\ UNCHANGED <<cache, refresh, registry, fetches>>

\* A caller leaves, with or without an answer of its own, before the flight has
\* finished; the last one cancels the flight.
Departs(c) ==
    LET f == call[c].flight
        last == flight[f].waiters = 1
    IN /\ flight' = [flight EXCEPT ![f].waiters = @ - 1,
                                   ![f].ctx = IF last /\ @ = "live" THEN "cancelled" ELSE @]
       /\ registry' = IF last THEN registry \ {f} ELSE registry
       /\ Goes(c, NoCall)
       /\ UNCHANGED <<cache, refresh, fetches>>

Leave(c) ==
    /\ call[c].pc = "waiting" /\ flight[call[c].flight].pc # "exited"
    /\ Departs(c)

-----------------------------------------------------------------------------
(* loadProfile. *)

Becomes(f, next) == flight' = [flight EXCEPT ![f] = next]
BecomesAt(f, pc, result) == Becomes(f, [flight[f] EXCEPT !.pc = pc, !.result = result])

Deadline(f) ==
    /\ flight[f].pc \notin {"free", "exited"} /\ flight[f].ctx = "live"
    /\ Becomes(f, [flight[f] EXCEPT !.ctx = "deadline"])
    /\ UNCHANGED <<cache, refresh, registry, call, fetches>>

Recheck(f) ==
    /\ flight[f].pc = "lookup"
    /\ \/ Hit /\ BecomesAt(f, "finish", cache.fetched)
       \/ Stale /\ BecomesAt(f, "drop", None)
       \/ cache = None /\ BecomesAt(f, "fetch", None)
    /\ UNCHANGED <<cache, refresh, registry, call, fetches>>

DropStale(f) ==
    /\ flight[f].pc = "drop"
    /\ cache' = Dropped
    /\ BecomesAt(f, "fetch", None)
    /\ UNCHANGED <<refresh, registry, call, fetches>>

Fetch(f) ==
    /\ flight[f].pc = "fetch" /\ fetches < MaxFetches
    /\ fetches' = fetches + 1
    /\ BecomesAt(f, "publish", refresh[player])
    /\ UNCHANGED <<cache, refresh, registry, call>>

FetchFails(f) ==
    /\ flight[f].pc = "fetch"
    /\ BecomesAt(f, "finish", None)
    /\ UNCHANGED <<cache, refresh, registry, call, fetches>>

\* Someone still wants this very flight.
Active(f) == f \in registry /\ flight[f].waiters > 0 /\ flight[f].ctx = "live"

\* Bug: the generation the flight was begun in is not looked at.
PublishPastRefresh(f) ==
    /\ flight[f].pc = "publish"
    /\ cache' = IF Active(f) THEN [fetched |-> flight[f].result, expired |-> FALSE] ELSE cache
    /\ BecomesAt(f, "finish", flight[f].result)
    /\ UNCHANGED <<refresh, registry, call, fetches>>

Publish(f) ==
    /\ flight[f].pc = "publish"
    /\ cache' = IF IsUnrefreshed(refresh, player, flight[f].key.refresh) /\ Active(f)
                THEN [fetched |-> flight[f].result, expired |-> FALSE] ELSE cache
    /\ BecomesAt(f, "finish", flight[f].result)
    /\ UNCHANGED <<refresh, registry, call, fetches>>

Finish(f) ==
    /\ flight[f].pc = "finish"
    /\ flight' = Freed([flight EXCEPT ![f].pc = "exited",
                                      ![f].result = IF flight[f].ctx = "live" THEN @ ELSE None],
                       call)
    /\ registry' = registry \ {f}
    /\ UNCHANGED <<cache, refresh, call, fetches>>

Next ==
    \/ Expire \/ CleanUp \/ InvalidateCache
    \/ \E c \in Callers :
          \/ \E credential \in Credentials : GetProfileRecords(c, credential)
          \/ LookUp(c) \/ Drop(c) \/ GiveUp(c) \/ Join(c) \/ Answered(c) \/ Leave(c)
    \/ \E f \in Flights :
          \/ Deadline(f) \/ Recheck(f) \/ DropStale(f) \/ Fetch(f) \/ FetchFails(f)
          \/ Publish(f) \/ Finish(f)

Spec == Init /\ [][Next]_vars

-----------------------------------------------------------------------------
(* Properties. *)

\* A player who refreshes sees it: neither the cache, whoever filled it, nor an
\* answer to a request made since, holds records fetched before the refresh.
RefreshStays ==
    /\ cache # None => cache.fetched >= refresh[player]
    /\ \A c \in Callers : call[c].answer # None => call[c].answer >= call[c].key.refresh

\* "Recheck under the write lock so a concurrent Set cannot be removed": what a
\* load has just stored leaves the cache by expiring or by a refresh, never by a
\* Get that found what was there before it expired.
FreshEntryKept == [][Hit /\ cache' = None => refresh' # refresh]_cache

=============================================================================
