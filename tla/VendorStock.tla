---------------------------- MODULE VendorStock ----------------------------
(***************************************************************************)
(* What the vendors sell one player, of This Week, the wish list and the   *)
(* Collections.  Bungie's answer is cached for five minutes and shared;    *)
(* the rows of the daily vendors, which the manifest names, are cached     *)
(* under the version that is to name them, and the items sold now under no *)
(* version, both until the daily reset.  A swap evicts nothing.            *)
(*                                                                         *)
(* A fetch of the vendors takes less than a tick.                          *)
(***************************************************************************)
EXTENDS ManifestFile, Calendar

CONSTANTS Callers,
          Starts,       \* when a run begins
          MaxTicks,     \* bound: ticks in a run
          MaxBuild      \* bound: ticks a request takes since it read the time

VARIABLES clock, ticks,
          vendors,      \* "vendors:character:..."
          live,         \* "live:vendoritems:..."
          rows,         \* "daily:vendors:<version>:...", for each version
          call

vars == <<file, version, swap, faults, clock, ticks, vendors, live, rows, call>>
stockVars == <<clock, ticks, vendors, live, rows, call>>

Answer == [at: Nat, expires: Nat]               \* at: when Bungie gave it
Rows == [row: FileVersions, at: Nat, expires: Nat]
NoCall == [pc |-> "idle", now |-> 0, key |-> 0, row |-> 0, at |-> 0]

TypeOK ==
    /\ ManifestTypeOK
    /\ ticks \in 0 .. MaxTicks /\ clock \in Nat
    /\ vendors \in Answer \cup {None} /\ live \in Answer \cup {None}
    /\ rows \in [FileVersions -> Rows \cup {None}]
    /\ call \in [Callers -> [pc: {"idle", "vendors", "enrich", "keep", "location", "live"},
                             now: Nat, key: FileVersions, row: FileVersions, at: Nat]]

Init ==
    /\ Found
    /\ clock \in Starts /\ ticks = 0
    /\ vendors = None /\ live = None
    /\ rows = [v \in FileVersions |-> None]
    /\ call = [c \in Callers |-> NoCall]

-----------------------------------------------------------------------------

\* How long what was asked of the vendors at t is cached for.
UntilReset(t) == Max({NextDailyReset(t) - t, Floor})

Tick ==
    /\ ticks < MaxTicks
    /\ \A c \in Callers : call[c].pc # "idle" => clock - call[c].now < MaxBuild
    /\ clock' = clock + 1 /\ ticks' = ticks + 1
    /\ vendors' = Kept(vendors, None, clock') /\ live' = Kept(live, None, clock')
    /\ rows' = [v \in FileVersions |-> Kept(rows[v], None, clock')]
    /\ UNCHANGED <<file, version, swap, faults, call>>

OnVersionChanged ==
    /\ swap = "reopened"
    /\ swap' = "idle"
    /\ UNCHANGED <<file, version, faults, stockVars>>

Goes(c, pc) == call' = [call EXCEPT ![c].pc = pc]
Frame == UNCHANGED <<file, version, swap, clock, ticks>>

\* What getCharacterVendors answers: the cached response, or one fetched now.
CharacterVendors ==
    IF vendors # None THEN vendors ELSE [at |-> clock, expires |-> clock + Floor]
VendorsFail == vendors = None /\ Fault

-----------------------------------------------------------------------------
(* Do This Today, of a request that has a character to ask for. *)

GetWeekly(c) ==
    /\ call[c].pc = "idle"
    /\ call' = [call EXCEPT ![c] = [NoCall EXCEPT !.pc = "vendors", !.now = clock]]
    /\ Frame /\ UNCHANGED <<faults, vendors, live, rows>>

\* The version an entry of the daily vendors is kept under.
\* Bug: one key for all.
KeyUnscoped(v) == 0
DailyVendorsCacheKey(v) == v

\* The payload has been looked up, or built, since the request began.
LookUpVendors(c) ==
    LET key == DailyVendorsCacheKey(version)
    IN /\ call[c].pc = "vendors"
       /\ IF rows[key] # None THEN Goes(c, "location")
          ELSE call' = [call EXCEPT ![c].pc = "enrich", ![c].key = key]
       /\ Frame /\ UNCHANGED <<faults, vendors, live, rows>>

\* Rows the manifest cannot name are left out, and no rows are not cached.
EnrichVendors(c) ==
    /\ call[c].pc = "enrich"
    /\ \/ VendorsFail /\ Goes(c, "location") /\ UNCHANGED vendors
       \/ QueryFails /\ Goes(c, "location") /\ vendors' = CharacterVendors
       \/ /\ ~Closed /\ vendors' = CharacterVendors
          /\ call' = [call EXCEPT ![c].pc = "keep", ![c].row = file, ![c].at = CharacterVendors.at]
          /\ UNCHANGED faults
    /\ Frame /\ UNCHANGED <<live, rows>>

\* Until the reset that follows the request's time, not the response's.
KeepVendors(c) ==
    /\ call[c].pc = "keep"
    /\ rows' = [rows EXCEPT ![call[c].key] =
                   [row |-> call[c].row, at |-> call[c].at,
                    expires |-> clock + UntilReset(call[c].now)]]
    /\ Goes(c, "location")
    /\ Frame /\ UNCHANGED <<faults, vendors, live>>

\* Where Xur is, when the payload has him; then the time is read again.
GetXurLocation(c) ==
    /\ call[c].pc = "location"
    /\ \/ UNCHANGED <<vendors, faults>>
       \/ VendorsFail /\ UNCHANGED vendors
       \/ vendors' = CharacterVendors /\ UNCHANGED faults
    /\ call' = [call EXCEPT ![c] = [NoCall EXCEPT !.pc = "live", !.now = clock]]
    /\ Frame /\ UNCHANGED <<live, rows>>

-----------------------------------------------------------------------------
(* What is sold now, also asked for by the wish list and the Collections. *)

LiveVendorItemHashes(c) ==
    /\ call[c].pc = "idle"
    /\ call' = [call EXCEPT ![c] = [NoCall EXCEPT !.pc = "live", !.now = clock]]
    /\ Frame /\ UNCHANGED <<faults, vendors, live, rows>>

\* Xur's stock is added to it from the payload.
GetLiveVendorItems(c) ==
    /\ call[c].pc = "live"
    /\ \/ live # None /\ UNCHANGED <<vendors, live, faults>>
       \/ live = None /\ VendorsFail /\ UNCHANGED <<vendors, live>>
       \/ /\ live = None /\ vendors' = CharacterVendors
          /\ live' = [at |-> CharacterVendors.at, expires |-> clock + UntilReset(call[c].now)]
          /\ UNCHANGED faults
    /\ call' = [call EXCEPT ![c] = NoCall]
    /\ Frame /\ UNCHANGED rows

Next ==
    \/ Download /\ UNCHANGED stockVars
    \/ OnVersionChanged \/ Tick
    \/ \E c \in Callers :
          \/ GetWeekly(c) \/ LookUpVendors(c) \/ EnrichVendors(c) \/ KeepVendors(c)
          \/ GetXurLocation(c)
          \/ LiveVendorItemHashes(c) \/ GetLiveVendorItems(c)

Spec == Init /\ [][Next]_vars

-----------------------------------------------------------------------------
(* Properties. *)

\* The rows found under the version in force were named by it, though the key
\* is chosen before the rows are named and the manifest changes in between.
RowsNamedByTheirVersion ==
    LET entry == rows[DailyVendorsCacheKey(version)] IN entry # None => entry.row = version

\* What the vendors sold on one day is told on the next, but for the time a
\* request takes, only if they were asked within five minutes of the reset, for
\* the next request finds their answer still cached, and keeps what it draws from
\* it for as long as if it were that day's; and never on the day after.
StockEndsAtEvent ==
    \A entry \in {live} \cup {rows[v] : v \in FileVersions} :
        LET found == entry.at + Floor - 1       \* the last time the answer is found
        IN entry # None => clock < Max({NextDailyReset(found), found + Floor}) + MaxBuild

=============================================================================
