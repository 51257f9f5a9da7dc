------------------------------- MODULE Weekly -------------------------------
(***************************************************************************)
(* This Week.  One public payload is cached for everybody: Xur's stock and *)
(* the milestones, fetched from Bungie and named by the manifest.  It is   *)
(* evicted when a manifest is announced, and expires at the next event of  *)
(* the week.  What is the player's own is in VendorStock.                  *)
(***************************************************************************)
EXTENDS ManifestFile, Calendar

CONSTANTS Callers,
          Named,        \* what was fetched and named,
          Unnamed,      \* or fetched, and the manifest could not name it,
          Failed,       \* or not fetched
          Starts,       \* when a run begins
          MaxTicks,     \* bound: ticks in a run
          MaxBuild      \* bound: ticks a request takes since it read the time

VARIABLES clock, ticks,
          payload,      \* "weekly:public"
          call

vars == <<file, version, swap, faults, clock, ticks, payload, call>>
weeklyVars == <<clock, ticks, payload, call>>

Parts == {None, Named, Unnamed, Failed}
Payload == [xur: Parts, milestones: Parts, degraded: BOOLEAN,
            at: Nat, stored: Nat, expires: Nat]
Blank(t) == [xur |-> None, milestones |-> None, degraded |-> FALSE,
             at |-> t, stored |-> 0, expires |-> 0]
NoCall == [pc |-> "idle", now |-> 0, building |-> None]

TypeOK ==
    /\ ManifestTypeOK
    /\ ticks \in 0 .. MaxTicks
    /\ payload \in Payload \cup {None}
    /\ \A c \in Callers :
          call[c].pc \in {"xur", "milestones", "store"} <=> call[c].building \in Payload

Init ==
    /\ Found
    /\ clock \in Starts /\ ticks = 0
    /\ payload = None
    /\ call = [c \in Callers |-> NoCall]

-----------------------------------------------------------------------------
(* How long a payload is cached for. *)

\* Bug: the daily reset is left out.
TTLPastToday(pub) ==
    LET event == Min({NextWeeklyReset(pub.at), NextXurArrival(pub.at)}) - pub.at
    IN IF pub.degraded THEN Floor ELSE Max({event, Floor})
TTL(pub) ==
    LET events == {NextWeeklyReset(pub.at), NextXurArrival(pub.at), NextDailyReset(pub.at)}
        event == Min(events) - pub.at
    IN IF pub.degraded THEN Floor ELSE Max({event, Floor})

Live == payload # None

Tick ==
    /\ ticks < MaxTicks
    /\ \A c \in Callers : call[c].pc # "idle" => clock - call[c].now < MaxBuild
    /\ clock' = clock + 1 /\ ticks' = ticks + 1
    /\ payload' = Kept(payload, None, clock')
    /\ UNCHANGED <<file, version, swap, faults, call>>

OnVersionChanged ==
    /\ swap = "reopened"
    /\ swap' = "idle"
    /\ payload' = None
    /\ UNCHANGED <<file, version, faults, clock, ticks, call>>

-----------------------------------------------------------------------------
(* getPublicWeekly, of a request for the week or of one for what is sold now. *)

Goes(c, next) == call' = [call EXCEPT ![c] = next]
Frame == UNCHANGED <<file, version, swap, clock, ticks>>

\* A hit is used as it is.
LooksUp(c, now) ==
    Goes(c, IF Live THEN NoCall
            ELSE [pc |-> IF XurPresent(now) THEN "xur" ELSE "milestones",
                  now |-> now, building |-> Blank(now)])

GetWeekly(c) ==
    /\ call[c].pc = "idle"
    /\ LooksUp(c, clock)
    /\ Frame /\ UNCHANGED <<faults, payload>>

\* A request for the week comes here too, for what is sold now: the time is
\* read, the vendors are asked, and only then is it Xur's turn.
LiveVendorItemHashes(c) ==
    /\ call[c].pc = "idle"
    /\ Goes(c, [NoCall EXCEPT !.pc = "available", !.now = clock])
    /\ Frame /\ UNCHANGED <<faults, payload>>

XurItemHashes(c) ==
    /\ call[c].pc = "available"
    /\ IF XurPresent(call[c].now) THEN LooksUp(c, call[c].now) ELSE Goes(c, NoCall)
    /\ Frame /\ UNCHANGED <<faults, payload>>

Got(c, part, value) ==
    [call[c].building EXCEPT ![part] = value, !.degraded = @ \/ value = Unnamed]
BuildsOn(c, pc, pub) == Goes(c, [call[c] EXCEPT !.pc = pc, !.building = pub])

FetchXurInventory(c) ==
    /\ call[c].pc = "xur"
    /\ \/ Fault /\ BuildsOn(c, "milestones", Got(c, "xur", Failed))
       \/ QueryFails /\ BuildsOn(c, "milestones", Got(c, "xur", Unnamed))
       \/ ~Closed /\ BuildsOn(c, "milestones", Got(c, "xur", Named)) /\ UNCHANGED faults
    /\ Frame /\ UNCHANGED payload

\* With the activities of the milestones, which are left out when the queries
\* of their own fail.
FetchMilestones(c) ==
    /\ call[c].pc = "milestones"
    /\ \/ Fault /\ BuildsOn(c, "store", Got(c, "milestones", Failed))
       \/ QueryFails /\ BuildsOn(c, "store", Got(c, "milestones", Unnamed))
       \/ ~Closed /\ BuildsOn(c, "store", Got(c, "milestones", Named)) /\ UNCHANGED faults
    /\ Frame /\ UNCHANGED payload

\* It replaces whatever is cached by now, whatever was announced meanwhile.
Store(c) ==
    /\ call[c].pc = "store"
    /\ LET pub == call[c].building
       IN payload' = [pub EXCEPT !.stored = clock, !.expires = clock + TTL(pub)]
    /\ Goes(c, NoCall)
    /\ Frame /\ UNCHANGED faults

Next ==
    \/ Download /\ UNCHANGED weeklyVars
    \/ OnVersionChanged \/ Tick
    \/ \E c \in Callers :
          \/ GetWeekly(c) \/ LiveVendorItemHashes(c) \/ XurItemHashes(c)
          \/ FetchXurInventory(c) \/ FetchMilestones(c) \/ Store(c)

Spec == Init /\ [][Next]_vars

-----------------------------------------------------------------------------
(* Properties. *)

\* Whoever built it, and on whatever manifest: what was fetched before a daily
\* reset, or before Xur came or left, is not served past it for longer than its
\* build took, unless the build began within five minutes of it; then it is for
\* no longer than what was left of those five minutes and the build.  (Every
\* event is the end of some day.)
PayloadEndsAtEvent ==
    Live => clock < Max({NextDailyReset(payload.at), payload.at + Floor}) + MaxBuild

\* What could not be fetched is asked for again soon: "a transient empty vendor
\* response cached under a key that lives until the next daily reset would serve
\* every user an empty week" (cache/load.go).
EmptyWeekNotPinned ==
    Live => \/ Failed \notin {payload.xur, payload.milestones}
            \/ clock < payload.stored + Floor

=============================================================================
