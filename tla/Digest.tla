------------------------------- MODULE Digest -------------------------------
(***************************************************************************)
(* "New since your last visit": one player's digest row, which keeps the   *)
(* visit clock, the collection as of the visit's start (the baseline) and  *)
(* the visit's answer, frozen so that a repeat of the request reads it     *)
(* back.  Several requests of one player may run at once, in any replica.  *)
(*                                                                         *)
(* Times are small numbers and a visit ends when more than Gap passes      *)
(* without activity.  A request takes seconds: time does not move past one *)
(* by Gap.  Items' names are left out, so a hash without facts too.        *)
(***************************************************************************)
EXTENDS Naturals, FiniteSets

CONSTANTS Callers, Items, None,
          VisitGap,     \* the longest pause within a visit
          MaxTime,      \* bound: the clock
          MaxFaults     \* bound: failed reads and writes of the row

VARIABLES now, owned,   \* the time, and what the player has collected
          row,          \* the digest_state row, or None
          call,         \* per caller, its request
          faults,
          first,        \* history: the baselines that first visits began with
          reported,     \* history: per item, how many visits report it as acquired
          disturbed     \* history: requests overlapped, or the collection shrank

vars == <<now, owned, row, call, faults, first, reported, disturbed>>
history == <<first, reported, disturbed>>

Times == 0 .. MaxTime
Result == [status: {"ready", "first-visit", "unavailable"}, previous: Times \cup {None},
           acquired: SUBSET Items]
Row == [lastActivityAt: Times, visitStartedAt: Times, snapshot: SUBSET Items, result: Result]

Idle == [pc |-> "idle", now |-> 0, existing |-> None, next |-> None]

TypeOK ==
    /\ now \in Times /\ owned \subseteq Items
    /\ row \in Row \cup {None}
    /\ \A c \in Callers : call[c].existing \in Row \cup {None}
                          /\ call[c].next \in Row \cup {None}
    /\ first \subseteq Items
    /\ DOMAIN reported = Items

Init ==
    /\ now = 0 /\ owned = {}
    /\ row = None
    /\ call = [c \in Callers |-> Idle]
    /\ faults = 0
    /\ first = {} /\ reported = [i \in Items |-> 0] /\ disturbed = FALSE

-----------------------------------------------------------------------------

Goes(c, next) == call' = [call EXCEPT ![c] = next]
GoesTo(c, pc) == Goes(c, [call[c] EXCEPT !.pc = pc])
Answers(c) == Goes(c, Idle)
Fault == faults < MaxFaults /\ faults' = faults + 1

Tick ==
    /\ now < MaxTime
    /\ \A c \in Callers : call[c].pc # "idle" => now - call[c].now < VisitGap
    /\ now' = now + 1
    /\ UNCHANGED <<owned, row, call, faults, history>>

Acquire(i) ==
    /\ i \notin owned
    /\ owned' = owned \cup {i}
    /\ UNCHANGED <<now, row, call, faults, history>>

\* Bungie no longer lists an item as acquired.
Shrink(i) ==
    /\ i \in owned
    /\ owned' = owned \ {i}
    /\ disturbed' = TRUE
    /\ UNCHANGED <<now, row, call, faults, first, reported>>

\* GetDigest reads the row and decides whether a new visit begins.
NewVisit(existing) == existing = None \/ now - existing.lastActivityAt > VisitGap

GetDigest(c) ==
    /\ call[c] = Idle
    /\ Goes(c, [Idle EXCEPT !.pc = IF NewVisit(row) THEN "read" ELSE "touch",
                            !.now = now, !.existing = row])
    /\ disturbed' = (disturbed \/ \E d \in Callers : call[d].pc # "idle")
    /\ UNCHANGED <<now, owned, row, faults, first, reported>>

\* continueVisit: the clock moves, whatever the row is by now, and the frozen
\* answer is given, whether or not the write succeeds.
TouchActivity(c) ==
    /\ call[c].pc = "touch"
    /\ \/ row' = [row EXCEPT !.lastActivityAt = call[c].now] /\ UNCHANGED faults
       \/ Fault /\ UNCHANGED row
    /\ Answers(c)
    /\ UNCHANGED <<now, owned, history>>

\* startVisit: the collection as it is read becomes the row to save.  What is
\* new is told apart by the baseline of the row read before.
Since(c) == IF call[c].existing = None THEN {} ELSE owned \ call[c].existing.snapshot

Previous(c) == IF call[c].existing = None THEN None ELSE call[c].existing.lastActivityAt

ReadCollection(c) ==
    /\ call[c].pc = "read"
    /\ Goes(c, [call[c] EXCEPT !.pc = "save", !.next =
          [lastActivityAt |-> call[c].now, visitStartedAt |-> call[c].now, snapshot |-> owned,
           result |-> [status |-> IF call[c].existing = None THEN "first-visit" ELSE "ready",
                       previous |-> Previous(c), acquired |-> Since(c)]]])
    /\ UNCHANGED <<now, owned, row, faults, history>>

\* The collection is private, or cannot be read: a visit of no answer begins,
\* if there is a row to record it in.
Unavailable(c) ==
    /\ call[c].pc = "read"
    /\ IF call[c].existing = None THEN Answers(c) ELSE GoesTo(c, "record")
    /\ UNCHANGED <<now, owned, row, faults, history>>

\* The items of the answer cannot be looked up: the request fails, unsaved.
LookupFails(c) ==
    /\ call[c].pc = "save"
    /\ call[c].next.result.acquired # {}
    /\ Answers(c)
    /\ UNCHANGED <<now, owned, row, faults, history>>

\* Save replaces the whole row.
Save(c) ==
    LET next == call[c].next
    IN /\ call[c].pc = "save"
       /\ row' = next
       /\ first' = IF next.result.status = "first-visit" THEN first \cup next.snapshot ELSE first
       /\ reported' = [i \in Items |-> IF i \in next.result.acquired THEN reported[i] + 1
                                       ELSE reported[i]]
       /\ Answers(c)
       /\ UNCHANGED <<now, owned, faults, disturbed>>

\* RecordUnavailableVisit leaves the baseline alone.
\* Bug: it takes the place of the whole row.
RecordReplacing(c) ==
    /\ call[c].pc = "record"
    /\ row' = [row EXCEPT !.lastActivityAt = call[c].now, !.visitStartedAt = call[c].now,
                          !.snapshot = {},
                          !.result = [status |-> "unavailable", previous |-> Previous(c), acquired |-> {}]]
    /\ Answers(c)
    /\ UNCHANGED <<now, owned, faults, history>>

RecordUnavailableVisit(c) ==
    /\ call[c].pc = "record"
    /\ row' = [row EXCEPT !.lastActivityAt = call[c].now, !.visitStartedAt = call[c].now,
                          !.result = [status |-> "unavailable", previous |-> Previous(c), acquired |-> {}]]
    /\ Answers(c)
    /\ UNCHANGED <<now, owned, faults, history>>

WriteFails(c) ==
    /\ call[c].pc \in {"save", "record"}
    /\ Fault
    /\ Answers(c)
    /\ UNCHANGED <<now, owned, row, history>>

Next ==
    \/ Tick
    \/ \E i \in Items : Acquire(i) \/ Shrink(i)
    \/ \E c \in Callers :
          \/ GetDigest(c) \/ TouchActivity(c) \/ ReadCollection(c) \/ Unavailable(c)
          \/ LookupFails(c) \/ Save(c) \/ RecordUnavailableVisit(c) \/ WriteFails(c)

Spec == Init /\ [][Next]_vars

-----------------------------------------------------------------------------

\* What the player acquires is told once: an item enters the baseline only with
\* a visit that reports it, or with the first visit, even if requests overlap;
\* and if they do not, and nothing leaves the collection, no item is reported by
\* two visits, nor one that the player had at the first.
AcquiredToldOnce ==
    row # None =>
        /\ \A i \in row.snapshot \ first : reported[i] > 0
        /\ ~disturbed => \A i \in Items : reported[i] <= (IF i \in first THEN 0 ELSE 1)

=============================================================================
