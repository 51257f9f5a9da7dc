-------------------------- MODULE EfficiencyEngine --------------------------
(***************************************************************************)
(* The efficiency engine's index of source buckets.  A build captures the  *)
(* engine's generation, reads the version, reads every row and publishes,  *)
(* and none of the four is atomic with another; a download that has        *)
(* reopened the database tells the engine, which starts a build of the new *)
(* generation.  Rows and buckets are the version they are of.              *)
(***************************************************************************)
EXTENDS ManifestFile

CONSTANTS Builders      \* goroutines that may run BuildIndex at once

Fences == INSTANCE ManifestState WITH Versions <- FileVersions, NoVersion <- None

VARIABLES fence,            \* Engine.publication
          index,            \* Engine.buckets, builtVersion and published
          building,         \* Engine.building
          builder           \* per goroutine, where it is

vars == <<file, version, swap, faults, fence, index, building, builder>>

NoBuild == [pc |-> "idle", attempt |-> Fences!InertAttempt, version |-> None, rows |-> None]
NoIndex == [buckets |-> None, version |-> None, published |-> Fences!InertAttempt]
Attempts == 0 .. MaxInstalls + 1

TypeOK ==
    /\ ManifestTypeOK
    /\ fence.generation \in Attempts
    /\ index \in [buckets: FileVersions, version: FileVersions, published: Attempts] \cup {NoIndex}
    /\ building = {builder[b].attempt : b \in {x \in Builders : builder[x].pc \in {"rows", "publish", "done"}}}

Init ==
    /\ Found
    /\ fence = Fences!NewFence
    /\ index = NoIndex
    /\ building = {}
    /\ builder = [b \in Builders |-> NoBuild]

-----------------------------------------------------------------------------
\* A goroutine for BuildIndex.
Starts(b) == builder[b].pc = "idle" /\ builder' = [builder EXCEPT ![b].pc = "begin"]

OnVersionChanged(b) ==
    /\ swap = "reopened"
    /\ fence' = Fences!Advanced(fence, version)
    /\ Starts(b)
    /\ swap' = "idle"
    /\ UNCHANGED <<file, version, index, building, faults>>

\* ensureIndex, of Rank or MissingForMilestone, reads the version and then the
\* version of the index: the version it acts on may be an older one by then.
EnsureIndex(b) ==
    /\ \E seen \in FileVersions : seen <= version /\ index.version # seen
    /\ Starts(b)
    /\ UNCHANGED <<file, version, swap, fence, index, building, faults>>

-----------------------------------------------------------------------------
(* BuildIndex. *)

Goes(b, next) == builder' = [builder EXCEPT ![b] = next]
Frame == UNCHANGED <<file, version, swap, fence>>

Begin(b) ==
    /\ builder[b].pc = "begin"
    /\ Goes(b, [builder[b] EXCEPT !.pc = "version", !.attempt = Fences!Begin(fence)])
    /\ Frame /\ UNCHANGED <<index, building, faults>>

ReadVersion(b) ==
    /\ builder[b].pc = "version"
    /\ Goes(b, [builder[b] EXCEPT !.pc = "enter", !.version = version])
    /\ Frame /\ UNCHANGED <<index, building, faults>>

\* A build of the generation runs, or has published this version.
Skips(b) ==
    \/ builder[b].attempt \in building
    \/ index.published = builder[b].attempt /\ index.version = builder[b].version

Enter(b) ==
    /\ builder[b].pc = "enter"
    /\ IF Skips(b) THEN Goes(b, NoBuild) /\ UNCHANGED building
       ELSE /\ Goes(b, [builder[b] EXCEPT !.pc = "rows"])
            /\ building' = building \cup {builder[b].attempt}
    /\ Frame /\ UNCHANGED <<index, faults>>

ReadRows(b) ==
    /\ builder[b].pc = "rows" /\ ~Closed
    /\ Goes(b, [builder[b] EXCEPT !.pc = "publish", !.rows = file])
    /\ Frame /\ UNCHANGED <<index, building, faults>>

\* ErrNotReady while the database is closed, and failures of the query.
ReadFails(b) ==
    /\ builder[b].pc = "rows"
    /\ QueryFails
    /\ Goes(b, [builder[b] EXCEPT !.pc = "done"])
    /\ Frame /\ UNCHANGED <<index, building>>

\* What a build publishes.
\* Bug: the buckets are labelled with the version of the moment.
IndexLabelledLate(b) ==
    [buckets |-> builder[b].rows, version |-> version, published |-> builder[b].attempt]
IndexOf(b) ==
    [buckets |-> builder[b].rows, version |-> builder[b].version, published |-> builder[b].attempt]

Publish(b) ==
    /\ builder[b].pc = "publish"
    /\ index' = IF Fences!IsCurrent(fence, builder[b].attempt) THEN IndexOf(b) ELSE index
    /\ Goes(b, [builder[b] EXCEPT !.pc = "done"])
    /\ Frame /\ UNCHANGED <<building, faults>>

Leave(b) ==
    /\ builder[b].pc = "done"
    /\ building' = building \ {builder[b].attempt}
    /\ Goes(b, NoBuild)
    /\ Frame /\ UNCHANGED <<index, faults>>

Next ==
    \/ Download /\ UNCHANGED <<fence, index, building, builder>>
    \/ \E b \in Builders :
          \/ OnVersionChanged(b) \/ EnsureIndex(b)
          \/ Begin(b) \/ ReadVersion(b) \/ Enter(b) \/ ReadRows(b) \/ ReadFails(b)
          \/ Publish(b) \/ Leave(b)

Spec == Init /\ [][Next]_vars

-----------------------------------------------------------------------------

\* An index labelled with the installed file's version is of its rows, so that the one
\* check that rebuilds it, by version, never leaves a wrong one in place: a
\* build that pairs an old generation with the new version, reads across the
\* swap, or meets a rollback does not.
IndexNotMislabelled == index.version = file => index.buckets = file

=============================================================================
