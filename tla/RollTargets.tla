---------------------------- MODULE RollTargets ----------------------------
(***************************************************************************)
(* One player's saved roll targets: adding, editing and deleting them, and *)
(* importing a DIM wish list, which stores its rolls one line at a time.   *)
(*                                                                         *)
(* A target names a weapon, or None for any weapon, a stance and a set of  *)
(* perks.  The table's unique key is those three.  What a weapon can roll  *)
(* is read from the manifest or from a cache of an earlier one, so a read  *)
(* may see any manifest installed so far.  A parsed line names perks by    *)
(* hash; a hash no plug answers to, or an ambiguous one, is a perk outside *)
(* every pool.  Notes and titles are left out.                             *)
(***************************************************************************)
EXTENDS Naturals, FiniteSets, Sequences

CONSTANTS Callers, Weapons, Perks, None,
          Manifests,      \* what each weapon can roll: [Weapons -> SUBSET Perks]
          First,          \* the manifest of the start
          Files,          \* parsed wish lists: sequences of lines
          Offered,        \* the rolls players add, and the perks they edit targets to
          Edits,
          MaxPerks,       \* perks one target can hold
          MaxBulkTargets, \* ids one bulk delete can name
          MaxTargets,     \* bound: targets stored in a run
          MaxFaults       \* bound: failed reads and writes

VARIABLES targets,        \* the rows of roll_targets
          lastId,         \* the id of the last row inserted
          installed,      \* the manifests installed so far
          call,           \* per caller, its request
          faults,
          gone            \* history: the rolls deleted, or edited away

vars == <<targets, lastId, installed, call, faults, gone>>

Rolls == [item: Weapons \cup {None}, wanted: BOOLEAN, perks: SUBSET Perks]
Ids == 1 .. MaxTargets
Outcomes == {"imported", "already_saved", "skipped", "unsupported", "malformed",
             "unknown_weapon", "unresolved_perk", "failed"}

NoRoll == [item |-> None, wanted |-> TRUE, perks |-> {}]
Idle == [kind |-> "none", pc |-> "idle", file |-> << >>, report |-> << >>, importId |-> 0,
         roll |-> NoRoll, id |-> 0, status |-> 0]

Roll(t) == [item |-> t.item, wanted |-> t.wanted, perks |-> t.perks]
Saved == {Roll(t) : t \in targets}

TypeOK ==
    /\ \A t \in targets : t.id \in 1 .. lastId /\ Roll(t) \in Rolls /\ t.importId \in 0 .. lastId + 1
    /\ lastId \in 0 .. MaxTargets
    /\ Cardinality(Saved) = Cardinality(targets)
    /\ installed \subseteq Manifests
    /\ \A c \in Callers : /\ call[c].report \in Seq(Outcomes)
                          /\ Len(call[c].report) <= Len(call[c].file)
                          /\ call[c].status \in {0, 200, 201, 204, 400, 404, 409, 500, 503}

Init ==
    /\ targets = {} /\ lastId = 0
    /\ installed = {First}
    /\ call = [c \in Callers |-> Idle]
    /\ faults = 0 /\ gone = {}

-----------------------------------------------------------------------------
(* Perks. *)

Names(m) == UNION {m[w] : w \in Weapons}
Pool(m, item) == IF item = None THEN Names(m) ELSE m[item]

\* validatePerks; the service refuses with these, and the repository with three
\* more.
\* Bug: a weapon's perks are checked as any weapon's are.
VerdictByName(m, item, perks) ==
    IF perks = {} THEN "ErrNoPerks"
    ELSE IF perks \subseteq Names(m) THEN "nil" ELSE "ErrUnknownPerkName"

Verdict(m, item, perks) ==
    CASE perks = {}                            -> "ErrNoPerks"
      [] Cardinality(perks) > MaxPerks         -> "ErrTooManyPerks"
      [] item # None /\ Pool(m, item) = {}     -> "ErrNotAWeapon"
      [] ~(perks \subseteq Pool(m, item))      -> IF item = None THEN "ErrUnknownPerkName"
                                                  ELSE "ErrUnknownPerk"
      [] OTHER                                 -> "nil"

\* resolveDIMPerks: the outcome of a line's hashes, if they resolve to no names.
Resolution(m, item, perks) ==
    CASE item # None /\ Pool(m, item) = {}     -> "unknown_weapon"
      [] \/ ~(perks \subseteq Pool(m, item))
         \/ perks = {}
         \/ Cardinality(perks) > MaxPerks      -> "unresolved_perk"
      [] OTHER                                 -> "resolved"

\* handleRollTargetError
Status(err) ==
    CASE err \in {"ErrUnavailable", "ErrPerksUnavailable"} -> 503
      [] err = "ErrNotFound"                               -> 404
      [] err = "ErrDuplicate"                              -> 409
      [] err = "other"                                     -> 500
      [] OTHER                                             -> 400

-----------------------------------------------------------------------------

Goes(c, next) == call' = [call EXCEPT ![c] = next]
GoesTo(c, pc) == Goes(c, [call[c] EXCEPT !.pc = pc])
Answers(c, status) ==
    Goes(c, [Idle EXCEPT !.pc = "answered", !.status = status,
                         !.file = call[c].file, !.report = call[c].report])
Refused(c, err) == Answers(c, Status(err))

\* The line a report has yet to tell of, and what it tells.
Line(c) == call[c].file[Len(call[c].report) + 1]
AtLine(c) == call[c].pc = "line" /\ Len(call[c].report) < Len(call[c].file)
Tells(c, outcome) == Goes(c, [call[c] EXCEPT !.pc = "line", !.report = Append(@, outcome)])

Fault == faults < MaxFaults /\ faults' = faults + 1

\* Requests begin; the answer of the last one is forgotten.
Idles(c) == call[c].pc \in {"idle", "answered"}
Begins(c, next) == Idles(c) /\ Goes(c, next) /\ UNCHANGED <<targets, lastId, installed, faults, gone>>

Add(c, roll) == Begins(c, [Idle EXCEPT !.kind = "add", !.pc = "validate", !.roll = roll])

Update(c, id, perks) ==
    Begins(c, [Idle EXCEPT !.kind = "update", !.pc = "find", !.id = id, !.roll.perks = perks])

\* The import's id is fresh: it is told apart by the row it would be first to add.
ImportDIM(c, file) ==
    /\ \A d \in Callers \ {c} : call[d].importId # lastId + 1
    /\ Begins(c, [Idle EXCEPT !.kind = "import", !.pc = "line", !.file = file,
                              !.importId = lastId + 1])

\* A line that is no roll.
SkipLine(c) ==
    /\ AtLine(c)
    /\ Line(c).kind # "roll"
    /\ Tells(c, IF Line(c).kind = "comment" THEN "skipped" ELSE Line(c).kind)
    /\ UNCHANGED <<targets, lastId, installed, faults, gone>>

ResolveLine(c) ==
    /\ AtLine(c)
    /\ Line(c).kind = "roll"
    /\ \E m \in installed :
         LET outcome == Resolution(m, Line(c).roll.item, Line(c).roll.perks)
         IN IF outcome # "resolved" THEN Tells(c, outcome)
            ELSE Goes(c, [call[c] EXCEPT !.pc = "validate", !.roll = Line(c).roll])
    /\ UNCHANGED <<targets, lastId, installed, faults, gone>>

\* An edit finds its target, in the list of the player's own.
Find(c) ==
    /\ call[c].pc = "find"
    /\ \/ /\ \A t \in targets : t.id # call[c].id
          /\ Refused(c, "ErrNotFound")
       \/ \E t \in targets :
             /\ t.id = call[c].id
             /\ Goes(c, [call[c] EXCEPT !.pc = "validate", !.roll.item = t.item])
    /\ UNCHANGED <<targets, lastId, installed, faults, gone>>

Validate(c) ==
    /\ call[c].pc = "validate"
    /\ \E m \in installed :
         LET err == Verdict(m, call[c].roll.item, call[c].roll.perks)
         IN \/ err = "nil" /\ GoesTo(c, "write")
            \/ err # "nil" /\ call[c].kind # "import" /\ Refused(c, err)
            \/ /\ err # "nil" /\ call[c].kind = "import"
               /\ Tells(c, IF err = "ErrUnknownPerkName" THEN "unresolved_perk" ELSE "failed")
    /\ UNCHANGED <<targets, lastId, installed, faults, gone>>

\* The manifest cannot be read: an import ends there, with nothing told.
ReadFails(c) ==
    /\ call[c].pc = "validate" \/ (AtLine(c) /\ Line(c).kind = "roll")
    /\ Fault
    /\ Refused(c, "ErrPerksUnavailable")
    /\ UNCHANGED <<targets, lastId, installed, gone>>

-----------------------------------------------------------------------------
(* The table. *)

\* What the unique key compares.
\* Bug: it does not tell the stances apart.
SameTargetAnyStance(a, b) == a.item = b.item /\ a.perks = b.perks
SameTarget(a, b) == a = b

Taken(roll, others) == \E t \in others : SameTarget(Roll(t), roll)

Inserted(c) ==
    targets \cup {[id |-> lastId + 1, item |-> call[c].roll.item, wanted |-> call[c].roll.wanted,
                   perks |-> call[c].roll.perks, importId |-> call[c].importId]}

Insert(c) ==
    /\ call[c].pc = "write" /\ call[c].kind # "update"
    /\ IF Taken(call[c].roll, targets)
       THEN /\ IF call[c].kind = "add" THEN Refused(c, "ErrDuplicate") ELSE Tells(c, "already_saved")
            /\ UNCHANGED <<targets, lastId>>
       ELSE /\ lastId < MaxTargets
            /\ lastId' = lastId + 1
            /\ targets' = Inserted(c)
            /\ IF call[c].kind = "add" THEN Answers(c, 201) ELSE Tells(c, "imported")
    /\ UNCHANGED <<installed, faults, gone>>

\* Another edit or deletion may have come between; a roll saved already is an
\* error of no kind the handler knows.
Rewrite(c) ==
    /\ call[c].pc = "write" /\ call[c].kind = "update"
    /\ \/ /\ \A t \in targets : t.id # call[c].id
          /\ Refused(c, "ErrNotFound")
          /\ UNCHANGED <<targets, gone>>
       \/ \E t \in targets :
            LET edited == [t EXCEPT !.perks = call[c].roll.perks]
            IN /\ t.id = call[c].id
               /\ IF Taken(Roll(edited), targets \ {t})
                  THEN Refused(c, "other") /\ UNCHANGED <<targets, gone>>
                  ELSE /\ targets' = (targets \ {t}) \cup {edited}
                       /\ gone' = gone \cup ({Roll(t)} \ {Roll(edited)})
                       /\ Answers(c, 200)
    /\ UNCHANGED <<lastId, installed, faults>>

\* A write fails, or takes effect and its answer is lost.  An import goes on,
\* unless there is no database at all.
WriteFails(c) ==
    /\ call[c].pc = "write"
    /\ Fault
    /\ IF call[c].kind = "import" THEN Tells(c, "failed") \/ Refused(c, "ErrUnavailable")
       ELSE Refused(c, "other") \/ Refused(c, "ErrUnavailable")
    /\ \/ UNCHANGED <<targets, lastId>>
       \/ /\ call[c].kind # "update" /\ ~Taken(call[c].roll, targets)
          /\ lastId < MaxTargets
          /\ targets' = Inserted(c) /\ lastId' = lastId + 1
          /\ call'[c].status # 503
    /\ UNCHANGED <<installed, gone>>

Report(c) ==
    /\ call[c].pc = "line" /\ Len(call[c].report) = Len(call[c].file)
    /\ Answers(c, 200)
    /\ UNCHANGED <<targets, lastId, installed, faults, gone>>

\* Each deletion is one statement, of rows of the player's own.
Deletes(c, doomed, status) ==
    /\ Idles(c)
    /\ targets' = targets \ doomed
    /\ gone' = gone \cup {Roll(t) : t \in doomed}
    /\ Goes(c, [Idle EXCEPT !.pc = "answered", !.status = status])
    /\ UNCHANGED <<lastId, installed, faults>>

Remove(c, id) ==
    LET doomed == {t \in targets : t.id = id}
    IN Deletes(c, doomed, IF doomed = {} THEN 404 ELSE 204)

ValidBulk(ids) == Cardinality(ids) \in 1 .. MaxBulkTargets

RemoveMany(c, ids) ==
    Deletes(c, IF ValidBulk(ids) THEN {t \in targets : t.id \in ids} ELSE {},
            IF ValidBulk(ids) THEN 200 ELSE 400)

RemoveImport(c, importId) == Deletes(c, {t \in targets : t.importId = importId}, 200)
RemoveAll(c) == Deletes(c, targets, 200)

Swap(m) ==
    /\ m \notin installed
    /\ installed' = installed \cup {m}
    /\ UNCHANGED <<targets, lastId, call, faults, gone>>

Next ==
    \/ \E c \in Callers :
          \/ \E roll \in Offered : Add(c, roll)
          \/ \E id \in Ids, perks \in Edits : Update(c, id, perks)
          \/ \E file \in Files : ImportDIM(c, file)
          \/ SkipLine(c) \/ ResolveLine(c) \/ Find(c) \/ Validate(c) \/ ReadFails(c)
          \/ Insert(c) \/ Rewrite(c) \/ WriteFails(c) \/ Report(c)
          \/ \E id \in Ids : Remove(c, id)
          \/ \E ids \in SUBSET Ids : RemoveMany(c, ids)
          \/ \E id \in Ids : RemoveImport(c, id)
          \/ RemoveAll(c)
    \/ \E m \in Manifests : Swap(m)

Spec == Init /\ [][Next]_vars

-----------------------------------------------------------------------------
(* Properties. *)

\* "Saving it would persist a target that can never match": whatever swaps,
\* edits and deletions come between the reads and the write, some one manifest
\* lets the target's weapon roll all of its perks.
TargetsCanMatch ==
    \A t \in targets : \E m \in installed : t.perks \subseteq Pool(m, t.item)

\* What an import has told of as imported or saved already is stored, with its
\* stance, unless it was deleted or edited since: importing a file again after
\* an abort leaves out nothing.
ReportsHold ==
    \A c \in Callers : \A i \in DOMAIN call[c].report :
        call[c].report[i] \in {"imported", "already_saved"}
            => call[c].file[i].roll \in Saved \cup gone

=============================================================================
