------------------------------ MODULE Wishlist ------------------------------
(***************************************************************************)
(* One player's wish list.  A request looks up the item it is about before *)
(* it writes, and answers from what it found; a lookup may fail, find the  *)
(* item, or find that the manifest no longer has it, which leaves an entry *)
(* a tombstone.  A lookup may see any manifest installed so far.           *)
(*                                                                         *)
(* Priorities are their ranks, notes are their lengths.  What is on sale   *)
(* is best effort and fails nothing: it is left out.                       *)
(***************************************************************************)
EXTENDS Naturals, FiniteSets, Sequences, SequencesExt

CONSTANTS Callers, Items, None,
          Manifests,      \* sets of items
          First,          \* the manifest of the start
          Commands,       \* what players save: [item, priority, notes], priority None if omitted
          Patches,        \* what they edit: functions from some of "priority", "notes"
          MaxNoteRunes,
          MaxBulkEntries,
          MaxEntries,     \* bound: entries saved in a run
          MaxFaults       \* bound: failed lookups and writes

VARIABLES entries,        \* the rows of wishlist_items
          lastId, installed,
          call,           \* per caller, its request and then its answer
          faults,
          wrote           \* history: per caller, its request changed the table

vars == <<entries, lastId, installed, call, faults, wrote>>

PriorityMedium == 1
Priorities == 0 .. 3
Ids == 1 .. MaxEntries
Entry == [id: Ids, item: Items, priority: Priorities, notes: 0 .. MaxNoteRunes]
Idle == [pc |-> "idle", kind |-> "none", item |-> None, priority |-> PriorityMedium, notes |-> 0,
         ids |-> {}, patch |-> << >>, state |-> "unasked", read |-> {}, status |-> 0, list |-> << >>]

TypeOK ==
    /\ entries \subseteq Entry
    /\ \A e, f \in entries : e.item = f.item \/ e.id = f.id => e = f
    /\ \A e \in entries : e.id <= lastId
    /\ installed \subseteq Manifests
    /\ \A c \in Callers : /\ call[c].read \subseteq Entry
                          /\ \A i \in DOMAIN call[c].list : call[c].list[i].entry \in Entry

Init ==
    /\ entries = {} /\ lastId = 0
    /\ installed = {First}
    /\ call = [c \in Callers |-> Idle]
    /\ faults = 0
    /\ wrote = [c \in Callers |-> FALSE]

-----------------------------------------------------------------------------

Goes(c, next) == call' = [call EXCEPT ![c] = next]
Answered(c) == [Idle EXCEPT !.pc = "answered", !.kind = call[c].kind]
Answers(c, status) == Goes(c, [Answered(c) EXCEPT !.status = status])
Fault == faults < MaxFaults /\ faults' = faults + 1

\* handleWishlistError
Status(err) ==
    CASE err \in {"ErrUnavailable", "ErrItemsUnavailable"} -> 503
      [] err = "ErrNotFound"                               -> 404
      [] err = "ErrDuplicate"                              -> 409
      [] err = "other"                                     -> 500
      [] OTHER                                             -> 400
Refused(c, err) == Answers(c, Status(err))

Valid(patch) ==
    /\ "priority" \in DOMAIN patch => patch.priority \in Priorities
    /\ "notes" \in DOMAIN patch => patch.notes <= MaxNoteRunes

\* A request begins, or is refused by its shape.
Begins(c, valid, next) ==
    /\ call[c].pc \in {"idle", "answered"}
    /\ Goes(c, IF valid THEN next
               ELSE [Idle EXCEPT !.pc = "answered", !.kind = next.kind, !.status = 400])
    /\ wrote' = [wrote EXCEPT ![c] = FALSE]
    /\ UNCHANGED <<entries, lastId, installed, faults>>

List(c) == Begins(c, TRUE, [Idle EXCEPT !.pc = "find", !.kind = "list"])

Add(c, cmd) ==
    LET filled == [cmd EXCEPT !.priority = IF @ = None THEN PriorityMedium ELSE @]
    IN Begins(c, Valid(filled),
              [Idle EXCEPT !.pc = "lookup", !.kind = "add", !.item = cmd.item,
                           !.priority = filled.priority, !.notes = cmd.notes])

\* The patch is judged after the lookup, and before the write.
Update(c, id, patch) ==
    Begins(c, TRUE, [Idle EXCEPT !.pc = "find", !.kind = "update", !.ids = {id}, !.patch = patch])

RemoveFromWishlist(c, id) == Begins(c, TRUE, [Idle EXCEPT !.pc = "write", !.kind = "remove", !.ids = {id}])

DeleteMany(c, ids) ==
    Begins(c, Cardinality(ids) \in 1 .. MaxBulkEntries,
           [Idle EXCEPT !.pc = "write", !.kind = "deleteMany", !.ids = ids])

SetPriorityMany(c, ids, priority) ==
    Begins(c, priority \in Priorities /\ Cardinality(ids) \in 1 .. MaxBulkEntries,
           [Idle EXCEPT !.pc = "write", !.kind = "setPriorityMany", !.ids = ids,
                        !.patch = [priority |-> priority]])

\* The rows are read in one statement; an empty list asks for no items.
ReadRows(c) ==
    /\ call[c].pc = "find"
    /\ LET wanted == IF call[c].kind = "list" THEN entries ELSE {e \in entries : e.id \in call[c].ids}
       IN IF wanted # {} THEN Goes(c, [call[c] EXCEPT !.pc = "lookup", !.read = wanted])
          ELSE IF call[c].kind = "list" THEN Answers(c, 200) ELSE Refused(c, "ErrNotFound")
    /\ UNCHANGED <<entries, lastId, installed, faults, wrote>>

\* Urgent first, then the latest.
Order(e, f) == e.priority > f.priority \/ (e.priority = f.priority /\ e.id > f.id)
StateFor(m, item) == IF item \in m THEN "known" ELSE "tombstone"
Completed(m, rows) ==
    [i \in 1 .. Cardinality(rows) |->
        LET e == SetToSortSeq(rows, Order)[i] IN [entry |-> e, state |-> StateFor(m, e.item)]]

\* The lookup's three outcomes: known, a tombstone, and no answer at all.
Lookup(c) ==
    /\ call[c].pc = "lookup"
    /\ \E m \in installed :
         CASE call[c].kind = "list" ->
                Goes(c, [Answered(c) EXCEPT !.status = 200, !.list = Completed(m, call[c].read)])
           [] call[c].kind = "add" ->
                IF call[c].item \in m THEN Goes(c, [call[c] EXCEPT !.pc = "write", !.state = "known"])
                ELSE Refused(c, "ErrUnknownItem")
           [] OTHER ->
                \E e \in call[c].read :
                    Goes(c, [call[c] EXCEPT !.pc = "validate", !.state = StateFor(m, e.item)])
    /\ UNCHANGED <<entries, lastId, installed, faults, wrote>>

LookupFails(c) ==
    /\ call[c].pc = "lookup"
    /\ Fault
    /\ Refused(c, "ErrItemsUnavailable")
    /\ UNCHANGED <<entries, lastId, installed, wrote>>

Validate(c) ==
    /\ call[c].pc = "validate"
    /\ IF Valid(call[c].patch) THEN Goes(c, [call[c] EXCEPT !.pc = "write"])
       ELSE Refused(c, "ErrInvalidPriority")
    /\ UNCHANGED <<entries, lastId, installed, faults, wrote>>

\* The write: one statement, of rows the player owns.
Patched(e, patch) == [f \in DOMAIN e |-> IF f \in DOMAIN patch THEN patch[f] ELSE e[f]]
Named(c) == {e \in entries : e.id \in call[c].ids}

Written(c) ==
    CASE call[c].kind = "add" -> entries \cup {[id |-> lastId + 1, item |-> call[c].item,
                                                priority |-> call[c].priority, notes |-> call[c].notes]}
      [] call[c].kind \in {"remove", "deleteMany"} -> entries \ Named(c)
      [] OTHER -> (entries \ Named(c)) \cup {Patched(e, call[c].patch) : e \in Named(c)}

\* What the statement is refused with.
Refusal(c) ==
    CASE call[c].kind = "add" /\ \E e \in entries : e.item = call[c].item -> "ErrDuplicate"
      [] call[c].kind \in {"update", "remove"} /\ Named(c) = {}            -> "ErrNotFound"
      [] OTHER                                                             -> "nil"

Writes(c) ==
    /\ call[c].kind = "add" => lastId < MaxEntries
    /\ lastId' = IF call[c].kind = "add" THEN lastId + 1 ELSE lastId
    /\ entries' = Written(c)
    /\ wrote' = [wrote EXCEPT ![c] = entries' # entries]

Success(kind) == CASE kind = "add" -> 201 [] kind = "remove" -> 204 [] OTHER -> 200

\* The answer is told from the lookup's: nothing can fail after the write.
\* Bug: the item is looked up again to describe what was written.
WriteThenLookup(c) ==
    /\ call[c].pc = "write"
    /\ IF Refusal(c) # "nil" THEN Refused(c, Refusal(c)) /\ UNCHANGED <<entries, lastId, wrote>>
       ELSE /\ Writes(c)
            /\ Goes(c, [call[c] EXCEPT !.pc = "lookup", !.kind = "update",
                                       !.ids = {lastId'}, !.patch = << >>, !.read = entries'])
    /\ UNCHANGED <<installed, faults>>

Write(c) ==
    /\ call[c].pc = "write"
    /\ IF Refusal(c) # "nil" THEN Refused(c, Refusal(c)) /\ UNCHANGED <<entries, lastId, wrote>>
       ELSE Writes(c) /\ Answers(c, Success(call[c].kind))
    /\ UNCHANGED <<installed, faults>>

\* There is no database, or a write fails, or its answer is lost.
WriteFails(c) ==
    /\ call[c].pc \in {"find", "write"}
    /\ Fault
    /\ \/ Refused(c, "ErrUnavailable") /\ UNCHANGED <<entries, lastId, wrote>>
       \/ Refused(c, "other") /\ UNCHANGED <<entries, lastId, wrote>>
       \/ call[c].pc = "write" /\ Refusal(c) = "nil" /\ Writes(c) /\ Refused(c, "other")
    /\ UNCHANGED installed

Swap(m) ==
    /\ m \notin installed
    /\ installed' = installed \cup {m}
    /\ UNCHANGED <<entries, lastId, call, faults, wrote>>

Next ==
    \/ \E c \in Callers :
          \/ List(c)
          \/ \E cmd \in Commands : Add(c, cmd)
          \/ \E id \in Ids, patch \in Patches : Update(c, id, patch)
          \/ \E id \in Ids : RemoveFromWishlist(c, id)
          \/ \E ids \in SUBSET Ids : DeleteMany(c, ids) \/ SetPriorityMany(c, ids, 3)
          \/ ReadRows(c) \/ Lookup(c) \/ LookupFails(c) \/ Validate(c) \/ Write(c) \/ WriteFails(c)
    \/ \E m \in Manifests : Swap(m)

Spec == Init /\ [][Next]_vars

-----------------------------------------------------------------------------
(* Properties. *)

\* A request answered with a refusal, or told that items or the database are
\* unavailable, has changed nothing, so that it may be made again: only an
\* answer of an internal error leaves that open.
RefusalWritesNothing ==
    \A c \in Callers :
        call[c].pc = "answered" /\ call[c].status \in {400, 404, 409, 503} => ~wrote[c]

=============================================================================
