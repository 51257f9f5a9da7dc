----------------------------- MODULE OwnedRolls -----------------------------
(***************************************************************************)
(* Which of the player's weapons match the rolls they saved: the profile   *)
(* is read once, then the perk pool of each weapon it holds, once per      *)
(* weapon, and the copies are compared with the targets.  A pool comes     *)
(* from the installed manifest or, cached by Items, from an older one; a   *)
(* download may come between two pools.                                    *)
(***************************************************************************)
EXTENDS ManifestFile, FiniteSets, SequencesExt

CONSTANTS Weapons,
          Copies,       \* what the profile holds, in order: [item, plugs]
          Targets,      \* what is saved: [item, or None for any; perks; wanted]
          Pool(_, _)    \* of a version and a weapon: its perk columns, in order,
                        \* each a socket and the names of its plugs

VARIABLES reading

vars == <<file, version, swap, faults, reading>>

NoReading == [pc |-> "idle", left |-> <<>>, pools |-> [w \in Weapons |-> None], rolls |-> <<>>,
              matches |-> {}, unmatched |-> {}]

TypeOK ==
    /\ ManifestTypeOK
    /\ reading.pc \in {"idle", "profile", "copies", "error", "answered"}
    /\ reading.pools \in [Weapons -> FileVersions \cup {None}]
    /\ \A m \in reading.matches : m.target \in Targets /\ m.copy \in DOMAIN Copies
    /\ \A u \in reading.unmatched : u.target \in Targets /\ u.near \in DOMAIN Copies \cup {None}

Init == Found /\ reading = NoReading

Frame == UNCHANGED <<file, version, swap>>
Goes(next) == reading' = next

-----------------------------------------------------------------------------
(* The player's weapons. *)

\* What sits in a column of a copy: None if its socket is not there, is empty,
\* or holds no perk of the column.
Seated(copy, column) ==
    IF column.socket \in DOMAIN copy.plugs /\ copy.plugs[column.socket] \in DOMAIN column.names
    THEN column.names[copy.plugs[column.socket]] ELSE None

CurrentColumns(copy, pool) ==
    [i \in DOMAIN pool |-> [socket |-> pool[i].socket, perk |-> Seated(copy, pool[i]),
                            possible |-> Range(pool[i].names)]]

PerksOf(columns) == {columns[i].perk : i \in DOMAIN columns} \ {None}

\* A copy with no perk seated, or of a weapon without perk columns, is no roll.
Rolls(i, pool) ==
    LET columns == CurrentColumns(Copies[i], pool)
    IN IF PerksOf(columns) = {} THEN <<>> ELSE <<[copy |-> i, columns |-> columns]>>

-----------------------------------------------------------------------------
(* The targets. *)

Applies(target, roll) == target.item \in {None, Copies[roll.copy].item}
ContainsAll(roll, target) == target.perks \subseteq PerksOf(roll.columns)

\* The columns that could seat a perk of the target, one for each socket, and
\* those that do.
TargetColumns(roll, target) ==
    {i \in DOMAIN roll.columns :
        /\ \A j \in 1 .. i - 1 : roll.columns[j].socket # roll.columns[i].socket
        /\ roll.columns[i].possible \cap target.perks # {}}
MatchedColumns(roll, target) ==
    {i \in TargetColumns(roll, target) : roll.columns[i].perk \in target.perks}

Score(roll, target) == Cardinality(MatchedColumns(roll, target))
IsNearMiss(roll, target) ==
    /\ ~ContainsAll(roll, target)
    /\ Score(roll, target) \in 1 .. Cardinality(TargetColumns(roll, target)) - 1

\* The first of the best.
NearMiss(rolls, target) ==
    LET near == {i \in DOMAIN rolls : Applies(target, rolls[i]) /\ IsNearMiss(rolls[i], target)}
        best == {i \in near : \A j \in near : Score(rolls[j], target) <= Score(rolls[i], target)}
    IN IF near = {} THEN None
       ELSE rolls[CHOOSE i \in best : \A j \in best : i <= j].copy

MatchesOf(rolls, target) ==
    {[target |-> target, copy |-> rolls[i].copy] :
        i \in {j \in DOMAIN rolls : Applies(target, rolls[j]) /\ ContainsAll(rolls[j], target)}}

Report(rolls) ==
    [NoReading EXCEPT
        !.pc = "answered",
        !.matches = UNION {MatchesOf(rolls, target) : target \in Targets},
        !.unmatched = {[target |-> target, near |-> NearMiss(rolls, target)] :
                          target \in {t \in Targets : MatchesOf(rolls, t) = {}}}]

-----------------------------------------------------------------------------

\* The saved targets are read first: with none, or none that can be read, the
\* inventory is not.
Matches ==
    /\ reading.pc \in {"idle", "error", "answered"}
    /\ \/ Goes(IF Targets = {} THEN Report(<<>>) ELSE [NoReading EXCEPT !.pc = "profile"])
          /\ UNCHANGED faults
       \/ Fault /\ Goes([NoReading EXCEPT !.pc = "error"])
    /\ Frame

\* No credential, no answer, or one without the components, is an error, and
\* not an empty inventory.
ReadProfile ==
    /\ reading.pc = "profile"
    /\ \/ Goes([reading EXCEPT !.pc = "copies", !.left = [i \in DOMAIN Copies |-> i]]) /\ UNCHANGED faults
       \/ Fault /\ Goes([NoReading EXCEPT !.pc = "error"])
    /\ Frame

\* The pool the next copy is measured by: the one its weapon was given earlier
\* in this reading, or what Items serves now.
\* Bug: pools are not remembered.
PoolsServed(weapon) == {v \in 0 .. file : v = file => ~Closed}
PoolsFor(weapon) ==
    IF reading.pools[weapon] # None THEN {reading.pools[weapon]}
    ELSE {v \in 0 .. file : v = file => ~Closed}

ReadCopy ==
    LET i == Head(reading.left)
        weapon == Copies[i].item
    IN /\ reading.pc = "copies" /\ reading.left # <<>>
       /\ \/ /\ \E v \in PoolsFor(weapon) :
                   Goes([reading EXCEPT !.left = Tail(@), !.pools[weapon] = v,
                                        !.rolls = @ \o Rolls(i, Pool(v, weapon))])
             /\ UNCHANGED faults
          \/ /\ reading.pools[weapon] = None /\ QueryFails
             /\ Goes([NoReading EXCEPT !.pc = "error"])
       /\ Frame

Compare ==
    /\ reading.pc = "copies" /\ reading.left = <<>>
    /\ Goes(Report(reading.rolls))
    /\ Frame /\ UNCHANGED faults

Next ==
    \/ Download /\ UNCHANGED reading
    \/ swap = "reopened" /\ swap' = "idle" /\ UNCHANGED <<file, version, faults, reading>>
    \/ Matches \/ ReadProfile \/ ReadCopy \/ Compare

Spec == Init /\ [][Next]_vars

-----------------------------------------------------------------------------

\* Two copies of one weapon with the same plugs seated are told alike, though the
\* manifest, and what Items has cached, may change between the two: a target is
\* matched by both or by neither, and what one copy matches is not still to be
\* found for the other.
CopiesToldAlike ==
    \A i, j \in DOMAIN Copies : Copies[i] = Copies[j] =>
        \A target \in Targets :
            [target |-> target, copy |-> i] \in reading.matches =>
                /\ [target |-> target, copy |-> j] \in reading.matches
                /\ \A u \in reading.unmatched : u.target # target

=============================================================================
