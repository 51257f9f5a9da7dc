----------------------------- MODULE Preferences -----------------------------
(***************************************************************************)
(* One user's preferences: a row that a first patch creates from the       *)
(* defaults, partial patches from several devices, and reads, which give   *)
(* defaults that are not stored while there is no database.                *)
(***************************************************************************)
EXTENDS Naturals

CONSTANTS Callers, None,
          Patches,      \* functions from some of "cardStyle", "personalize", "onboardingComplete"
          MaxTime,      \* bound: the clock
          MaxFaults     \* bound: reads and writes without an answer

VARIABLES now,
          row,          \* the user_preferences row, or None
          call,         \* per caller, its request and then its answer
          faults

vars == <<now, row, call, faults>>

Defaults == [cardStyle |-> "framed", personalize |-> TRUE, onboardedAt |-> None]
CardStyles == {"framed", "compact"}
Values == [cardStyle: CardStyles, personalize: BOOLEAN, onboardedAt: (0 .. MaxTime) \cup {None}]
Idle == [pc |-> "idle", patch |-> << >>, values |-> Defaults, persisted |-> FALSE]

TypeOK ==
    /\ row \in Values \cup {None}
    /\ \A c \in Callers : call[c].values \in Values

Init ==
    /\ now = 0
    /\ row = None
    /\ call = [c \in Callers |-> Idle]
    /\ faults = 0

-----------------------------------------------------------------------------

Goes(c, next) == call' = [call EXCEPT ![c] = next]
Fault == faults < MaxFaults /\ faults' = faults + 1

Tick == now < MaxTime /\ now' = now + 1 /\ UNCHANGED <<row, call, faults>>

\* An empty cardStyle is one left out.
Bound(patch) ==
    [f \in {f \in DOMAIN patch : ~(f = "cardStyle" /\ patch.cardStyle = "")} |-> patch[f]]

Valid(patch) ==
    /\ "cardStyle" \in DOMAIN patch => patch.cardStyle \in CardStyles
    /\ "onboardingComplete" \in DOMAIN patch => patch.onboardingComplete

UpdatePreferences(c, patch) ==
    /\ call[c].pc \in {"idle", "answered"}
    /\ Goes(c, IF Valid(Bound(patch)) THEN [Idle EXCEPT !.pc = "apply", !.patch = Bound(patch)]
               ELSE [Idle EXCEPT !.pc = "answered"])
    /\ UNCHANGED <<now, row, faults>>

\* The statement that inserts the row, or updates the fields the patch names.
\* Bug: the fields a patch does not name are set to their defaults.
AppliedToDefaults(old, patch) ==
    [cardStyle   |-> IF "cardStyle" \in DOMAIN patch THEN patch.cardStyle ELSE Defaults.cardStyle,
     personalize |-> IF "personalize" \in DOMAIN patch THEN patch.personalize ELSE Defaults.personalize,
     onboardedAt |-> IF "onboardingComplete" \in DOMAIN patch THEN now ELSE old.onboardedAt]

Applied(old, patch) ==
    [cardStyle   |-> IF "cardStyle" \in DOMAIN patch THEN patch.cardStyle ELSE old.cardStyle,
     personalize |-> IF "personalize" \in DOMAIN patch THEN patch.personalize ELSE old.personalize,
     onboardedAt |-> IF "onboardingComplete" \in DOMAIN patch /\ old.onboardedAt = None THEN now
                     ELSE old.onboardedAt]

Stored == IF row = None THEN Defaults ELSE row
Stores(c) == row' = Applied(Stored, call[c].patch)

Apply(c) ==
    /\ call[c].pc = "apply"
    /\ Stores(c)
    /\ Goes(c, [Idle EXCEPT !.pc = "answered", !.values = row', !.persisted = TRUE])
    /\ UNCHANGED <<now, faults>>

\* A write fails, or takes effect and its answer is lost.
ApplyFails(c) ==
    /\ call[c].pc = "apply"
    /\ Fault
    /\ UNCHANGED row \/ Stores(c)
    /\ Goes(c, [Idle EXCEPT !.pc = "answered"])
    /\ UNCHANGED now

GetPreferences(c) ==
    /\ call[c].pc \in {"idle", "answered"}
    /\ Goes(c, [Idle EXCEPT !.pc = "answered", !.values = Stored,
                            !.persisted = TRUE])
    /\ UNCHANGED <<now, row, faults>>

\* There is no database: the defaults, which are not stored.
GetDegraded(c) ==
    /\ call[c].pc \in {"idle", "answered"}
    /\ Fault
    /\ Goes(c, [Idle EXCEPT !.pc = "answered"])
    /\ UNCHANGED <<now, row>>

Next ==
    \/ Tick
    \/ \E c \in Callers :
          \/ \E patch \in Patches : UpdatePreferences(c, patch)
          \/ Apply(c) \/ ApplyFails(c) \/ GetPreferences(c) \/ GetDegraded(c)

Spec == Init /\ [][Next]_vars

-----------------------------------------------------------------------------

\* Patches of different fields, from any devices, do not undo one another: a
\* step changes only what a patch it stores names, by what the row would read
\* as before it, and the time of the onboarding, once there, stays.
PatchesMerge ==
    [][/\ row' # None
       /\ \A f \in DOMAIN Defaults :
             row'[f] # Stored[f] =>
                 \E c \in Callers :
                     /\ call[c].pc = "apply"
                     /\ (IF f = "onboardedAt" THEN "onboardingComplete" ELSE f) \in DOMAIN call[c].patch
       /\ Stored.onboardedAt # None => row'.onboardedAt = Stored.onboardedAt]_row

=============================================================================
