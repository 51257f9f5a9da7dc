----------------------------- MODULE Characters -----------------------------
(***************************************************************************)
(* The characters of one membership: their roster, cached behind the       *)
(* refresh fence by membershipstate.Load, and what is told of one of them, *)
(* which must be on the roster.  The roster is told apart by how many      *)
(* refreshes preceded its fetch; names come from the manifest's file, read *)
(* once or twice for an answer.                                            *)
(***************************************************************************)
EXTENDS ManifestFile, MembershipState

CONSTANTS Callers,
          Guardians,       \* character ids
          MaxRefreshes     \* bound: refreshes in a run

VARIABLES roster,           \* the roster: [fetched, ids], or None
          refresh,         \* the refresh fence
          guardians,       \* the player's characters at Bungie
          call

vars == <<file, version, swap, faults, roster, refresh, guardians, call>>

player == CHOOSE x \in Members : TRUE

Kinds == {"roster", "equipment", "history", "current"}
Outcomes == {"none", "roster", "ready", "idle", "unknown", "unavailable", "notFound", "error"}
Roster == [fetched: 0 .. MaxRefreshes, ids: SUBSET Guardians]
NoCall == [pc |-> "idle", kind |-> "roster", guardian |-> None, asked |-> 0, roster |-> None,
           outcome |-> "none"]

TypeOK ==
    /\ ManifestTypeOK
    /\ roster \in Roster \cup {None} /\ refresh[player] \in 0 .. MaxRefreshes
    /\ guardians \subseteq Guardians
    /\ \A c \in Callers :
          /\ call[c].pc \in {"idle", "lookup", "fetch", "publish", "detail", "facts", "names", "mode",
                             "answered"}
          /\ call[c].kind \in Kinds /\ call[c].outcome \in Outcomes
          /\ call[c].roster \in Roster \cup {None}
          /\ call[c].pc = "detail" => call[c].guardian \in call[c].roster.ids

Init ==
    /\ Found
    /\ roster = None /\ refresh = NewRefreshFence
    /\ guardians = Guardians
    /\ call = [c \in Callers |-> NoCall]

-----------------------------------------------------------------------------
(* The player, the clock and the fence. *)

\* The player deletes a character.
Delete ==
    /\ \E g \in guardians : guardians' = guardians \ {g}
    /\ UNCHANGED <<file, version, swap, faults, roster, refresh, call>>

Expire ==
    /\ roster # None /\ roster' = None
    /\ UNCHANGED <<file, version, swap, faults, refresh, guardians, call>>

InvalidateCache ==
    /\ refresh[player] < MaxRefreshes
    /\ refresh' = Refreshed(refresh, player)
    /\ roster' = None
    /\ UNCHANGED <<file, version, swap, faults, guardians, call>>

-----------------------------------------------------------------------------
(* The roster. *)

Frame == UNCHANGED <<file, version, swap, refresh, guardians>>
Goes(c, next) == call' = [call EXCEPT ![c] = next]
GoesTo(c, pc) == Goes(c, [call[c] EXCEPT !.pc = pc])
Answer(c, outcome) == [NoCall EXCEPT !.pc = "answered", !.asked = call[c].asked, !.roster = call[c].roster,
                                     !.outcome = outcome]
Answers(c, outcome) == Goes(c, Answer(c, outcome))

\* Load captures the generation before it looks at the cache.
GetCharacters(c, kind, guardian) ==
    /\ kind # "equipment"
    /\ call[c].pc \in {"idle", "answered"}
    /\ Goes(c, [NoCall EXCEPT !.pc = "lookup", !.kind = kind, !.guardian = guardian,
                              !.asked = BeginRefresh(refresh, player)])
    /\ Frame /\ UNCHANGED <<faults, roster>>

\* With the roster in hand: it is the answer, or the character is looked for.
With(c, found) ==
    LET told(outcome) == [Answer(c, outcome) EXCEPT !.roster = found]
    IN CASE call[c].kind = "roster" -> Goes(c, told("roster"))
         [] call[c].kind # "roster" /\ call[c].guardian \in found.ids ->
               Goes(c, [call[c] EXCEPT !.pc = "detail", !.roster = found])
         [] OTHER -> Goes(c, told("notFound"))

LookUp(c) ==
    /\ call[c].pc = "lookup"
    /\ IF roster # None THEN With(c, roster) ELSE GoesTo(c, "fetch")
    /\ Frame /\ UNCHANGED <<faults, roster>>

FetchRoster(c) ==
    /\ call[c].pc = "fetch"
    /\ \/ /\ Goes(c, [call[c] EXCEPT !.pc = "publish",
                                     !.roster = [fetched |-> refresh[player], ids |-> guardians]])
          /\ UNCHANGED faults
       \/ Fault /\ Answers(c, "error")
    /\ Frame /\ UNCHANGED roster

\* The roster answers its caller whether or not it is kept.
\* Bug: it is kept whenever it was fetched.
PublishAlways(c) ==
    /\ call[c].pc = "publish"
    /\ roster' = call[c].roster
    /\ With(c, call[c].roster)
    /\ Frame /\ UNCHANGED faults

Publish(c) ==
    /\ call[c].pc = "publish"
    /\ roster' = IF IsUnrefreshed(refresh, player, call[c].asked) THEN call[c].roster ELSE roster
    /\ With(c, call[c].roster)
    /\ Frame /\ UNCHANGED faults

-----------------------------------------------------------------------------
(* One character. *)

\* One profile holds the characters and their equipment; either may be withheld,
\* the characters without consequence.
GetEquipment(c, guardian) ==
    /\ call[c].pc \in {"idle", "answered"}
    /\ LET tells(outcome) == Goes(c, [NoCall EXCEPT !.pc = "answered", !.outcome = outcome])
       IN \/ /\ \/ guardian \in guardians /\ tells("ready")
                \/ /\ guardian \in guardians
                   /\ Goes(c, [NoCall EXCEPT !.pc = "facts", !.kind = "equipment", !.guardian = guardian])
                \/ tells("notFound") \/ tells("unavailable")
             /\ UNCHANGED faults
          \/ Fault /\ tells("error")
    /\ Frame /\ UNCHANGED roster

\* Items.Lookup may have the facts cached.
ResolveEquipment(c) ==
    /\ call[c].pc = "facts"
    /\ \/ Answers(c, "ready") /\ UNCHANGED faults
       \/ QueryFails /\ Answers(c, "error")
    /\ Frame /\ UNCHANGED roster

\* A second request, for the character alone.  An activity hash of zero is idle;
\* what is not returned is unavailable.
GetActivity(c) ==
    /\ call[c].pc = "detail"
    /\ \/ /\ \/ GoesTo(c, "names")
             \/ Answers(c, "unavailable")
             \/ call[c].kind = "history" /\ Answers(c, "ready")
             \/ call[c].kind = "current" /\ Answers(c, "idle")
          /\ UNCHANGED faults
       \/ Fault /\ Answers(c, "error")
    /\ Frame /\ UNCHANGED roster

\* A definition that is not in the manifest leaves a current activity unknown.
NameActivities(c) ==
    /\ call[c].pc = "names"
    /\ \/ /\ ~Closed
          /\ \/ Answers(c, "ready")
             \/ call[c].kind = "current" /\ Answers(c, "unknown")
             \/ /\ call[c].kind = "current"
                /\ \E outcome \in {"ready", "unknown"} :
                      Goes(c, [call[c] EXCEPT !.pc = "mode", !.outcome = outcome])
          /\ UNCHANGED faults
       \/ QueryFails /\ Answers(c, "error")
    /\ Frame /\ UNCHANGED roster

NameMode(c) ==
    /\ call[c].pc = "mode"
    /\ \/ ~Closed /\ Answers(c, call[c].outcome) /\ UNCHANGED faults
       \/ QueryFails /\ Answers(c, "error")
    /\ Frame /\ UNCHANGED roster

Next ==
    \/ Download /\ UNCHANGED <<roster, refresh, guardians, call>>
    \/ swap = "reopened" /\ swap' = "idle"
       /\ UNCHANGED <<file, version, faults, roster, refresh, guardians, call>>
    \/ Delete \/ Expire \/ InvalidateCache
    \/ \E c \in Callers :
          \/ \E kind \in Kinds, g \in Guardians : GetCharacters(c, kind, g)
          \/ LookUp(c) \/ FetchRoster(c) \/ Publish(c)
          \/ \E g \in Guardians : GetEquipment(c, g)
          \/ ResolveEquipment(c) \/ GetActivity(c) \/ NameActivities(c) \/ NameMode(c)

Spec == Init /\ [][Next]_vars

-----------------------------------------------------------------------------
(* Properties. *)

\* A roster fetched before a refresh is not kept past it, and nothing asked since
\* is answered by it: a character deleted before the refresh is not found after.
RosterSinceRefresh ==
    /\ roster # None => roster.fetched >= refresh[player]
    /\ \A c \in Callers : call[c].roster # None => call[c].roster.fetched >= call[c].asked

=============================================================================
