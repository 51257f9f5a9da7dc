--------------------------- MODULE MCAccountStores ---------------------------
(* Two callers, two token replicas, two users and two of what each store    *)
(* holds.                                                                   *)
EXTENDS AccountStores, TLC

CONSTANTS i1, i2, w1, w2, p1, p2

RollsFirst == (w1 :> {p1}) @@ (w2 :> {})
RollsManifests == {RollsFirst, (w1 :> {}) @@ (w2 :> {p1, p2})}
LineOf(w, stance, p) == [kind |-> "roll", roll |-> [item |-> w, wanted |-> stance, perks |-> {p}]]
Comment == [kind |-> "comment", roll |-> [item |-> None, wanted |-> TRUE, perks |-> {}]]
RollsFiles == {<<LineOf(w1, TRUE, p1), LineOf(w1, FALSE, p1), Comment>>, <<LineOf(None, TRUE, p2)>>}
RollsOffered == {[item |-> w1, wanted |-> TRUE, perks |-> {p1}]}
RollsEdits == {{p2}}

WishesManifests == {{i1, i2}, {i1}}
Wished == {[item |-> i1, priority |-> None, notes |-> 0],
           [item |-> i2, priority |-> 2, notes |-> 1]}
WishesPatches == {"priority" :> 3, "notes" :> 1, "priority" :> 4}
RolesPatches == {"enabled" :> 0, ("enabled" :> 1) @@ ("minTier" :> 2)}
DevicesPatches == {"cardStyle" :> "compact", ("cardStyle" :> "") @@ ("onboardingComplete" :> TRUE),
                   "personalize" :> FALSE, "cardStyle" :> "x", "onboardingComplete" :> FALSE}

Symmetry == Permutations(Callers) \cup Permutations(TokenReplicas)

=============================================================================
