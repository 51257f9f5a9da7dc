------------------------------ MODULE MCViews ------------------------------
(* Two readers of each service, and manifests chosen so that a swap shows.  *)
EXTENDS Views, TLC

CONSTANTS c1, c2, f1, f2, v1, v2, n0, n1, n2, n3, s1, s2, below, active, legacy, t1, t2, t3,
          w1, w2, plug, enhanced, other, barrel, perk, trait, bore

\* A manifest with a cycle and with two paths to a node, and one that moves the
\* nodes and lists a seal twice.
NodeChildren(v, n) ==
    CASE n = n0 -> IF v = 0 THEN <<n1, n2>> ELSE <<n2>>
      [] n = n1 -> <<n2, n3>>
      [] n = n2 -> <<n3>>
      [] n = n3 -> <<n1>>
      [] n = active -> <<s1>>
      [] n = legacy -> IF v = 0 THEN <<s2>> ELSE <<s2, s1>>
      [] n = s2 -> <<below>>
      [] OTHER -> <<>>
NodeRecords(v, n) ==
    CASE n = n1 -> <<t1>>
      [] n = n2 -> <<t2>>
      [] n = n3 -> <<t3>>
      [] n = s1 -> <<t1, t2>>
      [] n = s2 -> <<t1>>
      [] n = below -> <<t3>>
      [] OTHER -> <<>>

\* Two copies alike, and one of a weapon the second manifest gives no columns;
\* the second manifest renames an enhanced plug.
Armory == <<[item |-> w1, plugs |-> <<enhanced, barrel>>], [item |-> w1, plugs |-> <<enhanced, barrel>>],
          [item |-> w2, plugs |-> <<other, None>>]>>
Wanted == {[item |-> w1, perks |-> {perk, bore}, wanted |-> TRUE],
          [item |-> None, perks |-> {trait}, wanted |-> FALSE]}
PerkColumns(v, w) ==
    IF w = w1
    THEN <<[socket |-> 1, names |-> (plug :> perk) @@ (other :> trait)
                                    @@ (enhanced :> IF v = 0 THEN perk ELSE trait)],
           [socket |-> 2, names |-> barrel :> bore]>>
    ELSE IF v = 0 THEN <<[socket |-> 1, names |-> other :> trait], [socket |-> 3, names |-> plug :> perk]>>
    ELSE <<>>

SealRootNodes == <<active, legacy>>

Symmetry == Permutations(Callers) \cup Permutations(Flights) \cup Permutations(ItemVersions)

=============================================================================
