---------------------------- MODULE MCItemsCache ----------------------------
(* Instances of ItemsCache for TLC. *)
EXTENDS ItemsCache, TLC

\* Hashes are not interchangeable: a batch is scanned in their order.
Symmetry == Permutations(Callers) \cup Permutations(Versions)

=============================================================================
