------------------------- MODULE MCPublicationCache -------------------------
(* Instances of PublicationCache for TLC. *)
EXTENDS PublicationCache, TLC

\* Keys, loaders and versions are interchangeable: no action or property
\* below distinguishes one from another.
Symmetry == Permutations(Keys) \cup Permutations(Loaders) \cup Permutations(Versions)

=============================================================================
