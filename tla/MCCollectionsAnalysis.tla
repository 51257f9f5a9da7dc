----------------------- MODULE MCCollectionsAnalysis -----------------------
(* Instances of CollectionsAnalysis for TLC. *)
EXTENDS CollectionsAnalysis, TLC

\* Callers, flights and credentials are interchangeable.  Not used where a
\* liveness property is checked.
Symmetry == Permutations(Requests) \cup Permutations(Flights) \cup Permutations(Credentials)

=============================================================================
