------------------------- MODULE MCSessionLifecycle -------------------------
(* The instance of SessionLifecycle for TLC: one session on two replicas, or *)
(* two sessions, of which the cap admits one, on one replica.                *)
EXTENDS SessionLifecycle, TLC

Symmetry == Permutations(Replicas) \cup Permutations(Callers) \cup Permutations(Sessions)

Uses(r) ==
    \/ authCache[r] # None
    \/ \E s \in Sessions : sessCache[r][s] # None
    \/ \E c \in Callers : call[c].on = r

\* Bounds the instance: a second session is not had at once with a second
\* replica, a sign-out everywhere or a fault.
Small ==
    (\A s \in Sessions : minted[s] # 0) =>
        /\ version = 1 /\ faults = 0
        /\ Cardinality({r \in Replicas : Uses(r)}) <= 1

MCSpec == Init /\ [][Next /\ Small']_vars

=============================================================================
