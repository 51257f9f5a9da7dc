---------------------------- MODULE FencedStore ----------------------------
(***************************************************************************)
(* What an owner of manifest-derived state promises its readers, with no   *)
(* mention of generations, attempts or loads.  A version of the manifest   *)
(* is eligible from its installation until the store is next retired.      *)
(* Retiring empties the store and leaves only the installed version        *)
(* eligible, in one step; between two retirements the store only takes     *)
(* values read from eligible versions.  PublicationCache implements it.    *)
(***************************************************************************)
CONSTANTS Keys, Versions

VARIABLES eligible,   \* the versions a stored value may have been read from
          store       \* per key, the versions its value was read from

vars == <<eligible, store>>

Absent == {}    \* a stored value was read from one version at least

Contents == (SUBSET Versions) \ {Absent}

Empty == [k \in Keys |-> Absent]

Init ==
    /\ \E v \in Versions : eligible = {v}
    /\ store = Empty

\* A manifest is installed: values read from it may be stored from now on.
Arrive(v) ==
    /\ eligible' = eligible \cup {v}
    /\ UNCHANGED store

\* The owner hears of the installation: everything older leaves at once.
Retire(v) ==
    /\ v \in eligible
    /\ eligible' = {v}
    /\ store' = Empty

Fill(k, x) ==
    /\ x \subseteq eligible
    /\ store' = [store EXCEPT ![k] = x]
    /\ UNCHANGED eligible

Drop(k) ==
    /\ store' = [store EXCEPT ![k] = Absent]
    /\ UNCHANGED eligible

Clear ==
    /\ store' = Empty
    /\ UNCHANGED eligible

Next ==
    \/ \E v \in Versions : Arrive(v) \/ Retire(v)
    \/ \E k \in Keys, x \in Contents : Fill(k, x)
    \/ \E k \in Keys : Drop(k)
    \/ Clear

Spec == Init /\ [][Next]_vars

=============================================================================
