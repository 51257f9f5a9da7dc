--------------------------- MODULE ManifestState ---------------------------
(***************************************************************************)
(* The generation fence of package manifeststate (ADR 0014), as operators  *)
(* on its value.  One owner of manifest-derived state holds one fence.     *)
(* Begin, Publish, Current and Advance hold the fence's mutex for their    *)
(* whole body, so each use of an operator below is one atomic step of the  *)
(* module that keeps the fence in a variable.                              *)
(***************************************************************************)
EXTENDS Naturals

CONSTANTS Versions,     \* the manifest versions Bungie may publish
          NoVersion     \* the version of a fence no Advance has reached yet

ASSUME NoVersionAssumption == NoVersion \notin Versions

\* The zero Attempt carries no publication.  Generations start at 1, so 0
\* stands for it: it is never current and publishes nothing.
InertAttempt == 0

Fence == [generation: Nat \ {InertAttempt}, version: Versions \cup {NoVersion}]

NewFence == [generation |-> 1, version |-> NoVersion]

Begin(fence) == fence.generation

\* Whether Advance(version) is a genuine change: the empty version is rejected
\* and the current one is an idempotent no-op.
Retires(fence, version) ==
    /\ version # NoVersion
    /\ version # fence.version

\* A version seen before still moves to a generation never used before.
Advanced(fence, version) ==
    IF Retires(fence, version)
    THEN [generation |-> fence.generation + 1, version |-> version]
    ELSE fence

\* Bug: Publish installs whatever generation the attempt began under.
IsCurrentUnchecked(fence, attempt) == attempt # InertAttempt

\* The guard of Attempt.Publish and the answer of Attempt.Current.
IsCurrent(fence, attempt) ==
    /\ attempt # InertAttempt
    /\ attempt = fence.generation

=============================================================================
