-------------------------- MODULE MembershipState --------------------------
(***************************************************************************)
(* The refresh fence of package membershipstate (ADR 0018), as operators   *)
(* on its value: a generation per membership, with no version to compare,  *)
(* so every Advance is genuine.  A membership never refreshed has no entry *)
(* in the code's map and generation 0.  Like the manifest fence, each      *)
(* operator is used in one atomic step, under the publication's mutex.     *)
(***************************************************************************)
EXTENDS Naturals

CONSTANT Members   \* memberships (type and id)

RefreshFence == [Members -> Nat]

NewRefreshFence == [m \in Members |-> 0]

BeginRefresh(fence, m) == fence[m]

Refreshed(fence, m) == [fence EXCEPT ![m] = @ + 1]

IsUnrefreshed(fence, m, attempt) == attempt = fence[m]

=============================================================================
