---------------------------- MODULE MCTokenStore ----------------------------
(* Instances of TokenStore for TLC. *)
EXTENDS TokenStore, TLC

=============================================================================
