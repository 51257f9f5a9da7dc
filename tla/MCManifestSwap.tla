--------------------------- MODULE MCManifestSwap ---------------------------
(* Instances of ManifestSwap for TLC. *)
EXTENDS ManifestSwap

=============================================================================
