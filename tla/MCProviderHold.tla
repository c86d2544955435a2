--------------------------- MODULE MCProviderHold ---------------------------
(* Small instances of ProviderHold for TLC. *)
EXTENDS ProviderHold
=============================================================================
