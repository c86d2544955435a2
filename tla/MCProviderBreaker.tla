-------------------------- MODULE MCProviderBreaker --------------------------
(* Small instances of ProviderBreaker for TLC, and its mutants. *)
EXTENDS ProviderBreaker
=============================================================================
