---------------------------- MODULE MCKeyReloader ----------------------------
(* Small instances of KeyReloader for TLC. *)
EXTENDS KeyReloader
=============================================================================
