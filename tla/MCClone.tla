------------------------------ MODULE MCClone ------------------------------
(* A small instance of Clone for TLC. *)
EXTENDS Clone
=============================================================================
