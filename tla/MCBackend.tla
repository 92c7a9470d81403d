------------------------------ MODULE MCBackend ------------------------------
(* An instance of Backend for TLC. *)
EXTENDS Backend, TLC

CONSTANTS c1, c2, c3

=============================================================================
