----------------------------- MODULE MCOperator -----------------------------
(* Small instances of Operator for TLC. *)
EXTENDS Operator

CONSTANTS server, local, broken
=============================================================================
