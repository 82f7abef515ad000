----------------------------- MODULE MCRegistry -----------------------------
(* Small instances of Registry for TLC. *)
EXTENDS Registry

CONSTANTS mesh, metrics, endpoint, token1, token2
=============================================================================
