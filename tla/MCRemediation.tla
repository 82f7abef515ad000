--------------------------- MODULE MCRemediation ---------------------------
(* Small instances of Remediation for TLC. *)
EXTENDS Remediation

CONSTANTS prop1, dr1, agent

OneTarget == [x \in Proposals |-> dr1]
=============================================================================
