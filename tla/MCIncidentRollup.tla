-------------------------- MODULE MCIncidentRollup --------------------------
(* Small instances of IncidentRollup for TLC. *)
EXTENDS IncidentRollup

CONSTANTS inc1, inc2, prop1, prop2, agent, successor

\* Both proposals are for one incident, the other has none.
BothForOne == [p \in Proposals |-> inc1]
=============================================================================
