------------------------- MODULE ProposalLifecycle -------------------------
(***************************************************************************)
(* What talam promises about remediation proposals, with no mention of     *)
(* locks, goroutines, files or HTTP: a proposal is raised for one          *)
(* incident, a person decides it at most once, only an approved proposal   *)
(* gets an outcome, and an incident never has two live proposals.          *)
(* Store is shown to implement it.                                         *)
(***************************************************************************)

CONSTANTS Proposals,    \* proposal identifiers
          Incidents,    \* incident identifiers
          NoIncident    \* what a proposal that was never raised is about

VARIABLES phase,    \* state of every proposal
          about     \* the incident a raised proposal is about

lifecycleVars == <<phase, about>>

Decided  == {"Approved", "Rejected", "Applied", "Failed"}
Raised   == {"Pending"} \cup Decided
\* States in which a proposal still stands for its incident: a rejected or a
\* failed one makes room for another.
Standing == {"Pending", "Approved", "Applied"}

LifecycleInit ==
    /\ phase = [p \in Proposals |-> "Absent"]
    /\ about = [p \in Proposals |-> NoIncident]

Raise(p, i) ==
    /\ phase[p] = "Absent"
    /\ \A q \in Proposals : about[q] = i => phase[q] \notin Standing
    /\ phase' = [phase EXCEPT ![p] = "Pending"]
    /\ about' = [about EXCEPT ![p] = i]

\* One step of a proposal from state s to state t.
Move(p, s, t) ==
    /\ phase[p] = s
    /\ phase' = [phase EXCEPT ![p] = t]
    /\ UNCHANGED about

Settle(p) ==
    \/ Move(p, "Pending", "Approved")
    \/ Move(p, "Pending", "Rejected")
    \/ Move(p, "Approved", "Applied")
    \/ Move(p, "Approved", "Failed")

LifecycleNext ==
    \E p \in Proposals :
        \/ \E i \in Incidents : Raise(p, i)
        \/ Settle(p)

LifecycleSpec == LifecycleInit /\ [][LifecycleNext]_lifecycleVars
=============================================================================
