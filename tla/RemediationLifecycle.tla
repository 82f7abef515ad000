----------------------- MODULE RemediationLifecycle -----------------------
(***************************************************************************)
(* What talam promises about a proposal and the cluster it is for, with no *)
(* mention of loops, objects, reads, retries, crashes or lost answers: a   *)
(* target is changed only for a proposal that a person let through, once   *)
(* per version the proposals were made from; Applied is recorded only      *)
(* after the change; and the cluster takes for reported only what the      *)
(* server has an outcome of.  The proposal itself lives by                 *)
(* ProposalLifecycle.  Remediation is shown to implement it.               *)
(***************************************************************************)
EXTENDS ProposalLifecycle

CONSTANT Versions     \* versions of targets a proposal can be made from

VARIABLES madeFrom,   \* the version each proposal was made from
          overridden, \* proposals people triggered in the cluster
          changed,    \* proposals whose target was changed for them
          reported    \* proposals whose outcome the cluster takes as reported

remediationVars == <<lifecycleVars, madeFrom, overridden, changed, reported>>

RemediationInit ==
    /\ LifecycleInit
    /\ overridden = {}
    /\ changed = {}
    /\ reported = {}

Propose(p) ==
    /\ \E i \in Incidents : Raise(p, i)
    /\ madeFrom'[p] \in Versions
    /\ madeFrom' = [madeFrom EXCEPT ![p] = madeFrom'[p]]
    /\ UNCHANGED <<overridden, changed, reported>>

Decide(p) ==
    /\ Move(p, "Pending", "Approved") \/ Move(p, "Pending", "Rejected")
    /\ UNCHANGED <<madeFrom, overridden, changed, reported>>

\* The escape hatch, for what was raised at all.
Override(p) ==
    /\ phase[p] \in Raised
    /\ overridden' = overridden \cup {p}
    /\ UNCHANGED <<lifecycleVars, madeFrom, changed, reported>>

\* The target changes: for nothing the server has down as applied already, and
\* for no second proposal made from the same version.  A failure that was
\* recorded does not rule it out: an agent that died may have reported it.
Change(p) ==
    /\ phase[p] \in {"Approved", "Failed"} \/ p \in overridden
    /\ \A q \in changed : madeFrom[q] /= madeFrom[p]
    /\ changed' = changed \cup {p}
    /\ UNCHANGED <<lifecycleVars, madeFrom, overridden, reported>>

\* The outcome arrives on the server.
Conclude(p) ==
    /\ \/ p \in changed /\ Move(p, "Approved", "Applied")
       \/ Move(p, "Approved", "Failed")
    /\ UNCHANGED <<madeFrom, overridden, changed, reported>>

Acknowledge(p) ==
    /\ phase[p] \in {"Applied", "Failed"}
    /\ reported' = reported \cup {p}
    /\ UNCHANGED <<lifecycleVars, madeFrom, overridden, changed>>

\* An overlapping agent that took up the same proposal has its report refused
\* and writes so.
Withdraw(p) ==
    /\ reported' = reported \ {p}
    /\ UNCHANGED <<lifecycleVars, madeFrom, overridden, changed>>

RemediationNext ==
    \E p \in Proposals :
        \/ Propose(p) \/ Decide(p) \/ Override(p)
        \/ Change(p) \/ Conclude(p)
        \/ Acknowledge(p) \/ Withdraw(p)

RemediationSpec == RemediationInit /\ [][RemediationNext]_remediationVars

\* What it comes to for an incident: of the proposals made for it that nobody
\* triggered by hand, two change their targets only if the server was told that
\* one of them failed.
OncePerIncident ==
    \A p, q \in changed \ overridden :
      p /= q /\ about[p] = about[q] => "Failed" \in {phase[p], phase[q]}
=============================================================================
