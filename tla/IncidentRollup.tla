--------------------------- MODULE IncidentRollup ---------------------------
(***************************************************************************)
(* MeshIncident objects and the two loops of an agent that write them: the *)
(* sync loop mirrors the server's incidents and proposals                  *)
(* (internal/agent/crdsync.go, upsertIncident), the incident reconciler    *)
(* rolls the MeshResolutions of an incident up into its status             *)
(* (internal/agent/incidentreconciler.go).  The server computes the same   *)
(* roll-up from its proposals (internal/server/store.go,                   *)
(* withCompleteLocked).                                                    *)
(*                                                                         *)
(* How a single MeshResolution gets performed is the matter of module      *)
(* Remediation; here it is one step.                                       *)
(***************************************************************************)
EXTENDS Naturals, FiniteSets

CONSTANTS Incidents,    \* incidents of the agent's cluster
          Proposals,    \* proposals for them
          IncidentOf,   \* the incident of each proposal
          Agents,       \* running agent processes
          None,         \* no incident
          MaxChanges,   \* bound on the reports that open or resolve
          MaxMishaps    \* bound on the API calls that fail and the objects
                        \* people delete

ASSUME RollupAssumption ==
    /\ IsFiniteSet(Proposals)
    /\ IncidentOf \in [Proposals -> Incidents]
    /\ None \notin Incidents
    /\ MaxChanges \in Nat /\ MaxMishaps \in Nat

VARIABLES incident,    \* state of each incident on the server
          proposal,    \* state of each proposal on the server
          mirror,      \* the MeshIncident objects
          performed,   \* status.performed of the MeshResolution objects
          syncer,      \* sync loop of each agent
          rollup,      \* incident reconciler of each agent
          changes, deletes, faults

server == <<incident, proposal>>
bounds == <<changes, deletes, faults>>
vars == <<server, mirror, performed, syncer, rollup, bounds>>

-----------------------------------------------------------------------------
IncidentStates == {"Open", "Resolved"}
ProposalStates == {"Pending", "Approved", "Rejected", "Applied", "Failed"}

\* A MeshIncident; state is "" until its status is written.
MeshIncident ==
    [state : IncidentStates \cup {""}, refs : SUBSET Proposals, complete : BOOLEAN]
Created == [state |-> "", refs |-> {}, complete |-> FALSE]

Stored == {i \in Incidents : incident[i] /= "Absent"}
Raised == {p \in Proposals : proposal[p] /= "Absent"}

\* CRDSync.syncOnce: the fetched incidents or proposals still to mirror, the
\* incident at hand, and whether nobody has written its object since the Get.
SyncStages == {"rest", "incidents", "create", "update", "status", "resolutions"}
IdleSyncer ==
    [stage |-> "rest", todo |-> [i \in {} |-> "Open"], raised |-> {},
     cur |-> None, want |-> "Open", fresh |-> FALSE]

\* IncidentReconciler.reconcileOnce: the listed incidents still to roll up and
\* the listed resolutions.
RollupStages == {"rest", "listed", "work"}
IdleRollup ==
    [stage |-> "rest", listed |-> [i \in {} |-> Created],
     performed |-> [p \in {} |-> FALSE]]

Init ==
    /\ incident = [i \in Incidents |-> "Absent"]
    /\ proposal = [p \in Proposals |-> "Absent"]
    /\ mirror = [i \in {} |-> Created]
    /\ performed = [p \in {} |-> FALSE]
    /\ syncer = [a \in Agents |-> IdleSyncer]
    /\ rollup = [a \in Agents |-> IdleRollup]
    /\ changes = 0 /\ deletes = 0 /\ faults = 0

Fault == deletes + faults < MaxMishaps /\ faults' = faults + 1

Without(f, x) == [y \in DOMAIN f \ {x} |-> f[y]]

\* Somebody changed the object of incident i: an Update on the strength of an
\* older Get is a conflict.
Outdated(loops, i) ==
    [a \in Agents |-> IF loops[a].cur = i THEN [loops[a] EXCEPT !.fresh = FALSE]
                      ELSE loops[a]]

-----------------------------------------------------------------------------
(* talam-server, people, and the resolution reconciler                     *)

\* Ingest opens, reopens or resolves.
IncidentChanges(i) ==
    /\ changes < MaxChanges
    /\ changes' = changes + 1
    /\ incident' = [incident EXCEPT ![i] = IF @ = "Open" THEN "Resolved" ELSE "Open"]
    /\ UNCHANGED <<proposal, mirror, performed, syncer, rollup, deletes, faults>>

ServerFrame == UNCHANGED <<incident, mirror, performed, syncer, rollup, bounds>>

\* AddProposal, when hasProposalForIncidentLocked finds none that stands.
Propose(p) ==
    /\ proposal[p] = "Absent"
    /\ incident[IncidentOf[p]] /= "Absent"
    /\ \A q \in Proposals : IncidentOf[q] = IncidentOf[p]
                              => proposal[q] \in {"Absent", "Rejected", "Failed"}
    /\ proposal' = [proposal EXCEPT ![p] = "Pending"]
    /\ ServerFrame

Decide(p) ==
    /\ proposal[p] = "Pending"
    /\ \E s \in {"Approved", "Rejected"} : proposal' = [proposal EXCEPT ![p] = s]
    /\ ServerFrame

\* The agent that acts on a MeshResolution reports the outcome, which the server
\* takes of an approved proposal only, and records that it performed.  When the
\* report is lost, or refused, it is retried after the record.
RecordOutcome(p) ==
    /\ p \in DOMAIN performed
    /\ proposal[p] = "Approved"
    /\ \E s \in {"Applied", "Failed"} : proposal' = [proposal EXCEPT ![p] = s]
    /\ ServerFrame

\* Whatever the server says of the proposal: the object may have been triggered
\* by hand.
Perform(p) ==
    /\ p \in DOMAIN performed
    /\ ~performed[p]
    /\ performed' = [performed EXCEPT ![p] = TRUE]
    /\ UNCHANGED <<server, mirror, syncer, rollup, bounds>>

\* The states of a proposal in which the sync loop triggers its object.
Authorizing == {"Approved", "Applied", "Failed"}

Remediate(p) == RecordOutcome(p) \/ Perform(p)

\* kubectl delete
Delete(i) ==
    /\ deletes + faults < MaxMishaps
    /\ deletes' = deletes + 1
    /\ \/ /\ i \in DOMAIN mirror
          /\ mirror' = Without(mirror, i)
          /\ syncer' = Outdated(syncer, i)
          /\ UNCHANGED performed
       \/ /\ \E p \in DOMAIN performed :
               /\ IncidentOf[p] = i
               /\ performed' = Without(performed, p)
          /\ UNCHANGED <<mirror, syncer>>
    /\ UNCHANGED <<server, rollup, changes, faults>>

-----------------------------------------------------------------------------
(* CRDSync                                                                 *)

SyncFrame == UNCHANGED <<server, performed, rollup, changes, deletes>>
Step(a, stage) == syncer' = [syncer EXCEPT ![a].stage = stage]

\* On to the next incident of the fetched ones.
NextIncident(loops, a) ==
    [loops EXCEPT ![a] = [IdleSyncer EXCEPT !.stage = "incidents",
                                            !.todo = loops[a].todo]]

\* GET /v1/incidents; when it fails there is nothing to mirror.
FetchIncidents(a) ==
    /\ syncer[a].stage = "rest"
    /\ \/ /\ syncer' = [syncer EXCEPT ![a].stage = "incidents",
                          ![a].todo = [i \in Stored |-> incident[i]]]
          /\ UNCHANGED faults
       \/ Step(a, "incidents") /\ Fault
    /\ UNCHANGED mirror
    /\ SyncFrame

\* Slip: an object that is there is taken to be mirrored.
SyncGetOnce(a, i) ==
    /\ syncer[a].stage = "incidents"
    /\ i \in DOMAIN syncer[a].todo
    /\ syncer' =
         IF i \in DOMAIN mirror
         THEN [syncer EXCEPT ![a].todo = Without(@, i)]
         ELSE [syncer EXCEPT ![a] =
                [IdleSyncer EXCEPT
                   !.stage = "create", !.todo = Without(syncer[a].todo, i),
                   !.cur = i, !.want = syncer[a].todo[i], !.fresh = TRUE]]
    /\ UNCHANGED <<mirror, faults>>
    /\ SyncFrame

\* Slip: the Get that finds nothing is not looked at.
SyncGetUnchecked(a, i) ==
    /\ syncer[a].stage = "incidents"
    /\ i \in DOMAIN syncer[a].todo
    /\ syncer' = [syncer EXCEPT ![a] =
         [IdleSyncer EXCEPT
            !.stage = "update", !.todo = Without(syncer[a].todo, i),
            !.cur = i, !.want = syncer[a].todo[i], !.fresh = TRUE]]
    /\ UNCHANGED <<mirror, faults>>
    /\ SyncFrame

\* upsertIncident up to its Get.
SyncGet(a, i) ==
    /\ syncer[a].stage = "incidents"
    /\ i \in DOMAIN syncer[a].todo
    /\ syncer' = [syncer EXCEPT ![a] =
         [IdleSyncer EXCEPT
            !.stage = IF i \in DOMAIN mirror THEN "update" ELSE "create",
            !.todo = Without(syncer[a].todo, i),
            !.cur = i, !.want = syncer[a].todo[i], !.fresh = TRUE]]
    /\ UNCHANGED <<mirror, faults>>
    /\ SyncFrame

\* Create, refused when another agent was first.
SyncCreate(a) ==
    LET i == syncer[a].cur
    IN  /\ syncer[a].stage = "create"
        /\ IF i \in DOMAIN mirror
           THEN syncer' = NextIncident(syncer, a) /\ UNCHANGED mirror
           ELSE /\ mirror' = [j \in DOMAIN mirror \cup {i} |->
                                IF j = i THEN Created ELSE mirror[j]]
                /\ Step(a, "status")
        /\ UNCHANGED faults
        /\ SyncFrame

\* Update of the spec at the resourceVersion of the Get.  The write changes
\* the object when the findings did, and nothing otherwise.
SyncUpdate(a) ==
    /\ syncer[a].stage = "update"
    /\ IF syncer[a].fresh
       THEN \/ syncer' = [Outdated(syncer, syncer[a].cur) EXCEPT ![a].stage = "status"]
            \/ Step(a, "status")
       ELSE syncer' = NextIncident(syncer, a)
    /\ UNCHANGED <<mirror, faults>>
    /\ SyncFrame

\* setIncidentSyncStatus: a merge patch of the fields the sync loop owns.
SyncStatus(a) ==
    LET i == syncer[a].cur
    IN  /\ syncer[a].stage = "status"
        /\ IF i \in DOMAIN mirror
           THEN /\ mirror' = [mirror EXCEPT ![i].state = syncer[a].want]
                /\ syncer' = NextIncident(IF mirror' = mirror THEN syncer
                                          ELSE Outdated(syncer, i), a)
           ELSE syncer' = NextIncident(syncer, a) /\ UNCHANGED mirror
        /\ UNCHANGED faults
        /\ SyncFrame

\* A call to the Kubernetes API fails: the rest of the upsert is skipped.
SyncAbandon(a) ==
    /\ syncer[a].stage \in {"create", "update", "status"}
    /\ syncer' = NextIncident(syncer, a)
    /\ Fault
    /\ UNCHANGED mirror
    /\ SyncFrame

\* The rest of syncOnce: the proposals still to mirror.
Mirroring(ps) ==
    IF ps = {} THEN IdleSyncer
               ELSE [IdleSyncer EXCEPT !.stage = "resolutions", !.raised = ps]

\* GET /v1/proposals; when it fails syncOnce returns.
FetchProposals(a) ==
    /\ syncer[a].stage = "incidents" /\ DOMAIN syncer[a].todo = {}
    /\ \/ syncer' = [syncer EXCEPT ![a] = Mirroring(Raised)] /\ UNCHANGED faults
       \/ syncer' = [syncer EXCEPT ![a] = IdleSyncer] /\ Fault
    /\ UNCHANGED mirror
    /\ SyncFrame

\* upsertResolution, of which only that the object exists matters here.
MirrorResolution(a, p) ==
    /\ syncer[a].stage = "resolutions"
    /\ p \in syncer[a].raised
    /\ syncer' = [syncer EXCEPT ![a] = Mirroring(syncer[a].raised \ {p})]
    /\ \/ /\ performed' = [q \in DOMAIN performed \cup {p} |->
                             q \in DOMAIN performed /\ performed[q]]
          /\ UNCHANGED faults
       \/ UNCHANGED performed /\ Fault
    /\ UNCHANGED <<server, mirror, rollup, changes, deletes>>

SyncStep(a) ==
    \/ FetchIncidents(a)
    \/ \E i \in Incidents : SyncGet(a, i)
    \/ SyncCreate(a) \/ SyncUpdate(a) \/ SyncStatus(a) \/ SyncAbandon(a)
    \/ FetchProposals(a)
    \/ \E p \in Proposals : MirrorResolution(a, p)

-----------------------------------------------------------------------------
(* IncidentReconciler                                                      *)

RollupFrame == UNCHANGED <<server, performed, changes, deletes>>

\* The tick is over when no listed incident is left.
Continue(r) == IF DOMAIN r.listed = {} THEN IdleRollup ELSE r

ListIncidents(a) ==
    /\ rollup[a].stage = "rest"
    /\ rollup' = [rollup EXCEPT ![a].stage = "listed", ![a].listed = mirror]
    /\ UNCHANGED <<mirror, syncer, faults>>
    /\ RollupFrame

\* The second list, later than the first; when it fails the tick is over.
ListResolutions(a) ==
    /\ rollup[a].stage = "listed"
    /\ \/ /\ rollup' = [rollup EXCEPT ![a] =
                Continue([@ EXCEPT !.stage = "work", !.performed = performed])]
          /\ UNCHANGED faults
       \/ rollup' = [rollup EXCEPT ![a] = IdleRollup] /\ Fault
    /\ UNCHANGED <<mirror, syncer>>
    /\ RollupFrame

\* byIncident
Refs(a, i) == {p \in DOMAIN rollup[a].performed : IncidentOf[p] = i}

\* Slip: one performed resolution completes the incident.
CompleteIfAny(a, i) == \E p \in Refs(a, i) : rollup[a].performed[p]

Complete(a, i) ==
    Refs(a, i) /= {} /\ \A p \in Refs(a, i) : rollup[a].performed[p]

\* Slip: the references are not compared.
UpToDateFlag(a, i) == rollup[a].listed[i].complete = Complete(a, i)

\* "no change -- skip the API call": the references are compared by number.
UpToDate(a, i) ==
    /\ rollup[a].listed[i].complete = Complete(a, i)
    /\ Cardinality(rollup[a].listed[i].refs) = Cardinality(Refs(a, i))

\* reconcileOne: computed from the two lists, merge-patched into whatever the
\* object is by now.
ReconcileOne(a, i) ==
    /\ rollup[a].stage = "work"
    /\ i \in DOMAIN rollup[a].listed
    /\ rollup' = [rollup EXCEPT ![a] =
         Continue([@ EXCEPT !.listed = Without(rollup[a].listed, i)])]
    /\ \/ UpToDate(a, i) /\ UNCHANGED <<mirror, syncer, faults>>
       \/ /\ ~UpToDate(a, i)
          /\ i \in DOMAIN mirror
          /\ mirror' = [mirror EXCEPT ![i].refs = Refs(a, i),
                                      ![i].complete = Complete(a, i)]
          /\ syncer' = IF mirror' = mirror THEN syncer ELSE Outdated(syncer, i)
          /\ UNCHANGED faults
       \/ i \notin DOMAIN mirror /\ UNCHANGED <<mirror, syncer, faults>>
       \/ Fault /\ UNCHANGED <<mirror, syncer>>
    /\ RollupFrame

RollupStep(a) ==
    \/ ListIncidents(a) \/ ListResolutions(a)
    \/ \E i \in Incidents : ReconcileOne(a, i)

-----------------------------------------------------------------------------
Next ==
    \/ \E i \in Incidents : IncidentChanges(i) \/ Delete(i)
    \/ \E p \in Proposals : Propose(p) \/ Decide(p) \/ Remediate(p)
    \/ \E a \in Agents : SyncStep(a) \/ RollupStep(a)

Spec == Init /\ [][Next]_vars

\* The tickers keep firing and calls end; what is approved gets performed and
\* reported (ApprovedEventuallySettled and PerformedEventuallyReported of
\* Remediation).  Nothing is assumed of people, who may or may not trigger the
\* rest by hand, and of reports.
Fairness ==
    /\ \A a \in Agents : WF_vars(SyncStep(a)) /\ WF_vars(RollupStep(a))
    /\ \A p \in Proposals :
         WF_vars(RecordOutcome(p) \/ (proposal[p] \in Authorizing /\ Perform(p)))

FairSpec == Spec /\ Fairness

-----------------------------------------------------------------------------
(* Properties *)

Partial(D, V) == UNION {[E -> V] : E \in SUBSET D}

SyncerRecord ==
    [stage : SyncStages, todo : Partial(Incidents, IncidentStates),
     raised : SUBSET Proposals, cur : Incidents \cup {None},
     want : IncidentStates, fresh : BOOLEAN]

\* Type invariant, with it that a MeshIncident refers to resolutions of its
\* own incident only, and that the spec update has an object to write unless it
\* is refused (incidentreconciler.go, reconcileOnce; crdsync.go,
\* upsertIncident).
TypeOK ==
    /\ incident \in [Incidents -> IncidentStates \cup {"Absent"}]
    /\ proposal \in [Proposals -> ProposalStates \cup {"Absent"}]
    /\ mirror \in Partial(Incidents, MeshIncident)
    /\ performed \in Partial(Proposals, BOOLEAN)
    /\ syncer \in [Agents -> SyncerRecord]
    /\ \A a \in Agents :
         /\ rollup[a].stage \in RollupStages
         /\ rollup[a].listed \in Partial(Incidents, MeshIncident)
         /\ rollup[a].performed \in Partial(Proposals, BOOLEAN)
    /\ \A i \in DOMAIN mirror : \A p \in mirror[i].refs : IncidentOf[p] = i
    /\ \A a \in Agents : syncer[a].stage = "update" /\ syncer[a].fresh
                           => syncer[a].cur \in DOMAIN mirror

\* As long as nobody deletes objects, an incident that is marked complete has
\* resolutions and every one it refers to is performed, although flag and
\* references are computed from lists that are out of date when they are
\* written (incidentreconciler.go, reconcileOne).
CompleteMeansPerformed ==
    deletes = 0 =>
      \A i \in DOMAIN mirror :
        mirror[i].complete =>
          /\ mirror[i].refs /= {}
          /\ \A p \in mirror[i].refs : p \in DOMAIN performed /\ performed[p]

\* The status the roll-up of the present objects would be.
RolledUp(i) ==
    LET refs == {p \in DOMAIN performed : IncidentOf[p] = i}
    IN  /\ mirror[i].refs = refs
        /\ mirror[i].complete <=> refs /= {} /\ \A p \in refs : performed[p]

\* The references and the flag settle on what the objects say, although
\* references are compared by number only, patches are computed from older
\* lists, and people delete objects (incidentreconciler.go:81).
RollupSettles == <>[](\A i \in DOMAIN mirror : RolledUp(i))

\* Every incident of the server ends up mirrored in its present state,
\* although the spec update conflicts whenever the other loop wrote the status
\* in between (crdsync.go, upsertIncident).
MirrorSettles ==
    <>[](\A i \in Stored : i \in DOMAIN mirror /\ mirror[i].state = incident[i])

\* Slip: a rejected proposal counts as dealt with.
ServerCompleteIfDecided(i) ==
    LET own == {p \in Raised : IncidentOf[p] = i}
    IN  own /= {} /\ \A p \in own : proposal[p] \in {"Applied", "Failed", "Rejected"}

\* withCompleteLocked
ServerComplete(i) ==
    LET own == {p \in Raised : IncidentOf[p] = i}
    IN  own /= {} /\ \A p \in own : proposal[p] \in {"Applied", "Failed"}

\* Performed, after the escape hatch, without an approval: the server refuses the
\* outcome.
OutcomeRefused(p) ==
    p \in DOMAIN performed /\ performed[p] /\ proposal[p] \notin Authorizing

\* The two roll-ups of an incident, the agent's from performed MeshResolutions
\* and the server's from proposal states, come to agree, unless a proposal was
\* performed that nobody approved: then the agent's may say complete where the
\* server's never will, and never the other way round (store.go,
\* withCompleteLocked and RecordOutcome; incidentreconciler.go, reconcileOne).
CompletionAgrees ==
    <>[](\A i \in Stored :
           /\ i \in DOMAIN mirror
           /\ ServerComplete(i) => mirror[i].complete
           /\ mirror[i].complete /\ ~ServerComplete(i)
                => \E p \in Proposals : IncidentOf[p] = i /\ OutcomeRefused(p))
=============================================================================
