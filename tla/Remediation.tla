---------------------------- MODULE Remediation ----------------------------
(***************************************************************************)
(* How an approved proposal reaches a cluster and its outcome comes back:  *)
(* the agent's CRDSync loop (internal/agent/crdsync.go) mirrors server     *)
(* proposals into MeshResolution objects, its ResolutionReconciler loop    *)
(* (internal/agent/resolutionreconciler.go) applies the triggered ones     *)
(* through the Applier (internal/agent/applier.go) and reports what        *)
(* happened to talam-server (internal/server/store.go, RecordOutcome).     *)
(*                                                                         *)
(* The loops are separate goroutines and talk to the Kubernetes API and to *)
(* the server one call at a time, so every call is an action: what one     *)
(* loop read may be out of date when it writes.  Agents has one member, or *)
(* two while a rolling update of the agent's Deployment overlaps them.     *)
(***************************************************************************)
EXTENDS Naturals, FiniteSets

CONSTANTS Proposals,     \* proposals of the agent's cluster
          Targets,       \* Istio resources they patch
          TargetOf,      \* the resource each proposal patches
          Agents,        \* running agent processes
          None,          \* no proposal
          FaultKinds,    \* which faults may happen
          MaxFaults,     \* bound on the number of faults
          MaxVersion,    \* bound on the resourceVersions other people write
          EscapeHatch    \* whether people patch spec.triggered with kubectl

AllFaults == {"crash", "apiError", "patchAckLost", "reportLost", "ackLost"}

ASSUME RemediationAssumption ==
    /\ TargetOf \in [Proposals -> Targets]
    /\ None \notin Proposals
    /\ FaultKinds \subseteq AllFaults
    /\ MaxFaults \in Nat
    /\ MaxVersion \in Nat
    /\ EscapeHatch \in BOOLEAN

VARIABLES server,       \* state of each proposal on talam-server
          pin,          \* targetResourceVersion of each proposal
          live,         \* resourceVersion of each target in the cluster
          resolution,   \* the MeshResolution objects, by proposal
          syncer,       \* CRDSync loop of each agent
          reconciler,   \* ResolutionReconciler loop of each agent
          applied,      \* auxiliary: how often each patch changed its target
          byHand,       \* auxiliary: proposals people triggered with kubectl
          faults        \* faults so far

cluster == <<live, resolution, applied>>
vars == <<server, pin, cluster, syncer, reconciler, byHand, faults>>

-----------------------------------------------------------------------------
ServerStates == {"Pending", "Approved", "Rejected", "Applied", "Failed"}
\* Slip: everything but a rejection triggers.
AuthorizingUnlessRejected == ServerStates \ {"Rejected"}
\* Server states mirrored as spec.triggered = true.
Authorizing == ServerStates \ {"Pending", "Rejected"}

\* A MeshResolution; phase is "" until the status subresource is written.
Resolution ==
    [triggered : BOOLEAN, phase : ServerStates \cup {""},
     performed : BOOLEAN, reported : BOOLEAN]

\* What Create leaves of an object built from server state s: its status is
\* dropped, status being a subresource of the CRD.
Created(s) ==
    [triggered |-> s \in Authorizing, phase |-> "",
     performed |-> FALSE, reported |-> FALSE]

\* CRDSync.syncOnce: the proposals of the last GET still to mirror, and the
\* one at hand with what was read about it.
SyncStages == {"rest", "create", "spec", "status"}
IdleSyncer ==
    [stage |-> "rest", batch |-> [p \in {} |-> "Pending"], cur |-> None,
     state |-> "Pending", performed |-> FALSE]

\* ResolutionReconciler.reconcileOnce: what the listed objects call for, and
\* the one at hand: whether it is a retried report, the outcome, the answer
\* to the report.
Tasks == {"apply", "reportSuccess", "reportFailure"}
ReconcileStages == {"rest", "dryrun", "patch", "report", "record"}
IdleReconciler ==
    [stage |-> "rest", plan |-> [p \in {} |-> "apply"], cur |-> None,
     retry |-> FALSE, success |-> FALSE, acked |-> FALSE]

Init ==
    /\ server = [p \in Proposals |-> "Absent"]
    /\ pin = [p \in Proposals |-> 0]
    /\ live = [t \in Targets |-> 1]
    /\ resolution = [p \in {} |-> Created("Pending")]
    /\ syncer = [a \in Agents |-> IdleSyncer]
    /\ reconciler = [a \in Agents |-> IdleReconciler]
    /\ applied = [p \in Proposals |-> 0]
    /\ byHand = {}
    /\ faults = 0

Fault(kind) ==
    /\ kind \in FaultKinds
    /\ faults < MaxFaults
    /\ faults' = faults + 1

NoFault == UNCHANGED faults

-----------------------------------------------------------------------------
(* talam-server and people                                                 *)

\* AddProposal: the pin is a resourceVersion some scan has seen.
Propose(p) ==
    /\ server[p] = "Absent"
    /\ server' = [server EXCEPT ![p] = "Pending"]
    /\ \E v \in 1 .. live[TargetOf[p]] : pin' = [pin EXCEPT ![p] = v]
    /\ UNCHANGED <<cluster, syncer, reconciler, byHand, faults>>

\* Decide
Decide(p) ==
    /\ server[p] = "Pending"
    /\ \E s \in {"Approved", "Rejected"} : server' = [server EXCEPT ![p] = s]
    /\ UNCHANGED <<pin, cluster, syncer, reconciler, byHand, faults>>

\* Somebody else writes the target: a person, GitOps, another controller.
Edit(t) ==
    /\ live[t] < MaxVersion
    /\ live' = [live EXCEPT ![t] = @ + 1]
    /\ UNCHANGED <<server, pin, resolution, applied, syncer, reconciler,
                   byHand, faults>>

\* kubectl patch of spec.triggered, the documented escape hatch.
KubectlTrigger(p) ==
    /\ EscapeHatch
    /\ p \in DOMAIN resolution
    /\ ~resolution[p].triggered
    /\ resolution' = [resolution EXCEPT ![p].triggered = TRUE]
    /\ byHand' = byHand \cup {p}
    /\ UNCHANGED <<server, pin, live, applied, syncer, reconciler, faults>>

-----------------------------------------------------------------------------
(* CRDSync                                                                 *)

SyncFrame == UNCHANGED <<server, pin, live, applied, reconciler, byHand>>
SyncDone(a) ==
    syncer' = [syncer EXCEPT ![a] = [IdleSyncer EXCEPT !.batch = syncer[a].batch]]

\* GET /v1/proposals, once the last answer has been worked off.
FetchProposals(a) ==
    /\ syncer[a] = IdleSyncer
    /\ syncer' = [syncer EXCEPT ![a].batch =
                    [p \in {q \in Proposals : server[q] /= "Absent"} |-> server[p]]]
    /\ UNCHANGED resolution
    /\ NoFault
    /\ SyncFrame

\* Slip: the patches are sent without looking whether there is an object.
SyncGetUnchecked(a, p) ==
    /\ syncer[a].stage = "rest"
    /\ p \in DOMAIN syncer[a].batch
    /\ syncer' = [syncer EXCEPT ![a] =
         [stage |-> "spec",
          batch |-> [q \in DOMAIN syncer[a].batch \ {p} |-> syncer[a].batch[q]],
          cur |-> p, state |-> syncer[a].batch[p], performed |-> FALSE]]
    /\ UNCHANGED resolution
    /\ NoFault
    /\ SyncFrame

\* upsertResolution up to its Get: what is read of the object here, performed
\* included, is all the rest of the upsert knows of it.
SyncGet(a, p) ==
    /\ syncer[a].stage = "rest"
    /\ p \in DOMAIN syncer[a].batch
    /\ syncer' = [syncer EXCEPT ![a] =
         [stage |-> IF p \in DOMAIN resolution THEN "spec" ELSE "create",
          batch |-> [q \in DOMAIN syncer[a].batch \ {p} |-> syncer[a].batch[q]],
          cur |-> p,
          state |-> syncer[a].batch[p],
          performed |-> p \in DOMAIN resolution /\ resolution[p].performed]]
    /\ UNCHANGED resolution
    /\ NoFault
    /\ SyncFrame

\* Create, refused when another agent was first.
SyncCreate(a) ==
    LET p == syncer[a].cur
    IN  /\ syncer[a].stage = "create"
        /\ resolution' =
             IF p \in DOMAIN resolution THEN resolution
             ELSE [q \in DOMAIN resolution \cup {p} |->
                     IF q = p THEN Created(syncer[a].state) ELSE resolution[q]]
        /\ SyncDone(a)
        /\ NoFault
        /\ SyncFrame

\* The merge patch of spec; status.phase follows unless the object read by
\* SyncGet was performed.
SyncPatchSpec(a) ==
    /\ syncer[a].stage = "spec"
    /\ resolution' = [resolution EXCEPT ![syncer[a].cur].triggered =
                        syncer[a].state \in Authorizing]
    /\ IF syncer[a].performed
       THEN SyncDone(a)
       ELSE syncer' = [syncer EXCEPT ![a].stage = "status"]
    /\ NoFault
    /\ SyncFrame

\* Slip: the status is written as a whole, performed as read by SyncGet.
SyncPatchWholeStatus(a) ==
    /\ syncer[a].stage = "status"
    /\ resolution' = [resolution EXCEPT ![syncer[a].cur] =
         [@ EXCEPT !.phase = syncer[a].state, !.performed = syncer[a].performed]]
    /\ SyncDone(a)
    /\ NoFault
    /\ SyncFrame

SyncPatchPhase(a) ==
    /\ syncer[a].stage = "status"
    /\ resolution' = [resolution EXCEPT ![syncer[a].cur].phase = syncer[a].state]
    /\ SyncDone(a)
    /\ NoFault
    /\ SyncFrame

\* A call to the Kubernetes API fails: the rest of this upsert is skipped.
SyncAbandon(a) ==
    /\ syncer[a].stage /= "rest"
    /\ SyncDone(a)
    /\ Fault("apiError")
    /\ UNCHANGED resolution
    /\ SyncFrame

SyncStep(a) ==
    \/ FetchProposals(a)
    \/ \E p \in Proposals : SyncGet(a, p)
    \/ SyncCreate(a) \/ SyncPatchSpec(a) \/ SyncPatchPhase(a)

-----------------------------------------------------------------------------
(* ResolutionReconciler                                                    *)

ReconcileFrame == UNCHANGED <<pin, syncer>>
ReconcileDone(a) ==
    reconciler' = [reconciler EXCEPT
                     ![a] = [IdleReconciler EXCEPT !.plan = reconciler[a].plan]]

\* Slips: performed is not looked at; only successes are reported again.
NeedsApplyAgain(r) == r.triggered
NeedsSuccessReport(r) == r.performed /\ ~r.reported /\ r.phase = "Applied"

NeedsApply(r) == r.triggered /\ ~r.performed
NeedsReport(r) == r.performed /\ ~r.reported

\* Slip: a retry reports a success unless the phase says Failed.
TaskUnlessFailed(r) ==
    CASE NeedsApply(r) -> "apply"
      [] NeedsReport(r) /\ r.phase /= "Failed" -> "reportSuccess"
      [] OTHER -> "reportFailure"

\* What the switch of reconcileOnce, and the success flag retryOutcomeReport
\* derives from the phase, make of a listed object.
Task(r) ==
    CASE NeedsApply(r) -> "apply"
      [] NeedsReport(r) /\ r.phase = "Applied" -> "reportSuccess"
      [] OTHER -> "reportFailure"

\* List, once the last list has been worked off; objects that call for
\* nothing are passed over.
ListResolutions(a) ==
    /\ reconciler[a] = IdleReconciler
    /\ reconciler' = [reconciler EXCEPT ![a].plan =
         [p \in {q \in DOMAIN resolution :
                   NeedsApply(resolution[q]) \/ NeedsReport(resolution[q])}
            |-> Task(resolution[p])]]
    /\ UNCHANGED <<server, cluster, byHand>>
    /\ NoFault
    /\ ReconcileFrame

Begin(a, p) ==
    LET task == reconciler[a].plan[p]
    IN  /\ reconciler[a].stage = "rest"
        /\ p \in DOMAIN reconciler[a].plan
        /\ reconciler' = [reconciler EXCEPT ![a] =
             [stage |-> IF task = "apply" THEN "dryrun" ELSE "report",
              plan |-> [q \in DOMAIN reconciler[a].plan \ {p} |-> reconciler[a].plan[q]],
              cur |-> p,
              retry |-> task /= "apply",
              success |-> task = "reportSuccess",
              acked |-> FALSE]]
        /\ UNCHANGED <<server, cluster, byHand>>
        /\ NoFault
        /\ ReconcileFrame

\* Slip: a target newer than the proposal passes the test.
PinNotNewer(p) == live[TargetOf[p]] >= pin[p]

PinMatches(p) == live[TargetOf[p]] = pin[p]

\* The dry run passes the resourceVersion test.
DryRunPasses(a) ==
    /\ reconciler[a].stage = "dryrun"
    /\ PinMatches(reconciler[a].cur)
    /\ reconciler' = [reconciler EXCEPT ![a].stage = "patch"]
    /\ UNCHANGED <<server, cluster, byHand>>
    /\ NoFault
    /\ ReconcileFrame

\* The kind is not patchable, the pin is stale, or the API server refuses the
\* patch for a reason of its own: the outcome is a failure.
DryRunFails(a) ==
    /\ reconciler[a].stage = "dryrun"
    /\ reconciler' = [reconciler EXCEPT ![a].stage = "report"]
    /\ UNCHANGED <<server, cluster, byHand>>
    /\ NoFault
    /\ ReconcileFrame

\* The test and the patch are one write of the API server, and the target
\* gets a new resourceVersion.
ChangeTarget(p) ==
    /\ PinMatches(p)
    /\ live' = [live EXCEPT ![TargetOf[p]] = @ + 1]
    /\ applied' = [applied EXCEPT ![p] = @ + 1]
    /\ UNCHANGED resolution

PatchApplies(a) ==
    /\ reconciler[a].stage = "patch"
    /\ ChangeTarget(reconciler[a].cur)
    /\ reconciler' = [reconciler EXCEPT ![a].stage = "report", ![a].success = TRUE]
    /\ UNCHANGED <<server, byHand>>
    /\ NoFault
    /\ ReconcileFrame

\* The target changed after the dry run.
PatchFails(a) ==
    /\ reconciler[a].stage = "patch"
    /\ ~PinMatches(reconciler[a].cur)
    /\ reconciler' = [reconciler EXCEPT ![a].stage = "report"]
    /\ UNCHANGED <<server, cluster, byHand>>
    /\ NoFault
    /\ ReconcileFrame

\* The patch changed the target and its answer is lost, which apply takes for
\* a failure.
PatchAckLost(a) ==
    /\ reconciler[a].stage = "patch"
    /\ ChangeTarget(reconciler[a].cur)
    /\ reconciler' = [reconciler EXCEPT ![a].stage = "report"]
    /\ UNCHANGED <<server, byHand>>
    /\ Fault("patchAckLost")
    /\ ReconcileFrame

\* RecordOutcome on the server, and whether it answers 200.
Outcome(success) == IF success THEN "Applied" ELSE "Failed"
\* Slip: a report about a proposal nobody approved is answered with 200.
AcceptsUnapproved(p, success) ==
    server[p] \in {"Pending", "Rejected", "Approved", Outcome(success)}

Accepts(p, success) == server[p] \in {"Approved", Outcome(success)}
RecordOutcome(p, success) ==
    server' = [server EXCEPT ![p] = IF @ = "Approved" THEN Outcome(success) ELSE @]

\* Slip: the error of reportOutcome is logged and forgotten.
AnsweredRegardless(a, acked) ==
    reconciler' = [reconciler EXCEPT ![a].stage = "record", ![a].acked = TRUE]

\* reportOutcome returns; an unacknowledged retry writes no status.
Answered(a, acked) ==
    IF reconciler[a].retry /\ ~acked
    THEN ReconcileDone(a)
    ELSE reconciler' = [reconciler EXCEPT ![a].stage = "record", ![a].acked = acked]

Report(a) ==
    LET p == reconciler[a].cur
        success == reconciler[a].success
    IN  /\ reconciler[a].stage = "report"
        /\ RecordOutcome(p, success)
        /\ Answered(a, Accepts(p, success))
        /\ UNCHANGED <<cluster, byHand>>
        /\ NoFault
        /\ ReconcileFrame

ReportLost(a) ==
    /\ reconciler[a].stage = "report"
    /\ Answered(a, FALSE)
    /\ UNCHANGED <<server, cluster, byHand>>
    /\ Fault("reportLost")
    /\ ReconcileFrame

ReportAckLost(a) ==
    /\ reconciler[a].stage = "report"
    /\ RecordOutcome(reconciler[a].cur, reconciler[a].success)
    /\ Answered(a, FALSE)
    /\ UNCHANGED <<cluster, byHand>>
    /\ Fault("ackLost")
    /\ ReconcileFrame

\* The status patch that ends applyAndRecord and retryOutcomeReport.
RecordedStatus(a, r) ==
    IF reconciler[a].retry
    THEN [r EXCEPT !.reported = TRUE]
    ELSE [r EXCEPT !.performed = TRUE, !.reported = reconciler[a].acked,
                   !.phase = Outcome(reconciler[a].success)]

RecordStatus(a) ==
    /\ reconciler[a].stage = "record"
    /\ resolution' = [resolution EXCEPT ![reconciler[a].cur] = RecordedStatus(a, @)]
    /\ ReconcileDone(a)
    /\ UNCHANGED <<server, live, applied, byHand>>
    /\ NoFault
    /\ ReconcileFrame

\* The dry run or the patch fails for no reason of the patch, or the status
\* is not written.
ReconcileApiError(a) ==
    /\ \/ /\ reconciler[a].stage = "patch"
          /\ reconciler' = [reconciler EXCEPT ![a].stage = "report"]
       \/ reconciler[a].stage = "record" /\ ReconcileDone(a)
    /\ UNCHANGED <<server, cluster, byHand>>
    /\ Fault("apiError")
    /\ ReconcileFrame

ReconcileStep(a) ==
    \/ ListResolutions(a)
    \/ \E p \in Proposals : Begin(a, p)
    \/ DryRunPasses(a) \/ DryRunFails(a)
    \/ PatchApplies(a) \/ PatchFails(a)
    \/ Report(a) \/ RecordStatus(a)

-----------------------------------------------------------------------------
\* The agent process dies and is started again: what its loops had read and
\* not yet written is gone.
Crash(a) ==
    /\ Fault("crash")
    /\ syncer' = [syncer EXCEPT ![a] = IdleSyncer]
    /\ reconciler' = [reconciler EXCEPT ![a] = IdleReconciler]
    /\ UNCHANGED <<server, pin, cluster, byHand>>

Faulty(a) ==
    \/ SyncAbandon(a) \/ PatchAckLost(a) \/ ReportLost(a) \/ ReportAckLost(a)
    \/ ReconcileApiError(a) \/ Crash(a)

Next ==
    \/ \E p \in Proposals : Propose(p) \/ Decide(p) \/ KubectlTrigger(p)
    \/ \E t \in Targets : Edit(t)
    \/ \E a \in Agents : SyncStep(a) \/ ReconcileStep(a) \/ Faulty(a)

Spec == Init /\ [][Next]_vars

\* The tickers of the two loops keep firing and every call returns: the HTTP
\* client has a timeout (cmd/talam-agent/main.go:52), and a call that fails is
\* one of the bounded faults.  Nothing is assumed of people.
Fairness ==
    \A a \in Agents : WF_vars(SyncStep(a)) /\ WF_vars(ReconcileStep(a))

FairSpec == Spec /\ Fairness

-----------------------------------------------------------------------------
(* Properties                                                              *)

Partial(V) == UNION {[Q -> V] : Q \in SUBSET Proposals}

SyncerRecord ==
    [stage : SyncStages, batch : Partial(ServerStates),
     cur : Proposals \cup {None}, state : ServerStates, performed : BOOLEAN]

ReconcilerRecord ==
    [stage : ReconcileStages, plan : Partial(Tasks),
     cur : Proposals \cup {None}, retry : BOOLEAN, success : BOOLEAN,
     acked : BOOLEAN]

\* A loop in the middle of an upsert or a reconciliation has a proposal at
\* hand, whose object exists before anything is patched; and it plans only for
\* objects that exist.
AtHand(a) ==
    /\ syncer[a].stage /= "rest" => syncer[a].cur \in Proposals
    /\ syncer[a].stage \in {"spec", "status"}
         => syncer[a].cur \in DOMAIN resolution
    /\ reconciler[a].stage /= "rest"
         => reconciler[a].cur \in DOMAIN resolution
    /\ DOMAIN reconciler[a].plan \subseteq DOMAIN resolution

\* Type invariant: every variable has its type, and no loop writes to an
\* object that is not there (crdsync.go, upsertResolution).
TypeOK ==
    /\ server \in [Proposals -> ServerStates \cup {"Absent"}]
    /\ pin \in [Proposals -> Nat]
    /\ live \in [Targets -> Nat]
    /\ resolution \in Partial(Resolution)
    /\ syncer \in [Agents -> SyncerRecord]
    /\ reconciler \in [Agents -> ReconcilerRecord]
    /\ applied \in [Proposals -> Nat]
    /\ byHand \in SUBSET Proposals
    /\ faults \in Nat
    /\ \A a \in Agents : AtHand(a)

\* However often agents crash, overlap and start an apply over again, the
\* resourceVersion test lets one patch through per version of a target: no
\* proposal changes its target twice, and of two proposals made from the same
\* version one at most does (applier.go, apply).
EachVersionPatchedOnce ==
    \A p, q \in Proposals :
      TargetOf[p] = TargetOf[q] /\ pin[p] = pin[q] /\ applied[p] > 0
        => applied[p] = 1 /\ (applied[q] > 0 => p = q)

\* A target is changed only for a proposal a human approved, or triggered by
\* hand in the cluster, whatever stale answers the two loops work from
\* (crdsync.go, upsertResolution: "Never true while Pending or Rejected").
AppliedOnlyWhenApproved ==
    \A p \in Proposals :
      applied[p] > 0 => p \in byHand \/ server[p] \in {"Approved", "Applied", "Failed"}

\* The server records Applied only of a patch that changed its target, the
\* report being derived a second time from a phase two loops write
\* (resolutionreconciler.go, retryOutcomeReport).
ServerAppliedMeansApplied ==
    \A p \in Proposals : server[p] = "Applied" => applied[p] > 0

\* performed never flips back, although the sync loop goes on writing the
\* same status (resolutionreconciler.go, applyAndRecord).
PerformedIsFinal ==
    [][\A p \in DOMAIN resolution :
         resolution[p].performed => resolution'[p].performed]_vars

\* An agent that may still apply a proposal: it has it at hand or planned.
Applying(a, p) ==
    \/ reconciler[a].cur = p /\ ~reconciler[a].retry
    \/ p \in DOMAIN reconciler[a].plan /\ reconciler[a].plan[p] = "apply"

\* Once a proposal is performed and no agent is left with an apply of it from
\* before, none takes it up again and its target is not changed for it any
\* more, even if it failed and its pin still matches (reconcileOnce: "This
\* never re-runs once performed is true").
NothingAppliedOncePerformed ==
    [][\A p \in DOMAIN resolution :
         resolution[p].performed /\ (\A a \in Agents : ~Applying(a, p))
           => applied'[p] = applied[p] /\ \A a \in Agents : ~Applying(a, p)']_vars

\* What the server remembers is what happened to the cluster: an Applied
\* proposal changed its target and a Failed one did not
\* (api/v1alpha1/incident_types.go, OutcomeReported).
HistoryMatchesCluster ==
    \A p \in Proposals :
      /\ server[p] = "Applied" => applied[p] > 0
      /\ server[p] = "Failed" => applied[p] = 0

\* What RemediationLifecycle speaks of, as it shows in this module.  Each
\* proposal is taken for that of an incident of its own: that those of one
\* incident do not stand together is the store's affair.
About == [p \in Proposals |-> IF server[p] = "Absent" THEN None ELSE p]
MadeFrom == [p \in Proposals |-> <<TargetOf[p], pin[p]>>]
Changed == {p \in Proposals : applied[p] > 0}
Reported == {p \in DOMAIN resolution : resolution[p].reported}

Promise == INSTANCE RemediationLifecycle WITH
    Incidents <- Proposals, NoIncident <- None, Versions <- Targets \X Nat,
    phase <- server, about <- About, madeFrom <- MadeFrom,
    overridden <- byHand, changed <- Changed, reported <- Reported

\* Past stale reads, overlapping agents, crashes and lost answers, the two loops
\* keep the promise made about remediation: a change only for what was let
\* through and once per version, Applied only after the change, reported only
\* what the server has an outcome of (resolutionreconciler.go, applyAndRecord
\* and retryOutcomeReport; crdsync.go, upsertResolution).
ImplementsPromise == Promise!RemediationSpec

\* An approved proposal does not stay Approved: some outcome reaches the
\* server, past crashes, failed calls and lost reports.
ApprovedEventuallySettled ==
    \A p \in Proposals :
      server[p] = "Approved" ~> server[p] \in {"Applied", "Failed"}

\* A status flag of a MeshResolution, false while there is none.
Has(p, flag) == p \in DOMAIN resolution /\ resolution[p][flag]

\* An outcome the server does not take: nobody approved the proposal, or the
\* other outcome was recorded before.
Unacceptable(p) ==
    \/ server[p] \in {"Pending", "Rejected"}
    \/ server[p] \in {"Applied", "Failed"}
         /\ server[p] /= Outcome(resolution[p].phase = "Applied")

\* What was performed is eventually acknowledged by the server, unless the
\* server knows better or was never asked (api/v1alpha1/incident_types.go: the
\* reconciler "retries the report, never the apply, until this flips true").
PerformedEventuallyReported ==
    \A p \in Proposals :
      Has(p, "performed") ~> Has(p, "reported") \/ Unacceptable(p)
=============================================================================
