------------------------ MODULE RemediationProofs ------------------------
(***************************************************************************)
(* Proofs about Remediation, for any number of agents, proposals, targets  *)
(* and faults.  The typing invariant comes first; then Progress, which     *)
(* says what no step ever takes back; then the inductive invariant that    *)
(* says that whatever a loop has read is still backed by the server and    *)
(* by the cluster when it is used.                                         *)
(***************************************************************************)
EXTENDS Remediation, TLAPS

USE RemediationAssumption

-----------------------------------------------------------------------------
(* Partial functions                                                       *)

LEMMA PartialDomain ==
    ASSUME NEW V, NEW f
    PROVE  f \in Partial(V) <=> DOMAIN f \subseteq Proposals /\ f \in [DOMAIN f -> V]
<1>1. f \in Partial(V) <=> \E Q \in SUBSET Proposals : f \in [Q -> V]
  BY DEF Partial
<1>2. ASSUME NEW Q \in SUBSET Proposals, f \in [Q -> V] PROVE DOMAIN f = Q
  BY <1>2
<1> QED
  BY <1>1, <1>2

LEMMA PartialBuild ==
    ASSUME NEW V, NEW Q \in SUBSET Proposals, NEW f \in [Q -> V]
    PROVE  f \in Partial(V) /\ DOMAIN f = Q
BY DEF Partial

LEMMA PartialRestriction ==
    ASSUME NEW V, NEW f \in Partial(V), NEW Q \in SUBSET DOMAIN f
    PROVE  [x \in Q |-> f[x]] \in Partial(V)
<1>1. DOMAIN f \subseteq Proposals /\ f \in [DOMAIN f -> V]
  BY PartialDomain
<1>2. [x \in Q |-> f[x]] \in [Q -> V]
  BY <1>1
<1> QED
  BY <1>1, <1>2, PartialBuild

LEMMA PartialEmpty ==
    ASSUME NEW V, NEW v
    PROVE  [x \in {} |-> v] \in Partial(V)
<1>1. [x \in {} |-> v] \in [{} -> V]
  OBVIOUS
<1> QED
  BY <1>1, PartialBuild

LEMMA PartialUpdate ==
    ASSUME NEW V, NEW f \in Partial(V), NEW x \in DOMAIN f, NEW v \in V
    PROVE  /\ [f EXCEPT ![x] = v] \in Partial(V)
           /\ DOMAIN [f EXCEPT ![x] = v] = DOMAIN f
<1>1. DOMAIN f \subseteq Proposals /\ f \in [DOMAIN f -> V]
  BY PartialDomain
<1>2. [f EXCEPT ![x] = v] \in [DOMAIN f -> V]
  BY <1>1
<1> QED
  BY <1>1, <1>2, PartialBuild

-----------------------------------------------------------------------------
(* Typing                                                                  *)

LEMMA InitTypes == Init => TypeOK
<1>1. IdleSyncer \in SyncerRecord
  BY PartialEmpty DEF IdleSyncer, SyncerRecord, SyncStages, ServerStates
<1>2. IdleReconciler \in ReconcilerRecord
  BY PartialEmpty DEF IdleReconciler, ReconcilerRecord, ReconcileStages
<1>3. [x \in {} |-> Created("Pending")] \in Partial(Resolution)
  BY PartialEmpty
<1>4. ASSUME Init, NEW a \in Agents PROVE AtHand(a)
  BY <1>4 DEF Init, AtHand, IdleSyncer, IdleReconciler
<1> QED
  BY <1>1, <1>2, <1>3, <1>4 DEF Init, TypeOK, ServerStates

LEMMA SyncTypes ==
    ASSUME TypeOK, NEW a \in Agents,
           SyncStep(a) \/ SyncAbandon(a)
    PROVE  TypeOK'
<1> DEFINE s == syncer[a]
<1>1. s \in SyncerRecord /\ AtHand(a)
  BY DEF TypeOK
<1>2. IdleSyncer \in SyncerRecord /\ [IdleSyncer EXCEPT !.batch = s.batch] \in SyncerRecord
  BY <1>1, PartialEmpty DEF IdleSyncer, SyncerRecord, SyncStages, ServerStates
<1>3. UNCHANGED <<server, pin, live, applied, reconciler, byHand>>
  BY DEF SyncStep, SyncAbandon, FetchProposals, SyncGet, SyncCreate, SyncPatchSpec,
         SyncPatchPhase, SyncFrame
<1>4. faults' \in Nat
  <2>1. faults' = faults \/ faults' = faults + 1
    BY DEF SyncStep, SyncAbandon, FetchProposals, SyncGet, SyncCreate, SyncPatchSpec,
           SyncPatchPhase, NoFault, Fault
  <2>2. faults \in Nat
    BY DEF TypeOK
  <2> QED
    BY <2>1, <2>2
<1>5. /\ resolution' \in Partial(Resolution)
      /\ DOMAIN resolution \subseteq DOMAIN resolution'
      /\ syncer' \in [Agents -> SyncerRecord]
      /\ \A b \in Agents \ {a} : syncer'[b] = syncer[b]
      /\ syncer'[a].stage /= "rest" => syncer'[a].cur \in Proposals
      /\ syncer'[a].stage \in {"spec", "status"} => syncer'[a].cur \in DOMAIN resolution'
  <2>1. CASE FetchProposals(a)
    <3> DEFINE Q == {x \in Proposals : server[x] /= "Absent"}
               batch == [x \in Q |-> server[x]]
    <3>1. batch \in Partial(ServerStates)
      <4>1. batch \in [Q -> ServerStates]
        BY DEF TypeOK
      <4> QED
        BY <4>1, PartialBuild
    <3>2. syncer' = [syncer EXCEPT ![a] = [s EXCEPT !.batch = batch]]
      BY <2>1 DEF FetchProposals
    <3>3. [s EXCEPT !.batch = batch] \in SyncerRecord
      BY <1>1, <3>1 DEF SyncerRecord
    <3>4. s.stage = "rest"
      BY <2>1 DEF FetchProposals, IdleSyncer
    <3> HIDE DEF batch
    <3> QED
      BY <1>1, <3>2, <3>3, <3>4, <2>1 DEF TypeOK, FetchProposals, SyncerRecord
  <2>2. CASE \E p \in Proposals : SyncGet(a, p)
    <3> PICK p \in Proposals : SyncGet(a, p)
      BY <2>2
    <3> DEFINE batch == [x \in DOMAIN s.batch \ {p} |-> s.batch[x]]
               r == [stage |-> IF p \in DOMAIN resolution THEN "spec" ELSE "create",
                     batch |-> batch, cur |-> p, state |-> s.batch[p],
                     performed |-> p \in DOMAIN resolution /\ resolution[p].performed]
    <3>1. batch \in Partial(ServerStates)
      BY <1>1, PartialRestriction DEF SyncerRecord
    <3>2. p \in DOMAIN s.batch /\ s.batch[p] \in ServerStates
      BY <1>1, PartialDomain DEF SyncGet, SyncerRecord
    <3>3. (p \in DOMAIN resolution /\ resolution[p].performed) \in BOOLEAN
      OBVIOUS
    <3> HIDE DEF batch
    <3>4. r \in SyncerRecord
      BY <3>1, <3>2, <3>3 DEF SyncerRecord, SyncStages
    <3>5. syncer' = [syncer EXCEPT ![a] = r]
      BY DEF SyncGet, batch
    <3>6. r.cur = p /\ (r.stage \in {"spec", "status"} => p \in DOMAIN resolution)
      OBVIOUS
    <3> HIDE DEF r
    <3> QED
      BY <3>4, <3>5, <3>6 DEF TypeOK, SyncGet
  <2>3. CASE SyncCreate(a)
    <3>1. s.cur \in Proposals
      BY <1>1, <2>3 DEF SyncCreate, AtHand
    <3>2. Created(s.state) \in Resolution
      <4>1. (s.state \in Authorizing) \in BOOLEAN
        OBVIOUS
      <4> QED
        BY <4>1 DEF Created, Resolution
    <3>3. DOMAIN resolution \subseteq Proposals /\ resolution \in [DOMAIN resolution -> Resolution]
      BY PartialDomain DEF TypeOK
    <3>4. resolution' \in Partial(Resolution) /\ DOMAIN resolution \subseteq DOMAIN resolution'
      <4>1. CASE s.cur \in DOMAIN resolution
        BY <4>1, <2>3 DEF SyncCreate, TypeOK
      <4>2. CASE s.cur \notin DOMAIN resolution
        <5>1. resolution' = [x \in DOMAIN resolution \cup {s.cur} |->
                               IF x = s.cur THEN Created(s.state) ELSE resolution[x]]
          BY <4>2, <2>3 DEF SyncCreate
        <5>2. resolution' \in [DOMAIN resolution \cup {s.cur} -> Resolution]
          BY <5>1, <3>2, <3>3
        <5> QED
          BY <5>2, <3>1, <3>3, PartialBuild
      <4> QED
        BY <4>1, <4>2
    <3> QED
      BY <1>2, <2>3, <3>4 DEF SyncCreate, SyncDone, IdleSyncer, TypeOK
  <2>4. CASE SyncPatchSpec(a)
    <3>1. s.cur \in DOMAIN resolution
      BY <2>4, <1>1 DEF SyncPatchSpec, AtHand
    <3>2. resolution' \in Partial(Resolution) /\ DOMAIN resolution' = DOMAIN resolution
      <4> DEFINE r == [resolution[s.cur] EXCEPT !.triggered = s.state \in Authorizing]
      <4>1. resolution' = [resolution EXCEPT ![s.cur] = r]
        BY <2>4 DEF SyncPatchSpec
      <4>2. resolution[s.cur] \in Resolution
        BY <3>1, PartialDomain DEF TypeOK
      <4>3. (s.state \in Authorizing) \in BOOLEAN
        OBVIOUS
      <4>4. r \in Resolution
        BY <4>2, <4>3 DEF Resolution
      <4> QED
        BY <4>1, <4>4, <3>1, PartialUpdate DEF TypeOK
    <3>3. CASE s.performed
      <4>1. syncer' = [syncer EXCEPT ![a] = [IdleSyncer EXCEPT !.batch = s.batch]]
        BY <3>3, <2>4 DEF SyncPatchSpec, SyncDone
      <4>2. [IdleSyncer EXCEPT !.batch = s.batch].stage = "rest"
        BY DEF IdleSyncer
      <4> QED
        BY <4>1, <4>2, <3>2, <1>2 DEF TypeOK
    <3>4. CASE ~s.performed
      <4>1. syncer' = [syncer EXCEPT ![a] = [s EXCEPT !.stage = "status"]]
        BY <3>4, <2>4 DEF SyncPatchSpec
      <4>2. [s EXCEPT !.stage = "status"] \in SyncerRecord
        BY <1>1 DEF SyncerRecord, SyncStages
      <4>3. [s EXCEPT !.stage = "status"].cur = s.cur
        BY <1>1 DEF SyncerRecord
      <4> QED
        BY <4>1, <4>2, <4>3, <3>1, <3>2, <1>1, PartialDomain DEF TypeOK
    <3> QED
      BY <3>3, <3>4
  <2>5. CASE SyncPatchPhase(a)
    <3>1. s.cur \in DOMAIN resolution /\ s.state \in ServerStates
      BY <2>5, <1>1 DEF SyncPatchPhase, AtHand, SyncerRecord
    <3>2. resolution' \in Partial(Resolution) /\ DOMAIN resolution' = DOMAIN resolution
      <4> DEFINE r == [resolution[s.cur] EXCEPT !.phase = s.state]
      <4>1. resolution' = [resolution EXCEPT ![s.cur] = r]
        BY <2>5 DEF SyncPatchPhase
      <4>2. resolution[s.cur] \in Resolution
        BY <3>1, PartialDomain DEF TypeOK
      <4>3. r \in Resolution
        BY <4>2, <3>1 DEF Resolution
      <4> QED
        BY <4>1, <4>3, <3>1, PartialUpdate DEF TypeOK
    <3> QED
      BY <3>2, <1>2, <2>5 DEF SyncPatchPhase, SyncDone, IdleSyncer, TypeOK
  <2>6. CASE SyncAbandon(a)
    BY <1>2, <2>6 DEF SyncAbandon, SyncDone, IdleSyncer, TypeOK
  <2> QED
    BY <2>1, <2>2, <2>3, <2>4, <2>5, <2>6 DEF SyncStep
<1> QED
  BY <1>3, <1>4, <1>5 DEF TypeOK, AtHand

LEMMA ReconcileTypes ==
    ASSUME TypeOK, NEW a \in Agents,
           ReconcileStep(a) \/ PatchAckLost(a) \/ ReportLost(a) \/ ReportAckLost(a)
             \/ ReconcileApiError(a)
    PROVE  TypeOK'
<1> DEFINE s == reconciler[a]
           idle == [IdleReconciler EXCEPT !.plan = s.plan]
<1>1. s \in ReconcilerRecord /\ AtHand(a)
  BY DEF TypeOK
<1>2. /\ s = [stage |-> s.stage, plan |-> s.plan, cur |-> s.cur, retry |-> s.retry,
              success |-> s.success, acked |-> s.acked]
      /\ s.plan \in Partial(Tasks) /\ s.retry \in BOOLEAN /\ s.success \in BOOLEAN
      /\ s.acked \in BOOLEAN /\ s.cur \in Proposals \cup {None}
  BY <1>1 DEF ReconcilerRecord
<1> DEFINE Moved(stage, success) ==
             [stage |-> stage, plan |-> s.plan, cur |-> s.cur, retry |-> s.retry,
              success |-> success, acked |-> s.acked]
<1>a. ASSUME NEW stage, reconciler' = [reconciler EXCEPT ![a].stage = stage]
      PROVE  reconciler' = [reconciler EXCEPT ![a] = Moved(stage, s.success)]
  <2>1. [s EXCEPT !.stage = stage] = Moved(stage, s.success)
    BY <1>2
  <2>2. reconciler' = [reconciler EXCEPT ![a] = [s EXCEPT !.stage = stage]]
    BY <1>a
  <2> QED
    BY <2>1, <2>2
<1>b. ASSUME NEW stage, NEW success,
             reconciler' = [reconciler EXCEPT ![a].stage = stage, ![a].success = success]
      PROVE  reconciler' = [reconciler EXCEPT ![a] = Moved(stage, success)]
  <2> DEFINE r == [reconciler EXCEPT ![a] = [s EXCEPT !.stage = stage]]
  <2>1. reconciler' = [r EXCEPT ![a] = [r[a] EXCEPT !.success = success]]
    BY <1>b
  <2>2. r[a] = Moved(stage, s.success)
    <3>1. r[a] = [s EXCEPT !.stage = stage]
      BY DEF TypeOK
    <3> QED
      BY <3>1, <1>2
  <2>3. [r[a] EXCEPT !.success = success] = Moved(stage, success)
    BY <2>2
  <2>4. \A v : [r EXCEPT ![a] = v] = [reconciler EXCEPT ![a] = v]
    BY DEF TypeOK
  <2> QED
    BY <2>1, <2>3, <2>4
<1>3. idle \in ReconcilerRecord /\ idle.stage = "rest" /\ idle.plan = s.plan
  BY <1>2 DEF IdleReconciler, ReconcilerRecord, ReconcileStages
<1>4. DOMAIN resolution \subseteq Proposals /\ resolution \in [DOMAIN resolution -> Resolution]
  BY PartialDomain DEF TypeOK
<1>5. faults' \in Nat
  <2>1. faults' = faults \/ faults' = faults + 1
    BY DEF ReconcileStep, ListResolutions, Begin, DryRunPasses, DryRunFails, PatchApplies,
           PatchFails, Report, RecordStatus, PatchAckLost, ReportLost, ReportAckLost,
           ReconcileApiError, NoFault, Fault
  <2>2. faults \in Nat
    BY DEF TypeOK
  <2> QED
    BY <2>1, <2>2
<1>6. UNCHANGED <<pin, syncer>>
  BY DEF ReconcileStep, ListResolutions, Begin, DryRunPasses, DryRunFails, PatchApplies,
         PatchFails, Report, RecordStatus, PatchAckLost, ReportLost, ReportAckLost,
         ReconcileApiError, ReconcileFrame
<1>7. server' \in [Proposals -> ServerStates \cup {"Absent"}]
  <2>1. CASE UNCHANGED server
    BY <2>1 DEF TypeOK
  <2>2. CASE RecordOutcome(s.cur, s.success)
    BY <2>2 DEF TypeOK, RecordOutcome, Outcome, ServerStates
  <2> QED
    BY <2>1, <2>2 DEF ReconcileStep, ListResolutions, Begin, DryRunPasses, DryRunFails,
       PatchApplies, PatchFails, Report, RecordStatus, PatchAckLost, ReportLost, ReportAckLost,
       ReconcileApiError
<1>8. live' \in [Targets -> Nat] /\ applied' \in [Proposals -> Nat]
  <2>1. CASE UNCHANGED <<live, applied>>
    BY <2>1 DEF TypeOK
  <2>2. CASE s.cur \in Proposals /\ ChangeTarget(s.cur)
    BY <2>2 DEF TypeOK, ChangeTarget
  <2>3. s.stage = "patch" => s.cur \in Proposals
    BY <1>1, <1>4 DEF AtHand
  <2> QED
    BY <2>1, <2>2, <2>3 DEF ReconcileStep, ListResolutions, Begin, DryRunPasses, DryRunFails,
       PatchApplies, PatchFails, Report, RecordStatus, PatchAckLost, ReportLost, ReportAckLost,
       ReconcileApiError, cluster
<1>9. byHand' \in SUBSET Proposals
  <2>1. byHand \in SUBSET Proposals
    BY DEF TypeOK
  <2>2. byHand' = byHand
    BY DEF ReconcileStep, ListResolutions, Begin, DryRunPasses, DryRunFails,
       PatchApplies, PatchFails, Report, RecordStatus, PatchAckLost, ReportLost, ReportAckLost,
       ReconcileApiError
  <2> QED
    BY <2>1, <2>2
<1>10. resolution' \in Partial(Resolution) /\ DOMAIN resolution' = DOMAIN resolution
  <2>1. CASE UNCHANGED resolution
    BY <2>1 DEF TypeOK
  <2>2. CASE RecordStatus(a)
    <3>1. s.cur \in DOMAIN resolution
      BY <2>2, <1>1 DEF RecordStatus, AtHand
    <3> DEFINE r == RecordedStatus(a, resolution[s.cur])
    <3>2. resolution' = [resolution EXCEPT ![s.cur] = r]
      BY <2>2 DEF RecordStatus
    <3>3. r \in Resolution
      BY <3>1, <1>2, <1>4 DEF RecordedStatus, Resolution, Outcome, ServerStates
    <3> QED
      BY <3>1, <3>2, <3>3, PartialUpdate DEF TypeOK
  <2> QED
    BY <2>1, <2>2 DEF ReconcileStep, ListResolutions, Begin, DryRunPasses, DryRunFails,
       PatchApplies, PatchFails, Report, PatchAckLost, ReportLost, ReportAckLost,
       ReconcileApiError, ChangeTarget, cluster
<1>11. /\ reconciler' \in [Agents -> ReconcilerRecord]
       /\ \A b \in Agents \ {a} : reconciler'[b] = reconciler[b]
       /\ reconciler'[a].stage /= "rest" => reconciler'[a].cur \in DOMAIN resolution
       /\ DOMAIN reconciler'[a].plan \subseteq DOMAIN resolution
  <2>1. ASSUME NEW r, reconciler' = [reconciler EXCEPT ![a] = r], r \in ReconcilerRecord,
               r.stage /= "rest" => r.cur \in DOMAIN resolution,
               DOMAIN r.plan \subseteq DOMAIN resolution
        PROVE  <1>11!:
    BY <2>1 DEF TypeOK
  <2>2. CASE ListResolutions(a)
    <3> DEFINE Q == {q \in DOMAIN resolution :
                       NeedsApply(resolution[q]) \/ NeedsReport(resolution[q])}
               plan == [p \in Q |-> Task(resolution[p])]
    <3>1. plan \in Partial(Tasks) /\ DOMAIN plan = Q
      <4>1. plan \in [Q -> Tasks]
        BY DEF Task, Tasks
      <4> QED
        BY <4>1, <1>4, PartialBuild
    <3>2. s = IdleReconciler /\ reconciler' = [reconciler EXCEPT ![a] = [s EXCEPT !.plan = plan]]
      BY <2>2 DEF ListResolutions
    <3> HIDE DEF plan
    <3>3. /\ [s EXCEPT !.plan = plan] \in ReconcilerRecord
          /\ [s EXCEPT !.plan = plan].stage = "rest"
          /\ [s EXCEPT !.plan = plan].plan = plan
      <4>1. [s EXCEPT !.plan = plan] =
              [stage |-> s.stage, plan |-> plan, cur |-> s.cur, retry |-> s.retry,
               success |-> s.success, acked |-> s.acked]
        BY <1>2
      <4>2. s.stage = "rest"
        BY <3>2 DEF IdleReconciler
      <4> QED
        BY <4>1, <4>2, <1>2, <3>1 DEF ReconcilerRecord, ReconcileStages
    <3> QED
      BY <3>1, <3>2, <3>3, <2>1
  <2>3. CASE \E p \in Proposals : Begin(a, p)
    <3> PICK p \in Proposals : Begin(a, p)
      BY <2>3
    <3> DEFINE task == s.plan[p]
               plan == [x \in DOMAIN s.plan \ {p} |-> s.plan[x]]
               r == [stage |-> IF task = "apply" THEN "dryrun" ELSE "report",
                     plan |-> plan, cur |-> p, retry |-> task /= "apply",
                     success |-> task = "reportSuccess", acked |-> FALSE]
    <3>1. p \in DOMAIN s.plan /\ p \in DOMAIN resolution
      BY <1>1 DEF Begin, AtHand
    <3>2. plan \in Partial(Tasks)
      BY <1>2, PartialRestriction
    <3>3. DOMAIN plan \subseteq DOMAIN resolution
      BY <1>1 DEF AtHand
    <3>4. reconciler' = [reconciler EXCEPT ![a] = r]
      BY DEF Begin
    <3>5. (task /= "apply") \in BOOLEAN /\ (task = "reportSuccess") \in BOOLEAN
      OBVIOUS
    <3> HIDE DEF plan
    <3>6. r \in ReconcilerRecord
      BY <3>2, <3>5 DEF ReconcilerRecord, ReconcileStages
    <3>7. r.cur = p /\ r.plan = plan
      OBVIOUS
    <3> QED
      BY <3>1, <3>3, <3>4, <3>6, <3>7, <2>1
  <2>4. ASSUME NEW stage \in ReconcileStages, NEW success \in BOOLEAN, NEW acked \in BOOLEAN,
               s.stage /= "rest",
               reconciler' = [reconciler EXCEPT ![a] =
                 [stage |-> stage, plan |-> s.plan, cur |-> s.cur, retry |-> s.retry,
                  success |-> success, acked |-> acked]]
        PROVE  <1>11!:
    <3> DEFINE r == [stage |-> stage, plan |-> s.plan, cur |-> s.cur, retry |-> s.retry,
                     success |-> success, acked |-> acked]
    <3>1. r \in ReconcilerRecord /\ r.cur = s.cur /\ r.plan = s.plan
      BY <1>2 DEF ReconcilerRecord
    <3>2. s.cur \in DOMAIN resolution /\ DOMAIN s.plan \subseteq DOMAIN resolution
      BY <2>4, <1>1 DEF AtHand
    <3> HIDE DEF r
    <3> QED
      BY <3>1, <3>2, <2>4, <2>1 DEF r
  <2>5. ASSUME ReconcileDone(a) PROVE <1>11!:
    <3>1. DOMAIN s.plan \subseteq DOMAIN resolution
      BY <1>1 DEF AtHand
    <3> QED
      BY <3>1, <2>5, <1>3, <2>1 DEF ReconcileDone
  <2>6. ASSUME NEW acked \in BOOLEAN, s.stage /= "rest", Answered(a, acked) PROVE <1>11!:
    <3>1. CASE s.retry /\ ~acked
      BY <3>1, <2>5, <2>6 DEF Answered
    <3>2. CASE ~(s.retry /\ ~acked)
      BY <3>2, <2>6, <1>2, <2>4 DEF Answered, ReconcileStages
    <3> QED
      BY <3>1, <3>2
  <2>7. CASE DryRunPasses(a)
    <3>1. reconciler' = [reconciler EXCEPT ![a] =
            [stage |-> "patch", plan |-> s.plan, cur |-> s.cur, retry |-> s.retry,
             success |-> s.success, acked |-> s.acked]]
      BY <2>7, <1>a DEF DryRunPasses
    <3>2. s.stage /= "rest"
      BY <2>7 DEF DryRunPasses
    <3> QED
      BY <3>1, <3>2, <1>2, <2>4 DEF ReconcileStages
  <2>8. CASE DryRunFails(a) \/ PatchFails(a)
    BY <2>8, <1>2, <2>4 DEF DryRunFails, PatchFails, ReconcileStages
  <2>9. CASE PatchApplies(a)
    <3>1. reconciler' = [reconciler EXCEPT ![a] =
            [stage |-> "report", plan |-> s.plan, cur |-> s.cur, retry |-> s.retry,
             success |-> TRUE, acked |-> s.acked]]
      BY <2>9, <1>b DEF PatchApplies
    <3>2. s.stage /= "rest"
      BY <2>9 DEF PatchApplies
    <3> QED
      BY <3>1, <3>2, <1>2, <2>4 DEF ReconcileStages
  <2>10. CASE PatchAckLost(a)
    <3>1. reconciler' = [reconciler EXCEPT ![a] =
            [stage |-> "report", plan |-> s.plan, cur |-> s.cur, retry |-> s.retry,
             success |-> s.success, acked |-> s.acked]]
      BY <2>10, <1>a DEF PatchAckLost
    <3>2. s.stage /= "rest"
      BY <2>10 DEF PatchAckLost
    <3> QED
      BY <3>1, <3>2, <1>2, <2>4 DEF ReconcileStages
  <2>11. CASE Report(a)
    <3>1. Accepts(s.cur, s.success) \in BOOLEAN
      BY DEF Accepts
    <3> QED
      BY <2>11, <3>1, <2>6 DEF Report
  <2>12. CASE ReportLost(a) \/ ReportAckLost(a)
    BY <2>12, <2>6 DEF ReportLost, ReportAckLost
  <2>13. CASE RecordStatus(a)
    BY <2>13, <2>5 DEF RecordStatus
  <2>14. CASE ReconcileApiError(a)
    BY <2>14, <1>2, <2>4, <2>5 DEF ReconcileApiError, ReconcileStages
  <2> QED
    BY <2>2, <2>3, <2>7, <2>8, <2>9, <2>10, <2>11, <2>12, <2>13, <2>14 DEF ReconcileStep
<1> QED
  BY <1>5, <1>6, <1>7, <1>8, <1>9, <1>10, <1>11 DEF TypeOK, AtHand

LEMMA CrashTypes ==
    ASSUME TypeOK, NEW a \in Agents, Crash(a)
    PROVE  TypeOK'
<1>1. /\ IdleSyncer \in SyncerRecord /\ IdleSyncer.stage = "rest"
      /\ IdleReconciler \in ReconcilerRecord /\ IdleReconciler.stage = "rest"
      /\ DOMAIN IdleReconciler.plan = {}
  BY PartialEmpty DEF IdleSyncer, SyncerRecord, SyncStages, ServerStates,
     IdleReconciler, ReconcilerRecord, ReconcileStages
<1>2. faults \in Nat /\ faults' = faults + 1
  BY DEF Crash, Fault, TypeOK
<1>3. UNCHANGED <<server, pin, live, resolution, applied, byHand>>
  BY DEF Crash, cluster
<1> QED
  BY <1>1, <1>2, <1>3 DEF Crash, TypeOK, AtHand

LEMMA PeopleTypes ==
    ASSUME TypeOK,
           \/ \E p \in Proposals : Propose(p) \/ Decide(p) \/ KubectlTrigger(p)
           \/ \E t \in Targets : Edit(t)
    PROVE  TypeOK'
<1>1. ASSUME NEW p \in Proposals, Propose(p) PROVE TypeOK'
  <2>1. server' \in [Proposals -> ServerStates \cup {"Absent"}]
    BY <1>1 DEF TypeOK, Propose, ServerStates
  <2>2. TargetOf[p] \in Targets /\ live[TargetOf[p]] \in Nat
    BY DEF TypeOK
  <2>3. pin' \in [Proposals -> Nat]
    BY <1>1, <2>2 DEF TypeOK, Propose
  <2> QED
    BY <1>1, <2>1, <2>3 DEF TypeOK, Propose, AtHand, cluster
<1>2. ASSUME NEW p \in Proposals, Decide(p) PROVE TypeOK'
  <2>1. server' \in [Proposals -> ServerStates \cup {"Absent"}]
    BY <1>2 DEF TypeOK, Decide, ServerStates
  <2> QED
    BY <1>2, <2>1 DEF TypeOK, Decide, AtHand, cluster
<1>3. ASSUME NEW p \in Proposals, KubectlTrigger(p) PROVE TypeOK'
  <2> DEFINE r == [resolution[p] EXCEPT !.triggered = TRUE]
  <2>1. p \in DOMAIN resolution /\ resolution' = [resolution EXCEPT ![p] = r]
    BY <1>3 DEF KubectlTrigger
  <2>2. r \in Resolution
    <3>1. resolution[p] \in Resolution
      BY <2>1, PartialDomain DEF TypeOK
    <3> QED
      BY <3>1 DEF Resolution
  <2>3. resolution' \in Partial(Resolution) /\ DOMAIN resolution' = DOMAIN resolution
    BY <2>1, <2>2, PartialUpdate DEF TypeOK
  <2>4. byHand' \in SUBSET Proposals
    BY <1>3 DEF TypeOK, KubectlTrigger
  <2> QED
    BY <1>3, <2>3, <2>4 DEF TypeOK, KubectlTrigger, AtHand
<1>4. ASSUME NEW t \in Targets, Edit(t) PROVE TypeOK'
  <2>1. live' \in [Targets -> Nat]
    BY <1>4 DEF TypeOK, Edit
  <2> QED
    BY <1>4, <2>1 DEF TypeOK, Edit, AtHand
<1> QED
  BY <1>1, <1>2, <1>3, <1>4

LEMMA NextTypes == TypeOK /\ [Next]_vars => TypeOK'
<1> SUFFICES ASSUME TypeOK, [Next]_vars PROVE TypeOK'
  OBVIOUS
<1>1. CASE UNCHANGED vars
  BY <1>1 DEF vars, cluster, TypeOK, AtHand
<1>2. CASE Next
  BY <1>2, SyncTypes, ReconcileTypes, CrashTypes, PeopleTypes DEF Next, Faulty
<1> QED
  BY <1>1, <1>2

\* Every state of every behaviour has its types, and no loop writes to an
\* object that is not there.
THEOREM TypeCorrect == Spec => []TypeOK
BY InitTypes, NextTypes, PTL DEF Spec

-----------------------------------------------------------------------------
(* What no step takes back                                                 *)

\* From one state to the next: a proposal stays on the server and keeps its
\* pin, what authorizes it goes on doing so, and neither a change of its target
\* nor a trigger by hand is undone.
Progress(p) ==
    /\ server[p] /= "Absent" => server'[p] /= "Absent" /\ pin'[p] = pin[p]
    /\ server[p] \in Authorizing => server'[p] \in Authorizing
    /\ applied'[p] >= applied[p]
    /\ p \in byHand => p \in byHand'

LEMMA StepProgresses ==
    ASSUME TypeOK, Next
    PROVE  /\ \A p \in Proposals : Progress(p)
           /\ \A t \in Targets : live'[t] >= live[t]
<1> DEFINE Goal == /\ \A p \in Proposals : Progress(p)
                   /\ \A t \in Targets : live'[t] >= live[t]
<1>1. ASSUME UNCHANGED <<server, pin, live, applied>>, byHand \subseteq byHand' PROVE Goal
  BY <1>1 DEF TypeOK, Progress
<1>2. ASSUME NEW p \in Proposals, Propose(p) \/ Decide(p) PROVE Goal
  BY <1>2 DEF Propose, Decide, TypeOK, Progress, Authorizing, ServerStates, cluster
<1>3. ASSUME NEW t \in Targets, Edit(t) PROVE Goal
  BY <1>3 DEF Edit, TypeOK, Progress
<1>4. ASSUME NEW p \in Proposals, ChangeTarget(p), UNCHANGED <<server, pin, byHand>>
      PROVE  Goal
  <2>1. TargetOf[p] \in Targets
    OBVIOUS
  <2> QED
    BY <1>4, <2>1 DEF ChangeTarget, TypeOK, Progress
<1>5. ASSUME NEW p, NEW success, RecordOutcome(p, success), UNCHANGED <<pin, live, applied, byHand>>
      PROVE  Goal
  BY <1>5 DEF RecordOutcome, Outcome, TypeOK, Progress, Authorizing, ServerStates
<1>6. ASSUME NEW a \in Agents, SyncStep(a) \/ SyncAbandon(a) PROVE Goal
  BY <1>6, <1>1 DEF SyncStep, SyncAbandon, FetchProposals, SyncGet, SyncCreate,
     SyncPatchSpec, SyncPatchPhase, SyncFrame
<1>7. ASSUME NEW a \in Agents, PatchApplies(a) \/ PatchAckLost(a) PROVE Goal
  <2>1. reconciler[a].cur \in Proposals
    BY <1>7, PartialDomain DEF TypeOK, AtHand, PatchApplies, PatchAckLost
  <2> QED
    BY <1>7, <1>4, <2>1 DEF PatchApplies, PatchAckLost, ReconcileFrame
<1>8. ASSUME NEW a \in Agents, Report(a) \/ ReportAckLost(a) PROVE Goal
  BY <1>8, <1>5 DEF Report, ReportAckLost, ReconcileFrame, cluster
<1>9. ASSUME NEW a \in Agents,
             \/ ListResolutions(a) \/ \E p \in Proposals : Begin(a, p)
             \/ DryRunPasses(a) \/ DryRunFails(a) \/ PatchFails(a) \/ RecordStatus(a)
             \/ ReportLost(a) \/ ReconcileApiError(a) \/ Crash(a)
      PROVE  Goal
  BY <1>9, <1>1 DEF ListResolutions, Begin, DryRunPasses, DryRunFails, PatchFails,
     RecordStatus, ReportLost, ReconcileApiError, Crash, ReconcileFrame, cluster
<1>10. ASSUME NEW p \in Proposals, KubectlTrigger(p) PROVE Goal
  BY <1>10, <1>1 DEF KubectlTrigger
<1> QED
  BY <1>2, <1>3, <1>6, <1>7, <1>8, <1>9, <1>10 DEF Next, ReconcileStep, Faulty

-----------------------------------------------------------------------------
(* The inductive invariant: whatever a loop has read is still backed       *)

Authorized(p) == p \in byHand \/ server[p] \in Authorizing

\* x is a state the server has had for p.
Seen(p, x) ==
    /\ server[p] /= "Absent"
    /\ x \in Authorizing => server[p] \in Authorizing
    /\ x = "Applied" => applied[p] > 0

ProposalBacked(p) ==
    /\ server[p] = "Applied" => applied[p] > 0
    /\ applied[p] > 0 => /\ server[p] /= "Absent"
                         /\ Authorized(p)
                         /\ pin[p] < live[TargetOf[p]]

ObjectBacked(p) ==
    /\ server[p] /= "Absent"
    /\ resolution[p].triggered => Authorized(p)
    /\ resolution[p].phase = "Applied" => applied[p] > 0

SyncerBacked(a) ==
    /\ \A p \in DOMAIN syncer[a].batch : Seen(p, syncer[a].batch[p])
    /\ syncer[a].stage /= "rest" => Seen(syncer[a].cur, syncer[a].state)

TaskBacked(p, task) ==
    /\ task = "apply" => Authorized(p)
    /\ task = "reportSuccess" => applied[p] > 0

ReconcilerBacked(a) ==
    /\ \A p \in DOMAIN reconciler[a].plan : TaskBacked(p, reconciler[a].plan[p])
    /\ reconciler[a].stage \in {"dryrun", "patch"} => Authorized(reconciler[a].cur)
    /\ reconciler[a].stage /= "rest" /\ reconciler[a].success
         => applied[reconciler[a].cur] > 0

Backed ==
    /\ \A p \in Proposals : ProposalBacked(p)
    /\ \A p \in DOMAIN resolution : ObjectBacked(p)
    /\ \A a \in Agents : SyncerBacked(a) /\ ReconcilerBacked(a)

IInv == TypeOK /\ Backed /\ EachVersionPatchedOnce

LEMMA InitBacked == Init => Backed /\ EachVersionPatchedOnce
BY DEF Init, Backed, EachVersionPatchedOnce, ProposalBacked, ObjectBacked, SyncerBacked,
   ReconcilerBacked, IdleSyncer, IdleReconciler

\* What was seen, planned or at hand in a loop that does not move stays backed.
LEMMA KeptSyncer ==
    ASSUME TypeOK, TypeOK', Backed, NEW a \in Agents, syncer'[a] = syncer[a],
           \A p \in Proposals : Progress(p)
    PROVE  SyncerBacked(a)'
<1>1. /\ SyncerBacked(a) /\ AtHand(a)
      /\ DOMAIN syncer[a].batch \subseteq Proposals
  BY PartialDomain DEF Backed, TypeOK, SyncerRecord
<1>2. \A p \in Proposals : applied[p] \in Nat /\ (applied[p] > 0 => applied'[p] > 0)
  <2> TAKE p \in Proposals
  <2>1. Progress(p) /\ applied[p] \in Nat /\ applied'[p] \in Nat
    BY DEF TypeOK
  <2> QED
    BY <2>1 DEF Progress
<1> QED
  BY <1>1, <1>2 DEF SyncerBacked, AtHand, Seen, Progress

LEMMA KeptReconciler ==
    ASSUME TypeOK, TypeOK', Backed, NEW a \in Agents, reconciler'[a] = reconciler[a],
           \A p \in Proposals : Progress(p)
    PROVE  ReconcilerBacked(a)'
<1>1. /\ ReconcilerBacked(a) /\ AtHand(a) /\ DOMAIN resolution \subseteq Proposals
  BY PartialDomain DEF Backed, TypeOK
<1>2. \A p \in Proposals : applied[p] \in Nat /\ (applied[p] > 0 => applied'[p] > 0)
  <2> TAKE p \in Proposals
  <2>1. Progress(p) /\ applied[p] \in Nat /\ applied'[p] \in Nat
    BY DEF TypeOK
  <2> QED
    BY <2>1 DEF Progress
<1>3. \A p \in Proposals : Authorized(p) => Authorized(p)'
  BY DEF Authorized, Progress
<1> QED
  BY <1>1, <1>2, <1>3 DEF ReconcilerBacked, AtHand, TaskBacked

LEMMA KeptObject ==
    ASSUME TypeOK, TypeOK', Backed, NEW p \in DOMAIN resolution, resolution'[p] = resolution[p],
           Progress(p)
    PROVE  ObjectBacked(p)'
<1>1. p \in Proposals /\ ObjectBacked(p)
  BY PartialDomain DEF Backed, TypeOK
<1>2. applied[p] > 0 => applied'[p] > 0
  <2>1. applied[p] \in Nat /\ applied'[p] \in Nat
    BY <1>1 DEF TypeOK
  <2> QED
    BY <2>1 DEF Progress
<1> QED
  BY <1>1, <1>2 DEF ObjectBacked, Authorized, Progress

\* A proposal whose target is not changed by the step, nor its outcome
\* recorded as Applied, stays backed.
LEMMA KeptProposal ==
    ASSUME TypeOK, Backed, NEW p \in Proposals, Progress(p), applied'[p] = applied[p],
           \A t \in Targets : live'[t] >= live[t],
           server'[p] = "Applied" => applied[p] > 0, TypeOK'
    PROVE  ProposalBacked(p)'
<1>1. ProposalBacked(p) /\ TargetOf[p] \in Targets
  BY DEF Backed
<1>2. /\ live[TargetOf[p]] \in Nat /\ live'[TargetOf[p]] \in Nat
      /\ pin[p] \in Nat /\ live'[TargetOf[p]] >= live[TargetOf[p]]
  BY <1>1 DEF TypeOK
<1> QED
  BY <1>1, <1>2 DEF ProposalBacked, Authorized, Progress

LEMMA CreatedFields ==
    ASSUME NEW x
    PROVE  (Created(x).triggered <=> x \in Authorizing) /\ Created(x).phase = ""
<1>1. CASE x \in Authorizing
  <2>1. (x \in Authorizing) = TRUE
    BY <1>1
  <2> QED
    BY <2>1 DEF Created
<1>2. CASE x \notin Authorizing
  <2>1. (x \in Authorizing) = FALSE
    BY <1>2
  <2> QED
    BY <2>1 DEF Created
<1> QED
  BY <1>1, <1>2

LEMMA SyncBacked ==
    ASSUME IInv, TypeOK', NEW a \in Agents, SyncStep(a) \/ SyncAbandon(a),
           \A p \in Proposals : Progress(p)
    PROVE  Backed'
<1> USE DEF IInv
<1> DEFINE s == syncer[a]
<1>1. UNCHANGED <<server, pin, live, applied, reconciler, byHand>>
  BY DEF SyncStep, SyncAbandon, FetchProposals, SyncGet, SyncCreate, SyncPatchSpec,
         SyncPatchPhase, SyncFrame
<1>2. s \in SyncerRecord /\ SyncerBacked(a) /\ AtHand(a)
      /\ syncer \in [Agents -> SyncerRecord]
  BY DEF Backed, TypeOK
<1>3. \A p \in Proposals : ProposalBacked(p)'
  BY <1>1 DEF Backed, ProposalBacked, Authorized
<1>4. \A b \in Agents : ReconcilerBacked(b)'
  BY <1>1 DEF Backed, ReconcilerBacked, TaskBacked, Authorized
<1>5. \A p \in DOMAIN resolution' :
        p \in DOMAIN resolution /\ resolution'[p] = resolution[p] => ObjectBacked(p)'
  BY <1>1 DEF Backed, ObjectBacked, Authorized
<1>6. \A b \in Agents : syncer'[b] = syncer[b] => SyncerBacked(b)'
  BY <1>1 DEF Backed, SyncerBacked, Seen
<1>7. SyncDone(a) => SyncerBacked(a)' /\ \A b \in Agents \ {a} : syncer'[b] = syncer[b]
  <2>1. [IdleSyncer EXCEPT !.batch = s.batch].stage = "rest"
        /\ [IdleSyncer EXCEPT !.batch = s.batch].batch = s.batch
    BY DEF IdleSyncer
  <2> QED
    BY <1>1, <1>2, <2>1 DEF SyncDone, SyncerBacked, Seen
<1>8. (\A b \in Agents : SyncerBacked(b)') /\ (\A p \in DOMAIN resolution' : ObjectBacked(p)')
  <2>1. CASE FetchProposals(a)
    <3>1. /\ \A b \in Agents \ {a} : syncer'[b] = syncer[b]
          /\ syncer'[a].stage = "rest"
          /\ syncer'[a].batch = [p \in {q \in Proposals : server[q] /= "Absent"} |-> server[p]]
      BY <2>1, <1>2 DEF FetchProposals, IdleSyncer, SyncerRecord
    <3>2. SyncerBacked(a)'
      BY <1>1, <1>3, <3>1 DEF SyncerBacked, Seen, ProposalBacked
    <3> QED
      BY <2>1, <3>1, <3>2, <1>5, <1>6 DEF FetchProposals
  <2>2. CASE \E p \in Proposals : SyncGet(a, p)
    <3> PICK p \in Proposals : SyncGet(a, p)
      BY <2>2
    <3>1. /\ \A b \in Agents \ {a} : syncer'[b] = syncer[b]
          /\ syncer'[a].batch = [q \in DOMAIN s.batch \ {p} |-> s.batch[q]]
          /\ syncer'[a].cur = p /\ syncer'[a].state = s.batch[p]
          /\ p \in DOMAIN s.batch
      BY <1>2 DEF SyncGet
    <3>2. SyncerBacked(a)'
      BY <1>1, <1>2, <3>1 DEF SyncerBacked, Seen
    <3> QED
      BY <3>1, <3>2, <1>5, <1>6 DEF SyncGet
  <2>3. CASE SyncCreate(a)
    <3>1. s.stage /= "rest" /\ SyncDone(a) /\ s.cur \in Proposals
      BY <2>3, <1>2 DEF SyncCreate, AtHand
    <3>2. Seen(s.cur, s.state)
      BY <3>1, <1>2 DEF SyncerBacked
    <3>3. \A p \in DOMAIN resolution' : ObjectBacked(p)'
      <4> TAKE p \in DOMAIN resolution'
      <4>1. CASE p \in DOMAIN resolution /\ resolution'[p] = resolution[p]
        BY <4>1, <1>5
      <4>2. CASE ~(p \in DOMAIN resolution /\ resolution'[p] = resolution[p])
        <5>1. p = s.cur /\ resolution'[p] = Created(s.state)
          BY <4>2, <2>3 DEF SyncCreate
        <5> QED
          BY <5>1, <3>2, <1>1, CreatedFields DEF ObjectBacked, Seen, Authorized
      <4> QED
        BY <4>1, <4>2
    <3> QED
      BY <3>1, <3>3, <1>6, <1>7
  <2>4. CASE SyncPatchSpec(a) \/ SyncPatchPhase(a)
    <3>1. s.stage /= "rest" /\ s.cur \in DOMAIN resolution
      BY <2>4, <1>2 DEF SyncPatchSpec, SyncPatchPhase, AtHand
    <3>2. Seen(s.cur, s.state) /\ ObjectBacked(s.cur)
      BY <3>1, <1>2 DEF SyncerBacked, Backed
    <3>3. resolution[s.cur] \in Resolution
      BY <3>1, PartialDomain DEF TypeOK
    <3>4. /\ DOMAIN resolution' = DOMAIN resolution
          /\ \A p \in DOMAIN resolution : p /= s.cur => resolution'[p] = resolution[p]
      BY <2>4, <3>1, PartialDomain DEF SyncPatchSpec, SyncPatchPhase, TypeOK
    <3>5. \/ /\ resolution'[s.cur].triggered <=> s.state \in Authorizing
             /\ resolution'[s.cur].phase = resolution[s.cur].phase
          \/ /\ resolution'[s.cur].triggered = resolution[s.cur].triggered
             /\ resolution'[s.cur].phase = s.state
      <4>1. CASE SyncPatchSpec(a)
        <5>1. resolution'[s.cur] = [resolution[s.cur] EXCEPT !.triggered = s.state \in Authorizing]
          BY <4>1, <3>1 DEF SyncPatchSpec
        <5>2. [resolution[s.cur] EXCEPT !.triggered = TRUE].triggered = TRUE
              /\ [resolution[s.cur] EXCEPT !.triggered = FALSE].triggered = FALSE
          BY <3>3 DEF Resolution
        <5>3. resolution'[s.cur].phase = resolution[s.cur].phase
          BY <5>1, <3>3 DEF Resolution
        <5>4. (s.state \in Authorizing) = TRUE \/ (s.state \in Authorizing) = FALSE
          OBVIOUS
        <5> QED
          BY <5>1, <5>2, <5>3, <5>4
      <4>2. CASE SyncPatchPhase(a)
        BY <4>2, <3>1, <3>3 DEF SyncPatchPhase, Resolution
      <4> QED
        BY <2>4, <4>1, <4>2
    <3>7. \A p \in DOMAIN resolution' : ObjectBacked(p)'
      <4> TAKE p \in DOMAIN resolution'
      <4>1. CASE p = s.cur
        BY <4>1, <3>2, <3>5, <1>1 DEF ObjectBacked, Seen, Authorized
      <4>2. CASE p /= s.cur
        BY <4>2, <3>4, <1>5
      <4> QED
        BY <4>1, <4>2
    <3>8. \A b \in Agents : SyncerBacked(b)'
      <4>1. CASE SyncDone(a)
        BY <4>1, <1>6, <1>7
      <4>2. CASE syncer' = [syncer EXCEPT ![a].stage = "status"]
        <5>1. /\ \A b \in Agents \ {a} : syncer'[b] = syncer[b]
              /\ syncer'[a].batch = s.batch /\ syncer'[a].cur = s.cur
              /\ syncer'[a].state = s.state
          BY <4>2, <1>2 DEF SyncerRecord
        <5>2. SyncerBacked(a)'
          BY <5>1, <3>1, <1>1, <1>2 DEF SyncerBacked, Seen
        <5> QED
          BY <5>1, <5>2, <1>6
      <4> QED
        BY <4>1, <4>2, <2>4 DEF SyncPatchSpec, SyncPatchPhase
    <3> QED
      BY <3>7, <3>8
  <2>5. CASE SyncAbandon(a)
    BY <2>5, <1>5, <1>6, <1>7 DEF SyncAbandon
  <2> QED
    BY <2>1, <2>2, <2>3, <2>4, <2>5 DEF SyncStep
<1> QED
  BY <1>3, <1>4, <1>8 DEF Backed

\* What the steps of ResolutionReconciler do to the record of their loop.
LEMMA StageMoves ==
    ASSUME TypeOK, NEW a \in Agents, NEW stage,
           reconciler' = [reconciler EXCEPT ![a].stage = stage]
    PROVE  /\ \A b \in Agents \ {a} : reconciler'[b] = reconciler[b]
           /\ reconciler'[a].stage = stage
           /\ reconciler'[a].plan = reconciler[a].plan
           /\ reconciler'[a].cur = reconciler[a].cur
           /\ reconciler'[a].retry = reconciler[a].retry
           /\ reconciler'[a].success = reconciler[a].success
<1>1. reconciler \in [Agents -> ReconcilerRecord] /\ reconciler[a] \in ReconcilerRecord
  BY DEF TypeOK
<1> QED
  BY <1>1 DEF ReconcilerRecord

LEMMA SuccessMoves ==
    ASSUME TypeOK, NEW a \in Agents,
           reconciler' = [reconciler EXCEPT ![a].stage = "report", ![a].success = TRUE]
    PROVE  /\ \A b \in Agents \ {a} : reconciler'[b] = reconciler[b]
           /\ reconciler'[a].stage = "report"
           /\ reconciler'[a].plan = reconciler[a].plan
           /\ reconciler'[a].cur = reconciler[a].cur
           /\ reconciler'[a].retry = reconciler[a].retry
           /\ reconciler'[a].success = TRUE
<1> DEFINE s == reconciler[a]
           r == [reconciler EXCEPT ![a] = [s EXCEPT !.stage = "report"]]
<1>1. s \in ReconcilerRecord /\ reconciler \in [Agents -> ReconcilerRecord]
  BY DEF TypeOK
<1>2. reconciler' = [r EXCEPT ![a] = [r[a] EXCEPT !.success = TRUE]]
  OBVIOUS
<1>3. DOMAIN r = Agents /\ r[a] = [s EXCEPT !.stage = "report"]
      /\ \A b \in Agents \ {a} : r[b] = reconciler[b]
  BY <1>1
<1>4. r[a] = [stage |-> "report", plan |-> s.plan, cur |-> s.cur, retry |-> s.retry,
              success |-> s.success, acked |-> s.acked]
  BY <1>1, <1>3 DEF ReconcilerRecord
<1> HIDE DEF r
<1> QED
  BY <1>2, <1>3, <1>4

LEMMA DoneMoves ==
    ASSUME TypeOK, NEW a \in Agents, ReconcileDone(a)
    PROVE  /\ \A b \in Agents \ {a} : reconciler'[b] = reconciler[b]
           /\ reconciler'[a].stage = "rest"
           /\ reconciler'[a].cur = None
           /\ reconciler'[a].plan = reconciler[a].plan
<1>1. reconciler \in [Agents -> ReconcilerRecord]
  BY DEF TypeOK
<1>2. reconciler'[a] = [IdleReconciler EXCEPT !.plan = reconciler[a].plan]
      /\ \A b \in Agents \ {a} : reconciler'[b] = reconciler[b]
  BY <1>1 DEF ReconcileDone
<1> QED
  BY <1>2 DEF IdleReconciler

LEMMA AnsweredMoves ==
    ASSUME TypeOK, NEW a \in Agents, NEW acked, Answered(a, acked)
    PROVE  /\ \A b \in Agents \ {a} : reconciler'[b] = reconciler[b]
           /\ reconciler'[a].plan = reconciler[a].plan
           /\ \/ reconciler'[a].stage = "rest" /\ reconciler'[a].cur = None
              \/ /\ reconciler'[a].stage = "record"
                 /\ reconciler'[a].cur = reconciler[a].cur
                 /\ reconciler'[a].retry = reconciler[a].retry
                 /\ reconciler'[a].success = reconciler[a].success
                 /\ reconciler'[a].acked = acked
                 /\ reconciler[a].retry => acked
<1>1. CASE reconciler[a].retry /\ ~acked
  BY <1>1, DoneMoves DEF Answered
<1>2. CASE ~(reconciler[a].retry /\ ~acked)
  <2> DEFINE s == reconciler[a]
             r == [reconciler EXCEPT ![a] = [s EXCEPT !.stage = "record"]]
  <2>1. s \in ReconcilerRecord /\ reconciler \in [Agents -> ReconcilerRecord]
    BY DEF TypeOK
  <2>2. reconciler' = [r EXCEPT ![a] = [r[a] EXCEPT !.acked = acked]]
    BY <1>2 DEF Answered
  <2>3. DOMAIN r = Agents /\ r[a] = [s EXCEPT !.stage = "record"]
        /\ \A b \in Agents \ {a} : r[b] = reconciler[b]
    BY <2>1
  <2>4. r[a] = [stage |-> "record", plan |-> s.plan, cur |-> s.cur, retry |-> s.retry,
                success |-> s.success, acked |-> s.acked]
    BY <2>1, <2>3 DEF ReconcilerRecord
  <2> HIDE DEF r
  <2>5. /\ \A b \in Agents \ {a} : reconciler'[b] = reconciler[b]
        /\ reconciler'[a].plan = reconciler[a].plan
        /\ reconciler'[a].stage = "record"
        /\ reconciler'[a].cur = reconciler[a].cur
        /\ reconciler'[a].retry = reconciler[a].retry
        /\ reconciler'[a].success = reconciler[a].success
        /\ reconciler'[a].acked = acked
    BY <2>2, <2>3, <2>4
  <2>6. reconciler[a].retry => acked
    BY <1>2, Zenon
  <2> QED
    BY <2>5, <2>6, Zenon
<1> QED
  BY <1>1, <1>2

LEMMA ReconcileBacked ==
    ASSUME IInv, TypeOK', NEW a \in Agents,
           ReconcileStep(a) \/ PatchAckLost(a) \/ ReportLost(a) \/ ReportAckLost(a)
             \/ ReconcileApiError(a),
           \A p \in Proposals : Progress(p),
           \A t \in Targets : live'[t] >= live[t]
    PROVE  Backed'
<1> USE DEF IInv
<1> DEFINE s == reconciler[a]
<1>1. s \in ReconcilerRecord /\ ReconcilerBacked(a) /\ AtHand(a)
      /\ DOMAIN resolution \subseteq Proposals
  BY PartialDomain DEF Backed, TypeOK
<1>2. UNCHANGED <<pin, syncer, byHand>>
  BY DEF ReconcileStep, ListResolutions, Begin, DryRunPasses, DryRunFails, PatchApplies,
         PatchFails, Report, RecordStatus, PatchAckLost, ReportLost, ReportAckLost,
         ReconcileApiError, ReconcileFrame
<1>3. \A b \in Agents : SyncerBacked(b)'
  BY <1>2, KeptSyncer
<1>4. \A b \in Agents : reconciler'[b] = reconciler[b] => ReconcilerBacked(b)'
  BY KeptReconciler
<1>5. \A p \in DOMAIN resolution : resolution'[p] = resolution[p] => ObjectBacked(p)'
  BY <1>1, KeptObject
<1>6. \A p \in Proposals :
        applied'[p] = applied[p] /\ (server'[p] = "Applied" => applied[p] > 0)
          => ProposalBacked(p)'
  BY KeptProposal
<1>7. \A p \in Proposals : server[p] = "Applied" => applied[p] > 0
  BY DEF Backed, ProposalBacked
<1>8. \A p \in Proposals : Authorized(p) => Authorized(p)'
  BY DEF Authorized, Progress
<1>9. \A p \in Proposals : applied[p] > 0 => applied'[p] > 0
  <2> TAKE p \in Proposals
  <2>1. Progress(p) /\ applied[p] \in Nat /\ applied'[p] \in Nat
    BY DEF TypeOK
  <2> QED
    BY <2>1 DEF Progress
\* The tasks still planned, for a loop that keeps its plan or shortens it.
<1>10. ASSUME DOMAIN reconciler'[a].plan \subseteq DOMAIN s.plan,
              \A p \in DOMAIN reconciler'[a].plan : reconciler'[a].plan[p] = s.plan[p]
       PROVE  \A p \in DOMAIN reconciler'[a].plan : TaskBacked(p, reconciler[a].plan[p])'
  <2>1. \A p \in DOMAIN s.plan : p \in Proposals /\ TaskBacked(p, s.plan[p])
    BY <1>1 DEF ReconcilerBacked, AtHand
  <2> QED
    BY <1>10, <2>1, <1>8, <1>9 DEF TaskBacked
\* A loop that keeps its plan and has the same object, or none, at hand.
<1>11. ASSUME \A b \in Agents \ {a} : reconciler'[b] = reconciler[b],
              reconciler'[a].plan = s.plan,
              \/ reconciler'[a].stage = "rest"
              \/ /\ s.stage /= "rest"
                 /\ reconciler'[a].cur = s.cur
                 /\ reconciler'[a].stage \in {"dryrun", "patch"} => s.stage \in {"dryrun", "patch"}
                 /\ reconciler'[a].success => s.success \/ applied'[s.cur] > 0
       PROVE  \A b \in Agents : ReconcilerBacked(b)'
  <2>1. \A p \in DOMAIN reconciler'[a].plan : TaskBacked(p, reconciler[a].plan[p])'
    BY <1>11, <1>10
  <2>2. s.stage /= "rest" => s.cur \in Proposals
    BY <1>1 DEF AtHand
  <2>3. reconciler'[a].stage \in {"dryrun", "patch"} => Authorized(reconciler[a].cur)
    BY <1>11, <1>1 DEF ReconcilerBacked
  <2>4. reconciler'[a].stage \in {"dryrun", "patch"} => Authorized(reconciler[a].cur)'
    BY <1>11, <2>2, <2>3, <1>8 DEF Authorized
  <2>5. reconciler'[a].stage /= "rest" /\ reconciler'[a].success
          => applied'[reconciler'[a].cur] > 0
    BY <1>11, <1>1, <2>2, <1>9 DEF ReconcilerBacked
  <2>6. ReconcilerBacked(a)'
    BY <2>1, <2>4, <2>5 DEF ReconcilerBacked
  <2> QED
    BY <2>6, <1>4, <1>11
<1>12. CASE ListResolutions(a)
  <2>1. UNCHANGED <<server, live, applied, resolution>>
    BY <1>12 DEF ListResolutions, cluster
  <2>2. /\ \A b \in Agents \ {a} : reconciler'[b] = reconciler[b]
        /\ reconciler'[a].stage = "rest"
        /\ reconciler'[a].plan =
             [p \in {q \in DOMAIN resolution :
                       NeedsApply(resolution[q]) \/ NeedsReport(resolution[q])}
                |-> Task(resolution[p])]
    BY <1>12, <1>1 DEF ListResolutions, TypeOK, ReconcilerRecord, IdleReconciler
  <2>3. ASSUME NEW p \in DOMAIN resolution
        PROVE  /\ Task(resolution[p]) = "apply" => Authorized(p)
               /\ Task(resolution[p]) = "reportSuccess" => applied[p] > 0
    <3>1. ObjectBacked(p)
      BY DEF Backed
    <3> QED
      BY <3>1 DEF ObjectBacked, Task, NeedsApply
  <2>4. ReconcilerBacked(a)'
    BY <1>2, <2>1, <2>2, <2>3 DEF ReconcilerBacked, TaskBacked, Authorized
  <2> QED
    BY <1>3, <1>4, <1>5, <1>6, <1>7, <2>1, <2>2, <2>4 DEF Backed
<1>13. CASE \E p \in Proposals : Begin(a, p)
  <2> PICK p \in Proposals : Begin(a, p)
    BY <1>13
  <2>1. UNCHANGED <<server, live, applied, resolution>>
    BY DEF Begin, cluster
  <2>2. /\ \A b \in Agents \ {a} : reconciler'[b] = reconciler[b]
        /\ reconciler'[a].plan = [q \in DOMAIN s.plan \ {p} |-> s.plan[q]]
        /\ reconciler'[a].cur = p /\ p \in DOMAIN s.plan
        /\ reconciler'[a].stage = IF s.plan[p] = "apply" THEN "dryrun" ELSE "report"
        /\ reconciler'[a].success => s.plan[p] = "reportSuccess"
    BY DEF Begin, TypeOK
  <2>3. TaskBacked(p, s.plan[p])
    BY <2>2, <1>1 DEF ReconcilerBacked
  <2>4. \A q \in DOMAIN reconciler'[a].plan : TaskBacked(q, reconciler[a].plan[q])'
    BY <2>2, <1>10
  <2>5. ReconcilerBacked(a)'
    BY <1>2, <2>1, <2>2, <2>3, <2>4 DEF ReconcilerBacked, TaskBacked, Authorized
  <2> QED
    BY <1>3, <1>4, <1>5, <1>6, <1>7, <2>1, <2>2, <2>5 DEF Backed
<1>14. CASE DryRunPasses(a)
  <2>1. UNCHANGED <<server, live, applied, resolution>> /\ s.stage = "dryrun"
    BY <1>14 DEF DryRunPasses, cluster
  <2>2. reconciler' = [reconciler EXCEPT ![a].stage = "patch"]
    BY <1>14 DEF DryRunPasses
  <2>3. \A b \in Agents : ReconcilerBacked(b)'
    BY <2>1, <2>2, StageMoves, <1>11
  <2> QED
    BY <1>3, <1>5, <1>6, <1>7, <2>1, <2>3 DEF Backed
<1>15. CASE DryRunFails(a) \/ PatchFails(a)
  <2>1. UNCHANGED <<server, live, applied, resolution>> /\ s.stage /= "rest"
    BY <1>15 DEF DryRunFails, PatchFails, cluster
  <2>2. reconciler' = [reconciler EXCEPT ![a].stage = "report"]
    BY <1>15 DEF DryRunFails, PatchFails
  <2>3. \A b \in Agents : ReconcilerBacked(b)'
    BY <2>1, <2>2, StageMoves, <1>11
  <2> QED
    BY <1>3, <1>5, <1>6, <1>7, <2>1, <2>3 DEF Backed
<1>16. CASE PatchApplies(a) \/ PatchAckLost(a)
  <2>1. /\ UNCHANGED <<server, resolution>> /\ s.stage = "patch"
        /\ ChangeTarget(s.cur) /\ s.cur \in DOMAIN resolution /\ s.cur \in Proposals
    BY <1>16, <1>1 DEF PatchApplies, PatchAckLost, ChangeTarget, AtHand
  <2>2. /\ applied'[s.cur] > 0
        /\ \A p \in Proposals \ {s.cur} : applied'[p] = applied[p]
    BY <2>1 DEF ChangeTarget, TypeOK
  <2>3. \A b \in Agents : ReconcilerBacked(b)'
    <3>1. CASE PatchApplies(a)
      BY <3>1, <2>1, <2>2, SuccessMoves, <1>11 DEF PatchApplies
    <3>2. CASE PatchAckLost(a)
      BY <3>2, <2>1, StageMoves, <1>11 DEF PatchAckLost
    <3> QED
      BY <1>16, <3>1, <3>2
  <2>4. \A p \in Proposals : ProposalBacked(p)'
    <3> TAKE p \in Proposals
    <3>1. CASE p /= s.cur
      BY <3>1, <2>1, <2>2, <1>6, <1>7
    <3>2. CASE p = s.cur
      <4>1. Authorized(p) /\ server[p] /= "Absent"
        BY <3>2, <2>1, <1>1 DEF ReconcilerBacked, Backed, ObjectBacked
      <4>2. TargetOf[p] \in Targets /\ live[TargetOf[p]] \in Nat /\ pin[p] = live[TargetOf[p]]
        BY <3>2, <2>1 DEF TypeOK, ChangeTarget, PinMatches
      <4>3. live'[TargetOf[p]] = live[TargetOf[p]] + 1
        BY <3>2, <4>2, <2>1 DEF TypeOK, ChangeTarget
      <4> QED
        BY <3>2, <4>1, <4>2, <4>3, <2>1, <2>2, <1>2 DEF ProposalBacked, Authorized
    <3> QED
      BY <3>1, <3>2
  <2> QED
    BY <1>3, <1>5, <2>1, <2>3, <2>4 DEF Backed
<1>17. CASE Report(a) \/ ReportAckLost(a)
  <2>1. /\ UNCHANGED <<live, applied, resolution>> /\ s.stage = "report"
        /\ RecordOutcome(s.cur, s.success) /\ s.cur \in Proposals
    BY <1>17, <1>1 DEF Report, ReportAckLost, cluster, AtHand
  <2>2. \E acked \in BOOLEAN : Answered(a, acked)
    <3>1. Accepts(s.cur, s.success) \in BOOLEAN
      BY DEF Accepts
    <3> QED
      BY <1>17, <3>1 DEF Report, ReportAckLost
  <2>3. \A b \in Agents : ReconcilerBacked(b)'
    BY <2>1, <2>2, AnsweredMoves, <1>11
  <2>4. \A p \in Proposals : server'[p] = "Applied" => applied[p] > 0
    <3> TAKE p \in Proposals
    <3>1. s.success => applied[s.cur] > 0
      BY <2>1, <1>1 DEF ReconcilerBacked
    <3>2. server'[p] = server[p] \/ (p = s.cur /\ server'[p] = Outcome(s.success))
      BY <2>1 DEF RecordOutcome, TypeOK
    <3> QED
      BY <3>1, <3>2, <1>7 DEF Outcome
  <2> QED
    BY <1>3, <1>5, <1>6, <2>1, <2>3, <2>4 DEF Backed
<1>18. CASE ReportLost(a)
  <2>1. UNCHANGED <<server, live, applied, resolution>> /\ s.stage = "report"
    BY <1>18 DEF ReportLost, cluster
  <2>2. \A b \in Agents : ReconcilerBacked(b)'
    BY <1>18, <2>1, AnsweredMoves, <1>11 DEF ReportLost
  <2> QED
    BY <1>3, <1>5, <1>6, <1>7, <2>1, <2>2 DEF Backed
<1>19. CASE RecordStatus(a)
  <2>1. UNCHANGED <<server, live, applied>> /\ s.stage = "record" /\ ReconcileDone(a)
        /\ s.cur \in DOMAIN resolution
    BY <1>19, <1>1 DEF RecordStatus, AtHand
  <2>2. \A b \in Agents : ReconcilerBacked(b)'
    BY <2>1, DoneMoves, <1>11
  <2>3. /\ DOMAIN resolution' = DOMAIN resolution
        /\ \A p \in DOMAIN resolution : p /= s.cur => resolution'[p] = resolution[p]
        /\ resolution'[s.cur] = RecordedStatus(a, resolution[s.cur])
    BY <1>19, <2>1, PartialDomain DEF RecordStatus, TypeOK
  <2>4. resolution[s.cur] \in Resolution
    BY <2>1, PartialDomain DEF TypeOK
  <2>5. /\ resolution'[s.cur].triggered = resolution[s.cur].triggered
        /\ resolution'[s.cur].phase = "Applied"
             => resolution[s.cur].phase = "Applied" \/ s.success
    BY <2>3, <2>4 DEF RecordedStatus, Resolution, Outcome
  <2>6. s.success => applied[s.cur] > 0
    BY <2>1, <1>1 DEF ReconcilerBacked
  <2>7. \A p \in DOMAIN resolution' : ObjectBacked(p)'
    <3> TAKE p \in DOMAIN resolution'
    <3>1. ObjectBacked(p)
      BY <2>3 DEF Backed
    <3>2. CASE p = s.cur
      BY <1>2, <3>1, <3>2, <2>1, <2>5, <2>6 DEF ObjectBacked, Authorized
    <3>3. CASE p /= s.cur
      BY <3>3, <2>3, <1>5
    <3> QED
      BY <3>2, <3>3
  <2> QED
    BY <1>3, <1>6, <1>7, <2>1, <2>2, <2>7 DEF Backed
<1>20. CASE ReconcileApiError(a)
  <2>1. UNCHANGED <<server, live, applied, resolution>> /\ s.stage /= "rest"
    BY <1>20 DEF ReconcileApiError, cluster
  <2>2. ReconcileDone(a) \/ reconciler' = [reconciler EXCEPT ![a].stage = "report"]
    BY <1>20 DEF ReconcileApiError
  <2>3. \A b \in Agents : ReconcilerBacked(b)'
    <3>1. CASE ReconcileDone(a)
      BY <3>1, DoneMoves, <1>11
    <3>2. CASE reconciler' = [reconciler EXCEPT ![a].stage = "report"]
      BY <3>2, <2>1, StageMoves, <1>11
    <3> QED
      BY <2>2, <3>1, <3>2
  <2> QED
    BY <1>3, <1>5, <1>6, <1>7, <2>1, <2>3 DEF Backed
<1> QED
  BY <1>12, <1>13, <1>14, <1>15, <1>16, <1>17, <1>18, <1>19, <1>20 DEF ReconcileStep

LEMMA CrashBacked ==
    ASSUME IInv, TypeOK', NEW a \in Agents, Crash(a)
    PROVE  Backed'
<1> USE DEF IInv
<1>1. UNCHANGED <<server, pin, live, resolution, applied, byHand>>
  BY DEF Crash, cluster
<1>2. /\ syncer'[a] = IdleSyncer /\ reconciler'[a] = IdleReconciler
      /\ \A b \in Agents \ {a} : syncer'[b] = syncer[b] /\ reconciler'[b] = reconciler[b]
  BY DEF Crash, TypeOK
<1>3. SyncerBacked(a)' /\ ReconcilerBacked(a)'
  BY <1>2 DEF SyncerBacked, ReconcilerBacked, IdleSyncer, IdleReconciler
<1>4. \A b \in Agents \ {a} : SyncerBacked(b)' /\ ReconcilerBacked(b)'
  BY <1>1, <1>2 DEF Backed, SyncerBacked, ReconcilerBacked, Seen, TaskBacked, Authorized
<1>5. /\ \A p \in Proposals : ProposalBacked(p)'
      /\ \A p \in DOMAIN resolution' : ObjectBacked(p)'
  BY <1>1 DEF Backed, ProposalBacked, ObjectBacked, Authorized
<1> QED
  BY <1>3, <1>4, <1>5 DEF Backed

LEMMA PeopleBacked ==
    ASSUME IInv, TypeOK',
           \/ \E p \in Proposals : Propose(p) \/ Decide(p) \/ KubectlTrigger(p)
           \/ \E t \in Targets : Edit(t),
           \A p \in Proposals : Progress(p),
           \A t \in Targets : live'[t] >= live[t]
    PROVE  Backed'
<1> USE DEF IInv
<1>1. UNCHANGED <<applied, syncer, reconciler>>
  BY DEF Propose, Decide, KubectlTrigger, Edit, cluster
<1>2. \A a \in Agents : SyncerBacked(a)' /\ ReconcilerBacked(a)'
  BY <1>1, KeptSyncer, KeptReconciler
<1>3. \A p \in Proposals : server'[p] = "Applied" => server[p] = "Applied"
  BY DEF Propose, Decide, KubectlTrigger, Edit, TypeOK
<1>4. \A p \in Proposals : ProposalBacked(p)'
  BY <1>1, <1>3, KeptProposal DEF Backed, ProposalBacked
<1>5. \A p \in DOMAIN resolution' : ObjectBacked(p)'
  <2>1. CASE UNCHANGED resolution
    BY <2>1, KeptObject, PartialDomain DEF TypeOK
  <2>2. CASE \E p \in Proposals : KubectlTrigger(p)
    <3> PICK p \in Proposals : KubectlTrigger(p)
      BY <2>2
    <3>1. /\ byHand' = byHand \cup {p} /\ UNCHANGED server /\ p \in DOMAIN resolution
          /\ DOMAIN resolution' = DOMAIN resolution
          /\ \A q \in DOMAIN resolution : q /= p => resolution'[q] = resolution[q]
          /\ resolution'[p] = [resolution[p] EXCEPT !.triggered = TRUE]
      BY PartialDomain DEF KubectlTrigger, TypeOK
    <3>2. resolution'[p].phase = resolution[p].phase
      <4>1. resolution[p] \in Resolution
        BY <3>1, PartialDomain DEF TypeOK
      <4> QED
        BY <3>1, <4>1 DEF Resolution
    <3>3. \A q \in DOMAIN resolution : ObjectBacked(q)
      BY DEF Backed
    <3> QED
      BY <1>1, <3>1, <3>2, <3>3 DEF ObjectBacked, Authorized
  <2> QED
    BY <2>1, <2>2 DEF Propose, Decide, Edit, cluster
<1> QED
  BY <1>2, <1>4, <1>5 DEF Backed

\* The resourceVersion test: a target that was changed for a proposal is newer
\* than every proposal pinned to the same version.
LEMMA VersionStep ==
    ASSUME IInv, TypeOK', Next, \A p \in Proposals : Progress(p)
    PROVE  EachVersionPatchedOnce'
<1> USE DEF IInv
<1>1. \A p \in Proposals : ProposalBacked(p)
  BY DEF Backed
<1>2. CASE UNCHANGED applied
  <2>1. \A p \in Proposals : applied[p] > 0 => pin'[p] = pin[p]
    BY <1>1 DEF ProposalBacked, Progress
  <2> QED
    BY <1>2, <2>1 DEF EachVersionPatchedOnce
<1>3. ASSUME NEW c \in Proposals, ChangeTarget(c), UNCHANGED pin
      PROVE  EachVersionPatchedOnce'
  <2>1. /\ TargetOf[c] \in Targets /\ pin[c] = live[TargetOf[c]]
        /\ \A p \in Proposals : applied[p] \in Nat /\ pin[p] \in Nat
    BY <1>3 DEF ChangeTarget, PinMatches, TypeOK
  <2>2. \A p \in Proposals : TargetOf[p] = TargetOf[c] /\ pin[p] = pin[c] => applied[p] = 0
    BY <1>1, <2>1 DEF ProposalBacked
  <2>3. /\ applied'[c] = applied[c] + 1
        /\ \A p \in Proposals : p /= c => applied'[p] = applied[p]
    BY <1>3 DEF ChangeTarget, TypeOK
  <2>4. applied'[c] = 1
    BY <2>2, <2>3
  <2> QED
    BY <1>3, <2>2, <2>3, <2>4 DEF EachVersionPatchedOnce
<1>4. ASSUME NEW a \in Agents, PatchApplies(a) \/ PatchAckLost(a)
      PROVE  EachVersionPatchedOnce'
  <2>1. reconciler[a].cur \in Proposals
    BY <1>4, PartialDomain DEF TypeOK, AtHand, PatchApplies, PatchAckLost
  <2> QED
    BY <1>3, <1>4, <2>1 DEF PatchApplies, PatchAckLost, ReconcileFrame
<1>5. ASSUME NEW a \in Agents, SyncStep(a) PROVE UNCHANGED applied
  BY <1>5 DEF SyncStep, FetchProposals, SyncGet, SyncCreate, SyncPatchSpec, SyncPatchPhase,
     SyncFrame
<1>6. ASSUME NEW a \in Agents, ReconcileStep(a), ~PatchApplies(a) PROVE UNCHANGED applied
  BY <1>6 DEF ReconcileStep, ListResolutions, Begin, DryRunPasses, DryRunFails, PatchFails,
     Report, RecordStatus, cluster
<1>7. ASSUME NEW a \in Agents, Faulty(a), ~PatchAckLost(a) PROVE UNCHANGED applied
  BY <1>7 DEF Faulty, SyncAbandon, SyncFrame, ReportLost, ReportAckLost, ReconcileApiError,
     Crash, cluster
<1>8. ASSUME \/ \E p \in Proposals : Propose(p) \/ Decide(p) \/ KubectlTrigger(p)
             \/ \E t \in Targets : Edit(t)
      PROVE  UNCHANGED applied
  BY <1>8 DEF Propose, Decide, KubectlTrigger, Edit, cluster
<1> QED
  BY <1>2, <1>4, <1>5, <1>6, <1>7, <1>8 DEF Next

LEMMA Inductive == IInv /\ [Next]_vars => IInv'
<1> SUFFICES ASSUME IInv, [Next]_vars PROVE IInv'
  OBVIOUS
<1>1. TypeOK'
  BY NextTypes DEF IInv
<1>2. CASE UNCHANGED vars
  BY <1>1, <1>2 DEF vars, cluster, IInv, Backed, EachVersionPatchedOnce, ProposalBacked,
     ObjectBacked, SyncerBacked, ReconcilerBacked, Seen, TaskBacked, Authorized
<1>3. CASE Next
  <2>1. /\ \A p \in Proposals : Progress(p)
        /\ \A t \in Targets : live'[t] >= live[t]
    BY <1>3, StepProgresses DEF IInv
  <2>2. Backed'
    BY <1>1, <1>3, <2>1, SyncBacked, ReconcileBacked, CrashBacked, PeopleBacked
       DEF Next, Faulty
  <2> QED
    BY <1>1, <1>3, <2>1, <2>2, VersionStep DEF IInv
<1> QED
  BY <1>2, <1>3

LEMMA Invariance == Spec => []IInv
<1>1. Init => IInv
  BY InitTypes, InitBacked DEF IInv
<1> QED
  BY <1>1, Inductive, PTL DEF Spec

-----------------------------------------------------------------------------
(* The theorems                                                            *)

\* However agents crash, overlap and start over, one patch at most gets
\* through per version of a target.
THEOREM PatchedOnce == Spec => []EachVersionPatchedOnce
BY Invariance, PTL DEF IInv

\* Nothing is applied that no human approved on the server or triggered by hand
\* in the cluster.
THEOREM ApprovalNeeded == Spec => []AppliedOnlyWhenApproved
<1>1. IInv => AppliedOnlyWhenApproved
  BY DEF IInv, Backed, ProposalBacked, Authorized, AppliedOnlyWhenApproved, Authorizing,
     ServerStates
<1> QED
  BY <1>1, Invariance, PTL

\* Applied on the server means that the cluster was changed.
THEOREM AppliedIsTrue == Spec => []ServerAppliedMeansApplied
<1>1. IInv => ServerAppliedMeansApplied
  BY DEF IInv, Backed, ProposalBacked, ServerAppliedMeansApplied
<1> QED
  BY <1>1, Invariance, PTL

\* performed never flips back.
THEOREM PerformedStays == Spec => PerformedIsFinal
<1> DEFINE Stays == \A p \in DOMAIN resolution :
                      resolution[p].performed => resolution'[p].performed
<1>1. ASSUME TypeOK, Next PROVE Stays
  <2>1. ASSUME UNCHANGED resolution PROVE Stays
    BY <2>1
  <2>2. resolution \in [DOMAIN resolution -> Resolution]
    BY <1>1, PartialDomain DEF TypeOK
  <2>3. ASSUME NEW c \in DOMAIN resolution, NEW r,
               resolution' = [resolution EXCEPT ![c] = r],
               resolution[c].performed => r.performed
        PROVE  Stays
    BY <2>3
  <2>4. ASSUME NEW a \in Agents, SyncCreate(a) PROVE Stays
    BY <2>4 DEF SyncCreate
  <2>5. ASSUME NEW a \in Agents, SyncPatchSpec(a) \/ SyncPatchPhase(a) PROVE Stays
    <3>1. syncer[a].cur \in DOMAIN resolution
      BY <1>1, <2>5 DEF TypeOK, AtHand, SyncPatchSpec, SyncPatchPhase
    <3> QED
      BY <2>2, <2>5, <3>1 DEF SyncPatchSpec, SyncPatchPhase, Resolution
  <2>6. ASSUME NEW a \in Agents, RecordStatus(a) PROVE Stays
    <3>1. reconciler[a].cur \in DOMAIN resolution
      BY <1>1, <2>6 DEF TypeOK, AtHand, RecordStatus
    <3> QED
      BY <2>2, <2>6, <3>1 DEF RecordStatus, RecordedStatus, Resolution
  <2>7. ASSUME NEW p \in Proposals, KubectlTrigger(p) PROVE Stays
    BY <2>2, <2>7 DEF KubectlTrigger, Resolution
  <2>8. ASSUME NEW a \in Agents, SyncStep(a) PROVE Stays
    BY <2>8, <2>1, <2>4, <2>5 DEF SyncStep, FetchProposals, SyncGet
  <2>9. ASSUME NEW a \in Agents, ReconcileStep(a) PROVE Stays
    BY <2>9, <2>1, <2>6 DEF ReconcileStep, ListResolutions, Begin, DryRunPasses, DryRunFails,
       PatchApplies, PatchFails, Report, ChangeTarget, cluster
  <2>10. ASSUME NEW a \in Agents, Faulty(a) PROVE Stays
    BY <2>10, <2>1 DEF Faulty, SyncAbandon, PatchAckLost, ReportLost, ReportAckLost,
       ReconcileApiError, Crash, ChangeTarget, cluster
  <2>11. ASSUME NEW p \in Proposals, Propose(p) \/ Decide(p) PROVE Stays
    BY <2>11, <2>1 DEF Propose, Decide, cluster
  <2>12. ASSUME NEW t \in Targets, Edit(t) PROVE Stays
    BY <2>12, <2>1 DEF Edit
  <2> QED
    BY <1>1, <2>7, <2>8, <2>9, <2>10, <2>11, <2>12 DEF Next
<1>2. TypeOK /\ [Next]_vars => [Stays]_vars
  BY <1>1
<1> QED
  BY <1>2, TypeCorrect, PTL DEF Spec, PerformedIsFinal

-----------------------------------------------------------------------------
(* Nothing is applied once it is performed                                 *)

\* Only an apply reaches the dry run; a retried report does not.
RetriesOnlyReport ==
    \A a \in Agents : reconciler[a].stage \in {"dryrun", "patch"} => ~reconciler[a].retry

\* What a step leaves of a loop that does not list and takes up nothing new: the
\* same plan, and what it has at hand or nothing.
KeepsAtHand(a) ==
    /\ \A b \in Agents \ {a} : reconciler'[b] = reconciler[b]
    /\ reconciler'[a].plan = reconciler[a].plan
    /\ \/ reconciler'[a].stage = "rest" /\ reconciler'[a].cur = None
       \/ /\ reconciler'[a].cur = reconciler[a].cur
          /\ reconciler'[a].retry = reconciler[a].retry
          /\ reconciler'[a].stage \in {"dryrun", "patch"}
                => reconciler[a].stage \in {"dryrun", "patch"}

LEMMA StepKeepsAtHand ==
    ASSUME TypeOK, NEW a \in Agents,
           \/ DryRunPasses(a) \/ DryRunFails(a) \/ PatchApplies(a) \/ PatchFails(a)
           \/ Report(a) \/ RecordStatus(a)
           \/ PatchAckLost(a) \/ ReportLost(a) \/ ReportAckLost(a) \/ ReconcileApiError(a)
    PROVE  KeepsAtHand(a)
<1>1. ASSUME NEW stage, reconciler' = [reconciler EXCEPT ![a].stage = stage],
             stage \in {"dryrun", "patch"} => reconciler[a].stage \in {"dryrun", "patch"}
      PROVE  KeepsAtHand(a)
  BY <1>1, StageMoves DEF KeepsAtHand
<1>2. ASSUME ReconcileDone(a) PROVE KeepsAtHand(a)
  BY <1>2, DoneMoves DEF KeepsAtHand
<1>3. ASSUME NEW acked, Answered(a, acked) PROVE KeepsAtHand(a)
  BY <1>3, AnsweredMoves DEF KeepsAtHand
<1>4. CASE DryRunPasses(a)
  BY <1>4, <1>1 DEF DryRunPasses
<1>5. CASE DryRunFails(a) \/ PatchFails(a) \/ PatchAckLost(a)
  BY <1>5, <1>1 DEF DryRunFails, PatchFails, PatchAckLost
<1>6. CASE PatchApplies(a)
  BY <1>6, SuccessMoves DEF PatchApplies, KeepsAtHand
<1>7. CASE Report(a) \/ ReportAckLost(a) \/ ReportLost(a)
  BY <1>7, <1>3 DEF Report, ReportAckLost, ReportLost
<1>8. CASE RecordStatus(a)
  BY <1>8, <1>2 DEF RecordStatus
<1>9. CASE ReconcileApiError(a)
  BY <1>9, <1>1, <1>2 DEF ReconcileApiError
<1> QED
  BY <1>4, <1>5, <1>6, <1>7, <1>8, <1>9

LEMMA BeginMoves ==
    ASSUME TypeOK, NEW a \in Agents, NEW p \in Proposals, Begin(a, p)
    PROVE  /\ \A b \in Agents \ {a} : reconciler'[b] = reconciler[b]
           /\ p \in DOMAIN reconciler[a].plan
           /\ reconciler'[a].plan
                = [q \in DOMAIN reconciler[a].plan \ {p} |-> reconciler[a].plan[q]]
           /\ reconciler'[a].cur = p
           /\ reconciler'[a].retry <=> reconciler[a].plan[p] /= "apply"
           /\ reconciler'[a].stage = IF reconciler[a].plan[p] = "apply" THEN "dryrun" ELSE "report"
<1>1. reconciler \in [Agents -> ReconcilerRecord]
  BY DEF TypeOK
<1> DEFINE retry == reconciler[a].plan[p] /= "apply"
<1>2. CASE retry = TRUE
  BY <1>1, <1>2 DEF Begin
<1>3. CASE retry = FALSE
  BY <1>1, <1>3 DEF Begin
<1> QED
  BY <1>2, <1>3

LEMMA ListMoves ==
    ASSUME TypeOK, NEW a \in Agents, ListResolutions(a)
    PROVE  /\ \A b \in Agents \ {a} : reconciler'[b] = reconciler[b]
           /\ reconciler'[a].cur = None
           /\ reconciler'[a].stage = "rest"
           /\ reconciler'[a].plan =
                [p \in {q \in DOMAIN resolution :
                          NeedsApply(resolution[q]) \/ NeedsReport(resolution[q])}
                   |-> Task(resolution[p])]
<1>1. reconciler \in [Agents -> ReconcilerRecord] /\ reconciler[a] = IdleReconciler
  BY DEF TypeOK, ListResolutions
<1> DEFINE plan == [p \in {q \in DOMAIN resolution :
                             NeedsApply(resolution[q]) \/ NeedsReport(resolution[q])}
                      |-> Task(resolution[p])]
<1>2. reconciler' = [reconciler EXCEPT ![a] = [IdleReconciler EXCEPT !.plan = plan]]
  BY <1>1 DEF ListResolutions
<1> HIDE DEF plan
<1> QED
  BY <1>1, <1>2 DEF IdleReconciler, plan

\* The steps that leave every reconciler alone.
LEMMA OtherSteps ==
    ASSUME \/ \E p \in Proposals : Propose(p) \/ Decide(p) \/ KubectlTrigger(p)
           \/ \E t \in Targets : Edit(t)
           \/ \E a \in Agents : SyncStep(a) \/ SyncAbandon(a)
           \/ UNCHANGED vars
    PROVE  UNCHANGED <<reconciler, applied>>
BY DEF Propose, Decide, KubectlTrigger, Edit, SyncStep, SyncAbandon, FetchProposals, SyncGet,
   SyncCreate, SyncPatchSpec, SyncPatchPhase, SyncFrame, vars, cluster

LEMMA CrashMoves ==
    ASSUME TypeOK, NEW a \in Agents, Crash(a)
    PROVE  /\ \A b \in Agents \ {a} : reconciler'[b] = reconciler[b]
           /\ reconciler'[a] = IdleReconciler
           /\ UNCHANGED applied
BY DEF Crash, TypeOK, cluster

LEMMA RetriesStep ==
    ASSUME TypeOK, RetriesOnlyReport, [Next]_vars
    PROVE  RetriesOnlyReport'
<1>1. ASSUME UNCHANGED <<reconciler, applied>> PROVE RetriesOnlyReport'
  BY <1>1 DEF RetriesOnlyReport
<1>2. ASSUME NEW a \in Agents, KeepsAtHand(a) PROVE RetriesOnlyReport'
  BY <1>2 DEF KeepsAtHand, RetriesOnlyReport
<1>3. ASSUME NEW a \in Agents, Crash(a) PROVE RetriesOnlyReport'
  BY <1>3, CrashMoves DEF RetriesOnlyReport, IdleReconciler
<1>4. ASSUME NEW a \in Agents, ListResolutions(a) PROVE RetriesOnlyReport'
  BY <1>4, ListMoves DEF RetriesOnlyReport
<1>5. ASSUME NEW a \in Agents, NEW p \in Proposals, Begin(a, p) PROVE RetriesOnlyReport'
  BY <1>5, BeginMoves DEF RetriesOnlyReport
<1> QED
  BY <1>1, <1>2, <1>3, <1>4, <1>5, OtherSteps, StepKeepsAtHand DEF Next, ReconcileStep, Faulty

\* Once a proposal is performed and no agent is left with an apply of it from
\* before, no agent takes one up again, however many agents there are.
THEOREM PerformedNotApplied == Spec => NothingAppliedOncePerformed
<1> DEFINE Settled(p) == resolution[p].performed /\ \A a \in Agents : ~Applying(a, p)
           Left(p) == applied'[p] = applied[p] /\ \A a \in Agents : ~Applying(a, p)'
           Goal == \A p \in DOMAIN resolution : Settled(p) => Left(p)
<1>1. Init => RetriesOnlyReport
  BY DEF Init, RetriesOnlyReport, IdleReconciler
<1>2. Spec => [](TypeOK /\ RetriesOnlyReport)
  BY <1>1, InitTypes, NextTypes, RetriesStep, PTL DEF Spec
<1>3. ASSUME TypeOK, RetriesOnlyReport, Next PROVE Goal
  <2> SUFFICES ASSUME NEW p \in DOMAIN resolution, Settled(p) PROVE Left(p)
    OBVIOUS
  <2>1. p \in Proposals /\ p /= None
    BY <1>3, PartialDomain DEF TypeOK
  <2>2. ASSUME NEW a \in Agents, KeepsAtHand(a), UNCHANGED applied PROVE Left(p)
    BY <2>1, <2>2 DEF KeepsAtHand, Applying
  <2>3. ASSUME NEW a \in Agents, PatchApplies(a) \/ PatchAckLost(a) PROVE Left(p)
    <3>1. ~reconciler[a].retry /\ ChangeTarget(reconciler[a].cur)
      BY <1>3, <2>3 DEF RetriesOnlyReport, PatchApplies, PatchAckLost
    <3>2. reconciler[a].cur /= p
      BY <3>1 DEF Applying
    <3>3. applied'[p] = applied[p]
      BY <1>3, <2>1, <3>1, <3>2 DEF ChangeTarget, TypeOK
    <3>4. KeepsAtHand(a)
      BY <1>3, <2>3, StepKeepsAtHand
    <3> QED
      BY <2>1, <3>3, <3>4 DEF KeepsAtHand, Applying
  <2>4. ASSUME NEW a \in Agents, ListResolutions(a) PROVE Left(p)
    <3> DEFINE listed == {q \in DOMAIN resolution :
                             NeedsApply(resolution[q]) \/ NeedsReport(resolution[q])}
    <3>0. Task(resolution[p]) /= "apply"
      BY DEF Task, NeedsApply
    <3>1. p \in DOMAIN reconciler'[a].plan => reconciler'[a].plan[p] /= "apply"
      <4>1. reconciler'[a].plan = [x \in listed |-> Task(resolution[x])]
        BY <1>3, <2>4, ListMoves
      <4> HIDE DEF listed
      <4> QED
        BY <3>0, <4>1
    <3> QED
      BY <1>3, <2>1, <2>4, <3>1, ListMoves DEF Applying, ListResolutions, cluster
  <2>5. ASSUME NEW a \in Agents, NEW q \in Proposals, Begin(a, q) PROVE Left(p)
    <3>1. p \in DOMAIN reconciler[a].plan => reconciler[a].plan[p] /= "apply"
      BY DEF Applying
    <3>2. ~Applying(a, p)'
      <4>1. /\ reconciler'[a].cur = q /\ q \in DOMAIN reconciler[a].plan
            /\ reconciler'[a].retry <=> reconciler[a].plan[q] /= "apply"
            /\ reconciler'[a].plan
                 = [x \in DOMAIN reconciler[a].plan \ {q} |-> reconciler[a].plan[x]]
        BY <1>3, <2>5, BeginMoves
      <4>2. ~(reconciler'[a].cur = p /\ ~reconciler'[a].retry)
        BY <3>1, <4>1
      <4>3. p \in DOMAIN reconciler'[a].plan => reconciler'[a].plan[p] /= "apply"
        BY <3>1, <4>1
      <4> QED
        BY <4>2, <4>3 DEF Applying
    <3>3. \A b \in Agents \ {a} : ~Applying(b, p)'
      BY <1>3, <2>5, BeginMoves DEF Applying
    <3> QED
      BY <2>5, <3>2, <3>3 DEF Begin, cluster
  <2>6. ASSUME NEW a \in Agents, Crash(a) PROVE Left(p)
    BY <1>3, <2>1, <2>6, CrashMoves DEF Applying, IdleReconciler
  <2>7. ASSUME NEW a \in Agents,
               \/ DryRunPasses(a) \/ DryRunFails(a) \/ PatchFails(a)
               \/ Report(a) \/ RecordStatus(a)
               \/ ReportLost(a) \/ ReportAckLost(a) \/ ReconcileApiError(a)
        PROVE  Left(p)
    <3>1. UNCHANGED applied
      BY <2>7 DEF DryRunPasses, DryRunFails, PatchFails, Report, RecordStatus, ReportLost,
         ReportAckLost, ReconcileApiError, cluster
    <3> QED
      BY <1>3, <2>2, <2>7, <3>1, StepKeepsAtHand
  <2>8. ASSUME UNCHANGED <<reconciler, applied>> PROVE Left(p)
    BY <2>8 DEF Applying
  <2> QED
    BY <1>3, <2>3, <2>4, <2>5, <2>6, <2>7, <2>8, OtherSteps DEF Next, ReconcileStep, Faulty
<1>4. TypeOK /\ RetriesOnlyReport /\ [Next]_vars => [Goal]_vars
  BY <1>3
<1> QED
  BY <1>2, <1>4, PTL DEF Spec, NothingAppliedOncePerformed

-----------------------------------------------------------------------------
(* The promise of RemediationLifecycle                                     *)

Outcomes == {"Applied", "Failed"}
Settled(p) == server[p] \in Outcomes

\* What is about to be written as reported, or is written, the server has an
\* outcome of; a retry that gets as far as its status was acknowledged.
AnswerBacked(a) ==
    reconciler[a].stage = "record"
      => /\ reconciler[a].retry => reconciler[a].acked
         /\ reconciler[a].acked => Settled(reconciler[a].cur)

ReportsBacked ==
    /\ \A a \in Agents : AnswerBacked(a)
    /\ \A p \in DOMAIN resolution : resolution[p].reported => Settled(p)

PInv == IInv /\ ReportsBacked

\* An outcome on the server is final.
LEMMA SettledStays ==
    ASSUME TypeOK, Next, NEW p \in Proposals, Settled(p)
    PROVE  Settled(p)'
<1>1. ASSUME UNCHANGED server PROVE Settled(p)'
  BY <1>1 DEF Settled
<1>2. ASSUME NEW q \in Proposals, Propose(q) \/ Decide(q) PROVE Settled(p)'
  BY <1>2 DEF Propose, Decide, Settled, Outcomes, TypeOK
<1>3. ASSUME NEW q, NEW success, RecordOutcome(q, success) PROVE Settled(p)'
  BY <1>3 DEF RecordOutcome, Settled, Outcomes, TypeOK
<1>4. ASSUME NEW q \in Proposals, KubectlTrigger(q) PROVE Settled(p)'
  BY <1>1, <1>4 DEF KubectlTrigger
<1>5. ASSUME NEW t \in Targets, Edit(t) PROVE Settled(p)'
  BY <1>1, <1>5 DEF Edit
<1>6. ASSUME NEW a \in Agents, SyncStep(a) \/ SyncAbandon(a) PROVE Settled(p)'
  BY <1>1, <1>6 DEF SyncStep, SyncAbandon, FetchProposals, SyncGet, SyncCreate,
     SyncPatchSpec, SyncPatchPhase, SyncFrame
<1>7. ASSUME NEW a \in Agents, Report(a) \/ ReportAckLost(a) PROVE Settled(p)'
  BY <1>3, <1>7 DEF Report, ReportAckLost
<1>8. ASSUME NEW a \in Agents,
             \/ ListResolutions(a) \/ \E q \in Proposals : Begin(a, q)
             \/ DryRunPasses(a) \/ DryRunFails(a) \/ PatchApplies(a) \/ PatchFails(a)
             \/ PatchAckLost(a) \/ RecordStatus(a) \/ ReportLost(a) \/ ReconcileApiError(a)
             \/ Crash(a)
      PROVE  Settled(p)'
  BY <1>1, <1>8 DEF ListResolutions, Begin, DryRunPasses, DryRunFails, PatchApplies,
     PatchFails, PatchAckLost, RecordStatus, ReportLost, ReconcileApiError, Crash
<1> QED
  BY <1>2, <1>4, <1>5, <1>6, <1>7, <1>8 DEF Next, ReconcileStep, Faulty

\* A loop comes to the status patch only by way of an answer.
LEMMA AnswerStep ==
    ASSUME TypeOK, TypeOK', ReportsBacked, Next, NEW b \in Agents
    PROVE  AnswerBacked(b)'
<1>1. ASSUME reconciler'[b] = reconciler[b] PROVE AnswerBacked(b)'
  <2>1. AnswerBacked(b)
    BY DEF ReportsBacked
  <2>2. reconciler[b].stage = "record" => reconciler[b].cur \in Proposals
    BY PartialDomain DEF TypeOK, AtHand
  <2>3. \A p \in Proposals : Settled(p) => server'[p] \in Outcomes
    BY SettledStays DEF Settled
  <2> QED
    BY <1>1, <2>1, <2>2, <2>3 DEF AnswerBacked, Settled
<1>2. ASSUME reconciler'[b].stage /= "record" PROVE AnswerBacked(b)'
  BY <1>2 DEF AnswerBacked
<1>3. ASSUME NEW a \in Agents, SyncStep(a) \/ SyncAbandon(a) PROVE AnswerBacked(b)'
  BY <1>1, <1>3, OtherSteps
<1>4. ASSUME \/ \E p \in Proposals : Propose(p) \/ Decide(p) \/ KubectlTrigger(p)
             \/ \E t \in Targets : Edit(t)
      PROVE  AnswerBacked(b)'
  BY <1>1, <1>4, OtherSteps
<1>5. ASSUME NEW a \in Agents, ListResolutions(a) PROVE AnswerBacked(b)'
  BY <1>1, <1>2, <1>5, ListMoves
<1>6. ASSUME NEW a \in Agents, NEW p \in Proposals, Begin(a, p) PROVE AnswerBacked(b)'
  BY <1>1, <1>2, <1>6, BeginMoves
<1>7. ASSUME NEW a \in Agents, NEW stage, stage /= "record",
             reconciler' = [reconciler EXCEPT ![a].stage = stage]
      PROVE  AnswerBacked(b)'
  BY <1>1, <1>2, <1>7, StageMoves
<1>8. ASSUME NEW a \in Agents, ReconcileDone(a) PROVE AnswerBacked(b)'
  BY <1>1, <1>2, <1>8, DoneMoves
<1>9. ASSUME NEW a \in Agents,
             \/ DryRunPasses(a) \/ DryRunFails(a) \/ PatchFails(a) \/ PatchAckLost(a)
             \/ ReconcileApiError(a) \/ RecordStatus(a)
      PROVE  AnswerBacked(b)'
  BY <1>7, <1>8, <1>9 DEF DryRunPasses, DryRunFails, PatchFails, PatchAckLost,
     ReconcileApiError, RecordStatus
<1>10. ASSUME NEW a \in Agents, PatchApplies(a) PROVE AnswerBacked(b)'
  BY <1>1, <1>2, <1>10, SuccessMoves DEF PatchApplies
<1>11. ASSUME NEW a \in Agents, NEW acked, Answered(a, acked),
              acked => server'[reconciler[a].cur] \in Outcomes
       PROVE  AnswerBacked(b)'
  BY <1>1, <1>2, <1>11, AnsweredMoves DEF AnswerBacked, Settled
<1>12. ASSUME NEW a \in Agents, Report(a) PROVE AnswerBacked(b)'
  <2> DEFINE p == reconciler[a].cur
             success == reconciler[a].success
             acked == Accepts(p, success)
  <2>1. p \in Proposals
    BY <1>12, PartialDomain DEF TypeOK, AtHand, Report
  <2>2. RecordOutcome(p, success) /\ Answered(a, acked)
    BY <1>12 DEF Report
  <2>3. acked => server'[p] \in Outcomes
    BY <2>1, <2>2 DEF Accepts, RecordOutcome, Outcome, Outcomes, TypeOK
  <2> HIDE DEF acked
  <2> QED
    BY <1>11, <2>2, <2>3
<1>13. ASSUME NEW a \in Agents, ReportLost(a) \/ ReportAckLost(a) PROVE AnswerBacked(b)'
  BY <1>11, <1>13 DEF ReportLost, ReportAckLost
<1>14. ASSUME NEW a \in Agents, Crash(a) PROVE AnswerBacked(b)'
  BY <1>1, <1>2, <1>14, CrashMoves DEF IdleReconciler
<1> QED
  BY <1>3, <1>4, <1>5, <1>6, <1>9, <1>10, <1>12, <1>13, <1>14 DEF Next, ReconcileStep, Faulty

LEMMA ReportsStep ==
    ASSUME TypeOK, TypeOK', ReportsBacked, Next
    PROVE  ReportsBacked'
<1> DEFINE Goal == \A p \in DOMAIN resolution' :
                     resolution'[p].reported => server'[p] \in Outcomes
<1>1. \A p \in DOMAIN resolution : resolution[p].reported => server'[p] \in Outcomes
  BY SettledStays, PartialDomain DEF ReportsBacked, TypeOK, Settled
<1>2. ASSUME UNCHANGED resolution PROVE Goal
  BY <1>1, <1>2
<1>3. DOMAIN resolution \subseteq Proposals /\ resolution \in [DOMAIN resolution -> Resolution]
  BY PartialDomain DEF TypeOK
\* A step that writes one object.
<1>4. ASSUME NEW c \in DOMAIN resolution, NEW r, resolution' = [resolution EXCEPT ![c] = r],
             r.reported => resolution[c].reported \/ server'[c] \in Outcomes
      PROVE  Goal
  BY <1>1, <1>3, <1>4
<1>5. ASSUME NEW a \in Agents, SyncCreate(a) PROVE Goal
  <2> DEFINE p == syncer[a].cur
  <2>1. CASE p \in DOMAIN resolution
    BY <1>2, <1>5, <2>1 DEF SyncCreate
  <2>2. CASE p \notin DOMAIN resolution
    <3>1. resolution' = [q \in DOMAIN resolution \cup {p} |->
                           IF q = p THEN Created(syncer[a].state) ELSE resolution[q]]
      BY <1>5, <2>2 DEF SyncCreate
    <3>2. Created(syncer[a].state).reported = FALSE
      BY DEF Created
    <3> QED
      BY <1>1, <3>1, <3>2
  <2> QED
    BY <2>1, <2>2
<1>6. ASSUME NEW a \in Agents, SyncPatchSpec(a) \/ SyncPatchPhase(a) PROVE Goal
  <2> DEFINE c == syncer[a].cur
             spec == [resolution[c] EXCEPT !.triggered = syncer[a].state \in Authorizing]
             status == [resolution[c] EXCEPT !.phase = syncer[a].state]
  <2>1. c \in DOMAIN resolution /\ resolution[c] \in Resolution
    BY <1>3, <1>6 DEF TypeOK, AtHand, SyncPatchSpec, SyncPatchPhase
  <2>2. /\ \A v : [resolution[c] EXCEPT !.triggered = v].reported = resolution[c].reported
        /\ status.reported = resolution[c].reported
    BY <2>1 DEF Resolution
  <2>3. resolution' = [resolution EXCEPT ![c] = spec] \/ resolution' = [resolution EXCEPT ![c] = status]
    BY <1>6 DEF SyncPatchSpec, SyncPatchPhase
  <2>4. spec.reported = resolution[c].reported
    BY <2>2
  <2> HIDE DEF spec, status
  <2> QED
    BY <1>4, <2>1, <2>2, <2>3, <2>4
<1>7. ASSUME NEW a \in Agents, RecordStatus(a) PROVE Goal
  <2> DEFINE c == reconciler[a].cur
             r == RecordedStatus(a, resolution[c])
  <2>1. c \in DOMAIN resolution /\ resolution[c] \in Resolution
    BY <1>3, <1>7 DEF TypeOK, AtHand, RecordStatus
  <2>2. resolution' = [resolution EXCEPT ![c] = r] /\ UNCHANGED server
    BY <1>7 DEF RecordStatus
  <2>3. AnswerBacked(a) /\ reconciler[a].stage = "record"
    BY <1>7 DEF ReportsBacked, RecordStatus
  <2>4. r.reported => reconciler[a].retry \/ reconciler[a].acked
    BY <2>1 DEF RecordedStatus, Resolution
  <2>5. r.reported => server'[c] \in Outcomes
    BY <2>2, <2>3, <2>4 DEF AnswerBacked, Settled, RecordStatus
  <2> HIDE DEF r
  <2> QED
    BY <1>4, <2>1, <2>2, <2>5
<1>8. ASSUME NEW p \in Proposals, KubectlTrigger(p) PROVE Goal
  <2> DEFINE r == [resolution[p] EXCEPT !.triggered = TRUE]
  <2>1. p \in DOMAIN resolution /\ resolution[p] \in Resolution
    BY <1>3, <1>8 DEF KubectlTrigger
  <2>2. resolution' = [resolution EXCEPT ![p] = r]
    BY <1>8 DEF KubectlTrigger
  <2>3. r.reported = resolution[p].reported
    BY <2>1 DEF Resolution
  <2> HIDE DEF r
  <2> QED
    BY <1>4, <2>1, <2>2, <2>3
<1>9. ASSUME NEW a \in Agents, SyncStep(a) \/ SyncAbandon(a) PROVE Goal
  BY <1>2, <1>5, <1>6, <1>9 DEF SyncStep, SyncAbandon, FetchProposals, SyncGet
<1>10. ASSUME NEW a \in Agents, ReconcileStep(a) PROVE Goal
  BY <1>2, <1>7, <1>10 DEF ReconcileStep, ListResolutions, Begin, DryRunPasses, DryRunFails,
     PatchApplies, PatchFails, Report, ChangeTarget, cluster
<1>11. ASSUME NEW a \in Agents, Faulty(a) PROVE Goal
  BY <1>2, <1>9, <1>11 DEF Faulty, PatchAckLost, ReportLost, ReportAckLost,
     ReconcileApiError, Crash, ChangeTarget, cluster
<1>12. ASSUME \/ \E p \in Proposals : Propose(p) \/ Decide(p)
              \/ \E t \in Targets : Edit(t)
       PROVE  Goal
  BY <1>2, <1>12 DEF Propose, Decide, Edit, cluster
<1>13. Goal
  BY <1>8, <1>9, <1>10, <1>11, <1>12 DEF Next
<1> QED
  BY <1>13, AnswerStep DEF ReportsBacked, Settled

LEMMA PromiseInvariance == Spec => []PInv
<1>1. Init => PInv
  BY InitTypes, InitBacked DEF PInv, IInv, ReportsBacked, AnswerBacked, Init, IdleReconciler
<1>2. PInv /\ [Next]_vars => PInv'
  <2> SUFFICES ASSUME PInv, [Next]_vars PROVE PInv'
    OBVIOUS
  <2>1. IInv'
    BY Inductive DEF PInv
  <2>2. CASE UNCHANGED vars
    BY <2>1, <2>2 DEF vars, cluster, PInv, ReportsBacked, AnswerBacked, Settled
  <2>3. CASE Next
    BY <2>1, <2>3, ReportsStep DEF PInv, IInv
  <2> QED
    BY <2>2, <2>3
<1> QED
  BY <1>1, <1>2, PTL DEF Spec

\* What is reported, when a step leaves the flag of every object alone or makes
\* an object without it.
LEMMA ReportedKept ==
    ASSUME TypeOK, TypeOK', DOMAIN resolution \subseteq DOMAIN resolution',
           \A p \in DOMAIN resolution : resolution'[p].reported = resolution[p].reported,
           \A p \in DOMAIN resolution' \ DOMAIN resolution : ~resolution'[p].reported
    PROVE  UNCHANGED Reported
BY DEF Reported

LEMMA SyncKeepsReported ==
    ASSUME TypeOK, TypeOK', NEW a \in Agents, SyncStep(a) \/ SyncAbandon(a)
    PROVE  UNCHANGED Reported
<1>1. ASSUME UNCHANGED resolution PROVE UNCHANGED Reported
  BY <1>1 DEF Reported
<1>2. DOMAIN resolution \subseteq Proposals /\ resolution \in [DOMAIN resolution -> Resolution]
  BY PartialDomain DEF TypeOK
<1>3. CASE SyncCreate(a)
  <2> DEFINE p == syncer[a].cur
  <2>1. CASE p \in DOMAIN resolution
    BY <1>1, <1>3, <2>1 DEF SyncCreate
  <2>2. CASE p \notin DOMAIN resolution
    <3>1. resolution' = [q \in DOMAIN resolution \cup {p} |->
                           IF q = p THEN Created(syncer[a].state) ELSE resolution[q]]
      BY <1>3, <2>2 DEF SyncCreate
    <3>2. Created(syncer[a].state).reported = FALSE
      BY DEF Created
    <3> QED
      BY <2>2, <3>1, <3>2, ReportedKept
  <2> QED
    BY <2>1, <2>2
<1>4. CASE SyncPatchSpec(a) \/ SyncPatchPhase(a)
  <2> DEFINE c == syncer[a].cur
             spec == [resolution[c] EXCEPT !.triggered = syncer[a].state \in Authorizing]
             status == [resolution[c] EXCEPT !.phase = syncer[a].state]
  <2>1. c \in DOMAIN resolution /\ resolution[c] \in Resolution
    BY <1>2, <1>4 DEF TypeOK, AtHand, SyncPatchSpec, SyncPatchPhase
  <2>2. /\ \A v : [resolution[c] EXCEPT !.triggered = v].reported = resolution[c].reported
        /\ status.reported = resolution[c].reported
    BY <2>1 DEF Resolution
  <2>3. spec.reported = resolution[c].reported
    BY <2>2
  <2>4. \/ resolution' = [resolution EXCEPT ![c] = spec]
        \/ resolution' = [resolution EXCEPT ![c] = status]
    BY <1>4 DEF SyncPatchSpec, SyncPatchPhase
  <2> HIDE DEF spec, status
  <2> QED
    BY <1>2, <2>1, <2>2, <2>3, <2>4, ReportedKept
<1> QED
  BY <1>1, <1>3, <1>4 DEF SyncStep, SyncAbandon, FetchProposals, SyncGet

LEMMA TriggerKeepsReported ==
    ASSUME TypeOK, TypeOK', NEW p \in Proposals, KubectlTrigger(p)
    PROVE  UNCHANGED Reported
<1> DEFINE r == [resolution[p] EXCEPT !.triggered = TRUE]
<1>1. p \in DOMAIN resolution /\ resolution \in [DOMAIN resolution -> Resolution]
  BY PartialDomain DEF TypeOK, KubectlTrigger
<1>2. resolution' = [resolution EXCEPT ![p] = r]
  BY DEF KubectlTrigger
<1>3. r.reported = resolution[p].reported
  BY <1>1 DEF Resolution
<1> HIDE DEF r
<1> QED
  BY <1>1, <1>2, <1>3, ReportedKept

LEMMA RecordMovesReported ==
    ASSUME TypeOK, TypeOK', NEW a \in Agents, RecordStatus(a)
    PROVE  \/ Reported' = Reported \cup {reconciler[a].cur}
           \/ Reported' = Reported \ {reconciler[a].cur}
<1> DEFINE c == reconciler[a].cur
           r == RecordedStatus(a, resolution[c])
<1>1. c \in DOMAIN resolution /\ resolution \in [DOMAIN resolution -> Resolution]
  BY PartialDomain DEF TypeOK, AtHand, RecordStatus
<1>2. resolution' = [resolution EXCEPT ![c] = r]
  BY DEF RecordStatus
<1>3. /\ DOMAIN resolution' = DOMAIN resolution
      /\ resolution'[c] = r
      /\ \A p \in DOMAIN resolution : p /= c => resolution'[p] = resolution[p]
  BY <1>1, <1>2
<1> HIDE DEF r
<1>4. CASE r.reported
  BY <1>1, <1>3, <1>4 DEF Reported
<1>5. CASE ~r.reported
  BY <1>1, <1>3, <1>5 DEF Reported
<1> QED
  BY <1>4, <1>5

-----------------------------------------------------------------------------
\* Each step of Remediation as a step of what it promises.

Quiet == UNCHANGED <<server, pin, byHand, applied, Reported>>

LEMMA QuietStutters ==
    ASSUME Quiet
    PROVE  UNCHANGED Promise!remediationVars
<1>1. UNCHANGED <<server, About, MadeFrom, byHand, Changed, Reported>>
  BY DEF Quiet, About, MadeFrom, Changed
<1> QED
  BY <1>1 DEF Promise!remediationVars, Promise!lifecycleVars

LEMMA InitPromises == Init => Promise!RemediationInit
<1> SUFFICES ASSUME Init PROVE Promise!RemediationInit
  OBVIOUS
<1>1. /\ server = [p \in Proposals |-> "Absent"]
      /\ About = [p \in Proposals |-> None]
  BY DEF Init, About
<1>2. byHand = {} /\ Changed = {} /\ Reported = {}
  BY DEF Init, Changed, Reported
<1> QED
  BY <1>1, <1>2 DEF Promise!RemediationInit, Promise!LifecycleInit

LEMMA ProposePromised ==
    ASSUME TypeOK, TypeOK', NEW p \in Proposals, Propose(p)
    PROVE  Promise!Propose(p)
<1>1. /\ server[p] = "Absent" /\ server' = [server EXCEPT ![p] = "Pending"]
      /\ UNCHANGED <<byHand, applied, resolution>>
      /\ \A q \in Proposals : q /= p => pin'[q] = pin[q]
  BY DEF Propose, cluster, TypeOK
<1>2. UNCHANGED <<byHand, Changed, Reported>>
  BY <1>1 DEF Changed, Reported
<1>3. \A q \in Proposals : About[q] = p => server[q] /= "Absent" /\ q = p
  BY DEF About
<1>4. About' = [About EXCEPT ![p] = p]
  BY <1>1 DEF About, TypeOK
<1>5. Promise!Raise(p, p)
  BY <1>1, <1>3, <1>4 DEF Promise!Raise
<1>6. MadeFrom'[p] \in Targets \X Nat
  BY DEF MadeFrom, TypeOK
<1>7. MadeFrom' = [MadeFrom EXCEPT ![p] = MadeFrom'[p]]
  BY <1>1 DEF MadeFrom
<1> QED
  BY <1>2, <1>5, <1>6, <1>7 DEF Promise!Propose

LEMMA DecidePromised ==
    ASSUME TypeOK, NEW p \in Proposals, Decide(p)
    PROVE  Promise!Decide(p)
<1>1. /\ server[p] = "Pending"
      /\ \/ server' = [server EXCEPT ![p] = "Approved"]
         \/ server' = [server EXCEPT ![p] = "Rejected"]
      /\ UNCHANGED <<pin, byHand, applied, resolution>>
  BY DEF Decide, cluster
<1>2. UNCHANGED <<About, MadeFrom, byHand, Changed, Reported>>
  BY <1>1 DEF About, MadeFrom, Changed, Reported, TypeOK
<1> QED
  BY <1>1, <1>2 DEF Promise!Decide, Promise!Move

LEMMA TriggerPromised ==
    ASSUME IInv, TypeOK', NEW p \in Proposals, KubectlTrigger(p)
    PROVE  Promise!Override(p)
<1>1. UNCHANGED <<server, pin, applied>> /\ byHand' = byHand \cup {p}
  BY DEF KubectlTrigger
<1>2. UNCHANGED <<About, MadeFrom, Changed, Reported>>
  BY <1>1, TriggerKeepsReported DEF About, MadeFrom, Changed, IInv
<1>3. server[p] \in Promise!Raised
  <2>1. server[p] /= "Absent" /\ server[p] \in ServerStates \cup {"Absent"}
    BY DEF IInv, Backed, ObjectBacked, KubectlTrigger, TypeOK
  <2> QED
    BY <2>1 DEF ServerStates, Promise!Raised, Promise!Decided
<1> QED
  BY <1>1, <1>2, <1>3 DEF Promise!Override, Promise!lifecycleVars

\* What lets the patch through is approved or triggered by hand, and its pin
\* says that nothing made from the same version has been applied.
LEMMA PatchPromised ==
    ASSUME IInv, NEW a \in Agents, PatchApplies(a) \/ PatchAckLost(a)
    PROVE  \E p \in Proposals : Promise!Change(p)
<1> DEFINE c == reconciler[a].cur
<1>1. /\ reconciler[a].stage = "patch" /\ ChangeTarget(c)
      /\ UNCHANGED <<server, pin, byHand, resolution>>
  BY DEF PatchApplies, PatchAckLost, ReconcileFrame, ChangeTarget
<1>2. c \in Proposals /\ Authorized(c)
  BY <1>1, PartialDomain DEF IInv, TypeOK, AtHand, Backed, ReconcilerBacked
<1>3. /\ TargetOf[c] \in Targets /\ pin[c] = live[TargetOf[c]] /\ live[TargetOf[c]] \in Nat
      /\ \A q \in Proposals : pin[q] \in Nat /\ applied[q] \in Nat
  BY <1>1, <1>2 DEF ChangeTarget, PinMatches, IInv, TypeOK
<1>4. \A q \in Changed : q \in Proposals /\ pin[q] < live[TargetOf[q]]
  BY DEF Changed, IInv, Backed, ProposalBacked
<1>5. \A q \in Changed : MadeFrom[q] /= MadeFrom[c]
  <2> SUFFICES ASSUME NEW q \in Changed, MadeFrom[q] = MadeFrom[c] PROVE FALSE
    OBVIOUS
  <2>1. TargetOf[q] = TargetOf[c] /\ pin[q] = pin[c]
    BY <1>2, <1>4 DEF MadeFrom
  <2> QED
    BY <1>3, <1>4, <2>1
<1>6. server[c] \in {"Approved", "Failed"} \/ c \in byHand
  <2>1. c \notin Changed
    BY <1>5
  <2>2. server[c] /= "Applied"
    BY <1>2, <2>1 DEF IInv, Backed, ProposalBacked, Changed
  <2> QED
    BY <1>2, <2>2 DEF Authorized, Authorizing, ServerStates
<1>7. Changed' = Changed \cup {c}
  <2>1. \A q \in Proposals : applied'[q] = IF q = c THEN applied[q] + 1 ELSE applied[q]
    BY <1>1, <1>2 DEF ChangeTarget, IInv, TypeOK
  <2> QED
    BY <1>2, <1>3, <2>1 DEF Changed
<1>8. UNCHANGED <<server, About, MadeFrom, byHand, Reported>>
  BY <1>1 DEF About, MadeFrom, Reported
<1>9. Promise!Change(c)
  BY <1>5, <1>6, <1>7, <1>8 DEF Promise!Change, Promise!lifecycleVars
<1> QED
  BY <1>2, <1>9

\* A report moves the proposal, if it is Approved still.
LEMMA ReportPromised ==
    ASSUME IInv, NEW a \in Agents, Report(a) \/ ReportAckLost(a)
    PROVE  Quiet \/ \E p \in Proposals : Promise!Conclude(p)
<1> DEFINE c == reconciler[a].cur
           success == reconciler[a].success
<1>1. /\ reconciler[a].stage = "report" /\ RecordOutcome(c, success)
      /\ UNCHANGED <<pin, byHand, applied, resolution>>
  BY DEF Report, ReportAckLost, ReconcileFrame, cluster
<1>2. c \in Proposals /\ (success => c \in Changed)
  BY <1>1, PartialDomain DEF IInv, TypeOK, AtHand, Backed, ReconcilerBacked, Changed
<1>3. UNCHANGED <<MadeFrom, byHand, Changed, Reported>>
  BY <1>1 DEF MadeFrom, Changed, Reported
<1>4. CASE server[c] = "Approved"
  <2>1. server' = [server EXCEPT ![c] = Outcome(success)]
    BY <1>1, <1>4 DEF RecordOutcome
  <2>2. UNCHANGED About
    BY <1>4, <2>1 DEF About, Outcome, IInv, TypeOK
  <2>3. Promise!Conclude(c)
    BY <1>2, <1>3, <1>4, <2>1, <2>2 DEF Promise!Conclude, Promise!Move, Outcome
  <2> QED
    BY <1>2, <2>3
<1>5. CASE server[c] /= "Approved"
  <2>1. server' = server
    BY <1>1, <1>2, <1>5 DEF RecordOutcome, IInv, TypeOK
  <2> QED
    BY <1>1, <1>3, <2>1 DEF Quiet
<1> QED
  BY <1>4, <1>5

LEMMA RecordPromised ==
    ASSUME PInv, TypeOK', NEW a \in Agents, RecordStatus(a)
    PROVE  \E p \in Proposals : Promise!Acknowledge(p) \/ Promise!Withdraw(p)
<1> DEFINE c == reconciler[a].cur
<1>1. UNCHANGED <<server, pin, byHand, applied>> /\ reconciler[a].stage = "record"
  BY DEF RecordStatus, ReconcileFrame
<1>2. c \in Proposals
  BY <1>1, PartialDomain DEF PInv, IInv, TypeOK, AtHand
<1>3. UNCHANGED <<server, About, MadeFrom, byHand, Changed>>
  BY <1>1 DEF About, MadeFrom, Changed
<1>4. CASE Reported' = Reported \ {c}
  BY <1>2, <1>3, <1>4 DEF Promise!Withdraw, Promise!lifecycleVars
<1>5. CASE Reported' = Reported \cup {c} /\ c \in Reported'
  <2>1. ReportsBacked'
    BY ReportsStep DEF PInv, IInv, Next, ReconcileStep
  <2>2. server[c] \in {"Applied", "Failed"}
    BY <1>1, <1>5, <2>1 DEF ReportsBacked, Settled, Outcomes, Reported
  <2> QED
    BY <1>2, <1>3, <1>5, <2>2 DEF Promise!Acknowledge, Promise!lifecycleVars
<1> QED
  BY <1>4, <1>5, RecordMovesReported DEF PInv, IInv

LEMMA OthersQuiet ==
    ASSUME TypeOK, TypeOK',
           \/ UNCHANGED vars
           \/ \E t \in Targets : Edit(t)
           \/ \E a \in Agents :
                \/ SyncStep(a) \/ SyncAbandon(a)
                \/ ListResolutions(a) \/ \E p \in Proposals : Begin(a, p)
                \/ DryRunPasses(a) \/ DryRunFails(a) \/ PatchFails(a)
                \/ ReportLost(a) \/ ReconcileApiError(a) \/ Crash(a)
    PROVE  Quiet
<1>1. ASSUME UNCHANGED <<server, pin, byHand, applied, resolution>> PROVE Quiet
  BY <1>1 DEF Quiet, Reported
<1>2. ASSUME NEW a \in Agents, SyncStep(a) \/ SyncAbandon(a) PROVE Quiet
  <2>1. UNCHANGED <<server, pin, byHand, applied>>
    BY <1>2 DEF SyncStep, SyncAbandon, FetchProposals, SyncGet, SyncCreate, SyncPatchSpec,
       SyncPatchPhase, SyncFrame
  <2> QED
    BY <1>2, <2>1, SyncKeepsReported DEF Quiet
<1>3. ASSUME NEW a \in Agents,
             \/ ListResolutions(a) \/ \E p \in Proposals : Begin(a, p)
             \/ DryRunPasses(a) \/ DryRunFails(a) \/ PatchFails(a)
             \/ ReportLost(a) \/ ReconcileApiError(a) \/ Crash(a)
      PROVE  Quiet
  BY <1>1, <1>3 DEF ListResolutions, Begin, DryRunPasses, DryRunFails, PatchFails, ReportLost,
     ReconcileApiError, Crash, ReconcileFrame, cluster
<1>4. ASSUME UNCHANGED vars \/ \E t \in Targets : Edit(t) PROVE Quiet
  BY <1>1, <1>4 DEF vars, cluster, Edit
<1> QED
  BY <1>2, <1>3, <1>4

\* The loops keep what RemediationLifecycle promises, for any number of agents,
\* proposals, targets and faults: every step is a step of the promise or none.
THEOREM KeepsPromise == Spec => ImplementsPromise
<1>1. PInv /\ PInv' /\ [Next]_vars => [Promise!RemediationNext]_(Promise!remediationVars)
  <2> SUFFICES ASSUME PInv, PInv', [Next]_vars
               PROVE  Promise!RemediationNext \/ UNCHANGED Promise!remediationVars
    OBVIOUS
  <2>0. IInv /\ TypeOK /\ TypeOK'
    BY DEF PInv, IInv
  <2>1. CASE Quiet
    BY <2>1, QuietStutters
  <2>2. ASSUME NEW p \in Proposals, Propose(p) \/ Decide(p) \/ KubectlTrigger(p)
        PROVE  Promise!RemediationNext
    BY <2>0, <2>2, ProposePromised, DecidePromised, TriggerPromised
       DEF Promise!RemediationNext
  <2>3. ASSUME NEW a \in Agents,
               PatchApplies(a) \/ PatchAckLost(a) \/ Report(a) \/ ReportAckLost(a)
                 \/ RecordStatus(a)
        PROVE  Quiet \/ Promise!RemediationNext
    BY <2>0, <2>3, PatchPromised, ReportPromised, RecordPromised
       DEF Promise!RemediationNext
  <2>4. CASE Next
    BY <2>0, <2>1, <2>2, <2>3, <2>4, OthersQuiet DEF Next, ReconcileStep, Faulty
  <2> QED
    BY <2>0, <2>1, <2>4, OthersQuiet
<1> QED
  BY <1>1, InitPromises, PromiseInvariance, PTL
     DEF Spec, ImplementsPromise, Promise!RemediationSpec

\* What the server has of the proposals, seen from the agent's side, goes by the
\* lifecycle that Store implements from its own.
THEOREM FollowsLifecycle == Spec => Promise!LifecycleSpec
<1>1. Promise!RemediationInit => Promise!LifecycleInit
  BY DEF Promise!RemediationInit
<1>2. [Promise!RemediationNext]_(Promise!remediationVars)
        => [Promise!LifecycleNext]_(Promise!lifecycleVars)
  <2>1. ASSUME NEW p \in Proposals, Promise!Propose(p) PROVE Promise!LifecycleNext
    BY <2>1 DEF Promise!Propose, Promise!LifecycleNext
  <2>2. ASSUME NEW p \in Proposals, Promise!Decide(p) \/ Promise!Conclude(p)
        PROVE  Promise!LifecycleNext
    BY <2>2 DEF Promise!Decide, Promise!Conclude, Promise!LifecycleNext, Promise!Settle
  <2>3. ASSUME NEW p \in Proposals,
               Promise!Override(p) \/ Promise!Change(p) \/ Promise!Acknowledge(p)
                 \/ Promise!Withdraw(p)
        PROVE  UNCHANGED Promise!lifecycleVars
    BY <2>3 DEF Promise!Override, Promise!Change, Promise!Acknowledge, Promise!Withdraw,
       Promise!lifecycleVars
  <2>4. UNCHANGED Promise!remediationVars => UNCHANGED Promise!lifecycleVars
    BY DEF Promise!remediationVars, Promise!lifecycleVars
  <2> QED
    BY <2>1, <2>2, <2>3, <2>4 DEF Promise!RemediationNext
<1> QED
  BY <1>1, <1>2, KeepsPromise, PTL
     DEF ImplementsPromise, Promise!RemediationSpec, Promise!LifecycleSpec

-----------------------------------------------------------------------------
(* Together with the store                                                 *)

\* The incidents the store made the proposals for.
CONSTANTS Incidents, NoIncident
VARIABLE incident

\* The store's side and the agent's side of the same proposals: the phase they
\* share, the incidents of the one, the changes of the other.
Whole == INSTANCE RemediationLifecycle WITH
    Incidents <- Incidents, NoIncident <- NoIncident, Versions <- Targets \X Nat,
    phase <- server, about <- incident, madeFrom <- MadeFrom,
    overridden <- byHand, changed <- Changed, reported <- Reported

\* What a step of the store's lifecycle does to the incidents follows from what
\* it does to the phases.
LEMMA StoreSideStep ==
    ASSUME TypeOK, [Whole!LifecycleNext]_(Whole!lifecycleVars)
    PROVE  /\ UNCHANGED server => UNCHANGED incident
           /\ \A p \in Proposals :
                server[p] = "Absent" /\ server' = [server EXCEPT ![p] = "Pending"]
                  => \E i \in Incidents : Whole!Raise(p, i)
           /\ \A p \in Proposals, t \in Promise!Decided :
                server[p] /= "Absent" /\ server' = [server EXCEPT ![p] = t]
                  => UNCHANGED incident
<1>1. server \in [Proposals -> ServerStates \cup {"Absent"}]
  BY DEF TypeOK
<1>2. ASSUME NEW q \in Proposals, NEW i \in Incidents, Whole!Raise(q, i)
      PROVE  server[q] = "Absent" /\ server' = [server EXCEPT ![q] = "Pending"]
  BY <1>2 DEF Whole!Raise
<1>3. ASSUME NEW q \in Proposals, Whole!Settle(q)
      PROVE  UNCHANGED incident /\ server[q] /= "Absent"
               /\ \E t \in Promise!Decided : server' = [server EXCEPT ![q] = t]
  BY <1>3 DEF Whole!Settle, Whole!Move, Promise!Decided
<1>4. \/ UNCHANGED <<server, incident>>
      \/ \E q \in Proposals, i \in Incidents : Whole!Raise(q, i)
      \/ \E q \in Proposals : Whole!Settle(q)
  BY DEF Whole!LifecycleNext, Whole!lifecycleVars
<1>5. UNCHANGED server => UNCHANGED incident
  BY <1>1, <1>2, <1>3, <1>4
<1>6. ASSUME NEW p \in Proposals, server[p] = "Absent",
             server' = [server EXCEPT ![p] = "Pending"]
      PROVE  \E i \in Incidents : Whole!Raise(p, i)
  <2>1. server'[p] = "Pending" /\ \A q \in Proposals : q /= p => server'[q] = server[q]
    BY <1>1, <1>6
  <2>2. ASSUME NEW q \in Proposals, Whole!Settle(q) PROVE FALSE
    BY <1>1, <1>3, <1>6, <2>1, <2>2
  <2>3. ASSUME NEW q \in Proposals, NEW i \in Incidents, Whole!Raise(q, i) PROVE q = p
    BY <1>1, <1>2, <2>1, <2>3
  <2> QED
    BY <1>4, <1>6, <2>1, <2>2, <2>3
<1>7. ASSUME NEW p \in Proposals, NEW t \in Promise!Decided,
             server[p] /= "Absent", server' = [server EXCEPT ![p] = t]
      PROVE  UNCHANGED incident
  <2>1. \A q \in Proposals : q /= p => server'[q] = server[q]
    BY <1>1, <1>7
  <2>2. ASSUME NEW q \in Proposals, NEW i \in Incidents, Whole!Raise(q, i) PROVE FALSE
    BY <1>1, <1>2, <1>7, <2>1, <2>2
  <2> QED
    BY <1>3, <1>4, <2>2
<1> QED
  BY <1>5, <1>6, <1>7

\* The agents, working on proposals the store keeps by its lifecycle, and the
\* store together keep the promise with the incidents the proposals are about.
THEOREM StoreAndAgents == Spec /\ Whole!LifecycleSpec => Whole!RemediationSpec
<1>1. Promise!RemediationInit /\ Whole!LifecycleInit => Whole!RemediationInit
  BY DEF Promise!RemediationInit, Whole!RemediationInit
<1>2. TypeOK /\ [Promise!RemediationNext]_(Promise!remediationVars)
        /\ [Whole!LifecycleNext]_(Whole!lifecycleVars)
        => [Whole!RemediationNext]_(Whole!remediationVars)
  <2> SUFFICES ASSUME TypeOK, [Promise!RemediationNext]_(Promise!remediationVars),
                      [Whole!LifecycleNext]_(Whole!lifecycleVars)
               PROVE  Whole!RemediationNext \/ UNCHANGED Whole!remediationVars
    OBVIOUS
  <2>1. ASSUME NEW p \in Proposals, Promise!Propose(p) PROVE Whole!Propose(p)
    <3>1. server[p] = "Absent" /\ server' = [server EXCEPT ![p] = "Pending"]
      BY <2>1 DEF Promise!Propose, Promise!Raise
    <3>2. \E i \in Incidents : Whole!Raise(p, i)
      BY <3>1, StoreSideStep
    <3> QED
      BY <2>1, <3>2 DEF Promise!Propose, Whole!Propose
  <2>2. ASSUME NEW p \in Proposals, NEW s \in Promise!Raised, NEW t \in Promise!Decided,
               Promise!Move(p, s, t)
        PROVE  Whole!Move(p, s, t)
    <3>1. server[p] = s /\ s /= "Absent" /\ server' = [server EXCEPT ![p] = t]
      BY <2>2 DEF Promise!Move, Promise!Raised, Promise!Decided
    <3>2. UNCHANGED incident
      BY <3>1, StoreSideStep
    <3> QED
      BY <3>1, <3>2 DEF Whole!Move
  <2>3. {"Pending", "Approved"} \subseteq Promise!Raised
        /\ {"Approved", "Rejected", "Applied", "Failed"} \subseteq Promise!Decided
    BY DEF Promise!Raised, Promise!Decided
  <2>4. ASSUME NEW p \in Proposals, Promise!Decide(p) PROVE Whole!Decide(p)
    BY <2>2, <2>3, <2>4 DEF Promise!Decide, Whole!Decide
  <2>5. ASSUME NEW p \in Proposals, Promise!Conclude(p) PROVE Whole!Conclude(p)
    BY <2>2, <2>3, <2>5 DEF Promise!Conclude, Whole!Conclude
  <2>6. UNCHANGED Promise!lifecycleVars => UNCHANGED Whole!lifecycleVars
    BY StoreSideStep DEF Promise!lifecycleVars, Whole!lifecycleVars
  <2>7. ASSUME NEW p \in Proposals,
               Promise!Override(p) \/ Promise!Change(p) \/ Promise!Acknowledge(p)
                 \/ Promise!Withdraw(p)
        PROVE  Whole!Override(p) \/ Whole!Change(p) \/ Whole!Acknowledge(p) \/ Whole!Withdraw(p)
    <3>1. UNCHANGED Promise!lifecycleVars
      BY <2>7 DEF Promise!Override, Promise!Change, Promise!Acknowledge, Promise!Withdraw
    <3>2. Whole!Raised = Promise!Raised
      BY DEF Promise!Raised, Promise!Decided, Whole!Raised, Whole!Decided
    <3> QED
      BY <2>6, <2>7, <3>1, <3>2 DEF Promise!Override, Promise!Change, Promise!Acknowledge,
         Promise!Withdraw, Whole!Override, Whole!Change, Whole!Acknowledge, Whole!Withdraw
  <2>8. UNCHANGED Promise!remediationVars => UNCHANGED Whole!remediationVars
    BY <2>6 DEF Promise!remediationVars, Whole!remediationVars
  <2> QED
    BY <2>1, <2>4, <2>5, <2>7, <2>8 DEF Promise!RemediationNext, Whole!RemediationNext
<1> QED
  BY <1>1, <1>2, KeepsPromise, TypeCorrect, PTL
     DEF ImplementsPromise, Promise!RemediationSpec, Whole!RemediationSpec,
         Whole!LifecycleSpec

\* No two proposals stand for one incident, and whose target was changed without
\* a hand in it was let through.
WholeInv ==
    /\ server \in [Proposals -> Whole!Raised \cup {"Absent"}]
    /\ incident \in [Proposals -> Incidents \cup {NoIncident}]
    /\ \A p, q \in Proposals :
         p /= q /\ incident[p] = incident[q] /\ server[p] \in Whole!Standing
           => server[q] \notin Whole!Standing
    /\ \A p \in Changed \ byHand :
         p \in Proposals /\ server[p] \in {"Approved", "Applied", "Failed"}

LEMMA WholeStep ==
    ASSUME WholeInv, Whole!RemediationNext
    PROVE  WholeInv'
<1> USE DEF WholeInv, Whole!Raised, Whole!Decided, Whole!Standing
<1>1. ASSUME NEW p \in Proposals, Whole!Propose(p) PROVE WholeInv'
  <2> PICK i \in Incidents : Whole!Raise(p, i)
    BY <1>1 DEF Whole!Propose
  <2>1. /\ server[p] = "Absent"
        /\ \A q \in Proposals : incident[q] = i => server[q] \notin Whole!Standing
        /\ server' = [server EXCEPT ![p] = "Pending"]
        /\ incident' = [incident EXCEPT ![p] = i]
        /\ UNCHANGED <<byHand, Changed>>
    BY <1>1 DEF Whole!Propose, Whole!Raise
  <2>2. p \notin Changed \ byHand
    BY <2>1
  <2>3. \A x, y \in Proposals :
          x /= y /\ incident'[x] = incident'[y] /\ server'[x] \in Whole!Standing
            => server'[y] \notin Whole!Standing
    BY <2>1
  <2> QED
    BY <2>1, <2>2, <2>3
<1>2. ASSUME NEW p \in Proposals, NEW s, NEW t, Whole!Move(p, s, t), UNCHANGED <<byHand, Changed>>,
             \/ s = "Pending" /\ t \in {"Approved", "Rejected"}
             \/ s = "Approved" /\ t \in {"Applied", "Failed"}
      PROVE  WholeInv'
  <2>1. /\ server[p] = s /\ server' = [server EXCEPT ![p] = t]
        /\ UNCHANGED incident
    BY <1>2 DEF Whole!Move
  <2>2. \A q \in Proposals : server'[q] \in Whole!Standing => server[q] \in Whole!Standing
    BY <1>2, <2>1
  <2> QED
    BY <1>2, <2>1, <2>2
<1>3. ASSUME NEW p \in Proposals, Whole!Decide(p) PROVE WholeInv'
  BY <1>2, <1>3 DEF Whole!Decide
<1>4. ASSUME NEW p \in Proposals, Whole!Conclude(p) PROVE WholeInv'
  BY <1>2, <1>4 DEF Whole!Conclude
<1>5. ASSUME NEW p \in Proposals,
             Whole!Override(p) \/ Whole!Change(p) \/ Whole!Acknowledge(p) \/ Whole!Withdraw(p)
      PROVE  WholeInv'
  BY <1>5 DEF Whole!Override, Whole!Change, Whole!Acknowledge, Whole!Withdraw,
     Whole!lifecycleVars
<1> QED
  BY <1>1, <1>3, <1>4, <1>5 DEF Whole!RemediationNext

\* End to end: of the proposals for one incident that nobody triggered by hand,
\* a second one changes its target only if the server was told that one failed.
THEOREM ChangedOncePerIncident == Spec /\ Whole!LifecycleSpec => []Whole!OncePerIncident
<1>1. Whole!RemediationInit => WholeInv
  BY DEF Whole!RemediationInit, Whole!LifecycleInit, WholeInv, Whole!Standing
<1>2. WholeInv /\ [Whole!RemediationNext]_(Whole!remediationVars) => WholeInv'
  <2>1. WholeInv /\ UNCHANGED Whole!remediationVars => WholeInv'
    BY DEF WholeInv, Whole!remediationVars, Whole!lifecycleVars
  <2> QED
    BY <2>1, WholeStep
<1>3. WholeInv => Whole!OncePerIncident
  BY DEF WholeInv, Whole!OncePerIncident, Whole!Standing
<1> QED
  BY <1>1, <1>2, <1>3, StoreAndAgents, PTL DEF Whole!RemediationSpec

-----------------------------------------------------------------------------
(* A finished remediation is left alone                                    *)

\* What a CRDSync loop still has of a proposal would write what its object
\* already says.
SyncsWhatIs(a, p) ==
    /\ p \in DOMAIN syncer[a].batch => syncer[a].batch[p] \in Authorizing
    /\ syncer[a].cur = p
         => /\ syncer[a].state \in Authorizing
            /\ syncer[a].performed
            /\ syncer[a].stage /= "status"

\* A ResolutionReconciler loop has nothing of a proposal.
PassesOver(a, p) ==
    reconciler[a].cur /= p /\ p \notin DOMAIN reconciler[a].plan

\* Applied or failed, reported, and with no loop in the middle of it.
Finished(p) ==
    /\ server[p] \in Outcomes
    /\ p \in DOMAIN resolution
    /\ resolution[p].triggered /\ resolution[p].performed /\ resolution[p].reported
    /\ \A a \in Agents : SyncsWhatIs(a, p) /\ PassesOver(a, p)

SameObject(p) == p \in DOMAIN resolution' /\ resolution'[p] = resolution[p]
SameRecord(p) == server'[p] = server[p] /\ pin'[p] = pin[p] /\ applied'[p] = applied[p]
LeftAlone(p) ==
    /\ SameObject(p)
    /\ SameRecord(p)
    /\ \A a \in Agents : SyncsWhatIs(a, p)' /\ PassesOver(a, p)'

\* The upserts of the sync loop rewrite a finished object to what it is.
LEMMA SyncLeavesAlone ==
    ASSUME TypeOK, NEW p \in Proposals, Finished(p),
           NEW a \in Agents, SyncStep(a) \/ SyncAbandon(a)
    PROVE  LeftAlone(p)
<1> DEFINE s == syncer[a]
           Kept == SameObject(p) /\ SyncsWhatIs(a, p)'
<1>1. /\ s \in SyncerRecord /\ syncer \in [Agents -> SyncerRecord] /\ AtHand(a)
      /\ SyncsWhatIs(a, p) /\ p \in DOMAIN resolution /\ p /= None
  BY DEF TypeOK, Finished
<1>2. UNCHANGED <<server, pin, applied, reconciler>>
  BY DEF SyncStep, SyncAbandon, FetchProposals, SyncGet, SyncCreate, SyncPatchSpec,
         SyncPatchPhase, SyncFrame
<1>3. \A b \in Agents \ {a} : syncer'[b] = syncer[b]
  BY <1>1 DEF SyncStep, SyncAbandon, FetchProposals, SyncGet, SyncCreate, SyncPatchSpec,
     SyncPatchPhase, SyncDone
<1>4. resolution \in [DOMAIN resolution -> Resolution] /\ resolution[p] \in Resolution
  BY <1>1, PartialDomain DEF TypeOK
<1>5. ASSUME SyncDone(a) PROVE SyncsWhatIs(a, p)'
  <2>1. syncer'[a] = [IdleSyncer EXCEPT !.batch = s.batch]
    BY <1>1, <1>5 DEF SyncDone
  <2>2. syncer'[a].cur = None /\ syncer'[a].batch = s.batch
    BY <2>1 DEF IdleSyncer
  <2> QED
    BY <1>1, <2>2 DEF SyncsWhatIs
<1>6. ASSUME FetchProposals(a) PROVE Kept
  <2> DEFINE batch == [q \in {x \in Proposals : server[x] /= "Absent"} |-> server[q]]
  <2>1. syncer'[a] = [IdleSyncer EXCEPT !.batch = batch]
    BY <1>1, <1>6 DEF FetchProposals
  <2>2. p \in DOMAIN batch => batch[p] \in Authorizing
    BY DEF Finished, Outcomes, Authorizing, ServerStates
  <2> HIDE DEF batch
  <2>3. syncer'[a].cur = None /\ syncer'[a].batch = batch
    BY <2>1 DEF IdleSyncer
  <2> QED
    BY <1>1, <1>6, <2>2, <2>3 DEF FetchProposals, SyncsWhatIs, SameObject
<1>7. ASSUME NEW q \in Proposals, SyncGet(a, q) PROVE Kept
  <2> DEFINE batch == [x \in DOMAIN s.batch \ {q} |-> s.batch[x]]
             performed == q \in DOMAIN resolution /\ resolution[q].performed
             r == [stage |-> IF q \in DOMAIN resolution THEN "spec" ELSE "create",
                   batch |-> batch, cur |-> q, state |-> s.batch[q],
                   performed |-> performed]
  <2>1. syncer'[a] = r
    BY <1>1, <1>7 DEF SyncGet
  <2>2. p \in DOMAIN batch => batch[p] \in Authorizing
    BY <1>1 DEF SyncsWhatIs
  <2>3. q = p => s.batch[q] \in Authorizing
    BY <1>1, <1>7 DEF SyncsWhatIs, SyncGet
  <2>4. q = p => performed
    BY DEF Finished
  <2>5. q = p => q \in DOMAIN resolution
    BY <1>1
  <2> HIDE DEF batch, performed
  <2>6. /\ r.cur = q /\ r.batch = batch /\ r.state = s.batch[q]
        /\ r.performed = performed /\ (q = p => r.stage = "spec")
    BY <2>5
  <2> HIDE DEF r
  <2> QED
    BY <1>1, <1>7, <2>1, <2>2, <2>3, <2>4, <2>6 DEF SyncGet, SyncsWhatIs, SameObject
<1>8. ASSUME SyncCreate(a) PROVE Kept
  <2>1. SameObject(p)
    BY <1>1, <1>8 DEF SyncCreate, SameObject
  <2> QED
    BY <1>5, <1>8, <2>1 DEF SyncCreate
<1>9. ASSUME SyncPatchSpec(a) PROVE Kept
  <2> DEFINE to == s.state \in Authorizing
             r == [resolution[s.cur] EXCEPT !.triggered = to]
  <2>1. resolution' = [resolution EXCEPT ![s.cur] = r]
    BY <1>9 DEF SyncPatchSpec
  <2>2. s.cur = p => to = TRUE
    BY <1>1 DEF SyncsWhatIs
  <2>3. s.cur = p => r = resolution[p]
    <3> HIDE DEF to
    <3> QED
      BY <1>4, <2>2 DEF Finished, Resolution
  <2> HIDE DEF r
  <2>4. SameObject(p)
    BY <1>1, <1>4, <2>1, <2>3 DEF SameObject
  <2>5. CASE s.performed
    BY <1>5, <1>9, <2>4, <2>5 DEF SyncPatchSpec
  <2>6. CASE ~s.performed
    <3>1. s.cur /= p
      BY <1>1, <2>6 DEF SyncsWhatIs
    <3>2. syncer'[a] = [s EXCEPT !.stage = "status"]
      BY <1>1, <1>9, <2>6 DEF SyncPatchSpec
    <3>3. syncer'[a].cur = s.cur /\ syncer'[a].batch = s.batch
      BY <1>1, <3>2 DEF SyncerRecord
    <3> QED
      BY <1>1, <2>4, <3>1, <3>3 DEF SyncsWhatIs
  <2> QED
    BY <2>5, <2>6
<1>10. ASSUME SyncPatchPhase(a) PROVE Kept
  <2>1. s.cur /= p
    BY <1>1, <1>10 DEF SyncPatchPhase, SyncsWhatIs
  <2>2. SameObject(p)
    BY <1>1, <1>4, <1>10, <2>1 DEF SyncPatchPhase, SameObject
  <2> QED
    BY <1>5, <1>10, <2>2 DEF SyncPatchPhase
<1>11. ASSUME SyncAbandon(a) PROVE Kept
  BY <1>1, <1>5, <1>11 DEF SyncAbandon, SameObject
<1>12. Kept
  BY <1>6, <1>7, <1>8, <1>9, <1>10, <1>11 DEF SyncStep
<1>13. SameRecord(p) /\ \A b \in Agents : PassesOver(b, p)'
  BY <1>2 DEF SameRecord, PassesOver, Finished
<1>14. \A b \in Agents \ {a} : SyncsWhatIs(b, p)'
  BY <1>3 DEF SyncsWhatIs, Finished
<1> QED
  BY <1>12, <1>13, <1>14 DEF LeftAlone

\* The reconciler makes no task of a finished object and writes to others only.
LEMMA ReconcileLeavesAlone ==
    ASSUME TypeOK, NEW p \in Proposals, Finished(p), NEW a \in Agents,
           ReconcileStep(a) \/ PatchAckLost(a) \/ ReportLost(a) \/ ReportAckLost(a)
             \/ ReconcileApiError(a)
    PROVE  LeftAlone(p)
<1> DEFINE c == reconciler[a].cur
<1>1. /\ p \in DOMAIN resolution /\ p /= None /\ c /= p
      /\ \A b \in Agents : PassesOver(b, p)
  BY DEF TypeOK, Finished, PassesOver
<1>2. UNCHANGED <<pin, syncer>>
  BY DEF ReconcileStep, ListResolutions, Begin, DryRunPasses, DryRunFails, PatchApplies,
         PatchFails, Report, RecordStatus, PatchAckLost, ReportLost, ReportAckLost,
         ReconcileApiError, ReconcileFrame
<1>3. server'[p] = server[p]
  <2>1. ASSUME NEW success, RecordOutcome(c, success) PROVE server'[p] = server[p]
    BY <1>1, <2>1 DEF RecordOutcome, TypeOK
  <2> QED
    BY <2>1 DEF ReconcileStep, ListResolutions, Begin, DryRunPasses, DryRunFails,
       PatchApplies, PatchFails, Report, RecordStatus, PatchAckLost, ReportLost, ReportAckLost,
       ReconcileApiError
<1>4. applied'[p] = applied[p]
  <2>1. ASSUME ChangeTarget(c) PROVE applied'[p] = applied[p]
    BY <1>1, <2>1 DEF ChangeTarget, TypeOK
  <2> QED
    BY <2>1 DEF ReconcileStep, ListResolutions, Begin, DryRunPasses, DryRunFails,
       PatchApplies, PatchFails, Report, RecordStatus, PatchAckLost, ReportLost, ReportAckLost,
       ReconcileApiError, cluster
<1>5. SameObject(p)
  <2>1. ASSUME UNCHANGED resolution PROVE SameObject(p)
    BY <1>1, <2>1 DEF SameObject
  <2>2. CASE RecordStatus(a)
    BY <1>1, <2>2, PartialDomain DEF RecordStatus, SameObject, TypeOK
  <2> QED
    BY <2>1, <2>2 DEF ReconcileStep, ListResolutions, Begin, DryRunPasses, DryRunFails,
       PatchApplies, PatchFails, Report, PatchAckLost, ReportLost, ReportAckLost,
       ReconcileApiError, ChangeTarget, cluster
<1>6. \A b \in Agents : PassesOver(b, p)'
  <2>1. ASSUME KeepsAtHand(a) PROVE \A b \in Agents : PassesOver(b, p)'
    BY <1>1, <2>1 DEF KeepsAtHand, PassesOver
  <2>2. CASE ListResolutions(a)
    <3> DEFINE listed == {q \in DOMAIN resolution :
                             NeedsApply(resolution[q]) \/ NeedsReport(resolution[q])}
    <3>1. p \notin listed
      BY DEF Finished, NeedsApply, NeedsReport
    <3>2. reconciler'[a].plan = [q \in listed |-> Task(resolution[q])]
      BY <2>2, ListMoves
    <3>3. reconciler'[a].cur = None /\ \A b \in Agents \ {a} : reconciler'[b] = reconciler[b]
      BY <2>2, ListMoves
    <3> HIDE DEF listed
    <3>4. p \notin DOMAIN reconciler'[a].plan
      BY <3>1, <3>2
    <3> QED
      BY <1>1, <3>3, <3>4 DEF PassesOver
  <2>3. ASSUME NEW q \in Proposals, Begin(a, q) PROVE \A b \in Agents : PassesOver(b, p)'
    <3>1. /\ \A b \in Agents \ {a} : reconciler'[b] = reconciler[b]
          /\ q \in DOMAIN reconciler[a].plan
          /\ reconciler'[a].plan
               = [x \in DOMAIN reconciler[a].plan \ {q} |-> reconciler[a].plan[x]]
          /\ reconciler'[a].cur = q
      BY <2>3, BeginMoves
    <3> QED
      BY <1>1, <3>1 DEF PassesOver
  <2> QED
    BY <2>1, <2>2, <2>3, StepKeepsAtHand DEF ReconcileStep
<1>7. \A b \in Agents : SyncsWhatIs(b, p)'
  BY <1>2 DEF SyncsWhatIs, Finished
<1> QED
  BY <1>2, <1>3, <1>4, <1>5, <1>6, <1>7 DEF LeftAlone, SameRecord

LEMMA CrashLeavesAlone ==
    ASSUME TypeOK, NEW p \in Proposals, Finished(p), NEW a \in Agents, Crash(a)
    PROVE  LeftAlone(p)
<1>1. UNCHANGED <<server, pin, resolution, applied>>
  BY DEF Crash, cluster
<1>2. /\ syncer'[a] = IdleSyncer
      /\ \A b \in Agents \ {a} : syncer'[b] = syncer[b]
  BY DEF Crash, TypeOK
<1>3. p /= None /\ \A b \in Agents : SyncsWhatIs(b, p) /\ PassesOver(b, p)
  BY DEF Finished
<1>4. \A b \in Agents : SyncsWhatIs(b, p)'
  BY <1>2, <1>3 DEF SyncsWhatIs, IdleSyncer
<1>5. \A b \in Agents : PassesOver(b, p)'
  BY <1>3, CrashMoves DEF PassesOver, IdleReconciler
<1> QED
  BY <1>1, <1>4, <1>5 DEF LeftAlone, SameObject, SameRecord, Finished

LEMMA PeopleLeaveAlone ==
    ASSUME TypeOK, NEW p \in Proposals, Finished(p),
           \/ \E q \in Proposals : Propose(q) \/ Decide(q) \/ KubectlTrigger(q)
           \/ \E t \in Targets : Edit(t)
    PROVE  LeftAlone(p)
<1>1. UNCHANGED <<syncer, reconciler, applied>>
  BY DEF Propose, Decide, KubectlTrigger, Edit, cluster
<1>2. \A a \in Agents : SyncsWhatIs(a, p)' /\ PassesOver(a, p)'
  BY <1>1 DEF SyncsWhatIs, PassesOver, Finished
<1>3. server'[p] = server[p] /\ pin'[p] = pin[p]
  BY DEF Propose, Decide, KubectlTrigger, Edit, Finished, Outcomes, TypeOK
<1>4. SameObject(p)
  <2>1. p \in DOMAIN resolution /\ resolution \in [DOMAIN resolution -> Resolution]
    BY PartialDomain DEF Finished, TypeOK
  <2>2. ASSUME NEW q \in Proposals, KubectlTrigger(q) PROVE SameObject(p)
    <3>1. q /= p
      BY <2>2 DEF KubectlTrigger, Finished
    <3> QED
      BY <2>1, <2>2, <3>1 DEF KubectlTrigger, SameObject
  <2>3. ASSUME UNCHANGED resolution PROVE SameObject(p)
    BY <2>1, <2>3 DEF SameObject
  <2> QED
    BY <2>2, <2>3 DEF Propose, Decide, Edit, cluster
<1> QED
  BY <1>1, <1>2, <1>3, <1>4 DEF LeftAlone, SameRecord

\* Where ApprovedEventuallySettled and PerformedEventuallyReported lead is a
\* place nothing leaves: a finished remediation stays so past every crash,
\* retry, edit and upsert, and neither its outcome, its object nor its target
\* is written for it again (crdsync.go, upsertResolution: the patches go on
\* every minute; resolutionreconciler.go, reconcileOnce).
THEOREM FinishedStaysFinished ==
    Spec => [][\A p \in Proposals :
                 Finished(p) => Finished(p)' /\ SameObject(p) /\ SameRecord(p)]_vars
<1> DEFINE Stays == \A p \in Proposals :
                      Finished(p) => Finished(p)' /\ SameObject(p) /\ SameRecord(p)
<1>1. ASSUME TypeOK, Next PROVE Stays
  <2> SUFFICES ASSUME NEW p \in Proposals, Finished(p)
               PROVE  Finished(p)' /\ SameObject(p) /\ SameRecord(p)
    OBVIOUS
  <2>1. LeftAlone(p)
    BY <1>1, SyncLeavesAlone, ReconcileLeavesAlone, CrashLeavesAlone, PeopleLeaveAlone
       DEF Next, Faulty
  <2> QED
    BY <2>1 DEF LeftAlone, Finished, SameObject, SameRecord
<1>2. TypeOK /\ [Next]_vars => [Stays]_vars
  BY <1>1
<1> QED
  BY <1>2, TypeCorrect, PTL DEF Spec
=============================================================================
