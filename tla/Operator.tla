------------------------------ MODULE Operator ------------------------------
(***************************************************************************)
(* The operator (internal/operator/reconciler.go): one goroutine polls the *)
(* MeshDiagnostics objects and makes, for each, the permissions and the    *)
(* Deployment of an agent, then reports the agent's health in its status.  *)
(*                                                                         *)
(* Every call to the API server is an action: between two of them people   *)
(* edit and delete the same objects, the Deployment controller writes its  *)
(* status, a call fails or its answer is lost, and the process restarts.   *)
(* An Update carries the resource version its Get saw, and conflicts when  *)
(* the object was written since.                                           *)
(***************************************************************************)
EXTENDS Naturals, Sequences, FiniteSets, FiniteSetsExt

CONSTANTS Names,        \* MeshDiagnostics objects, in the order of a List
          Servers,      \* values of spec.serverEndpoint
          Images,       \* values of spec.agentImage
          Broken,       \* images whose pods never become ready
          DefaultImage, \* talam-agent:local
          None,         \* a field left empty, or an object that is not there
          MaxChanges,   \* bound on what people and failing pods do
          MaxFaults     \* bound on failing calls and restarts

ASSUME OperatorAssumption ==
    /\ Names \subseteq Nat /\ IsFiniteSet(Names)
    /\ DefaultImage \in Images
    /\ Broken \subseteq Images
    /\ None \notin Servers \cup Images
    /\ MaxChanges \in Nat
    /\ MaxFaults \in Nat

VARIABLES mesh,         \* the MeshDiagnostics objects
          rbac,         \* the permissions of each agent, kind by kind
          deployment,   \* the Deployment of each agent
          op,           \* what the reconciler is at
          changes, faults

vars == <<mesh, rbac, deployment, op, changes, faults>>

\* ensureRBAC's objects, in its order.
Kinds == <<"ServiceAccount", "ClusterRole", "ClusterRoleBinding", "Role", "RoleBinding">>
Kind == DOMAIN Kinds
\* Kinds it reads first and updates; the others it only creates.
Applied == {k \in Kind : Kinds[k] \in {"ClusterRole", "Role"}}

\* wanted: as the operator makes it; drifted: edited since, the managed-by label
\* still on it; foreign: without the label.
RbacStates == {"absent", "wanted", "drifted", "foreign"}

SpecOf == [server : Servers \cup {None}, image : Images \cup {None}]
MeshDiagnostics == [spec : SpecOf, healthy : BOOLEAN]
Template == [server : Servers, image : Images]
MaxReplicas == 2
Deployment == [ours : BOOLEAN, template : Template,
               replicas : 1..MaxReplicas, ready : 0..MaxReplicas]

ASSUME NoDeploymentAssumption == None \notin Deployment

NoTable == [n \in {} |-> None]
Without(table, n) == [x \in DOMAIN table \ {n} |-> table[x]]

\* stage: the call that comes next; todo: listed specs not done; on, kind: the
\* object at hand; got: the copy a Get returned.
Stages == {"rest", "pick", "rbac", "write", "deployment", "rollout", "status", "save"}
Copies == {"none", "missing", "current", "overtaken"}
Resting == [stage |-> "rest", todo |-> NoTable, on |-> None, kind |-> 1,
            got |-> "none", healthy |-> FALSE]

Init ==
    /\ mesh = NoTable
    /\ rbac = [n \in Names |-> [k \in Kind |-> "absent"]]
    /\ deployment = [n \in Names |-> None]
    /\ op = Resting
    /\ changes = 0 /\ faults = 0

Fault == faults < MaxFaults /\ faults' = faults + 1

-----------------------------------------------------------------------------
(* Everyone else.  A write to the object the reconciler holds a copy of    *)
(* makes its next Update conflict.                                         *)

Holds(stages, n) == op.stage \in stages /\ op.on = n /\ op.got = "current"
Overtake(held) == op' = IF held THEN [op EXCEPT !.got = "overtaken"] ELSE op

Change == changes < MaxChanges /\ changes' = changes + 1

\* kubectl apply of a MeshDiagnostics object.
Apply(n) ==
    /\ Change
    /\ \E s \in SpecOf :
          mesh' = [x \in DOMAIN mesh \cup {n} |->
                     IF x /= n THEN mesh[x]
                     ELSE [spec |-> s,
                           healthy |-> n \in DOMAIN mesh /\ mesh[n].healthy]]
    /\ Overtake(Holds({"save"}, n))
    /\ UNCHANGED <<rbac, deployment, faults>>

Delete(n) ==
    /\ Change
    /\ n \in DOMAIN mesh
    /\ mesh' = Without(mesh, n)
    /\ Overtake(Holds({"save"}, n))
    /\ UNCHANGED <<rbac, deployment, faults>>

\* An object is edited, unlabelled or deleted, or made by someone else.
Meddle(n, k) ==
    /\ Change
    /\ \E to \in RbacStates \ {"wanted"} :
          /\ to = "drifted" => rbac[n][k] = "wanted"
          /\ rbac' = [rbac EXCEPT ![n][k] = to]
    /\ Overtake(Holds({"write"}, n) /\ op.kind = k)
    /\ UNCHANGED <<mesh, deployment, faults>>

SetDeployment(n, d) ==
    /\ deployment[n] /= d
    /\ deployment' = [deployment EXCEPT ![n] = d]
    /\ Overtake(Holds({"rollout"}, n))
    /\ UNCHANGED <<mesh, rbac>>

\* A Deployment is scaled, rolled back or deleted, or made by someone else.
MeddleDeployment(n) ==
    /\ Change
    /\ UNCHANGED faults
    /\ \/ SetDeployment(n, None)
       \/ /\ deployment[n] = None
          /\ \E t \in Template :
                SetDeployment(n, [ours |-> FALSE, template |-> t, replicas |-> 1, ready |-> 0])
       \/ /\ deployment[n] /= None
          /\ \E t \in Template, r \in 1..MaxReplicas :
                SetDeployment(n, [deployment[n] EXCEPT !.template = t, !.replicas = r])

\* Pods come and go: one crashes, or a rollout has two of them for a while.
PodsChange(n) ==
    /\ Change
    /\ UNCHANGED faults
    /\ deployment[n] /= None
    /\ \E r \in 0..MaxReplicas : SetDeployment(n, [deployment[n] EXCEPT !.ready = r])

\* The Deployment controller brings the pods to what the spec says.  Pods of
\* a broken image never replace the earlier ones.
Rollout(n) ==
    /\ deployment[n] /= None
    /\ LET d == deployment[n]
       IN  SetDeployment(n, [d EXCEPT !.ready = IF d.template.image \in Broken
                                                THEN Min({d.ready, d.replicas})
                                                ELSE d.replicas])
    /\ UNCHANGED <<changes, faults>>

-----------------------------------------------------------------------------
(* reconcileAll                                                            *)

\* reconcileOne is over, done or failed: the loop goes on.
Ended == [Resting EXCEPT !.stage = "pick", !.todo = Without(op.todo, op.on)]

\* A call is answered, or its answer is lost and counts as an error.
Goes(next) ==
    \/ op' = next /\ UNCHANGED faults
    \/ op' = Ended /\ Fault

\* A List that fails leaves everything to the next tick.
List ==
    /\ op.stage = "rest"
    /\ op' = [Resting EXCEPT !.stage = "pick", !.todo = [n \in DOMAIN mesh |-> mesh[n].spec]]
    /\ UNCHANGED <<mesh, rbac, deployment, changes, faults>>

\* Slip: one refused object ends the whole round.
PickNoFurther ==
    /\ op.stage = "pick"
    /\ op' = IF DOMAIN op.todo = {} THEN Resting
             ELSE LET n == Min(DOMAIN op.todo)
                  IN  IF op.todo[n].server = None THEN Resting
                      ELSE [op EXCEPT !.stage = "rbac", !.on = n, !.kind = 1]
    /\ UNCHANGED <<mesh, rbac, deployment, changes, faults>>

\* The next listed object; one without an endpoint is refused.
Pick ==
    /\ op.stage = "pick"
    /\ op' = IF DOMAIN op.todo = {} THEN Resting
             ELSE LET n == Min(DOMAIN op.todo)
                  IN  IF op.todo[n].server = None
                      THEN [op EXCEPT !.todo = Without(op.todo, n)]
                      ELSE [op EXCEPT !.stage = "rbac", !.on = n, !.kind = 1]
    /\ UNCHANGED <<mesh, rbac, deployment, changes, faults>>

AfterKind ==
    IF op.kind < Len(Kinds)
    THEN [op EXCEPT !.stage = "rbac", !.kind = @ + 1, !.got = "none"]
    ELSE [op EXCEPT !.stage = "deployment", !.got = "none"]

SetRbac(to) == rbac' = [rbac EXCEPT ![op.on][op.kind] = to]

-----------------------------------------------------------------------------
(* ensureRBAC                                                              *)

\* Created unless it is there, whoever made it.
CreateOnly ==
    /\ op.stage = "rbac" /\ op.kind \notin Applied
    /\ IF rbac[op.on][op.kind] = "absent" THEN SetRbac("wanted") ELSE UNCHANGED rbac
    /\ Goes(AfterKind)
    /\ UNCHANGED <<mesh, deployment, changes>>

\* An object without the managed-by label is not the operator's to change.
Refused == rbac[op.on][op.kind] = "foreign"

GetRole ==
    /\ op.stage = "rbac" /\ op.kind \in Applied
    /\ Goes(IF Refused THEN Ended
            ELSE [op EXCEPT !.stage = "write",
                            !.got = IF rbac[op.on][op.kind] = "absent" THEN "missing"
                                                                       ELSE "current"])
    /\ UNCHANGED <<mesh, rbac, deployment, changes>>

\* Slip: an Update goes through whatever was written since.
AllowedLastWriter(absent) ==
    \/ op.got = "missing" /\ absent
    \/ op.got \in {"current", "overtaken"}

\* A copy lets a Create go through when the object is still missing, and an
\* Update when it has not been written since.
Allowed(absent) ==
    \/ op.got = "missing" /\ absent
    \/ op.got = "current"

WriteRole ==
    /\ op.stage = "write"
    /\ IF Allowed(rbac[op.on][op.kind] = "absent")
       THEN SetRbac("wanted") /\ Goes(AfterKind)
       ELSE op' = Ended /\ UNCHANGED <<rbac, faults>>
    /\ UNCHANGED <<mesh, deployment, changes>>

-----------------------------------------------------------------------------
(* ensureDeployment and updateStatus                                       *)

Wanted(spec) ==
    [server |-> spec.server,
     image |-> IF spec.image = None THEN DefaultImage ELSE spec.image]

GetDeployment ==
    /\ op.stage = "deployment"
    /\ Goes([op EXCEPT !.stage = "rollout",
                       !.got = IF deployment[op.on] = None THEN "missing" ELSE "current"])
    /\ UNCHANGED <<mesh, rbac, deployment, changes>>

\* One replica of the template the listed spec asks for.  Health is taken from
\* the status in the answer, which is of the pods there were before.  The API
\* server refuses the template for a Deployment whose selector is another's.
WriteDeployment ==
    LET d == deployment[op.on]
        ready == IF d = None THEN 0 ELSE d.ready
    IN  /\ op.stage = "rollout"
        /\ IF Allowed(d = None) /\ (d = None \/ d.ours)
           THEN /\ deployment' = [deployment EXCEPT ![op.on] =
                     [ours |-> TRUE, template |-> Wanted(op.todo[op.on]),
                      replicas |-> 1, ready |-> ready]]
                /\ Goes([op EXCEPT !.stage = "status", !.got = "none",
                                   !.healthy = ready = 1])
           ELSE op' = Ended /\ UNCHANGED <<deployment, faults>>
        /\ UNCHANGED <<mesh, rbac, changes>>

\* The object is read again; a status that cannot be written is only logged.
GetMesh ==
    /\ op.stage = "status"
    /\ Goes(IF op.on \in DOMAIN mesh
            THEN [op EXCEPT !.stage = "save", !.got = "current"] ELSE Ended)
    /\ UNCHANGED <<mesh, rbac, deployment, changes>>

\* Slip: only good news is written.
SaveGoodNews ==
    /\ op.stage = "save"
    /\ IF op.got = "current" /\ op.healthy
       THEN mesh' = [mesh EXCEPT ![op.on].healthy = TRUE] ELSE UNCHANGED mesh
    /\ op' = Ended
    /\ UNCHANGED <<rbac, deployment, changes, faults>>

SaveStatus ==
    /\ op.stage = "save"
    /\ IF op.got = "current" THEN mesh' = [mesh EXCEPT ![op.on].healthy = op.healthy]
                             ELSE UNCHANGED mesh
    /\ op' = Ended
    /\ UNCHANGED <<rbac, deployment, changes, faults>>

\* The answer to any call of reconcileOne is an error and nothing was done.
CallFails ==
    /\ op.stage \notin {"rest", "pick"}
    /\ Fault
    /\ op' = Ended
    /\ UNCHANGED <<mesh, rbac, deployment, changes>>

Restart ==
    /\ Fault
    /\ op' = Resting
    /\ UNCHANGED <<mesh, rbac, deployment, changes>>

Reconcile ==
    \/ List \/ Pick
    \/ CreateOnly \/ GetRole \/ WriteRole
    \/ GetDeployment \/ WriteDeployment
    \/ GetMesh \/ SaveStatus
    \/ CallFails

Others(n) ==
    \/ Apply(n) \/ Delete(n)
    \/ \E k \in Kind : Meddle(n, k)
    \/ MeddleDeployment(n) \/ PodsChange(n) \/ Rollout(n)

Next == Reconcile \/ Restart \/ \E n \in Names : Others(n)

Spec == Init /\ [][Next]_vars

\* The ticker keeps firing and calls are answered; the Deployment controller
\* keeps at its work.
FairSpec ==
    /\ Spec
    /\ WF_vars(Reconcile)
    /\ \A n \in Names : WF_vars(Rollout(n))

-----------------------------------------------------------------------------
(* Properties                                                              *)

\* Type invariant.
TypeOK ==
    /\ \E listed \in SUBSET Names : mesh \in [listed -> MeshDiagnostics]
    /\ rbac \in [Names -> [Kind -> RbacStates]]
    /\ deployment \in [Names -> Deployment \cup {None}]
    /\ op.stage \in Stages /\ op.kind \in Kind /\ op.got \in Copies
    /\ op.healthy \in BOOLEAN
    /\ \E listed \in SUBSET Names : op.todo \in [listed -> SpecOf]
    /\ op.stage \notin {"rest", "pick"} =>
          op.on \in DOMAIN op.todo /\ op.todo[op.on].server \in Servers

\* A Role or ClusterRole without the operator's label is never overwritten,
\* even when it takes the place of the operator's own between the Get that
\* looked at the label and the Update (reconciler.go:196-203).
ForeignUntouched ==
    [][\A n \in Names, k \in Applied :
          Reconcile /\ rbac[n][k] = "foreign" => rbac'[n][k] = "foreign"]_vars

\* What keeps the operator from finishing an agent for good.
Blocked(n) ==
    \/ mesh[n].spec.server = None
    \/ \E k \in Applied : rbac[n][k] = "foreign"
    \/ deployment[n] /= None /\ ~deployment[n].ours

\* Once people leave the objects alone and calls stop failing, every agent that
\* is not blocked has its permissions and runs from its object's present spec,
\* whatever the other objects look like (reconciler.go:57-99).
Converges ==
    <>[](\A n \in DOMAIN mesh : ~Blocked(n) =>
            /\ \A k \in Applied : rbac[n][k] = "wanted"
            /\ \A k \in Kind : rbac[n][k] /= "absent"
            /\ deployment[n] /= None
            /\ deployment[n].template = Wanted(mesh[n].spec)
            /\ deployment[n].replicas = 1)

\* And its agentHealthy settles on whether its replica is ready, although each
\* round computes it from a status older than the update the round makes
\* (reconciler.go:95-98, docs/components/operator/README.md:13).
HealthSettles ==
    <>[](\A n \in DOMAIN mesh : ~Blocked(n) =>
            mesh[n].healthy = (deployment[n] /= None /\ deployment[n].ready = 1))
=============================================================================
