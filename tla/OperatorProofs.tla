--------------------------- MODULE OperatorProofs ---------------------------
(***************************************************************************)
(* Proofs about Operator, for any number of objects, changes and faults:   *)
(* typing, and that an object someone else put in the place of a role is   *)
(* never overwritten.  The latter rests on what the copy of a Get still    *)
(* says of the object when the Update that carries it goes through.        *)
(***************************************************************************)
EXTENDS Operator, FiniteSetTheorems, WellFoundedInduction, TLAPS

USE OperatorAssumption, NoDeploymentAssumption

-----------------------------------------------------------------------------
(* Tables and kinds                                                        *)

Tables(V) == UNION {[listed -> V] : listed \in SUBSET Names}

LEMMA TableDomain ==
    ASSUME NEW V, NEW f
    PROVE  f \in Tables(V) <=> DOMAIN f \subseteq Names /\ f \in [DOMAIN f -> V]
<1>1. f \in Tables(V) <=> \E listed \in SUBSET Names : f \in [listed -> V]
  BY DEF Tables
<1>2. ASSUME NEW listed \in SUBSET Names, f \in [listed -> V] PROVE DOMAIN f = listed
  BY <1>2
<1> QED
  BY <1>1, <1>2

LEMMA TableBuild ==
    ASSUME NEW V, NEW listed \in SUBSET Names, NEW f \in [listed -> V]
    PROVE  f \in Tables(V) /\ DOMAIN f = listed
BY DEF Tables

LEMMA TableEmpty ==
    ASSUME NEW V
    PROVE  NoTable \in Tables(V) /\ DOMAIN NoTable = {}
<1>1. NoTable \in [{} -> V] /\ DOMAIN NoTable = {}
  BY DEF NoTable
<1> QED
  BY <1>1, TableBuild

LEMMA TableWithout ==
    ASSUME NEW V, NEW f \in Tables(V), NEW n
    PROVE  Without(f, n) \in Tables(V) /\ DOMAIN Without(f, n) = DOMAIN f \ {n}
<1>1. DOMAIN f \subseteq Names /\ f \in [DOMAIN f -> V]
  BY TableDomain
<1>2. Without(f, n) \in [DOMAIN f \ {n} -> V]
  BY <1>1 DEF Without
<1> QED
  BY <1>1, <1>2, TableBuild

LEMMA TableUpdate ==
    ASSUME NEW V, NEW f \in Tables(V), NEW n, NEW v,
           n \in DOMAIN f => v \in V
    PROVE  [f EXCEPT ![n] = v] \in Tables(V)
<1>1. DOMAIN f \subseteq Names /\ f \in [DOMAIN f -> V]
  BY TableDomain
<1>2. [f EXCEPT ![n] = v] \in [DOMAIN f -> V]
  BY <1>1
<1> QED
  BY <1>1, <1>2, TableBuild

\* The least of a non-empty set of numbers is one of them.
LEMMA MinIn ==
    ASSUME NEW S \in SUBSET Nat, S /= {}
    PROVE  Min(S) \in S
<1>1. \E x \in S : \A y \in S : ~ (<<y, x>> \in OpToRel(<, Nat))
  BY NatLessThanWellFounded, WFMin, Zenon
<1>2. ASSUME NEW x \in Nat, NEW y \in Nat, ~ (<<y, x>> \in OpToRel(<, Nat)) PROVE ~(y < x)
  BY <1>2, Zenon DEF OpToRel
<1>3. \E x \in S : \A y \in S : ~(y < x)
  BY <1>1, <1>2, Zenon
<1>4. \E x \in S : \A y \in S : x =< y
  BY <1>3
<1> QED
  BY <1>4 DEF Min

LEMMA KindsAre ==
    /\ Kind = 1..5 /\ Len(Kinds) = 5
    /\ Applied \subseteq Kind
BY DEF Kind, Kinds, Applied

-----------------------------------------------------------------------------
(* The inductive invariant                                                 *)

OpRecord ==
    [stage : Stages, todo : Tables(SpecOf), on : Names \cup {None},
     kind : Kind, got : Copies, healthy : BOOLEAN]

\* At an object the loop has gone into, its listed spec is at hand.
AtHand ==
    op.stage \notin {"rest", "pick"} =>
        /\ op.on \in Names /\ op.on \in DOMAIN op.todo
        /\ op.todo[op.on].server \in Servers

\* A copy that would let an Update go through is of an object that still has
\* the operator's label.
CopyIsOurs ==
    op.stage = "write" =>
        /\ op.kind \in Applied
        /\ op.got = "current" => rbac[op.on][op.kind] \in {"wanted", "drifted"}

IInv ==
    /\ mesh \in Tables(MeshDiagnostics)
    /\ rbac \in [Names -> [Kind -> RbacStates]]
    /\ deployment \in [Names -> Deployment \cup {None}]
    /\ op \in OpRecord
    /\ AtHand
    /\ CopyIsOurs

LEMMA IInvTypes == IInv => TypeOK
BY DEF IInv, TypeOK, OpRecord, AtHand, Tables

LEMMA RestTypes == Resting \in OpRecord
BY TableEmpty, KindsAre DEF Resting, OpRecord, Stages, Copies

LEMMA InitIInv == Init => IInv
BY TableEmpty, RestTypes DEF Init, IInv, RbacStates, AtHand, CopyIsOurs, Resting

LEMMA EndedTypes == IInv => Ended \in OpRecord /\ Ended.stage = "pick"
BY RestTypes, TableWithout DEF IInv, Ended, OpRecord, Stages, Resting

\* Steps of others that leave the reconciler at its place, its copy overtaken
\* or not.
Keeps == op' = op \/ op' = [op EXCEPT !.got = "overtaken"]

LEMMA KeepsTypes ==
    ASSUME IInv, Keeps
    PROVE  op' \in OpRecord /\ AtHand' /\ op'.stage = op.stage /\ op'.on = op.on
           /\ op'.kind = op.kind /\ (op'.got = "current" => op.got = "current")
BY DEF IInv, Keeps, OpRecord, AtHand, Copies

LEMMA OvertakeKeeps == ASSUME NEW held \in BOOLEAN, Overtake(held) PROVE Keeps
BY DEF Overtake, Keeps

LEMMA OthersTypes ==
    ASSUME IInv, NEW n \in Names, Others(n)
    PROVE  IInv'
<1>1. CASE Apply(n) \/ Delete(n)
  <2>1. Keeps /\ UNCHANGED <<rbac, deployment>>
    BY <1>1, OvertakeKeeps DEF Apply, Delete, Holds
  <2>2. mesh' \in Tables(MeshDiagnostics)
    <3>1. CASE Apply(n)
      <4>1. PICK s \in SpecOf :
              mesh' = [x \in DOMAIN mesh \cup {n} |->
                         IF x /= n THEN mesh[x]
                         ELSE [spec |-> s, healthy |-> n \in DOMAIN mesh /\ mesh[n].healthy]]
        BY <3>1 DEF Apply
      <4>2. DOMAIN mesh \subseteq Names /\ mesh \in [DOMAIN mesh -> MeshDiagnostics]
        BY TableDomain DEF IInv
      <4>3. (n \in DOMAIN mesh /\ mesh[n].healthy) \in BOOLEAN
        OBVIOUS
      <4>4. [spec |-> s, healthy |-> n \in DOMAIN mesh /\ mesh[n].healthy] \in MeshDiagnostics
        BY <4>3 DEF MeshDiagnostics
      <4>5. mesh' \in [DOMAIN mesh \cup {n} -> MeshDiagnostics]
        BY <4>1, <4>2, <4>4
      <4> QED
        BY <4>2, <4>5, TableBuild
    <3>2. CASE Delete(n)
      BY <3>2, TableWithout DEF Delete, IInv
    <3> QED
      BY <1>1, <3>1, <3>2
  <2> QED
    BY <2>1, <2>2, KeepsTypes DEF IInv, CopyIsOurs
<1>2. CASE \E k \in Kind : Meddle(n, k)
  <2> PICK k \in Kind : Meddle(n, k)
    BY <1>2
  <2>1. PICK to \in RbacStates : rbac' = [rbac EXCEPT ![n][k] = to]
    BY DEF Meddle
  <2>2. rbac' \in [Names -> [Kind -> RbacStates]]
    BY <2>1 DEF IInv
  <2>3. Keeps /\ UNCHANGED <<mesh, deployment>>
    BY OvertakeKeeps DEF Meddle, Holds
  <2>4. CopyIsOurs'
    <3> SUFFICES ASSUME op'.stage = "write", op'.got = "current"
                 PROVE  rbac'[op'.on][op'.kind] \in {"wanted", "drifted"}
      BY <2>3, KeepsTypes DEF IInv, CopyIsOurs
    <3>1. op.stage = "write" /\ op.got = "current" /\ op'.on = op.on /\ op'.kind = op.kind
      BY <2>3, KeepsTypes
    <3>2. rbac[op.on][op.kind] \in {"wanted", "drifted"} /\ op.on \in Names /\ op.kind \in Kind
      BY <3>1, KindsAre DEF IInv, CopyIsOurs, AtHand
    <3>3. ~(op.on = n /\ op.kind = k)
      <4>1. ASSUME op.on = n /\ op.kind = k PROVE op'.got = "overtaken"
        BY <3>1, <4>1 DEF Meddle, Holds, Overtake, IInv, OpRecord
      <4> QED
        BY <4>1
    <3> QED
      BY <2>1, <3>1, <3>2, <3>3 DEF IInv
  <2> QED
    BY <2>2, <2>3, <2>4, KeepsTypes DEF IInv
<1>3. ASSUME NEW d \in Deployment \cup {None}, SetDeployment(n, d) PROVE IInv'
  <2>1. Keeps /\ UNCHANGED <<mesh, rbac>>
    BY <1>3, OvertakeKeeps DEF SetDeployment, Holds
  <2>2. deployment' \in [Names -> Deployment \cup {None}]
    BY <1>3 DEF SetDeployment, IInv
  <2> QED
    BY <2>1, <2>2, KeepsTypes DEF IInv, CopyIsOurs
<1>4. CASE MeddleDeployment(n)
  <2>1. \E d \in Deployment \cup {None} : SetDeployment(n, d)
    <3>1. CASE SetDeployment(n, None)
      BY <3>1
    <3>2. ASSUME NEW t \in Template,
                 SetDeployment(n, [ours |-> FALSE, template |-> t, replicas |-> 1, ready |-> 0])
          PROVE  \E d \in Deployment \cup {None} : SetDeployment(n, d)
      <4>1. [ours |-> FALSE, template |-> t, replicas |-> 1, ready |-> 0] \in Deployment
        BY DEF Deployment, MaxReplicas
      <4> QED
        BY <3>2, <4>1
    <3>3. ASSUME deployment[n] /= None, NEW t \in Template, NEW r \in 1..MaxReplicas,
                 SetDeployment(n, [deployment[n] EXCEPT !.template = t, !.replicas = r])
          PROVE  \E d \in Deployment \cup {None} : SetDeployment(n, d)
      <4>1. [deployment[n] EXCEPT !.template = t, !.replicas = r] \in Deployment
        BY <3>3 DEF Deployment, IInv
      <4> QED
        BY <3>3, <4>1
    <3> QED
      BY <1>4, <3>1, <3>2, <3>3 DEF MeddleDeployment
  <2> QED
    BY <2>1, <1>3
<1>5. CASE PodsChange(n)
  <2>1. PICK r \in 0..MaxReplicas : SetDeployment(n, [deployment[n] EXCEPT !.ready = r])
    BY <1>5 DEF PodsChange
  <2>2. [deployment[n] EXCEPT !.ready = r] \in Deployment
    BY <1>5 DEF PodsChange, Deployment, IInv
  <2> QED
    BY <2>1, <2>2, <1>3
<1>6. CASE Rollout(n)
  <2> DEFINE d == deployment[n]
             ready == IF d.template.image \in Broken THEN Min({d.ready, d.replicas})
                                                     ELSE d.replicas
  <2>1. d \in Deployment
    BY <1>6 DEF Rollout, IInv
  <2>2. d.ready \in 0..2 /\ d.replicas \in 1..2
    BY <2>1 DEF Deployment, MaxReplicas
  <2>3. Min({d.ready, d.replicas}) \in {d.ready, d.replicas}
    BY <2>2, MinIn
  <2>4. ready \in 0..MaxReplicas
    BY <2>2, <2>3 DEF MaxReplicas
  <2>5. SetDeployment(n, [d EXCEPT !.ready = ready])
    BY <1>6 DEF Rollout
  <2> HIDE DEF ready
  <2>6. [d EXCEPT !.ready = ready] \in Deployment
    BY <2>1, <2>4 DEF Deployment
  <2> QED
    BY <2>5, <2>6, <1>3
<1> QED
  BY <1>1, <1>2, <1>4, <1>5, <1>6 DEF Others

-----------------------------------------------------------------------------
(* Steps of the reconciler                                                 *)

\* Giving up on an object, or resting, leaves nothing in hand.
LEMMA LeavesTypes ==
    ASSUME IInv, op' = Ended \/ op' = Resting
    PROVE  op' \in OpRecord /\ AtHand' /\ CopyIsOurs'
<1>1. Resting.stage = "rest"
  BY DEF Resting
<1>2. op' \in OpRecord /\ op'.stage \in {"rest", "pick"}
  BY <1>1, EndedTypes, RestTypes
<1> QED
  BY <1>2 DEF AtHand, CopyIsOurs

\* A step that writes permissions at its own place in a table.
LEMMA SetRbacTypes ==
    ASSUME IInv, SetRbac("wanted")
    PROVE  rbac' \in [Names -> [Kind -> RbacStates]]
BY DEF IInv, SetRbac, RbacStates

LEMMA AfterKindTypes ==
    ASSUME IInv, op.stage \in {"rbac", "write"}
    PROVE  /\ AfterKind \in OpRecord
           /\ AfterKind.stage \in {"rbac", "deployment"}
           /\ AfterKind.on = op.on /\ AfterKind.todo = op.todo
<1>1. op.kind \in 1..5 /\ (op.kind < 5 => op.kind + 1 \in Kind)
  BY KindsAre DEF IInv, OpRecord
<1> QED
  BY <1>1, KindsAre DEF IInv, OpRecord, AfterKind, Stages, Copies

LEMMA ListTypes == ASSUME IInv, List PROVE IInv'
<1> DEFINE todo == [n \in DOMAIN mesh |-> mesh[n].spec]
<1>1. DOMAIN mesh \subseteq Names /\ mesh \in [DOMAIN mesh -> MeshDiagnostics]
  BY TableDomain DEF IInv
<1>2. todo \in [DOMAIN mesh -> SpecOf]
  BY <1>1 DEF MeshDiagnostics
<1>3. todo \in Tables(SpecOf)
  BY <1>1, <1>2, TableBuild
<1>4. op' = [Resting EXCEPT !.stage = "pick", !.todo = todo]
  BY DEF List
<1> HIDE DEF todo
<1>5. op' \in OpRecord /\ op'.stage = "pick"
  BY <1>3, <1>4, RestTypes DEF OpRecord, Stages
<1> QED
  BY <1>5 DEF List, IInv, AtHand, CopyIsOurs

LEMMA PickTypes == ASSUME IInv, Pick PROVE IInv'
<1> DEFINE n == Min(DOMAIN op.todo)
<1>1. UNCHANGED <<mesh, rbac, deployment>> /\ op \in OpRecord /\ op.todo \in Tables(SpecOf)
  BY DEF Pick, IInv, OpRecord
<1>2. DOMAIN op.todo \subseteq Names /\ op.todo \in [DOMAIN op.todo -> SpecOf]
  BY <1>1, TableDomain
<1>3. op' \in OpRecord /\ AtHand' /\ CopyIsOurs'
  <2>1. CASE DOMAIN op.todo = {}
    BY <2>1, LeavesTypes DEF Pick
  <2>2. CASE DOMAIN op.todo /= {} /\ op.todo[n].server = None
    <3>1. op' = [op EXCEPT !.todo = Without(op.todo, n)] /\ op.stage = "pick"
      BY <2>2 DEF Pick
    <3> QED
      BY <1>1, <3>1, TableWithout DEF OpRecord, AtHand, CopyIsOurs
  <2>3. CASE DOMAIN op.todo /= {} /\ op.todo[n].server /= None
    <3>1. n \in DOMAIN op.todo /\ n \in Names
      BY <1>2, <2>3, MinIn
    <3>2. op' = [op EXCEPT !.stage = "rbac", !.on = n, !.kind = 1]
      BY <2>3 DEF Pick
    <3>3. op.todo[n].server \in Servers
      BY <1>2, <2>3, <3>1 DEF SpecOf
    <3> HIDE DEF n
    <3>4. 1 \in Kind /\ n \in Names \cup {None} /\ "rbac" \in Stages
      BY <3>1, KindsAre DEF Stages
    <3>5. op' \in OpRecord
      BY <1>1, <3>2, <3>4 DEF OpRecord
    <3>6. op'.stage = "rbac" /\ op'.on = n /\ op'.todo = op.todo
      BY <1>1, <3>2 DEF OpRecord
    <3> QED
      BY <3>1, <3>3, <3>5, <3>6 DEF AtHand, CopyIsOurs
  <2> QED
    BY <2>1, <2>2, <2>3
<1> QED
  BY <1>1, <1>3 DEF IInv

\* Going on to the next stage at the same object, or giving up on it.
LEMMA GoesTypes ==
    ASSUME IInv, op.stage \notin {"rest", "pick"},
           NEW next \in OpRecord, Goes(next),
           next.on = op.on, next.todo = op.todo,
           next.stage /= "write"
    PROVE  op' \in OpRecord /\ AtHand' /\ CopyIsOurs'
<1>1. CASE op' = next
  BY <1>1 DEF IInv, AtHand, CopyIsOurs
<1>2. CASE op' = Ended
  BY <1>2, LeavesTypes
<1> QED
  BY <1>1, <1>2 DEF Goes

LEMMA CreateOnlyTypes == ASSUME IInv, CreateOnly PROVE IInv'
<1>1. op' \in OpRecord /\ AtHand' /\ CopyIsOurs'
  BY AfterKindTypes, GoesTypes DEF CreateOnly
<1>2. rbac' \in [Names -> [Kind -> RbacStates]]
  BY SetRbacTypes DEF CreateOnly, IInv
<1> QED
  BY <1>1, <1>2 DEF CreateOnly, IInv

LEMMA GetRoleTypes == ASSUME IInv, GetRole PROVE IInv'
<1> DEFINE got == IF rbac[op.on][op.kind] = "absent" THEN "missing" ELSE "current"
           next == [op EXCEPT !.stage = "write", !.got = got]
<1>1. UNCHANGED <<mesh, rbac, deployment>> /\ op.kind \in Applied /\ op.stage = "rbac"
  BY DEF GetRole
<1>2. op.on \in Names /\ op.on \in DOMAIN op.todo /\ op.todo[op.on].server \in Servers
  BY <1>1 DEF IInv, AtHand
<1>3. rbac[op.on][op.kind] \in RbacStates
  BY <1>1, <1>2, KindsAre DEF IInv
<1>4. op' \in OpRecord /\ AtHand' /\ CopyIsOurs'
  <2>1. CASE op' = Ended
    BY <2>1, LeavesTypes
  <2>2. CASE op' = next /\ ~Refused
    <3>1. got \in {"missing", "current"} /\ (got = "current" => rbac[op.on][op.kind] /= "absent")
      OBVIOUS
    <3> HIDE DEF got
    <3> QED
      BY <1>1, <1>2, <1>3, <2>2, <3>1
      DEF IInv, OpRecord, Stages, Copies, AtHand, CopyIsOurs, Refused, RbacStates
  <2> QED
    BY <2>1, <2>2 DEF GetRole, Goes
<1> QED
  BY <1>1, <1>4 DEF IInv

LEMMA WriteRoleTypes == ASSUME IInv, WriteRole PROVE IInv'
<1>1. op' \in OpRecord /\ AtHand' /\ CopyIsOurs'
  <2>1. CASE op' = Ended
    BY <2>1, LeavesTypes
  <2>2. CASE Goes(AfterKind)
    BY <2>2, AfterKindTypes, GoesTypes DEF WriteRole
  <2> QED
    BY <2>1, <2>2 DEF WriteRole
<1>2. rbac' \in [Names -> [Kind -> RbacStates]]
  BY SetRbacTypes DEF WriteRole, IInv
<1> QED
  BY <1>1, <1>2 DEF WriteRole, IInv

LEMMA GetDeploymentTypes == ASSUME IInv, GetDeployment PROVE IInv'
<1> DEFINE got == IF deployment[op.on] = None THEN "missing" ELSE "current"
           next == [op EXCEPT !.stage = "rollout", !.got = got]
<1>1. got \in Copies
  BY DEF Copies
<1>2. Goes(next) /\ op.stage = "deployment" /\ UNCHANGED <<mesh, rbac, deployment>>
  BY DEF GetDeployment
<1> HIDE DEF got
<1>3. next \in OpRecord /\ next.on = op.on /\ next.todo = op.todo /\ next.stage = "rollout"
  BY <1>1 DEF IInv, OpRecord, Stages
<1>4. op' \in OpRecord /\ AtHand' /\ CopyIsOurs'
  BY <1>2, <1>3, GoesTypes
<1> QED
  BY <1>2, <1>4 DEF IInv

\* What the listed spec asks for is a template, once it has an endpoint.
LEMMA WantedTypes ==
    ASSUME NEW spec \in SpecOf, spec.server \in Servers
    PROVE  Wanted(spec) \in Template
BY DEF SpecOf, Wanted, Template

\* What WriteDeployment puts in the place of d.
Written(d) ==
    [ours |-> TRUE, template |-> Wanted(op.todo[op.on]), replicas |-> 1,
     ready |-> IF d = None THEN 0 ELSE d.ready]

LEMMA WrittenTypes ==
    ASSUME IInv, op.stage = "rollout"
    PROVE  Written(deployment[op.on]) \in Deployment
<1> DEFINE d == deployment[op.on]
           ready == IF d = None THEN 0 ELSE d.ready
<1>1. op.on \in Names /\ op.on \in DOMAIN op.todo /\ op.todo[op.on].server \in Servers
  BY DEF IInv, AtHand
<1>2. ready \in 0..MaxReplicas
  <2>1. d \in Deployment \cup {None}
    BY <1>1 DEF IInv
  <2>2. d /= None => d.ready \in 0..MaxReplicas
    BY <2>1 DEF Deployment
  <2> HIDE DEF d
  <2> QED
    BY <2>2 DEF MaxReplicas
<1>3. Wanted(op.todo[op.on]) \in Template
  <2>1. op.todo \in Tables(SpecOf)
    BY DEF IInv, OpRecord
  <2>2. op.todo[op.on] \in SpecOf
    BY <1>1, <2>1, TableDomain
  <2> QED
    BY <1>1, <2>2, WantedTypes
<1>4. Written(d) = [ours |-> TRUE, template |-> Wanted(op.todo[op.on]),
                    replicas |-> 1, ready |-> ready]
  BY DEF Written
<1> HIDE DEF ready
<1> QED
  BY <1>2, <1>3, <1>4 DEF Deployment, MaxReplicas

LEMMA WriteDeploymentTypes == ASSUME IInv, WriteDeployment PROVE IInv'
<1> DEFINE d == deployment[op.on]
           new == Written(d)
           next == [op EXCEPT !.stage = "status", !.got = "none",
                              !.healthy = (IF d = None THEN 0 ELSE d.ready) = 1]
<1>1. op.stage = "rollout" /\ UNCHANGED <<mesh, rbac>>
  BY DEF WriteDeployment
<1>2. new \in Deployment
  BY <1>1, WrittenTypes
<1>3. next \in OpRecord /\ next.on = op.on /\ next.todo = op.todo /\ next.stage = "status"
  BY DEF IInv, OpRecord, Stages, Copies
<1>4. \/ deployment' = [deployment EXCEPT ![op.on] = new] /\ Goes(next)
      \/ op' = Ended /\ UNCHANGED deployment
  BY DEF WriteDeployment, Written
<1> HIDE DEF new, next
<1>5. deployment' \in [Names -> Deployment \cup {None}]
  BY <1>2, <1>4 DEF IInv
<1>6. op' \in OpRecord /\ AtHand' /\ CopyIsOurs'
  BY <1>1, <1>3, <1>4, GoesTypes, LeavesTypes
<1> QED
  BY <1>1, <1>5, <1>6 DEF IInv

LEMMA GetMeshTypes == ASSUME IInv, GetMesh PROVE IInv'
<1> DEFINE next == [op EXCEPT !.stage = "save", !.got = "current"]
<1>1. op.stage = "status" /\ UNCHANGED <<mesh, rbac, deployment>>
  BY DEF GetMesh
<1>2. Goes(next) \/ Goes(Ended)
  BY DEF GetMesh
<1>3. next \in OpRecord /\ next.on = op.on /\ next.todo = op.todo /\ next.stage = "save"
  BY DEF IInv, OpRecord, Stages, Copies
<1> HIDE DEF next
<1>4. op' \in OpRecord /\ AtHand' /\ CopyIsOurs'
  <2>1. CASE Goes(next)
    BY <1>1, <1>3, <2>1, GoesTypes
  <2>2. CASE Goes(Ended)
    BY <2>2, LeavesTypes DEF Goes
  <2> QED
    BY <1>2, <2>1, <2>2
<1> QED
  BY <1>1, <1>4 DEF IInv

LEMMA SaveStatusTypes == ASSUME IInv, SaveStatus PROVE IInv'
<1> DEFINE saved == [mesh EXCEPT ![op.on].healthy = op.healthy]
<1>1. saved \in Tables(MeshDiagnostics)
  <2>1. DOMAIN mesh \subseteq Names /\ mesh \in [DOMAIN mesh -> MeshDiagnostics]
    BY TableDomain DEF IInv
  <2>2. op.on \in DOMAIN mesh => [mesh[op.on] EXCEPT !.healthy = op.healthy] \in MeshDiagnostics
    BY <2>1 DEF IInv, OpRecord, MeshDiagnostics
  <2>3. saved = [mesh EXCEPT ![op.on] = [mesh[op.on] EXCEPT !.healthy = op.healthy]]
    OBVIOUS
  <2> QED
    BY <2>2, <2>3, TableUpdate DEF IInv
<1>2. mesh' = saved \/ mesh' = mesh
  BY DEF SaveStatus
<1> QED
  BY <1>1, <1>2, LeavesTypes DEF SaveStatus, IInv

LEMMA StopTypes == ASSUME IInv, CallFails \/ Restart PROVE IInv'
BY LeavesTypes DEF CallFails, Restart, IInv

LEMMA NextIInv == IInv /\ [Next]_vars => IInv'
<1> SUFFICES ASSUME IInv, [Next]_vars PROVE IInv'
  OBVIOUS
<1>1. CASE Reconcile
  BY <1>1, ListTypes, PickTypes, CreateOnlyTypes, GetRoleTypes, WriteRoleTypes,
     GetDeploymentTypes, WriteDeploymentTypes, GetMeshTypes, SaveStatusTypes, StopTypes
  DEF Reconcile
<1>2. CASE Restart
  BY <1>2, StopTypes
<1>3. CASE \E n \in Names : Others(n)
  BY <1>3, OthersTypes
<1>4. CASE UNCHANGED vars
  BY <1>4 DEF vars, IInv, AtHand, CopyIsOurs
<1> QED
  BY <1>1, <1>2, <1>3, <1>4 DEF Next

LEMMA InvariantHolds == Spec => []IInv
BY InitIInv, NextIInv, PTL DEF Spec

-----------------------------------------------------------------------------
(* The fixpoint of the reconciler: the safety half of Converges and of     *)
(* HealthSettles.                                                          *)

\* What Converges has for one object.
AsAsked(n) ==
    /\ \A k \in Applied : rbac[n][k] = "wanted"
    /\ \A k \in Kind : rbac[n][k] /= "absent"
    /\ deployment[n] /= None
    /\ deployment[n].template = Wanted(mesh[n].spec)
    /\ deployment[n].replicas = 1

\* And the round under way has no older spec of it.
Settled(n) ==
    /\ n \in DOMAIN mesh
    /\ AsAsked(n)
    /\ n \in DOMAIN op.todo => op.todo[n] = mesh[n].spec

\* The replica is ready, the status says so, and so will the round.
Hale(n) ==
    /\ deployment[n].ready = 1
    /\ mesh[n].healthy = TRUE
    /\ op.on = n /\ op.stage \in {"status", "save"} => op.healthy = TRUE

\* Steps of the operator with its faults, of the Deployment controller, and of
\* anyone at another object.
NotTouching(n) ==
    \/ Reconcile \/ Restart \/ Rollout(n)
    \/ \E m \in Names \ {n} : Others(m)

LEMMA EndedIs ==
    ASSUME IInv
    PROVE  /\ Ended.todo = Without(op.todo, op.on) /\ Ended.stage = "pick"
           /\ Resting.todo = NoTable /\ Resting.stage = "rest"
BY DEF IInv, OpRecord, Ended, Resting

\* The round goes on with what it listed, or lists again.
TodoFollows ==
    \A x \in DOMAIN op'.todo :
        \/ x \in DOMAIN op.todo /\ op'.todo[x] = op.todo[x]
        \/ x \in DOMAIN mesh /\ op'.todo[x] = mesh[x].spec

LEMMA LeavesTodo == ASSUME IInv, op' = Ended \/ op' = Resting PROVE TodoFollows
BY EndedIs DEF TodoFollows, Without, NoTable

LEMMA GoesTodo ==
    ASSUME IInv, NEW next, Goes(next), next.todo = op.todo
    PROVE  TodoFollows
BY LeavesTodo DEF Goes, TodoFollows

LEMMA ReconcileTodo == ASSUME IInv, Reconcile PROVE TodoFollows
<1>0. op \in OpRecord
  BY DEF IInv
<1>1. CASE List
  <2>1. op'.todo = [n \in DOMAIN mesh |-> mesh[n].spec]
    BY <1>1 DEF List, Resting
  <2> QED
    BY <2>1 DEF TodoFollows
<1>2. CASE Pick
  <2>1. CASE op' = Resting
    BY <2>1, LeavesTodo
  <2>2. CASE \E n : op'.todo = Without(op.todo, n)
    BY <2>2 DEF TodoFollows, Without
  <2>3. CASE op'.todo = op.todo
    BY <2>3 DEF TodoFollows
  <2> QED
    BY <1>0, <1>2, <2>1, <2>2, <2>3 DEF Pick, OpRecord
<1>3. CASE CreateOnly \/ WriteRole
  BY <1>3, LeavesTodo, GoesTodo, AfterKindTypes DEF CreateOnly, WriteRole
<1>4. CASE GetRole
  <2>1. op' = Ended \/ op'.todo = op.todo
    BY <1>0, <1>4 DEF GetRole, Goes, OpRecord
  <2> QED
    BY <2>1, LeavesTodo DEF TodoFollows
<1>5. CASE GetDeployment \/ GetMesh
  <2>1. op' = Ended \/ op'.todo = op.todo
    BY <1>0, <1>5 DEF GetDeployment, GetMesh, Goes, OpRecord
  <2> QED
    BY <2>1, LeavesTodo DEF TodoFollows
<1>6. CASE WriteDeployment
  <2>1. op' = Ended \/ op'.todo = op.todo
    BY <1>0, <1>6 DEF WriteDeployment, Goes, OpRecord
  <2> QED
    BY <2>1, LeavesTodo DEF TodoFollows
<1>7. CASE SaveStatus \/ CallFails
  BY <1>7, LeavesTodo DEF SaveStatus, CallFails
<1> QED
  BY <1>1, <1>2, <1>3, <1>4, <1>5, <1>6, <1>7 DEF Reconcile

\* Writing permissions only makes them what is wanted.
LEMMA ReconcileRbac ==
    ASSUME IInv, Reconcile, NEW n \in Names, NEW k \in Kind
    PROVE  rbac'[n][k] = rbac[n][k] \/ rbac'[n][k] = "wanted"
<1>1. rbac \in [Names -> [Kind -> RbacStates]]
  BY DEF IInv
<1>2. UNCHANGED rbac \/ SetRbac("wanted")
  BY DEF Reconcile, List, Pick, CreateOnly, GetRole, WriteRole, GetDeployment,
         WriteDeployment, GetMesh, SaveStatus, CallFails
<1> QED
  BY <1>1, <1>2 DEF SetRbac

\* A Deployment is only written from the spec that was listed, and the replicas
\* that were ready stay.
LEMMA ReconcileDeployment ==
    ASSUME IInv, Reconcile, NEW n \in Names
    PROVE  \/ deployment'[n] = deployment[n]
           \/ /\ n \in DOMAIN op.todo /\ deployment'[n] /= None
              /\ deployment'[n].template = Wanted(op.todo[n])
              /\ deployment'[n].replicas = 1
              /\ deployment[n] /= None => deployment'[n].ready = deployment[n].ready
<1>1. deployment \in [Names -> Deployment \cup {None}]
  BY DEF IInv
<1>2. CASE WriteDeployment
  <2> DEFINE d == deployment[op.on]
             new == Written(d)
  <2>1. \/ op.stage = "rollout" /\ deployment' = [deployment EXCEPT ![op.on] = new]
        \/ UNCHANGED deployment
    BY <1>2 DEF WriteDeployment, Written
  <2>2. /\ new.template = Wanted(op.todo[op.on]) /\ new.replicas = 1
        /\ d /= None => new.ready = d.ready
    BY DEF Written
  <2>3. op.stage = "rollout" => op.on \in DOMAIN op.todo /\ new /= None
    BY WrittenTypes DEF IInv, AtHand
  <2> HIDE DEF new
  <2> QED
    BY <1>1, <2>1, <2>2, <2>3
<1>3. CASE ~WriteDeployment
  BY <1>3 DEF Reconcile, List, Pick, CreateOnly, GetRole, WriteRole, GetDeployment,
              GetMesh, SaveStatus, CallFails
<1> QED
  BY <1>2, <1>3

\* A status is only written with what the round found.
LEMMA ReconcileMesh ==
    ASSUME IInv, Reconcile
    PROVE  \/ UNCHANGED mesh
           \/ /\ op.stage = "save" /\ DOMAIN mesh' = DOMAIN mesh
              /\ \A n \in DOMAIN mesh : n /= op.on => mesh'[n] = mesh[n]
              /\ op.on \in DOMAIN mesh => /\ mesh'[op.on].spec = mesh[op.on].spec
                                         /\ mesh'[op.on].healthy = op.healthy
<1>1. mesh \in [DOMAIN mesh -> MeshDiagnostics]
  BY TableDomain DEF IInv
<1>2. CASE SaveStatus
  BY <1>1, <1>2 DEF SaveStatus, MeshDiagnostics
<1>3. CASE ~SaveStatus
  BY <1>3 DEF Reconcile, List, Pick, CreateOnly, GetRole, WriteRole, GetDeployment,
              WriteDeployment, GetMesh, CallFails
<1> QED
  BY <1>2, <1>3

LEMMA ReconcileSettled ==
    ASSUME IInv, NEW n \in Names, Settled(n), Reconcile PROVE Settled(n)'
<1>1. /\ n \in DOMAIN mesh' /\ mesh'[n].spec = mesh[n].spec
  BY ReconcileMesh DEF Settled
<1>2. /\ \A k \in Applied : rbac'[n][k] = "wanted"
      /\ \A k \in Kind : rbac'[n][k] /= "absent"
  BY ReconcileRbac, KindsAre DEF Settled, AsAsked
<1>3. /\ deployment'[n] /= None
      /\ deployment'[n].template = Wanted(mesh[n].spec)
      /\ deployment'[n].replicas = 1
  BY ReconcileDeployment DEF Settled, AsAsked
<1>4. n \in DOMAIN op'.todo => op'.todo[n] = mesh[n].spec
  BY ReconcileTodo DEF TodoFollows, Settled
<1>5. Wanted(mesh'[n].spec) = Wanted(mesh[n].spec)
  BY <1>1
<1> QED
  BY <1>1, <1>2, <1>3, <1>4, <1>5 DEF Settled, AsAsked

LEMMA RestartSettled == ASSUME IInv, NEW n, Settled(n), Restart PROVE Settled(n)'
<1>1. n \notin DOMAIN op'.todo
  BY EndedIs DEF Restart, NoTable
<1> QED
  BY <1>1 DEF Restart, Settled, AsAsked

\* A rollout of the Deployment touches neither its template nor its replicas.
LEMMA RolloutIs ==
    ASSUME IInv, NEW n \in Names, Rollout(n)
    PROVE  /\ Keeps /\ UNCHANGED <<mesh, rbac>>
           /\ deployment'[n] /= None
           /\ deployment'[n].template = deployment[n].template
           /\ deployment'[n].replicas = deployment[n].replicas
           /\ deployment[n].replicas = 1 /\ deployment[n].ready = 1
                => deployment'[n].ready = 1
<1> DEFINE d == deployment[n]
           ready == IF d.template.image \in Broken THEN Min({d.ready, d.replicas})
                                                   ELSE d.replicas
           new == [d EXCEPT !.ready = ready]
<1>1. d \in Deployment
  BY DEF Rollout, IInv
<1>2. d.ready \in 0..2 /\ d.replicas \in 1..2
  BY <1>1 DEF Deployment, MaxReplicas
<1>3. Min({d.ready, d.replicas}) \in {d.ready, d.replicas}
  BY <1>2, MinIn
<1>4. ready \in 0..MaxReplicas /\ (d.replicas = 1 /\ d.ready = 1 => ready = 1)
  BY <1>2, <1>3 DEF MaxReplicas
<1>5. SetDeployment(n, new)
  BY DEF Rollout
<1> HIDE DEF ready
<1>6. /\ new \in Deployment /\ new.template = d.template /\ new.replicas = d.replicas
      /\ new.ready = ready
  BY <1>1, <1>4 DEF Deployment
<1> HIDE DEF new
<1>7. deployment'[n] = new /\ UNCHANGED <<mesh, rbac>>
  BY <1>5 DEF SetDeployment, IInv
<1>8. Keeps
  BY <1>5, OvertakeKeeps DEF SetDeployment, Holds
<1> QED
  BY <1>4, <1>6, <1>7, <1>8

LEMMA KeepsTodo ==
    ASSUME IInv, Keeps PROVE op'.todo = op.todo /\ op'.healthy = op.healthy
BY DEF IInv, OpRecord, Keeps

LEMMA RolloutSettled ==
    ASSUME IInv, NEW n \in Names, Settled(n), Rollout(n) PROVE Settled(n)'
BY RolloutIs, KeepsTodo DEF Settled, AsAsked

\* What others do at an object changes nothing of another object.
LEMMA ElsewhereIs ==
    ASSUME IInv, NEW m \in Names, NEW n \in Names \ {m}, Others(m)
    PROVE  /\ Keeps
           /\ n \in DOMAIN mesh => n \in DOMAIN mesh' /\ mesh'[n] = mesh[n]
           /\ rbac'[n] = rbac[n] /\ deployment'[n] = deployment[n]
<1>1. CASE Apply(m) \/ Delete(m)
  BY <1>1, OvertakeKeeps DEF Apply, Delete, Holds, Without
<1>2. ASSUME NEW k \in Kind, Meddle(m, k)
      PROVE  Keeps /\ UNCHANGED <<mesh, deployment>> /\ rbac'[n] = rbac[n]
  BY <1>2, OvertakeKeeps DEF Meddle, Holds, IInv
<1>3. ASSUME NEW d, SetDeployment(m, d)
      PROVE  Keeps /\ UNCHANGED <<mesh, rbac>> /\ deployment'[n] = deployment[n]
  BY <1>3, OvertakeKeeps DEF SetDeployment, Holds, IInv
<1>4. CASE MeddleDeployment(m) \/ PodsChange(m) \/ Rollout(m)
  BY <1>3, <1>4, Zenon DEF MeddleDeployment, PodsChange, Rollout
<1> QED
  BY <1>1, <1>2, <1>4 DEF Others

LEMMA ElsewhereSettled ==
    ASSUME IInv, NEW m \in Names, NEW n \in Names \ {m}, Settled(n), Others(m)
    PROVE  Settled(n)'
BY ElsewhereIs, KeepsTodo DEF Settled, AsAsked

LEMMA SettledStep ==
    ASSUME IInv, NEW n \in Names, Settled(n), NotTouching(n) PROVE Settled(n)'
BY ReconcileSettled, RestartSettled, RolloutSettled, ElsewhereSettled DEF NotTouching

\* The round takes the health from a status that has the replica ready.
LEMMA ReconcileHealth ==
    ASSUME IInv, Reconcile, NEW n \in Names,
           deployment[n] /= None, deployment[n].ready = 1,
           op.on = n /\ op.stage \in {"status", "save"} => op.healthy = TRUE,
           op'.on = n, op'.stage \in {"status", "save"}
    PROVE  op'.healthy = TRUE
<1>0. op \in OpRecord /\ op'.stage \notin {"pick", "rest"}
  BY DEF IInv
<1>1. op' /= Ended /\ op' /= Resting
  BY <1>0, EndedIs
<1>2. CASE GetMesh
  <2>1. op' = [op EXCEPT !.stage = "save", !.got = "current"] /\ op.stage = "status"
    BY <1>1, <1>2 DEF GetMesh, Goes
  <2> QED
    BY <1>0, <2>1 DEF OpRecord
<1>3. CASE WriteDeployment
  <2> DEFINE ready == IF deployment[op.on] = None THEN 0 ELSE deployment[op.on].ready
             healthy == ready = 1
  <2>1. op' = [op EXCEPT !.stage = "status", !.got = "none", !.healthy = healthy]
    BY <1>1, <1>3 DEF WriteDeployment, Goes
  <2> HIDE DEF healthy
  <2>2. op'.healthy = healthy /\ op'.on = op.on
    BY <1>0, <2>1 DEF OpRecord
  <2>3. ready = 1
    BY <2>2
  <2>4. healthy = TRUE
    BY <2>3 DEF healthy
  <2> QED
    BY <2>2, <2>4
<1>4. CASE List \/ Pick
  BY <1>0, <1>1, <1>4 DEF List, Pick, Resting, OpRecord
<1>5. CASE CreateOnly \/ WriteRole
  BY <1>0, <1>1, <1>5, AfterKindTypes DEF CreateOnly, WriteRole, Goes
<1>6. CASE GetRole \/ GetDeployment
  BY <1>0, <1>1, <1>6 DEF GetRole, GetDeployment, Goes, OpRecord
<1>7. CASE SaveStatus \/ CallFails
  BY <1>1, <1>7 DEF SaveStatus, CallFails
<1> QED
  BY <1>2, <1>3, <1>4, <1>5, <1>6, <1>7 DEF Reconcile

LEMMA HaleStep ==
    ASSUME IInv, NEW n \in Names, Settled(n), Hale(n), NotTouching(n) PROVE Hale(n)'
<1>0. deployment[n] /= None /\ deployment[n].replicas = 1 /\ n \in DOMAIN mesh
  BY DEF Settled, AsAsked
<1>1. CASE Reconcile
  <2>1. deployment'[n].ready = 1
    BY <1>0, <1>1, ReconcileDeployment DEF Hale
  <2>2. mesh'[n].healthy = TRUE
    BY <1>0, <1>1, ReconcileMesh DEF Hale
  <2>3. op'.on = n /\ op'.stage \in {"status", "save"} => op'.healthy = TRUE
    BY <1>0, <1>1, ReconcileHealth DEF Hale
  <2> QED
    BY <2>1, <2>2, <2>3 DEF Hale
<1>2. CASE Restart
  <2>1. op'.stage = "rest" /\ UNCHANGED <<mesh, deployment>>
    BY <1>2, EndedIs DEF Restart
  <2> QED
    BY <2>1 DEF Hale
<1>3. CASE Rollout(n)
  BY <1>0, <1>3, RolloutIs, KeepsTypes, KeepsTodo DEF Hale
<1>4. ASSUME NEW m \in Names \ {n}, Others(m) PROVE Hale(n)'
  BY <1>0, <1>4, ElsewhereIs, KeepsTypes, KeepsTodo DEF Hale
<1> QED
  BY <1>1, <1>2, <1>3, <1>4 DEF NotTouching

-----------------------------------------------------------------------------
(* Results                                                                 *)

\* Every reachable state of the operator is well typed, and a reconciliation
\* that is under way is of a listed object with an endpoint.
THEOREM TypeCorrect == Spec => []TypeOK
BY InvariantHolds, IInvTypes, PTL

\* A Role or ClusterRole of someone else is never overwritten, for any number
\* of objects and whatever is changed between the Get that looks at the label
\* and the Update.
THEOREM ForeignStays == Spec => ForeignUntouched
<1> DEFINE Kept == \A n \in Names, k \in Applied :
                      Reconcile /\ rbac[n][k] = "foreign" => rbac'[n][k] = "foreign"
<1>1. ASSUME IInv, Next PROVE Kept
  <2> SUFFICES ASSUME NEW n \in Names, NEW k \in Applied, Reconcile, rbac[n][k] = "foreign"
               PROVE  rbac'[n][k] = "foreign"
    OBVIOUS
  <2>1. k \in Kind /\ rbac \in [Names -> [Kind -> RbacStates]]
    BY <1>1, KindsAre DEF IInv
  <2>2. CASE CreateOnly
    <3>1. op.kind /= k
      BY <2>2 DEF CreateOnly
    <3> QED
      BY <2>1, <2>2, <3>1 DEF CreateOnly, SetRbac
  <2>3. CASE WriteRole
    <3>1. CASE Allowed(rbac[op.on][op.kind] = "absent")
      <4>1. rbac[op.on][op.kind] \in {"absent", "wanted", "drifted"}
        BY <1>1, <2>3, <3>1 DEF IInv, CopyIsOurs, Allowed, WriteRole
      <4>2. ~(op.on = n /\ op.kind = k)
        BY <4>1
      <4> QED
        BY <2>1, <2>3, <3>1, <4>2 DEF WriteRole, SetRbac
    <3>2. CASE ~Allowed(rbac[op.on][op.kind] = "absent")
      BY <2>3, <3>2 DEF WriteRole
    <3> QED
      BY <3>1, <3>2
  <2>4. CASE \/ List \/ Pick \/ GetRole \/ GetDeployment \/ WriteDeployment
             \/ GetMesh \/ SaveStatus \/ CallFails
    BY <2>4 DEF List, Pick, GetRole, GetDeployment, WriteDeployment, GetMesh, SaveStatus, CallFails
  <2> QED
    BY <2>2, <2>3, <2>4 DEF Reconcile
<1>2. IInv /\ [Next]_vars => [Kept]_vars
  BY <1>1
<1> QED
  BY <1>2, InvariantHolds, PTL DEF Spec, ForeignUntouched

\* An agent that runs as its object asks goes on doing so through every round of
\* the operator, whatever call fails or whenever it restarts, through rollouts,
\* and through anything done to other objects: only a change of its own objects
\* takes it away (reconciler.go:57-99).
THEOREM SettledStaysSettled ==
    Spec => [][\A n \in Names : Settled(n) /\ NotTouching(n) => Settled(n)']_vars
<1>1. IInv /\ [Next]_vars =>
        [\A n \in Names : Settled(n) /\ NotTouching(n) => Settled(n)']_vars
  BY SettledStep
<1> QED
  BY <1>1, InvariantHolds, PTL DEF Spec

\* The same for the health in the status: once the replica is ready and the
\* status says so, no round writes anything else (reconciler.go:95-98).
THEOREM HealthStays ==
    Spec => [][\A n \in Names : Settled(n) /\ Hale(n) /\ NotTouching(n) => Hale(n)']_vars
<1>1. IInv /\ [Next]_vars =>
        [\A n \in Names : Settled(n) /\ Hale(n) /\ NotTouching(n) => Hale(n)']_vars
  BY HaleStep
<1> QED
  BY <1>1, InvariantHolds, PTL DEF Spec
=============================================================================
