------------------------------ MODULE Scanning ------------------------------
(***************************************************************************)
(* A scan of the cluster (internal/agent/engine.go): the collector         *)
(* (internal/collect/istio/collector.go) lists one kind of object after    *)
(* the other into a snapshot, and the analyzers run on it.                 *)
(*                                                                         *)
(* A List is atomic, the snapshot is not: objects change between two       *)
(* Lists, and the snapshot may then be of a cluster there never was.       *)
(***************************************************************************)
EXTENDS Analyzers, FiniteSets

CONSTANTS Objects,      \* the objects of each kind there may be
          Clusters,     \* the clusters a scan may start from
          MaxChanges,   \* bound on the changes of the cluster
          MaxFaults     \* bound on Lists that fail

\* Snapshot's order.
Kinds == <<"services", "pods", "destinationrules", "virtualservices",
           "gateways", "serviceentries">>
Kind == Range(Kinds)
Blank == [k \in Kind |-> {}]

ASSUME ScanningAssumption ==
    /\ DOMAIN Objects = Kind
    /\ \A c \in Clusters :
          /\ DOMAIN c = Kind
          /\ \A k \in Kind :
                /\ c[k] \subseteq Objects[k]
                /\ \A x, y \in c[k] : x.ns = y.ns /\ x.name = y.name => x = y
    /\ MaxChanges \in Nat
    /\ MaxFaults \in Nat

VARIABLES cluster,      \* the objects of each kind there are
          listed,       \* how many kinds the present scan has listed
          snap,         \* MeshSnapshot, what it has of each
          findings,     \* what the last finished scan found
          began,        \* auxiliary: the cluster when the scan began
          moves,        \* auxiliary: how often it has changed since
          changes, faults

vars == <<cluster, listed, snap, findings, began, moves, changes, faults>>

-----------------------------------------------------------------------------
(* What a List makes of an object                                          *)

\* podReady: running, and the first Ready condition is True.
PodReady(p) ==
    /\ p.phase = "Running"
    /\ \E i \in DOMAIN p.conditions :
          /\ p.conditions[i] = [type |-> "Ready", status |-> "True"]
          /\ \A j \in 1..(i - 1) : p.conditions[j].type /= "Ready"

PodView(p) == [ns |-> p.ns, name |-> p.name, labels |-> p.labels, ready |-> PodReady(p)]

\* The hosts of http, tcp and tls routes; a destination without one is left out.
RouteView(vs) ==
    [ns |-> vs.ns, name |-> vs.name,
     destinations |-> (vs.http \cup vs.tcp \cup vs.tls) \ {<< >>}]

Listed(k, objects) ==
    CASE k = "pods" -> {PodView(p) : p \in objects}
      [] k = "virtualservices" -> {RouteView(vs) : vs \in objects}
      [] OTHER -> objects

-----------------------------------------------------------------------------
Init ==
    /\ cluster \in Clusters
    /\ listed = 0 /\ snap = Blank
    /\ findings = {}
    /\ began = cluster /\ moves = 0
    /\ changes = 0 /\ faults = 0

\* An object is made, changed or deleted.
Change(k) ==
    /\ changes < MaxChanges
    /\ changes' = changes + 1
    /\ \E obj \in Objects[k] :
          LET others == {x \in cluster[k] : x.ns /= obj.ns \/ x.name /= obj.name}
          IN  \E now \in {others, others \cup {obj}} :
                /\ now /= cluster[k]
                /\ cluster' = [cluster EXCEPT ![k] = now]
    /\ IF listed = 0 THEN began' = cluster' /\ moves' = 0
                     ELSE began' = began /\ moves' = IF moves = 0 THEN 1 ELSE 2
    /\ UNCHANGED <<listed, snap, findings, faults>>

\* Snapshot lists the next kind.
List ==
    /\ listed < Len(Kinds)
    /\ LET k == Kinds[listed + 1]
       IN  snap' = [snap EXCEPT ![k] = Listed(k, cluster[k])]
    /\ listed' = listed + 1
    /\ UNCHANGED <<cluster, findings, began, moves, changes, faults>>

\* A scan is over, done or not; the snapshot is dropped.
Over == listed' = 0 /\ snap' = Blank /\ began' = cluster /\ moves' = 0

\* Slip: what could not be listed is taken to be empty.
ListFailsEmpty ==
    /\ listed < Len(Kinds)
    /\ faults < MaxFaults
    /\ faults' = faults + 1
    /\ listed' = listed + 1
    /\ UNCHANGED <<cluster, snap, findings, began, moves, changes>>

\* A List that fails ends the scan; nothing is analyzed or reported.
ListFails ==
    /\ listed < Len(Kinds)
    /\ faults < MaxFaults
    /\ faults' = faults + 1
    /\ Over
    /\ UNCHANGED <<cluster, findings, changes>>

\* The analyzers run on the complete snapshot.
Analyze ==
    /\ listed = Len(Kinds)
    /\ findings' = Findings(snap)
    /\ Over
    /\ UNCHANGED <<cluster, changes, faults>>

Scan == List \/ ListFails \/ Analyze

Next == Scan \/ \E k \in Kind : Change(k)

Spec == Init /\ [][Next]_vars

\* The scan ticker keeps firing and a List is answered.
FairSpec == Spec /\ WF_vars(Scan)

-----------------------------------------------------------------------------
(* Properties                                                              *)

\* Type invariant.
TypeOK ==
    /\ DOMAIN cluster = Kind /\ \A k \in Kind : cluster[k] \subseteq Objects[k]
    /\ listed \in 0..Len(Kinds)
    /\ DOMAIN snap = Kind
    /\ \A i \in (listed + 1)..Len(Kinds) : snap[Kinds[i]] = {}
    /\ DOMAIN began = Kind /\ \A k \in Kind : began[k] \subseteq Objects[k]
    /\ moves \in 0..2
    /\ changes \in 0..MaxChanges /\ faults \in 0..MaxFaults

\* A cluster as a snapshot ought to show it.
Actual(c) ==
    [c EXCEPT
       !.pods = {[ns |-> p.ns, name |-> p.name, labels |-> p.labels,
                  ready |-> /\ p.phase = "Running"
                            /\ [type |-> "Ready", status |-> "True"] \in Range(p.conditions)]
                 : p \in c.pods},
       !.virtualservices = {[ns |-> vs.ns, name |-> vs.name,
                             destinations |-> {h \in vs.http \cup vs.tcp \cup vs.tls : h /= << >>}]
                            : vs \in c.virtualservices}]

\* When at most one object changed while the kinds were listed, a scan finds
\* exactly what is wrong with the cluster as it was before or is after that
\* change; never a mixture of the two, although each kind is listed at a time
\* of its own, and never less because a List failed (collector.go:47-138,
\* engine.go:46-67).
FindsOneCluster ==
    [][Analyze /\ moves < 2 =>
          findings' \in {Problems(Actual(began)), Problems(Actual(cluster))}]_vars

\* Once nothing changes and Lists are answered, findings settle on exactly
\* what is wrong (internal/analyzers/istio).
FindingsSettle == <>[](findings = Problems(Actual(cluster)))
=============================================================================
