--------------------------- MODULE ScanningProofs ---------------------------
(***************************************************************************)
(* Proofs about Scanning, for any objects and any number of changes and    *)
(* failing Lists: a snapshot taken while at most one object changed is     *)
(* that of one cluster, so that what a scan finds is right whenever the    *)
(* analyzers are right about one cluster at a time.                        *)
(***************************************************************************)
EXTENDS Scanning, TLAPS, SequenceTheorems

LEMMA KindsAre ==
    /\ Len(Kinds) = 6 /\ DOMAIN Kinds = 1..6
    /\ \A i \in 1..6 : Kinds[i] \in Kind
    /\ \A k \in Kind : \E i \in 1..6 : Kinds[i] = k
    /\ \A i, j \in 1..6 : Kinds[i] = Kinds[j] => i = j
<1>1. Len(Kinds) = 6 /\ DOMAIN Kinds = 1..6
  BY DEF Kinds
<1>2. \A i, j \in 1..6 : Kinds[i] = Kinds[j] => i = j
  BY DEF Kinds
<1>3. Kind = {Kinds[i] : i \in 1..6}
  BY <1>1 DEF Kind, Range
<1> QED
  BY <1>1, <1>2, <1>3

\* No two objects of a kind have the same name in the same namespace.
OnePerName(objects) == \A x, y \in objects : x.ns = y.ns /\ x.name = y.name => x = y
IsCluster(c) ==
    DOMAIN c = Kind /\ \A k \in Kind : c[k] \subseteq Objects[k] /\ OnePerName(c[k])

\* A cluster as the Lists show it.
View(c) == [k \in Kind |-> Listed(k, c[k])]

\* The kinds listed so far are those of c.
Shows(c) == \A i \in 1..listed : snap[Kinds[i]] = Listed(Kinds[i], c[Kinds[i]])

Types ==
    /\ IsCluster(cluster) /\ IsCluster(began)
    /\ listed \in 0..6
    /\ snap = [k \in Kind |-> snap[k]]
    /\ \A i \in (listed + 1)..6 : snap[Kinds[i]] = {}
    /\ moves \in 0..2
    /\ changes \in 0..MaxChanges /\ faults \in 0..MaxFaults

\* With one change at most, two clusters differ in one kind at most, and what
\* was listed is of one of them.
OfOneCluster ==
    /\ moves = 0 => \A k \in Kind : cluster[k] = began[k]
    /\ moves < 2 =>
          /\ \E k \in Kind : \A other \in Kind \ {k} : cluster[other] = began[other]
          /\ Shows(began) \/ Shows(cluster)

IInv == Types /\ OfOneCluster

LEMMA IInvTypes == IInv => TypeOK
<1> SUFFICES ASSUME IInv PROVE TypeOK
  OBVIOUS
<1>1. DOMAIN snap = Kind
  BY DEF IInv, Types
<1> QED
  BY <1>1, KindsAre DEF IInv, Types, IsCluster, TypeOK

LEMMA BlankTypes ==
    /\ Blank = [k \in Kind |-> Blank[k]]
    /\ \A i \in 1..6 : Blank[Kinds[i]] = {}
BY KindsAre DEF Blank

\* Between two scans nothing is listed.
LEMMA FreshIInv ==
    ASSUME IsCluster(cluster'), listed' = 0, snap' = Blank, began' = cluster', moves' = 0,
           changes' \in 0..MaxChanges, faults' \in 0..MaxFaults
    PROVE  IInv'
<1>1. Types'
  <2>1. IsCluster(cluster)' /\ IsCluster(began)'
    BY DEF IsCluster, OnePerName
  <2>2. (listed' + 1)..6 = 1..6
    OBVIOUS
  <2>3. snap' = [k \in Kind |-> snap'[k]] /\ \A i \in (listed' + 1)..6 : snap'[Kinds[i]] = {}
    BY <2>2, BlankTypes
  <2> QED
    BY <2>1, <2>3 DEF Types
<1>2. \E k \in Kind : TRUE
  BY KindsAre
<1>3. OfOneCluster'
  BY <1>2 DEF OfOneCluster, Shows
<1> QED
  BY <1>1, <1>3 DEF IInv

LEMMA InitIInv == Init => IInv
<1> SUFFICES ASSUME Init PROVE IInv
  OBVIOUS
<1>1. IsCluster(cluster)
  <2>1. cluster \in Clusters
    BY DEF Init
  <2>2. \A c \in Clusters : IsCluster(c)
    BY ScanningAssumption DEF IsCluster, OnePerName
  <2> QED
    BY <2>1, <2>2
<1>2. IsCluster(began) /\ began = cluster /\ snap = Blank
  BY <1>1 DEF Init
<1>3. snap = [k \in Kind |-> snap[k]] /\ \A i \in (listed + 1)..6 : snap[Kinds[i]] = {}
  <2>1. (listed + 1)..6 = 1..6
    BY DEF Init
  <2> QED
    BY <1>2, <2>1, BlankTypes
<1>4. /\ listed \in 0..6 /\ moves \in 0..2
      /\ changes \in 0..MaxChanges /\ faults \in 0..MaxFaults
  BY ScanningAssumption DEF Init
<1>5. Types
  BY <1>1, <1>2, <1>3, <1>4, Zenon DEF Types
<1>6. \E k \in Kind : TRUE
  BY KindsAre
<1>7. OfOneCluster
  BY <1>6 DEF Init, OfOneCluster, Shows
<1> QED
  BY <1>5, <1>7 DEF IInv

LEMMA ChangeIInv == ASSUME IInv, NEW k \in Kind, Change(k) PROVE IInv'
<1>1. PICK obj \in Objects[k] :
        LET others == {x \in cluster[k] : x.ns /= obj.ns \/ x.name /= obj.name}
        IN  \E now \in {others, others \cup {obj}} : cluster' = [cluster EXCEPT ![k] = now]
  BY DEF Change
<1>2. PICK now \in SUBSET Objects[k] :
        OnePerName(now) /\ cluster' = [cluster EXCEPT ![k] = now]
  <2> DEFINE others == {x \in cluster[k] : x.ns /= obj.ns \/ x.name /= obj.name}
  <2>1. cluster[k] \subseteq Objects[k] /\ OnePerName(cluster[k])
    BY DEF IInv, Types, IsCluster
  <2>2. others \subseteq Objects[k] /\ OnePerName(others)
    BY <2>1 DEF OnePerName
  <2>3. OnePerName(others \cup {obj})
    BY <2>2 DEF OnePerName
  <2> QED
    BY <1>1, <2>2, <2>3
<1>3. IsCluster(cluster') /\ \A other \in Kind \ {k} : cluster'[other] = cluster[other]
  BY <1>2 DEF IInv, Types, IsCluster
<1>4. UNCHANGED <<listed, snap, faults>> /\ changes' \in 0..MaxChanges
  BY ScanningAssumption DEF Change, IInv, Types
<1>5. CASE listed = 0
  <2>1. began' = cluster' /\ moves' = 0
    BY <1>5 DEF Change
  <2>2. Types'
    BY <1>3, <1>4, <2>1 DEF IInv, Types
  <2>3. OfOneCluster'
    BY <1>3, <1>4, <1>5, <2>1 DEF OfOneCluster, Shows
  <2> QED
    BY <2>2, <2>3 DEF IInv
<1>6. CASE listed /= 0
  <2>1. began' = began /\ moves' = IF moves = 0 THEN 1 ELSE 2
    BY <1>6 DEF Change
  <2>2. Types'
    BY <1>3, <1>4, <2>1 DEF IInv, Types, IsCluster
  <2>3. CASE moves = 0
    <3>1. Shows(began)
      BY <2>3, KindsAre DEF IInv, Types, OfOneCluster, Shows
    <3>2. Shows(began)'
      BY <1>4, <2>1, <3>1 DEF Shows
    <3>3. \A other \in Kind \ {k} : cluster'[other] = began'[other]
      BY <1>3, <2>1, <2>3 DEF IInv, OfOneCluster
    <3> QED
      BY <2>1, <2>2, <2>3, <3>2, <3>3 DEF IInv, OfOneCluster
  <2>4. CASE moves /= 0
    BY <2>1, <2>2, <2>4 DEF IInv, OfOneCluster
  <2> QED
    BY <2>3, <2>4
<1> QED
  BY <1>5, <1>6

LEMMA ListIInv == ASSUME IInv, List PROVE IInv'
<1> DEFINE n == listed + 1
           k == Kinds[n]
<1>1. /\ listed \in 0..5 /\ n \in 1..6 /\ listed' = n /\ k \in Kind
      /\ snap' = [snap EXCEPT ![k] = Listed(k, cluster[k])]
      /\ UNCHANGED <<cluster, began, moves, changes, faults>>
  BY KindsAre DEF List, IInv, Types
<1>2. /\ DOMAIN snap = Kind
      /\ snap' = [x \in Kind |-> snap'[x]]
      /\ snap'[k] = Listed(k, cluster[k])
      /\ \A x \in Kind \ {k} : snap'[x] = snap[x]
  <2>1. snap = [x \in Kind |-> snap[x]]
    BY DEF IInv, Types
  <2> HIDE DEF k
  <2> QED
    BY <1>1, <2>1
<1>3. \A i \in 1..6 : i /= n => snap'[Kinds[i]] = snap[Kinds[i]]
  BY <1>1, <1>2, KindsAre
<1>4. Types'
  BY <1>1, <1>2, <1>3 DEF IInv, Types, IsCluster
<1>5. ASSUME NEW c, Shows(c), Listed(k, c[k]) = Listed(k, cluster[k])
      PROVE  \A i \in 1..n : snap'[Kinds[i]] = Listed(Kinds[i], c[Kinds[i]])
  <2> SUFFICES ASSUME NEW i \in 1..n PROVE snap'[Kinds[i]] = Listed(Kinds[i], c[Kinds[i]])
    OBVIOUS
  <2>1. CASE i = n
    BY <1>2, <1>5, <2>1
  <2>2. CASE i /= n
    BY <1>1, <1>3, <1>5, <2>2 DEF Shows
  <2> QED
    BY <2>1, <2>2
<1>6. ASSUME moves < 2 PROVE Shows(began)' \/ Shows(cluster)'
  <2>1. CASE Shows(cluster)
    BY <1>1, <1>5, <2>1 DEF Shows
  <2>2. CASE Shows(began) /\ cluster[k] = began[k]
    BY <1>1, <1>5, <2>2 DEF Shows
  <2>3. CASE Shows(began) /\ cluster[k] /= began[k]
    <3>1. \A other \in Kind \ {k} : cluster[other] = began[other]
      BY <1>1, <1>6, <2>3 DEF IInv, OfOneCluster
    <3>2. \A i \in 1..listed : cluster[Kinds[i]] = began[Kinds[i]]
      BY <1>1, <3>1, KindsAre
    <3> QED
      BY <2>1, <2>3, <3>2 DEF Shows
  <2> QED
    BY <1>6, <2>1, <2>2, <2>3 DEF IInv, OfOneCluster
<1>7. OfOneCluster'
  BY <1>1, <1>6 DEF IInv, OfOneCluster
<1> QED
  BY <1>4, <1>7 DEF IInv

LEMMA NextIInv == IInv /\ [Next]_vars => IInv'
<1> SUFFICES ASSUME IInv, [Next]_vars PROVE IInv'
  OBVIOUS
<1>1. CASE ListFails
  <2>1. Over /\ UNCHANGED <<cluster, changes>> /\ faults' = faults + 1 /\ faults < MaxFaults
    BY <1>1 DEF ListFails
  <2>2. IsCluster(cluster') /\ changes' \in 0..MaxChanges /\ faults' \in 0..MaxFaults
    BY <2>1, ScanningAssumption DEF IInv, Types
  <2> QED
    BY <2>1, <2>2, FreshIInv DEF Over
<1>2. CASE Analyze
  <2>1. IsCluster(cluster') /\ changes' \in 0..MaxChanges /\ faults' \in 0..MaxFaults
    BY <1>2 DEF Analyze, IInv, Types
  <2> QED
    BY <1>2, <2>1, FreshIInv DEF Analyze, Over
<1>3. CASE UNCHANGED vars
  BY <1>3 DEF vars, IInv, Types, IsCluster, OfOneCluster, Shows
<1> QED
  BY <1>1, <1>2, <1>3, ListIInv, ChangeIInv DEF Next, Scan

LEMMA InvariantHolds == Spec => []IInv
BY InitIInv, NextIInv, PTL DEF Spec

-----------------------------------------------------------------------------
(* Snapshots                                                               *)

\* Every reachable state of a scan is well typed, and what is not yet listed
\* is empty.
THEOREM TypeCorrect == Spec => []TypeOK
BY InvariantHolds, IInvTypes, PTL

\* A complete snapshot during which at most one object changed is that of the
\* cluster before the change or after it.
SnapshotOfOneCluster ==
    listed = Len(Kinds) /\ moves < 2 => snap \in {View(began), View(cluster)}

LEMMA IInvSnapshot == IInv => SnapshotOfOneCluster
<1> SUFFICES ASSUME IInv, listed = 6, moves < 2 PROVE snap \in {View(began), View(cluster)}
  BY KindsAre DEF SnapshotOfOneCluster
<1>1. ASSUME NEW c, Shows(c) PROVE snap = View(c)
  <2>1. \A k \in Kind : snap[k] = Listed(k, c[k])
    BY <1>1, KindsAre DEF Shows
  <2>2. snap = [k \in Kind |-> snap[k]]
    BY DEF IInv, Types
  <2> QED
    BY <2>1, <2>2 DEF View
<1> QED
  BY <1>1 DEF IInv, OfOneCluster

\* Although its kinds are listed one after the other, a snapshot is of one
\* cluster when at most one object changed meanwhile, for any set of objects.
THEOREM SnapshotsAreOfOneCluster == Spec => []SnapshotOfOneCluster
BY InvariantHolds, IInvSnapshot, PTL

-----------------------------------------------------------------------------
(* What the analyzers match by: labels.                                    *)

\* labelsMatch says whether the labels carry the selector, as long as the
\* selector asks for no empty value.
LEMMA MatchMeansCarries ==
    ASSUME NEW selector, NEW pod,
           \A key \in DOMAIN selector : selector[key] /= Empty
    PROVE  LabelsMatch(selector, pod.labels) <=>
              DOMAIN selector /= {} /\ Carries(pod, selector)
BY DEF LabelsMatch, Label, Carries

\* For every snapshot in which no Gateway selects by an empty label value, the
\* analyzer reports exactly the Gateways that no ready pod serves.
THEOREM UnboundGatewaysRight ==
    ASSUME NEW sn,
           \A gw \in sn.gateways : \A key \in DOMAIN gw.selector : gw.selector[key] /= Empty
    PROVE  UnboundGateway(sn) =
             {Finding("unbound-gateway", gw, Empty) : gw \in {g \in sn.gateways : NoProxy(sn, g)}}
<1>1. ASSUME NEW gw \in sn.gateways PROVE Unbound(sn, gw) <=> NoProxy(sn, gw)
  BY <1>1, MatchMeansCarries DEF Unbound, ReadyPodAnywhere, NoProxy
<1> QED
  BY <1>1 DEF UnboundGateway

\* Where the labels of a subset and the selector of its Service have no key in
\* common, a pod is looked up by both.
LEMMA MergedMeansBoth ==
    ASSUME NEW base, NEW overlay, NEW pod,
           \A key \in DOMAIN base \cap DOMAIN overlay : base[key] = overlay[key]
    PROVE  Carries(pod, Merged(base, overlay)) <=> Carries(pod, base) /\ Carries(pod, overlay)
<1>1. DOMAIN Merged(base, overlay) = DOMAIN base \cup DOMAIN overlay
  BY DEF Merged
<1>2. ASSUME NEW key \in DOMAIN base \cup DOMAIN overlay
      PROVE  Merged(base, overlay)[key] =
               IF key \in DOMAIN overlay THEN overlay[key] ELSE base[key]
  BY DEF Merged
<1> HIDE DEF Merged
<1> QED
  BY <1>1, <1>2 DEF Carries

\* For every snapshot: a subset of a rule whose host is a Service is reported
\* exactly when none of the Service's ready pods carries its labels, as long as
\* the labels do not contradict the Service's selector and ask for no empty
\* value.
THEOREM OrphanedSubsetsRight ==
    ASSUME NEW sn, NEW rule, NEW i, NEW svc,
           InCluster(rule.host), FindService(sn, rule.host, rule.ns) = {svc},
           DOMAIN rule.subsets[i] /= {},
           \A key \in DOMAIN rule.subsets[i] : rule.subsets[i][key] /= Empty,
           \A key \in DOMAIN svc.selector : svc.selector[key] /= Empty,
           \A key \in DOMAIN svc.selector \cap DOMAIN rule.subsets[i] :
              svc.selector[key] = rule.subsets[i][key]
    PROVE  Orphaned(sn, rule, i) <=> ~Backed(sn, svc, rule.subsets[i])
<1> DEFINE labels == rule.subsets[i]
           both == Merged(svc.selector, labels)
<1>1. SubsetSelector(sn, rule, labels) = both
  <2>1. (CHOOSE s \in {svc} : TRUE) = svc
    OBVIOUS
  <2> QED
    BY <2>1 DEF SubsetSelector
<1>2. HostNamespace(rule.host, rule.ns) = svc.ns
  BY DEF FindService
<1>3. /\ DOMAIN both = DOMAIN svc.selector \cup DOMAIN labels
      /\ \A key \in DOMAIN both : both[key] /= Empty
  BY DEF Merged
<1>4. ASSUME NEW pod
      PROVE  LabelsMatch(both, pod.labels) <=> Carries(pod, svc.selector) /\ Carries(pod, labels)
  <2>1. LabelsMatch(both, pod.labels) <=> Carries(pod, both)
    <3> HIDE DEF both
    <3> QED
      BY <1>3, MatchMeansCarries
  <2> QED
    BY <2>1, MergedMeansBoth
<1> HIDE DEF both
<1>5. ReadyPodIn(sn, svc.ns, both) <=> Backed(sn, svc, labels)
  BY <1>4 DEF ReadyPodIn, Backed
<1> QED
  BY <1>1, <1>2, <1>5 DEF Orphaned

-----------------------------------------------------------------------------
(* And hosts.                                                              *)

\* TrimSuffix takes the last three parts off, or leaves the host alone.
LEMMA TrimmedIs ==
    ASSUME NEW Part, NEW host \in Seq(Part), host /= << >>
    PROVE  /\ Len(host) > 3 /\ SubSeq(host, Len(host) - 2, Len(host)) = Suffix
                => /\ Trimmed(host) \in Seq(Part)
                   /\ Len(Trimmed(host)) = Len(host) - 3
                   /\ \A i \in 1..(Len(host) - 3) : Trimmed(host)[i] = host[i]
           /\ ~(Len(host) > 3 /\ SubSeq(host, Len(host) - 2, Len(host)) = Suffix)
                => Trimmed(host) = host
<1>1. Len(host) \in Nat
  OBVIOUS
<1>2. ASSUME Len(host) > 3
      PROVE  /\ SubSeq(host, 1, Len(host) - 3) \in Seq(Part)
             /\ Len(SubSeq(host, 1, Len(host) - 3)) = Len(host) - 3
             /\ \A i \in 1..(Len(host) - 3) : SubSeq(host, 1, Len(host) - 3)[i] = host[i]
  <2>1. \A i \in 1..(Len(host) - 3) : host[i] \in Part
    BY <1>1, <1>2, ElementOfSeq
  <2> QED
    BY <1>1, <1>2, <2>1, SubSeqProperties
<1> QED
  BY <1>2 DEF Trimmed

\* The last three parts are the suffix exactly when each is.
LEMMA SuffixIs ==
    ASSUME NEW Part, NEW host \in Seq(Part), Len(host) > 3
    PROVE  SubSeq(host, Len(host) - 2, Len(host)) = Suffix <=>
              /\ host[Len(host) - 2] = "svc"
              /\ host[Len(host) - 1] = "cluster"
              /\ host[Len(host)] = "local"
<1> DEFINE n == Len(host)
           tail == SubSeq(host, n - 2, n)
<1>1. n \in Nat /\ n > 3
  OBVIOUS
<1>2. \A i \in (n - 2)..n : host[i] \in Part
  BY <1>1, ElementOfSeq
<1>3. tail \in Seq(Part) /\ Len(tail) = 3 /\ \A i \in 1..3 : tail[i] = host[n - 3 + i]
  <2>1. /\ tail \in Seq(Part) /\ Len(tail) = n - (n - 2) + 1
        /\ \A i \in 1..(n - (n - 2) + 1) : tail[i] = host[(n - 2) + i - 1]
    BY <1>1, <1>2, SubSeqProperties
  <2>2. n - (n - 2) + 1 = 3 /\ \A i \in 1..3 : (n - 2) + i - 1 = n - 3 + i
    BY <1>1
  <2> QED
    BY <2>1, <2>2
<1>4. tail[1] = host[n - 2] /\ tail[2] = host[n - 1] /\ tail[3] = host[n]
  BY <1>1, <1>3
<1>5. tail = Suffix <=> tail[1] = "svc" /\ tail[2] = "cluster" /\ tail[3] = "local"
  <2>1. Suffix \in Seq({"svc", "cluster", "local"}) /\ Len(Suffix) = 3
        /\ Suffix[1] = "svc" /\ Suffix[2] = "cluster" /\ Suffix[3] = "local"
    BY DEF Suffix
  <2>2. ASSUME tail[1] = "svc", tail[2] = "cluster", tail[3] = "local" PROVE tail = Suffix
    <3> HIDE DEF tail
    <3>1. \A i \in 1..3 : tail[i] = Suffix[i]
      BY <2>1, <2>2
    <3>2. tail \in Seq(Part \cup {"svc", "cluster", "local"})
          /\ Suffix \in Seq(Part \cup {"svc", "cluster", "local"})
      BY <1>3, <2>1
    <3>3. Len(tail) = Len(Suffix) /\ \A i \in 1..Len(tail) : tail[i] = Suffix[i]
      BY <1>3, <2>1, <3>1
    <3> HIDE DEF n
    <3> QED
      BY <3>2, <3>3, SeqEqual
  <2> QED
    BY <2>1, <2>2
<1> HIDE DEF tail
<1> QED
  BY <1>4, <1>5 DEF tail

\* A host has parts, and is not a Service's name followed at once by the
\* suffix, which parseHost would take for the name alone.
SoundHost(host, Part) ==
    /\ host \in Seq(Part) /\ host /= << >>
    /\ ~(Len(host) = 4 /\ host[2] = "svc" /\ host[3] = "cluster" /\ host[4] = "local")

\* parseHost and findService find a Service by the host exactly when it is one
\* of the names a resource in the namespace may call it by.
LEMMA NamesAService ==
    ASSUME NEW Part, NEW dest, SoundHost(dest, Part), NEW svc, NEW ns,
           svc.name \in Part, svc.ns \in Part, svc.name /= Wildcard
    PROVE  dest \in NamesOf(svc, ns) <=>
              /\ InCluster(dest)
              /\ svc.name = HostService(dest)
              /\ svc.ns = HostNamespace(dest, ns)
<1> DEFINE n == Len(dest)
           P == Part \cup {"svc", "cluster", "local"}
           short == <<svc.name>>
           pair == <<svc.name, svc.ns>>
           full == pair \o Suffix
<1>1. dest \in Seq(P) /\ n \in Nat /\ n >= 1
  <2>1. dest \in Seq(Part) /\ dest /= << >>
    BY DEF SoundHost
  <2>2. n \in Nat /\ n /= 0
    BY <2>1, EmptySeq
  <2>3. \A i \in 1..n : dest[i] \in P
    BY <2>1, ElementOfSeq
  <2> QED
    BY <2>1, <2>2, <2>3, SeqDef
<1>2. /\ short \in Seq(P) /\ Len(short) = 1 /\ short[1] = svc.name
      /\ pair \in Seq(P) /\ Len(pair) = 2 /\ pair[1] = svc.name /\ pair[2] = svc.ns
      /\ Suffix \in Seq(P) /\ Len(Suffix) = 3
      /\ Suffix[1] = "svc" /\ Suffix[2] = "cluster" /\ Suffix[3] = "local"
  BY DEF Suffix
<1>3. /\ full \in Seq(P) /\ Len(full) = 5
      /\ full[1] = svc.name /\ full[2] = svc.ns
      /\ full[3] = "svc" /\ full[4] = "cluster" /\ full[5] = "local"
  <2> HIDE DEF pair, P
  <2>1. /\ pair \o Suffix \in Seq(P) /\ Len(pair \o Suffix) = 5
        /\ \A i \in 1..5 : (pair \o Suffix)[i] = IF i <= 2 THEN pair[i] ELSE Suffix[i - 2]
    <3> HIDE DEF n
    <3>1. /\ pair \o Suffix \in Seq(P)
          /\ Len(pair \o Suffix) = Len(pair) + Len(Suffix)
          /\ \A i \in 1..(Len(pair) + Len(Suffix)) :
               (pair \o Suffix)[i] = IF i <= Len(pair) THEN pair[i] ELSE Suffix[i - Len(pair)]
      BY <1>2, ConcatProperties
    <3> QED
      BY <1>2, <3>1
  <2> QED
    BY <1>2, <2>1
<1> HIDE DEF short, pair, full, P
<1>4. dest = short <=> n = 1 /\ dest[1] = svc.name
  BY <1>1, <1>2, SeqEqual
<1>5. dest = pair <=> n = 2 /\ dest[1] = svc.name /\ dest[2] = svc.ns
  <2>1. ASSUME n = 2, dest[1] = svc.name, dest[2] = svc.ns PROVE dest = pair
    <3>1. \A i \in 1..Len(dest) : dest[i] = pair[i]
      BY <1>2, <2>1
    <3> QED
      BY <1>1, <1>2, <2>1, <3>1, SeqEqual
  <2> QED
    BY <1>2, <2>1
<1>6. dest = full <=> /\ n = 5 /\ dest[1] = svc.name /\ dest[2] = svc.ns
                      /\ dest[3] = "svc" /\ dest[4] = "cluster" /\ dest[5] = "local"
  <2>1. ASSUME n = 5, dest[1] = svc.name, dest[2] = svc.ns,
               dest[3] = "svc", dest[4] = "cluster", dest[5] = "local"
        PROVE  dest = full
    <3>1. \A i \in 1..Len(dest) : dest[i] = full[i]
      BY <1>3, <2>1
    <3> QED
      BY <1>1, <1>3, <2>1, <3>1, SeqEqual
  <2> QED
    BY <1>3, <2>1
<1>7. dest \in NamesOf(svc, ns) <=> (svc.ns = ns /\ dest = short) \/ dest = pair \/ dest = full
  BY DEF NamesOf, short, pair, full
<1> DEFINE cut == n > 3 /\ SubSeq(dest, n - 2, n) = Suffix
<1>8. /\ cut => Len(Trimmed(dest)) = n - 3 /\ \A i \in 1..(n - 3) : Trimmed(dest)[i] = dest[i]
      /\ ~cut => Trimmed(dest) = dest
  BY <1>1, TrimmedIs DEF SoundHost
<1>9. cut <=> /\ n > 3 /\ dest[n - 2] = "svc" /\ dest[n - 1] = "cluster" /\ dest[n] = "local"
  BY <1>1, SuffixIs
<1>10. ~(cut /\ n = 4)
  BY <1>9 DEF SoundHost
<1> HIDE DEF cut, n
<1>11. CASE n = 1
  <2>1. Trimmed(dest) = dest /\ ~(n = 2) /\ ~(n = 5)
    BY <1>8, <1>9, <1>11
  <2> QED
    BY <1>4, <1>5, <1>6, <1>7, <1>1, <1>11, <2>1 DEF InCluster, HostService, HostNamespace, SoundHost, n
<1>12. CASE n = 2
  <2>1. Trimmed(dest) = dest /\ ~(n = 1) /\ ~(n = 5)
    BY <1>8, <1>9, <1>12
  <2> QED
    BY <1>4, <1>5, <1>6, <1>7, <1>1, <1>12, <2>1 DEF InCluster, HostService, HostNamespace, SoundHost, n
<1>13. CASE n = 5 /\ cut
  <2>1. /\ Len(Trimmed(dest)) = 2
        /\ Trimmed(dest)[1] = dest[1] /\ Trimmed(dest)[2] = dest[2]
    BY <1>8, <1>13
  <2>2. dest[3] = "svc" /\ dest[4] = "cluster" /\ dest[5] = "local"
    BY <1>9, <1>13
  <2> QED
    BY <1>4, <1>5, <1>6, <1>7, <1>13, <2>1, <2>2 DEF InCluster, HostService, HostNamespace, SoundHost
<1>14. CASE n \notin {1, 2} /\ ~(n = 5 /\ cut)
  <2>1. ~(dest = short) /\ ~(dest = pair) /\ ~(dest = full)
    BY <1>4, <1>5, <1>6, <1>9, <1>14
  <2>2. Len(Trimmed(dest)) \notin {1, 2}
    <3>1. CASE cut
      BY <1>1, <1>8, <1>9, <1>10, <1>14, <3>1
    <3>2. CASE ~cut
      BY <1>8, <1>14, <3>2 DEF n
    <3> QED
      BY <3>1, <3>2
  <2> QED
    BY <1>7, <2>1, <2>2 DEF InCluster
<1> QED
  BY <1>11, <1>12, <1>13, <1>14

\* serviceEntryCovers is about the last parts of the host.
LEMMA CoversIs ==
    ASSUME NEW Part, NEW dest, NEW h, dest \in Seq(Part), h \in Seq(Part), dest /= << >>
    PROVE  Covers(h, dest) <=>
              \/ dest = h
              \/ /\ h /= << >> /\ h[1] = Wildcard
                 /\ \E n \in 1..Len(dest) : Tail(h) = SubSeq(dest, n + 1, Len(dest))
<1>1. Len(dest) \in Nat /\ Len(h) \in Nat
  OBVIOUS
<1>2. ASSUME h /= << >> PROVE Tail(h) \in Seq(Part) /\ Len(Tail(h)) = Len(h) - 1 /\ Len(h) >= 1
  BY <1>1, <1>2, HeadTailProperties, EmptySeq
<1>3. ASSUME NEW n \in 1..Len(dest)
      PROVE  Len(SubSeq(dest, n + 1, Len(dest))) = Len(dest) - n
  <2>1. \A i \in (n + 1)..Len(dest) : dest[i] \in Part
    BY <1>1, ElementOfSeq
  <2>2. Len(SubSeq(dest, n + 1, Len(dest))) = IF n + 1 <= Len(dest) THEN Len(dest) - (n + 1) + 1 ELSE 0
    BY <1>1, <2>1, SubSeqProperties
  <2> QED
    BY <1>1, <2>2
<1>4. ASSUME h /= << >>, NEW n \in 1..Len(dest), Tail(h) = SubSeq(dest, n + 1, Len(dest))
      PROVE  Len(dest) >= Len(h) /\ n + 1 = Len(dest) - Len(h) + 2
  <2>1. Len(h) - 1 = Len(dest) - n
    BY <1>2, <1>3, <1>4
  <2> QED
    BY <1>1, <2>1
<1>5. ASSUME h /= << >>, Len(dest) >= Len(h),
             SubSeq(dest, Len(dest) - Len(h) + 2, Len(dest)) = Tail(h)
      PROVE  \E n \in 1..Len(dest) : Tail(h) = SubSeq(dest, n + 1, Len(dest))
  <2> DEFINE n == Len(dest) - Len(h) + 1
  <2>1. n \in 1..Len(dest) /\ n + 1 = Len(dest) - Len(h) + 2
    BY <1>1, <1>2, <1>5
  <2> QED
    BY <1>5, <2>1
<1>6. ASSUME h /= << >>, NEW n \in 1..Len(dest), Tail(h) = SubSeq(dest, n + 1, Len(dest))
      PROVE  Len(dest) >= Len(h) /\ SubSeq(dest, Len(dest) - Len(h) + 2, Len(dest)) = Tail(h)
  BY <1>4, <1>6
<1> QED
  BY <1>5, <1>6 DEF Covers

\* For every snapshot: a route's destination is reported exactly when it names
\* no Service and no ServiceEntry covers it.
THEOREM DanglingHostsRight ==
    ASSUME NEW sn, NEW Part,
           \A svc \in sn.services : svc.name \in Part \ {Wildcard} /\ svc.ns \in Part,
           \A entry \in sn.serviceentries : entry.hosts \subseteq Seq(Part),
           \A vs \in sn.virtualservices : \A dest \in vs.destinations : SoundHost(dest, Part)
    PROVE  DanglingHost(sn) =
             UNION {{Finding("dangling-host", vs, dest) :
                       dest \in {d \in vs.destinations : NoBackend(sn, d, vs.ns)}}
                    : vs \in sn.virtualservices}
<1>1. ASSUME NEW vs \in sn.virtualservices, NEW dest \in vs.destinations
      PROVE  ~Resolved(sn, dest, vs.ns) <=> NoBackend(sn, dest, vs.ns)
  <2>1. SoundHost(dest, Part)
    BY <1>1
  <2>2. InCluster(dest) /\ FindService(sn, dest, vs.ns) /= {} <=>
           \E svc \in sn.services : dest \in NamesOf(svc, vs.ns)
    BY <2>1, NamesAService DEF FindService
  <2>3. ServiceEntryCovers(sn, dest) <=>
           \E entry \in sn.serviceentries : \E h \in entry.hosts :
              \/ dest = h
              \/ /\ h /= << >> /\ h[1] = Wildcard
                 /\ \E n \in 1..Len(dest) : Tail(h) = SubSeq(dest, n + 1, Len(dest))
    BY <2>1, CoversIs DEF ServiceEntryCovers, SoundHost
  <2> QED
    BY <2>2, <2>3 DEF Resolved, NoBackend
<1>2. ASSUME NEW vs \in sn.virtualservices
      PROVE  {d \in vs.destinations : ~Resolved(sn, d, vs.ns)} =
                {d \in vs.destinations : NoBackend(sn, d, vs.ns)}
  BY <1>1
<1> QED
  BY <1>2 DEF DanglingHost

-----------------------------------------------------------------------------
(* All three of them, and a scan.                                          *)

NoEmptyValue(labels) == \A key \in DOMAIN labels : labels[key] /= Empty

\* Names are parts of hosts, no label asks for an empty value, and the labels of
\* a subset do not contradict the selector of a Service it may be about.
SoundServices(services, Part) ==
    \A svc \in services :
        svc.name \in Part \ {Wildcard} /\ svc.ns \in Part /\ NoEmptyValue(svc.selector)
SoundRules(rules, services, Part) ==
    \A rule \in rules :
        /\ SoundHost(rule.host, Part) /\ rule.ns \in Part
        /\ \A i \in DOMAIN rule.subsets :
              /\ NoEmptyValue(rule.subsets[i])
              /\ \A svc \in services : svc.name = rule.host[1] =>
                    \A key \in DOMAIN svc.selector \cap DOMAIN rule.subsets[i] :
                       svc.selector[key] = rule.subsets[i][key]
SoundEntries(entries, Part) == \A entry \in entries : entry.hosts \subseteq Seq(Part)
SoundGateways(gateways) == \A gw \in gateways : NoEmptyValue(gw.selector)

SoundSnapshot(sn, Part) ==
    /\ SoundServices(sn.services, Part) /\ OnePerName(sn.services)
    /\ SoundRules(sn.destinationrules, sn.services, Part)
    /\ SoundEntries(sn.serviceentries, Part)
    /\ SoundGateways(sn.gateways)
    /\ \A vs \in sn.virtualservices : \A dest \in vs.destinations : SoundHost(dest, Part)

\* The Service and the namespace of a host are parts of it.
LEMMA HostParts ==
    ASSUME NEW Part, NEW host, SoundHost(host, Part), NEW ns, InCluster(host)
    PROVE  /\ HostService(host) = host[1]
           /\ HostNamespace(host, ns) \in Range(host) \cup {ns}
           /\ host[1] \in Part /\ Range(host) \subseteq Part
<1>1. host \in Seq(Part) /\ host /= << >> /\ Len(host) \in Nat /\ Len(host) >= 1
  <2>1. host \in Seq(Part) /\ host /= << >>
    BY DEF SoundHost
  <2> QED
    BY <2>1, EmptySeq
<1>2. Range(host) \subseteq Part /\ \A i \in 1..Len(host) : host[i] \in Part /\ host[i] \in Range(host)
  BY <1>1 DEF Range
<1>3. /\ Trimmed(host)[1] = host[1]
      /\ Len(Trimmed(host)) = 2 => Len(host) >= 2 /\ Trimmed(host)[2] = host[2]
  <2>1. CASE Len(host) > 3 /\ SubSeq(host, Len(host) - 2, Len(host)) = Suffix
    BY <1>1, <2>1, TrimmedIs
  <2>2. CASE ~(Len(host) > 3 /\ SubSeq(host, Len(host) - 2, Len(host)) = Suffix)
    BY <1>1, <2>2, TrimmedIs
  <2> QED
    BY <2>1, <2>2
<1> QED
  BY <1>1, <1>2, <1>3 DEF HostService, HostNamespace

\* For every sound snapshot: a subset is reported exactly when it has no
\* upstream.
LEMMA OrphanedMeansNoUpstream ==
    ASSUME NEW sn, NEW Part, SoundSnapshot(sn, Part),
           NEW rule \in sn.destinationrules, NEW i \in DOMAIN rule.subsets
    PROVE  Orphaned(sn, rule, i) <=> NoUpstream(sn, rule, i)
<1> DEFINE labels == rule.subsets[i]
           host == rule.host
           Found(ns) == {s \in sn.services : s.name = host[1] /\ s.ns = ns}
           Without(ns) ==
              IF Found(ns) = {}
              THEN ~ \E p \in sn.pods : p.ready /\ p.ns = ns /\ Carries(p, labels)
              ELSE \E svc \in Found(ns) : ~Backed(sn, svc, labels)
<1>1. SoundHost(host, Part) /\ rule.ns \in Part /\ NoEmptyValue(labels)
  BY DEF SoundSnapshot, SoundRules
<1>2. ASSUME NEW ns \in Range(host) \cup {rule.ns}, host[1] /= Wildcard, host /= << >>
      PROVE  host \in NamesOf([name |-> host[1], ns |-> ns], rule.ns) <=>
                InCluster(host) /\ ns = HostNamespace(host, rule.ns)
  <2>1. host[1] \in Part /\ ns \in Part
    BY <1>1, <1>2, EmptySeq DEF SoundHost, Range
  <2> DEFINE named == [name |-> host[1], ns |-> ns]
  <2>2. named.name = host[1] /\ named.ns = ns
    OBVIOUS
  <2> HIDE DEF named
  <2>3. host \in NamesOf(named, rule.ns) <=>
           InCluster(host) /\ named.name = HostService(host)
           /\ named.ns = HostNamespace(host, rule.ns)
    BY <1>1, <1>2, <2>1, <2>2, NamesAService
  <2>4. InCluster(host) => HostService(host) = host[1]
    BY <1>1, HostParts
  <2> QED
    BY <2>2, <2>3, <2>4 DEF named
<1>3. ASSUME NEW ns, ns = HostNamespace(host, rule.ns), InCluster(host), DOMAIN labels /= {}
      PROVE  Orphaned(sn, rule, i) <=> Without(ns)
  <2>1. FindService(sn, host, rule.ns) = Found(ns)
    BY <1>1, <1>3, HostParts DEF FindService
  <2>2. CASE Found(ns) = {}
    <3>1. SubsetSelector(sn, rule, labels) = labels
      BY <2>1, <2>2 DEF SubsetSelector
    <3>2. ReadyPodIn(sn, ns, labels) <=>
             \E p \in sn.pods : p.ready /\ p.ns = ns /\ Carries(p, labels)
      <4>1. \A p \in sn.pods : LabelsMatch(labels, p.labels) <=> Carries(p, labels)
        <5> TAKE p \in sn.pods
        <5>1. \A key \in DOMAIN labels : labels[key] /= Empty
          BY <1>1 DEF NoEmptyValue
        <5> HIDE DEF labels
        <5> QED
          BY <1>3, <5>1, MatchMeansCarries
      <4> QED
        BY <4>1 DEF ReadyPodIn
    <3> QED
      BY <1>3, <2>2, <3>1, <3>2 DEF Orphaned
  <2>3. CASE Found(ns) /= {}
    <3>1. PICK svc \in Found(ns) : TRUE
      BY <2>3
    <3>2. Found(ns) = {svc}
      BY <3>1 DEF SoundSnapshot, OnePerName
    <3>3. /\ \A key \in DOMAIN svc.selector : svc.selector[key] /= Empty
          /\ \A key \in DOMAIN svc.selector \cap DOMAIN labels : svc.selector[key] = labels[key]
          /\ \A key \in DOMAIN labels : labels[key] /= Empty
      BY <1>1, <3>1 DEF SoundSnapshot, SoundServices, SoundRules, NoEmptyValue
    <3>4. Orphaned(sn, rule, i) <=> ~Backed(sn, svc, labels)
      BY <1>3, <2>1, <3>2, <3>3, OrphanedSubsetsRight
    <3> QED
      BY <3>2, <3>4
  <2> QED
    BY <2>2, <2>3
<1>4. NoUpstream(sn, rule, i) <=>
         /\ host /= << >> /\ host[1] /= Wildcard /\ DOMAIN labels /= {}
         /\ \E ns \in Range(host) \cup {rule.ns} :
               host \in NamesOf([name |-> host[1], ns |-> ns], rule.ns) /\ Without(ns)
  BY DEF NoUpstream, OrphanIn
<1>5. InCluster(host) => /\ host /= << >> /\ host[1] /= Wildcard
                         /\ HostNamespace(host, rule.ns) \in Range(host) \cup {rule.ns}
  BY <1>1, HostParts DEF InCluster
<1>6. Orphaned(sn, rule, i) => InCluster(host) /\ DOMAIN labels /= {}
  BY DEF Orphaned
<1> HIDE DEF Without, labels, host
<1> QED
  BY <1>2, <1>3, <1>4, <1>5, <1>6

\* For every sound snapshot the analyzers find what they are meant to find, no
\* more and no less (internal/analyzers/istio).
THEOREM FindingsRight ==
    ASSUME NEW sn, NEW Part, SoundSnapshot(sn, Part)
    PROVE  Findings(sn) = Problems(sn)
<1>1. DanglingHost(sn) =
         UNION {{Finding("dangling-host", vs, dest) :
                   dest \in {d \in vs.destinations : NoBackend(sn, d, vs.ns)}}
                : vs \in sn.virtualservices}
  BY DanglingHostsRight DEF SoundSnapshot, SoundServices, SoundEntries
<1>2. OrphanedSubset(sn) =
         UNION {{Finding("orphaned-subset", rule, i) :
                   i \in {j \in DOMAIN rule.subsets : NoUpstream(sn, rule, j)}}
                : rule \in sn.destinationrules}
  <2>1. ASSUME NEW rule \in sn.destinationrules
        PROVE  {j \in DOMAIN rule.subsets : Orphaned(sn, rule, j)} =
                  {j \in DOMAIN rule.subsets : NoUpstream(sn, rule, j)}
    BY OrphanedMeansNoUpstream
  <2> QED
    BY <2>1 DEF OrphanedSubset
<1>3. UnboundGateway(sn) =
         {Finding("unbound-gateway", gw, Empty) : gw \in {g \in sn.gateways : NoProxy(sn, g)}}
  BY UnboundGatewaysRight DEF SoundSnapshot, SoundGateways, NoEmptyValue
<1> QED
  BY <1>1, <1>2, <1>3 DEF Findings, Problems

\* What the objects have to be like: as in a sound snapshot, and no pod has
\* two Ready conditions.
SoundObjects(Part) ==
    /\ SoundServices(Objects.services, Part)
    /\ SoundRules(Objects.destinationrules, Objects.services, Part)
    /\ SoundEntries(Objects.serviceentries, Part)
    /\ SoundGateways(Objects.gateways)
    /\ \A vs \in Objects.virtualservices : \A dest \in vs.http \cup vs.tcp \cup vs.tls :
          dest /= << >> => SoundHost(dest, Part)
    /\ \A p \in Objects.pods :
          /\ p.conditions \in Seq([type : STRING, status : STRING])
          /\ \A i, j \in DOMAIN p.conditions :
                p.conditions[i].type = "Ready" /\ p.conditions[j].type = "Ready" => i = j

\* The Lists show a cluster as it is.
LEMMA ViewIsActual ==
    ASSUME NEW Part, SoundObjects(Part), NEW c, IsCluster(c)
    PROVE  View(c) = Actual(c)
<1>1. ASSUME NEW p \in c.pods
      PROVE  PodReady(p) <=> /\ p.phase = "Running"
                             /\ [type |-> "Ready", status |-> "True"] \in Range(p.conditions)
  <2> DEFINE ready == [type |-> "Ready", status |-> "True"]
             conds == p.conditions
  <2>1. p \in Objects.pods
    BY <1>1 DEF IsCluster, Kind, Kinds, Range
  <2>2. /\ conds \in Seq([type : STRING, status : STRING])
        /\ \A i, j \in DOMAIN conds : conds[i].type = "Ready" /\ conds[j].type = "Ready" => i = j
    BY <2>1 DEF SoundObjects
  <2>3. ready \in Range(conds) <=> \E i \in DOMAIN conds : conds[i] = ready
    BY DEF Range
  <2>4. ASSUME NEW i \in DOMAIN conds, conds[i] = ready, NEW j \in 1..(i - 1)
        PROVE  conds[j].type /= "Ready"
    <3>1. DOMAIN conds = 1..Len(conds) /\ Len(conds) \in Nat
      BY <2>2
    <3>2. i \in 1..Len(conds) /\ j \in 1..Len(conds) /\ j /= i
      BY <2>4, <3>1
    <3>3. conds[i].type = "Ready"
      BY <2>4
    <3> QED
      BY <2>2, <3>1, <3>2, <3>3
  <2> QED
    BY <2>3, <2>4 DEF PodReady
<1>2. {PodView(p) : p \in c.pods} =
         {[ns |-> p.ns, name |-> p.name, labels |-> p.labels,
           ready |-> /\ p.phase = "Running"
                     /\ [type |-> "Ready", status |-> "True"] \in Range(p.conditions)]
          : p \in c.pods}
  <2> DEFINE Shown(p) ==
        /\ p.phase = "Running"
        /\ [type |-> "Ready", status |-> "True"] \in Range(p.conditions)
  <2>1. ASSUME NEW p \in c.pods PROVE PodReady(p) = Shown(p)
    <3>1. PodReady(p) \in BOOLEAN
      BY Zenon DEF PodReady
    <3>2. Shown(p) \in BOOLEAN
      BY Zenon
    <3>3. PodReady(p) <=> Shown(p)
      BY <1>1
    <3> HIDE DEF Shown
    <3> QED
      BY <3>1, <3>2, <3>3
  <2>2. ASSUME NEW p \in c.pods
        PROVE  PodView(p) = [ns |-> p.ns, name |-> p.name, labels |-> p.labels,
                             ready |-> Shown(p)]
    <3> HIDE DEF Shown
    <3> QED
      BY <2>1, Zenon DEF PodView
  <2> QED
    BY <2>2, Zenon
<1>3. {RouteView(vs) : vs \in c.virtualservices} =
         {[ns |-> vs.ns, name |-> vs.name,
           destinations |-> {h \in vs.http \cup vs.tcp \cup vs.tls : h /= << >>}]
          : vs \in c.virtualservices}
  <2>1. ASSUME NEW vs
        PROVE  (vs.http \cup vs.tcp \cup vs.tls) \ {<< >>} =
                  {h \in vs.http \cup vs.tcp \cup vs.tls : h /= << >>}
    OBVIOUS
  <2> QED
    BY <2>1, Zenon DEF RouteView
<1> DEFINE pods == {PodView(p) : p \in c.pods}
           routes == {RouteView(vs) : vs \in c.virtualservices}
<1>4. Actual(c) = [c EXCEPT !.pods = pods, !.virtualservices = routes]
  BY <1>2, <1>3, Zenon DEF Actual
<1>5. View(c) = [k \in Kind |-> CASE k = "pods" -> pods
                                  [] k = "virtualservices" -> routes
                                  [] OTHER -> c[k]]
  BY DEF View, Listed
<1> HIDE DEF pods, routes
<1>6. DOMAIN c = Kind
  BY DEF IsCluster
<1> QED
  BY <1>4, <1>5, <1>6

\* A scan during which at most one object changed finds exactly what is wrong
\* before the change or after it, for any sound objects, any number of changes
\* and failing Lists.
THEOREM ScansAreRight ==
    ASSUME NEW Part, SoundObjects(Part)
    PROVE  Spec => FindsOneCluster
<1>1. ASSUME NEW c, IsCluster(c) PROVE Findings(View(c)) = Problems(Actual(c))
  <2>1. /\ c.services \subseteq Objects.services /\ OnePerName(c.services)
        /\ c.destinationrules \subseteq Objects.destinationrules
        /\ c.serviceentries \subseteq Objects.serviceentries
        /\ c.gateways \subseteq Objects.gateways
        /\ c.virtualservices \subseteq Objects.virtualservices
    BY <1>1 DEF IsCluster, Kind, Kinds, Range
  <2>2. /\ View(c).services = c.services
        /\ View(c).destinationrules = c.destinationrules
        /\ View(c).serviceentries = c.serviceentries
        /\ View(c).gateways = c.gateways
        /\ View(c).virtualservices = {RouteView(vs) : vs \in c.virtualservices}
    BY DEF View, Listed, Kind, Kinds, Range
  <2>3. \A vs \in View(c).virtualservices : \A dest \in vs.destinations : SoundHost(dest, Part)
    <3>1. ASSUME NEW vs \in c.virtualservices, NEW dest \in RouteView(vs).destinations
          PROVE  SoundHost(dest, Part)
      BY <2>1, <3>1 DEF RouteView, SoundObjects
    <3> QED
      BY <2>2, <3>1
  <2>4. SoundSnapshot(View(c), Part)
    BY <2>1, <2>2, <2>3
       DEF SoundSnapshot, SoundObjects, SoundServices, SoundRules, SoundEntries, SoundGateways
  <2> QED
    BY <1>1, <2>4, FindingsRight, ViewIsActual
<1> DEFINE Right == Analyze /\ moves < 2 =>
                      findings' \in {Problems(Actual(began)), Problems(Actual(cluster))}
<1>2. ASSUME IInv PROVE Right
  BY <1>1, <1>2, IInvSnapshot
  DEF Analyze, SnapshotOfOneCluster, IInv, Types
<1>3. IInv /\ [Next]_vars => [Right]_vars
  BY <1>2
<1> QED
  BY <1>3, InvariantHolds, PTL DEF Spec, FindsOneCluster
=============================================================================
