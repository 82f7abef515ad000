----------------------------- MODULE Analyzers -----------------------------
(***************************************************************************)
(* What a scan looks for: the three Istio analyzers                        *)
(* (internal/analyzers/istio) as functions of a snapshot, and beside them  *)
(* what each is meant to find, stated of the cluster.                      *)
(*                                                                         *)
(* A host is the sequence of its dot-separated parts; labels are functions *)
(* from keys to values; the objects of a kind are a set of records.        *)
(***************************************************************************)
EXTENDS Naturals, Sequences, Functions

CONSTANT Empty          \* the value Go reads for a label that is not there

-----------------------------------------------------------------------------
(* helpers.go                                                              *)

Wildcard == "*"
Suffix == <<"svc", "cluster", "local">>

\* strings.TrimSuffix(host, ".svc.cluster.local")
Trimmed(host) ==
    IF Len(host) > 3 /\ SubSeq(host, Len(host) - 2, Len(host)) = Suffix
    THEN SubSeq(host, 1, Len(host) - 3) ELSE host

\* Slip: the namespace of the rule, whatever the host says.
HostNamespaceOwn(host, default) == default

\* parseHost's ok; its service and namespace are below.
InCluster(host) ==
    /\ host /= << >>
    /\ host[1] /= Wildcard
    /\ Len(Trimmed(host)) \in {1, 2}
HostService(host) == Trimmed(host)[1]
HostNamespace(host, default) ==
    IF Len(Trimmed(host)) = 2 THEN Trimmed(host)[2] ELSE default

\* findService, as the set of what it finds: at most one Service has a name.
FindService(snap, host, default) ==
    {s \in snap.services : /\ s.name = HostService(host)
                           /\ s.ns = HostNamespace(host, default)}

\* serviceEntryCovers: the host itself, or a wildcard for its last parts.
Covers(h, host) ==
    \/ h = host
    \/ /\ h /= << >> /\ h[1] = Wildcard
       /\ Len(host) >= Len(h)
       /\ SubSeq(host, Len(host) - Len(h) + 2, Len(host)) = Tail(h)
ServiceEntryCovers(snap, host) ==
    \E entry \in snap.serviceentries : \E h \in entry.hosts : Covers(h, host)

Label(labels, key) == IF key \in DOMAIN labels THEN labels[key] ELSE Empty

\* labelsMatch: no selector matches nothing.
LabelsMatch(selector, labels) ==
    /\ DOMAIN selector /= {}
    /\ \A key \in DOMAIN selector : Label(labels, key) = selector[key]

\* readyPodsMatching(core, ns, selector) > 0
ReadyPodIn(snap, ns, selector) ==
    \E p \in snap.pods : p.ready /\ p.ns = ns /\ LabelsMatch(selector, p.labels)
ReadyPodAnywhere(snap, selector) ==
    \E p \in snap.pods : p.ready /\ LabelsMatch(selector, p.labels)

\* merged: the overlay wins.
Merged(base, overlay) ==
    [key \in DOMAIN base \cup DOMAIN overlay |->
        IF key \in DOMAIN overlay THEN overlay[key] ELSE base[key]]

-----------------------------------------------------------------------------
(* The analyzers                                                           *)

Finding(analyzer, obj, detail) ==
    [analyzer |-> analyzer, ns |-> obj.ns, name |-> obj.name, detail |-> detail]

\* dangling_host.go
Resolved(snap, dest, ns) ==
    \/ InCluster(dest) /\ FindService(snap, dest, ns) /= {}
    \/ ServiceEntryCovers(snap, dest)
DanglingHost(snap) ==
    UNION {{Finding("dangling-host", vs, dest) :
              dest \in {d \in vs.destinations : ~Resolved(snap, d, vs.ns)}}
           : vs \in snap.virtualservices}

\* The labels a subset's pods are looked up by: those of the Service and, over
\* them, those of the subset.
SubsetSelector(snap, rule, labels) ==
    LET svc == FindService(snap, rule.host, rule.ns)
    IN  IF svc = {} THEN labels ELSE Merged((CHOOSE s \in svc : TRUE).selector, labels)

\* orphaned_subset.go; the detail is the subset's index.
Orphaned(snap, rule, i) ==
    /\ InCluster(rule.host)
    /\ DOMAIN rule.subsets[i] /= {}
    /\ ~ReadyPodIn(snap, HostNamespace(rule.host, rule.ns),
                   SubsetSelector(snap, rule, rule.subsets[i]))
OrphanedSubset(snap) ==
    UNION {{Finding("orphaned-subset", rule, i) :
              i \in {j \in DOMAIN rule.subsets : Orphaned(snap, rule, j)}}
           : rule \in snap.destinationrules}

\* unbound_gateway.go
Unbound(snap, gw) ==
    DOMAIN gw.selector /= {} /\ ~ReadyPodAnywhere(snap, gw.selector)
UnboundGateway(snap) ==
    {Finding("unbound-gateway", gw, Empty) : gw \in {g \in snap.gateways : Unbound(snap, g)}}

\* Engine.scanOnce runs them all on one snapshot.
Findings(snap) == OrphanedSubset(snap) \cup DanglingHost(snap) \cup UnboundGateway(snap)

-----------------------------------------------------------------------------
(* What they are meant to find                                             *)

\* The names a resource in namespace ns may call a Service by.
NamesOf(svc, ns) ==
    LET short == IF svc.ns = ns THEN {<<svc.name>>} ELSE {}
        full  == <<svc.name, svc.ns>>
    IN  short \cup {full, full \o Suffix}

\* Traffic to the host goes nowhere: it names no Service, and no ServiceEntry
\* declares it or a domain it is in.
NoBackend(snap, dest, ns) ==
    /\ \A svc \in snap.services : dest \notin NamesOf(svc, ns)
    /\ \A entry \in snap.serviceentries : \A h \in entry.hosts :
          /\ dest /= h
          /\ h /= << >> /\ h[1] = Wildcard =>
                ~ \E n \in 1..Len(dest) : Tail(h) = SubSeq(dest, n + 1, Len(dest))

Carries(pod, labels) ==
    \A key \in DOMAIN labels : key \in DOMAIN pod.labels /\ pod.labels[key] = labels[key]

\* A ready pod of the Service that carries the subset's labels.
Backed(snap, svc, labels) ==
    \E p \in snap.pods : /\ p.ready /\ p.ns = svc.ns
                         /\ Carries(p, svc.selector) /\ Carries(p, labels)

\* A subset none of whose Service's ready pods carries its labels; where the
\* Service is not there, none of the ready pods of the namespace it would be
\* in (orphaned_subset.go:34-36).
OrphanIn(snap, rule, i, ns) ==
    LET svcs == {s \in snap.services : s.name = rule.host[1] /\ s.ns = ns}
    IN  /\ rule.host \in NamesOf([name |-> rule.host[1], ns |-> ns], rule.ns)
        /\ IF svcs = {}
           THEN ~ \E p \in snap.pods : p.ready /\ p.ns = ns /\ Carries(p, rule.subsets[i])
           ELSE \E svc \in svcs : ~Backed(snap, svc, rule.subsets[i])
NoUpstream(snap, rule, i) ==
    /\ rule.host /= << >> /\ rule.host[1] /= Wildcard
    /\ DOMAIN rule.subsets[i] /= {}
    /\ \E ns \in Range(rule.host) \cup {rule.ns} : OrphanIn(snap, rule, i, ns)

\* A Gateway with a selector that no ready pod of any namespace satisfies.
NoProxy(snap, gw) ==
    /\ DOMAIN gw.selector /= {}
    /\ \A p \in snap.pods : p.ready => ~Carries(p, gw.selector)

\* What should be found.
Problems(snap) ==
    (UNION {{Finding("dangling-host", vs, dest) :
              dest \in {d \in vs.destinations : NoBackend(snap, d, vs.ns)}}
            : vs \in snap.virtualservices})
    \cup (UNION {{Finding("orphaned-subset", rule, i) :
              i \in {j \in DOMAIN rule.subsets : NoUpstream(snap, rule, j)}}
            : rule \in snap.destinationrules})
    \cup {Finding("unbound-gateway", gw, Empty) :
              gw \in {g \in snap.gateways : NoProxy(snap, g)}}
=============================================================================
