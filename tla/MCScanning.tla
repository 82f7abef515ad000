----------------------------- MODULE MCScanning -----------------------------
(* Small instances of Scanning for TLC. *)
EXTENDS Scanning, TLC

NoLabels == << >>
App == "app" :> "reviews"
AppV(v) == App @@ ("version" :> v)

Svc(name, selector) == [ns |-> "default", name |-> name, selector |-> selector]
Pod(ns, labels, phase, conditions) ==
    [ns |-> ns, name |-> "pod", labels |-> labels, phase |-> phase, conditions |-> conditions]
Ready(status) == [type |-> "Ready", status |-> status]
Initialized == [type |-> "Initialized", status |-> "True"]
Rule(ns, host, subsets) == [ns |-> ns, name |-> "rule", host |-> host, subsets |-> subsets]
Route(ns, http, tcp) == [ns |-> ns, name |-> "route", http |-> http, tcp |-> tcp, tls |-> {<< >>}]

Short == <<"reviews">>
InDefault == <<"reviews", "default">>
Full == <<"reviews", "default", "svc", "cluster", "local">>
Outside == <<"api", "example", "com">>

SomeObjects ==
    [services |-> {Svc("reviews", App), Svc("reviews", "app" :> "ratings")},
     pods |-> {Pod("default", AppV("v1"), "Running", <<Initialized, Ready("True")>>),
               Pod("default", AppV("v1"), "Running", <<Initialized, Ready("False")>>),
               Pod("default", AppV("v2"), "Running", <<Ready("True")>>),
               Pod("edge", AppV("v1"), "Running", <<Ready("True")>>)},
     destinationrules |-> {Rule("default", Short, <<"version" :> "v2", "version" :> "v1">>),
                           Rule("edge", Full, <<NoLabels, "version" :> "v1">>),
                           Rule("edge", Short, <<"version" :> "v1">>),
                           Rule("edge", <<"*", "default">>, <<"version" :> "v1">>)},
     virtualservices |-> {Route("default", {Short}, {Outside}),
                          Route("edge", {Short, InDefault}, {}),
                          Route("edge", {<< >>}, {Full})},
     gateways |-> {[ns |-> "edge", name |-> "gateway", selector |-> AppV("v1")],
                   [ns |-> "edge", name |-> "gateway", selector |-> NoLabels]},
     serviceentries |-> {[ns |-> "edge", name |-> "entry", hosts |-> {<<"*", "com">>}],
                         [ns |-> "edge", name |-> "entry", hosts |-> {Outside, <<"*", "example">>}]}]

\* A cluster where little is wrong, one where much is, and an empty one.
At(ns, objects) == {x \in objects : x.ns = ns}
SomeClusters ==
    {[services |-> {Svc("reviews", App)},
      pods |-> {Pod("default", AppV("v1"), "Running", <<Initialized, Ready("True")>>)},
      destinationrules |-> {r \in SomeObjects.destinationrules :
                              r.host = Full \/ r.ns = "default"},
      virtualservices |-> At("default", SomeObjects.virtualservices),
      gateways |-> {g \in SomeObjects.gateways : g.selector /= NoLabels},
      serviceentries |-> {e \in SomeObjects.serviceentries : Outside \in e.hosts}],
     [services |-> {Svc("reviews", "app" :> "ratings")},
      pods |-> At("edge", SomeObjects.pods),
      destinationrules |-> {r \in SomeObjects.destinationrules : r.ns = "edge" /\ r.host = Short},
      virtualservices |-> {v \in SomeObjects.virtualservices : InDefault \in v.http},
      gateways |-> {},
      serviceentries |-> {e \in SomeObjects.serviceentries : Outside \notin e.hosts}],
     [k \in Kind |-> {}]}
=============================================================================
