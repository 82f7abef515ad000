# A TLA+ model of talam

talam diagnoses Istio meshes: an agent in every cluster scans for
misconfiguration and reports findings, a server correlates them into incidents,
has an LLM explain them and propose a patch, a human approves or rejects the
patch, and the agent applies what was approved and reports the outcome. This
directory models the parts of it that keep state and interleave, checks them
with TLC on small instances, and proves the safety properties the runs check
with TLAPS, for any number of goroutines, agents, objects and faults.

## 1. The system

### Components, their state and their operations

| Component (source) | State it keeps | Operations | What makes it correct |
|---|---|---|---|
| History store (`internal/server/store.go`) | incidents, proposals, `seq`, `proposing`; a JSON file | `Ingest`, `SetExplanation`, `ReserveProposalSlot`, `AddProposal`, `ReleaseProposalSlot`, `Decide`, `RecordOutcome`, load | one incident per problem, one standing proposal per incident, no transition taken back, identifiers never reused |
| HTTP API (`internal/server/http.go`, `cmd/talam-server`) | none | report, decision, outcome, listings | a report starts one orchestrator goroutine for what it opened |
| LLM orchestration (`internal/server/orchestrator.go`, `llm/provider.go`) | one goroutine per report, a copy of the findings | explain, then propose | every opened incident is explained or gets the error; slots are released; the pin belongs to the evidence |
| MCP enrichment (`internal/server/enrich`) | none | a few tool calls per incident | best effort, never in the way of an explanation |
| MCP registry and client (`internal/server/mcp`) | sessions by toolset, what each was opened with | refresh, lookup, close | no session is leaked, none taken away before its replacement is there |
| LLM binding resolver (`internal/server/llm/binding.go`) | the current provider, a two-word interface value without a lock | refresh, lookup | an invalid binding keeps the provider that worked; a lookup gets a provider |
| LLM providers (`anthropic.go`, `openai.go`, `claudecli.go`) | none | one request with a deadline | |
| Scan engine and reporter (`internal/agent/engine.go`, `reporter.go`) | the backlog of findings that were not delivered | scan, post, buffer | what is open on the server follows what the cluster has |
| Analyzers, collector (`internal/analyzers/istio`, `internal/collect/istio`) | none; a snapshot during a scan | one List per kind, then pure functions of the snapshot | a scan finds what is wrong with one cluster there was |
| CRD sync (`internal/agent/crdsync.go`) | none of its own; writes MeshIncident and MeshResolution objects | fetch, upsert incident, upsert resolution | only an approved proposal triggers; performed objects are left alone |
| Resolution reconciler, applier (`resolutionreconciler.go`, `applier.go`) | none of its own; writes MeshResolution status and the targets | list, apply once, report until acknowledged | one patch per version of a target, the server learns the true outcome |
| Incident reconciler (`incidentreconciler.go`) | none of its own; writes MeshIncident status | roll up the resolutions of an incident | `complete` and the references follow the resolutions |
| Operator (`internal/operator`) | none of its own | service account, four RBAC objects, Deployment, status | nothing foreign is overwritten; a failed step is taken up again |
| Mesh MCP server (`internal/meshmcp`), `talamctl` | none | read-only tools; a client of the HTTP API | |

### How they interact

- Agent to server: `POST /v1/findings` (Reporter), `GET /v1/incidents`,
  `GET /v1/proposals` (CRDSync), `POST /v1/proposals/{id}/outcome` (Applier).
- People to server: `POST /v1/proposals/{id}/decision`; people to cluster:
  edits of Istio resources, `kubectl patch` of `spec.triggered`, `kubectl delete`.
- Inside the agent nothing is shared in memory between the scan loop, the sync
  loop and the two reconcilers; they meet in the custom resources of the
  cluster, one API call at a time.
- Inside the server, the HTTP handlers and the orchestrator goroutines share the
  store under one mutex that is held for a method and not across methods.

### What is hard

Interleavings of goroutines around LLM calls that take minutes; a restart of the
server between two store calls; an agent that dies between an effect in the
cluster and the record of it; answers that get lost after the request was
processed; two loops that write one object on the strength of an older read; two
agents during a rolling update; a snapshot put together from Lists at different
moments; a pointer read twice without a lock; liveness with calls that have no
deadline. The `hazards` of `PROJECT.json` list them at their lines.

## 2. Modules and plan

| Module | What it is | Checked by | Proved about in |
|---|---|---|---|
| `ProposalLifecycle` | abstract: what is promised about proposals, without locks, goroutines, files | as a property of `Store` | `StoreProofs` |
| `Store` | history store, mutating HTTP handlers, orchestrator goroutines, store file | `store_*` | `StoreProofs` |
| `RemediationLifecycle` | abstract: what is promised about a proposal and the cluster, without loops, objects, retries, crashes; extends `ProposalLifecycle` | as a property of `Remediation` | `RemediationProofs` |
| `Remediation` | CRD sync of proposals, resolution reconciler, applier, the outcome on the server | `rem_*` | `RemediationProofs` |
| `Reporting` | scan loop, reporter with backlog, what a batch does to open incidents | `reporting` | `ReportingProofs` |
| `IncidentRollup` | CRD sync of incidents, incident reconciler, the roll-up on the server | `rollup` | `RollupProofs` |
| `Registry` | MCP registry: refresh, lookups, sessions | `registry` | `RegistryProofs` |
| `Operator` | reconciliation of MeshDiagnostics: RBAC, Deployment, health | `operator` | `OperatorProofs` |
| `Binding` | LLM binding resolver: refresh, the two words of the provider, lookups | `binding`, `binding_race` | `BindingProofs` |
| `Analyzers` | helpers and the three analyzers as functions, and what each is meant to find | through `Scanning` | `ScanningProofs` |
| `Scanning` | a scan: the collector's Lists in a cluster that changes, then the analyzers | `scanning` | `ScanningProofs` |
| `MC*` | one per module: the values of its constants for TLC | | |

`Scanning` extends `Analyzers`; `Store` instantiates `ProposalLifecycle`,
`Remediation` its extension `RemediationLifecycle`. `Store`
and `Remediation` meet in the proposal: the one has the server's side in full
and takes agents as callers of `RecordOutcome`; the other has the agent's side
call by call and keeps of the server the state of each proposal. What each
implements is put together in `RemediationProofs` (section 6). `Scanning` and
`Reporting` meet in the findings of a scan, `Reporting` and `Store` in `Ingest`,
`IncidentRollup` and `Remediation` in the `performed` flag, `Registry`, `Binding`
and `Store` in the calls of an orchestrator goroutine, which `Store` takes as
calls that end one way or another.

What is left to do, in this order:

1. `Registry` and `Binding` joined with `Store`: what an orchestrator goroutine
   gets of them between two of its steps.
2. `Close` of the MCP registry at the end of the process and `status.ready`.

## 3. How the modules correspond to the code

Shared conventions. A handler or method that runs under one lock, or one call to
the Kubernetes API, is one action. A Go map is a function whose domain is its
set of keys. Definitions commented "Slip" are not part of any specification:
each is the neighbouring definition with one plausible mistake in it, which some
property is shown to catch (`PROJECT.json`, `mutants`). A call that is refused
and changes nothing is a stuttering step and has no action.

**Store.** `incidents`, `proposals`, `seq` and `proposing` are the fields of
`Store` (`store.go:21-47`), `disk` is the file. `Ingest` is the method of that
name with the goroutine its handler starts (`http.go:42-65`); a batch maps each
fingerprint to a sequence of findings, of which only the `resourceVersion` of
the evidence is kept. `Persist` ends every mutation and, with `PersistMayFail`,
may leave the file as it was, since `persistLocked` reports its errors to
nobody. A goroutine is a `worker`: `todo` is the rest of its batch, `stage` the
place in `Orchestrator.process`: `enrich`, `explain`, `reserve`, `fetch`,
`reenrich`, `propose`, `release`, each left by one action per possible answer.
`Restart` loses goroutines and `proposing`, loads the file, and counts `seq`
anew as `NewStore` does. `Decide` and `RecordOutcome` are called by anyone at
any time. `reported` is auxiliary: what each cluster reported last.

**Remediation.** `server` and `pin` are state and `targetResourceVersion` of
the proposals, `live` the resourceVersion of the targets, `resolution` the
MeshResolution objects with the four fields two loops share
(`spec.triggered`, `status.phase`, `.performed`, `.outcomeReported`). `syncer`
is `CRDSync.syncOnce` between its GET and its patches: `SyncGet` reads the object
once and `SyncCreate`, `SyncPatchSpec`, `SyncPatchPhase` write by what was read.
`reconciler` is `ResolutionReconciler.reconcileOnce`: the list, then per object
`dryrun`, `patch`, `report`, `record`. `Fault` kinds: the agent dies (`crash`), a
Kubernetes call fails (`apiError`), the patch gets through but its answer does
not (`patchAckLost`), the report does not arrive (`reportLost`), the report is
processed and its answer lost (`ackLost`). `KubectlTrigger` is the escape hatch
of setting `spec.triggered` by hand, `Edit` any other writer of the target.
`applied` is an auxiliary count of how often a patch changed its target, `byHand`
the proposals for which the escape hatch was used.

**RemediationLifecycle.** What is left of all that when one asks what talam
promises: a proposal is raised, decided and concluded as in `ProposalLifecycle`;
`Change` needs an approval or the escape hatch, and no other proposal that was
made from the same version and changed its target; `Conclude` writes Applied only
after the change; `Acknowledge` needs an outcome on the server. `Withdraw` is
what two agents in a rolling update can do: the one whose report is refused
writes `outcomeReported` back to false. `Promise` is the refinement mapping:
`changed` are the proposals with `applied > 0`, `reported` those whose object says
`outcomeReported`, `madeFrom` target and pin, and every proposal is taken for that
of an incident of its own, since `Remediation` knows nothing of incidents.

**Reporting.** `pending` is the reporter's backlog, a sequence whose order
decides what the cap cuts. `Scan` takes a set of analyzers that fail and builds
the batch; `Deliver`, `Answered`, `RequestLost`, `TimedOut` and `AnswerLost` are
what can become of the request. `late` holds batches the agent gave up on and
the server ingests later. `found`, `unsent` and `spilled` are auxiliary.

**IncidentRollup.** `incident` and `proposal` are the server's records,
`mirror` the MeshIncident objects, `performed` the flag of every MeshResolution
that exists. The sync loop goes Get, Create or Update, status patch; `fresh` says
whether the resourceVersion of its Get is still the present one, so that the
Update is a conflict otherwise. The reconciler makes two lists (`ListIncidents`,
`ListResolutions`) and then patches each incident by them (`ReconcileOne`),
skipping those that look up to date. `ServerComplete` is `withCompleteLocked`.
`Perform` sets the flag whatever the server says of the proposal, since the object
may have been triggered by hand; `RecordOutcome` is the report, which the server
takes of an approved proposal only. `Authorizing` are the states in which the sync
loop triggers.

**Registry.** `clients` and `conns` are the two maps, `next` and `nextConns`
those a refresh builds, `session` what sessions are open and with what they were
opened. `List` starts a refresh; for the objects in list order one of
`PassOver`, `Keep`, `ConnectFails`, `Connect`; `Swap` ends it. `Change` edits
objects and Secrets at any moment.

**Operator.** `mesh` are the MeshDiagnostics objects, `rbac` the state of each of
the five objects of `ensureRBAC` (`absent`, `wanted`, `drifted`: edited but still
labelled, `foreign`), `deployment` the Deployment with its template, replicas and
status. `op` is the place in `reconcileOne`: the copy of the listed spec, the
kind at hand, what a Get returned. `CreateOnly` makes what is only created and
ignores that it exists, `GetRole` and `WriteRole` are `applyRole` and
`applyClusterRole` (refusal of the unlabelled, conflict of the overtaken),
`GetDeployment` and `WriteDeployment` `ensureDeployment`, `GetMesh` and
`SaveStatus` `updateStatus`. A call fails, or gets through while its answer is
lost, or the process restarts. People apply, edit, unlabel and delete any of the
objects; `PodsChange` and `Rollout` are the Deployment controller.
`NoDeploymentAssumption` says that the value for "no Deployment" is not one.

**Binding.** `current` is `BindingResolver.current` as its two words. `GetBinding`
reads the ModelBinding, `BuildProvider` the Secret and makes the provider as
`build` and `secretKey` do, and `Store(word)` stores one word; a refresh whose
binding is gone stores nil, one that fails (`RefreshFails`, or nothing to build)
stores nothing. A lookup tests the type (`Test`) and
then loads the words again, one `Load` each, as `Current` does with its two
reads. Order of words and interleaving are choices: the build may produce any.
`gone` and the three `since` are auxiliary: what binding and Secret have been since
a refresh began, kept for the refresh under way, for the last one that was over,
and, from there on, for every lookup; `Described` is what a refresh may make of
such a history.

**Analyzers and Scanning.** A host is the sequence of its parts, so that
`parseHost` and the wildcards of ServiceEntries are about parts and not
characters; labels are functions, and `Label` reads `Empty` for a key that is
not there, as Go does. `DanglingHost`, `OrphanedSubset` and `UnboundGateway`
translate the three `Analyze` methods; `Problems` says of the objects themselves
what should be found. `List` is the next of the six Lists of `Snapshot`, with
what it makes of pods (`PodReady`) and routes (`RouteView`); `ListFails` ends the
scan; `Analyze` is the rest of `scanOnce`. `began` and `moves` are auxiliary: the
cluster at the start of the scan and whether it changed once or more since.

## 4. Runs, bounds and what they show

TLC 2 checks every run in at most a few minutes with two workers.

| Run | Question | Bounds |
|---|---|---|
| `store_safety` | Do slots, identifiers, incidents and proposals stay consistent across goroutines and a restart, is the lifecycle implemented, and is no incident forgotten but by a restart? | two clusters with a problem each, two goroutines, three identifiers, one restart, a disk that accepts writes |
| `store_live` | Are slots released and opened incidents explained, even if no write succeeds? | one problem, two goroutines, three identifiers, no restart |
| `store_pin` | Is the pin that of the newest evidence? (no) | findings about two versions |
| `rem_faults` | Is an approved target changed once, by approval only, is Applied true, is what is performed final and reported, and is all of this what `RemediationLifecycle` promises? | one agent, one proposal, any two faults of the five kinds, two versions by other writers, the escape hatch |
| `rem_history_wrong` | Does the server's history agree with the cluster? (no) | one lost report |
| `reporting` | Is nothing dropped but by the cap or a crash, does what is open settle on what is wrong, and does what was found arrive? | two problems of two analyzers, two changes, two faults, a backlog of two |
| `rollup` | Do mirror, references and completeness settle, and agree with the server but for what was performed without an approval? | one incident with two proposals, performed on approval or by hand, two changes, one failed call or deletion |
| `registry` | Is no session leaked or taken away early, and is what is registered served in the end? | two MCPServers, two toolsets, two tokens, five sessions, four changes, one failing call |
| `operator` | Are foreign roles left alone, and do agents and their health settle on what the objects ask for? | two MeshDiagnostics, two images of which one never gets ready, three changes, one fault |
| `binding` | Is a resolved provider kept until its binding is deleted, does a lookup get, whole, one that was described since the last refresh before it, and does what is served follow the binding? | two keys, one model, every kind of binding, three changes, one fault, one lookup |
| `binding_race` | Does a lookup always get a provider? (no) | two changes, no fault |
| `scanning` | Does a scan during which one object changes find what is wrong with one cluster, and do findings settle? | up to four objects of each of six kinds, three clusters to start from, two changes, one failing List |

The largest are `operator` with 1.1 million distinct states and `rollup` with
940,000, each one to two minutes; `binding` has 430,000, and the others have
between a few thousand and some 70,000.

Why these bounds are enough to be of interest. The hazards of the store need two
goroutines for one incident (an incident that resolves and reopens while a
propose call is in flight gives the second) and identifiers of both kinds around
one restart: with three identifiers there are runs with an incident and two
proposals and runs with two incidents and a proposal. `MaxSeq` stops a run from
minting more, so the goroutine of an `AddProposal` that would exceed it takes
`ProposeFails` instead. `MaxFindings` is 1 or 2 rather than 20, so that the cut
happens. The hazards of the remediation loops need one proposal, an object two
loops write, two target versions, and one fault or two; whether two proposals
for one target can both get through is what `EachVersionPatchedOnce` says, which
the run has for one proposal and the proof for any number. A backlog of two with
two problems overflows as soon as one scan fails and another adds to it.
`IncidentRollup` needs two resolutions of one incident for the comparison by
number to be wrong. Four changes are enough for `Registry` to register two
objects under one toolset, rename one and rotate a token; during a refresh there
are at most two sessions per toolset, so with five a free one is always left.
In `Operator` three changes make an object, put a foreign role in the way
between a Get and an Update, and change the spec meanwhile; a second object shows
that a blocked one does not stop the round. `Binding` needs three changes to make
a binding, make it invalid and delete it, or to make it, rotate its key and change
its model around a lookup, which a refresh overlaps word by word. In `Scanning` two changes are one more
than the property tolerates; the objects include short, qualified and full host
names, a wildcard, destinations without a host, a pod whose Ready condition is
not the first, and a gateway without a selector. Symmetry is used only for
interchangeable goroutines, and only in runs without liveness.

`CHECK_DEADLOCK` stays on everywhere: no model can stop, because scans, syncs,
reports, refreshes and reconciliations go on for ever.

What a reader should not take from the runs: the fault budgets make every
"settles" property a statement about the time after the last fault; nothing is
said of a cluster in which calls fail for ever. What they settle on is a place
that is not left, which section 6 proves without any budget. Where a hazard needs two agents
(a rolling update), the run has one and the proofs of section 6 have any number;
the same invariants, run with two agents and one fault, were not violated in the
part of that state space TLC got through.

## 5. Fairness

Weak fairness is asked of loops that tick and of calls that are bound to end,
never of people, of reports that come and go, or of faults.

- Orchestrator goroutines (`GoroutineFairness`): the provider calls have
  deadlines (`anthropic.go:30`, `openai.go:29`, `claudecli.go:27`), store methods
  do not block on anything but the mutex.
- MCP calls (`McpFairness`, and the refresh of `Registry`): nothing in the code
  gives them a deadline. It is an assumption on the MCP servers, and a formula of
  its own: without it `OpenedGetExplained` fails (section 7).
- The loops of the agent (`Remediation`, `IncidentRollup`): tickers, and an HTTP
  client with a timeout (`cmd/talam-agent/main.go:52`); a call that times out is
  one of the faults.
- The scan loop (`Reporting`): the ticker and the timeout of 15 seconds
  (`reporter.go:32`); fairness is asked of the scan in which no analyzer fails.
- The refresh of `Binding`, the round of `Operator`, the scan of `Scanning`:
  tickers (`binding.go:59-67`, `reconciler.go:45-53`, `engine.go:33-42`) and calls
  the API server answers, with success or not. `Rollout` in `Operator` is the
  Deployment controller, which keeps at its work. Lookups are not fair: nobody
  has to call.
- `Remediate` in `IncidentRollup`: what is approved is performed and reported,
  which `ApprovedEventuallySettled` and `PerformedEventuallyReported` check in
  `Remediation`. What nobody approved may be performed, by hand, or never.

Strong fairness is used nowhere.

## 6. Proofs

Proved for every value of the constants that meets the named assumption of each
module (`StoreAssumption`, `RemediationAssumption`, ...: types and finiteness of
the constants, that `None` is none of the values it stands beside, and for
`RegistryAssumption` that there are more sessions than two maps can hold). TLC
evaluates the assumptions in every run. Every safety property of the passing runs
is proved: each invariant, and each action property. The three properties that
hold only where the store file can be written say so with the hypothesis
`PersistMayFail = FALSE`.

`StoreProofs`

- `TypeInv` is `TypeOK` together with the partition of the identifiers, of the
  memory and of the file, and with what each stage of a goroutine holds. The
  type alone is not inductive: that a goroutine's incident exists is needed to
  type its update, and that the file's identifiers are `1..n` is needed to see
  that the count `NewStore` resumes from is right. `RecordCount` does the
  counting: two disjoint tables that fill `1..n` have `n` records.
- From it: `TypeCorrect`, `IdentifiersNeverReused`.
- `SlotInv` says that of each incident one proposal at most stands, in memory and
  in the file, that marks and goroutines agree, and that while a goroutine is
  past its reservation no proposal stands for its incident. The last part is what
  makes it inductive: `AddProposal` itself checks nothing.
- From it: `StandingProposalUnique`, `SlotsExclusive`. Both hold with
  `PersistMayFail` and any number of restarts.
- `FingerprintInv` says that fingerprints are unique in memory and in the file,
  which may be behind; a report mints identifiers injectively for what is not
  known (`IngestOpens`). From it: `IncidentPerFingerprint`.
- `OpenInv` adds to `OpenAsLastReported` that the file is not behind; a report
  settles what is open in its own cluster and leaves the others alone. From it:
  `OpenIsReported`, with a file that can be written.
- `NoneForgottenButByRestart` needs no more than `TypeInv`: what a batch opens is
  in its goroutine's `todo`, and no stage before the explanation is left without
  one, or the error in its place. The restart is the one step exempted, and the
  hazard it is (section 7). It holds with `PersistMayFail`.
- `FileCurrent`: the file holds the proposals of the memory. With it a restart is
  a stuttering step of `ProposalLifecycle`, an `AddProposal` a `Raise` (by
  `SlotInv`), a decision or an outcome a `Move`, and everything else stutters
  (`ProposalSteps`). From it: `LifecycleFollowed` and the refinement,
  `StoreImplementsLifecycle`.

`RemediationProofs`

- `StepProgresses`: no step takes back that a proposal was raised, its pin, that
  it is authorized, or a change of its target. With it, everything a loop once
  read stays good enough for what it writes later, whatever the other loops,
  agents and people did since.
- `IInv` is `TypeOK`, `EachVersionPatchedOnce` and `Backed`: whatever triggered
  an object, or was read or planned by a loop, is backed by the server being past
  the approval (without the escape hatch), and whatever says "applied", on the
  server, in an object or in a loop, by a target that was changed. The
  safety properties alone are not inductive, since they say nothing of what the
  loops have in hand.
- From it: `TypeCorrect`, `PatchedOnce`, `ApprovalNeeded`, `AppliedIsTrue`,
  `PerformedStays`, `PerformedNotApplied`, for any number of agents, proposals
  and faults. A rolling update, with two agents at work at once, is one case.
- `PInv` adds `ReportsBacked`: an object that says reported, and a loop that is
  about to write so, is backed by an outcome on the server; a retry comes to its
  status patch only acknowledged. With it each action is a step of the promise
  (`ProposePromised`, `DecidePromised`, `TriggerPromised`, `PatchPromised`,
  `ReportPromised`, `RecordPromised`) or stutters (`OthersQuiet`). From it:
  `KeepsPromise`, the refinement.
- Composition: `FollowsLifecycle` has the agents' view of the proposals follow
  `ProposalLifecycle`. `StoreAndAgents` takes a table that says of each proposal
  which incident it is about and that follows `ProposalLifecycle` with these
  incidents, which is what `StoreImplementsLifecycle` shows of the store, and
  concludes that agents and store keep the promise with the incidents in it. So
  `ChangedOncePerIncident`: of the proposals of one incident that nobody triggered
  by hand, a second one changes its target only if the server has a failure of
  one of them. The two modules are joined by their abstract specifications; the
  server in `Remediation` takes any set of proposals, and that of `Store` any
  caller.
- `FinishedStaysFinished`: an outcome on the server, an object that says triggered,
  performed and reported, and no loop that is in the middle of it with anything
  else (`Finished`) stay so with every further step, and outcome, object and
  target are not written for it again. The sync loop does patch the object, every
  minute; `SyncsWhatIs` says that it patches in what is there.

`ReportingProofs`. `BatchEndsWithScan`, that a batch under way ends with what the
last scan found, makes `BacklogHoldsLastScan` inductive: the batch is what the
backlog is cut from when the post fails, and the cut takes from the front. Hence
`TypeCorrect` and `BacklogIsRecent`, for any cap. `HeldInv` says in addition that
until the answer the batch has the whole backlog in it, and that once it was
ingested nothing is left to send: hence `NothingDropped`. `SettledStaysSettled`:
when found, open, backlog and every late batch are of the problems there are,
further scans and posts, in whatever order they arrive, change nothing.

`RollupProofs`. The flags a reconciler listed may be old. `ListsStillHold` says
that, as long as nothing is deleted, what was performed when it was listed still
is; with the types of the tables the loops carry, this is the strengthening
under which `CompleteMeansPerformed` is inductive. Hence `TypeCorrect` and
`CompleteIsTrue`, for any number of agents. `RollupStaysSettled` and
`MirrorStaysSettled` say that an object which shows what it should is rewritten
to itself, as long as its own resolutions, or its incident, stay as they are.

`RegistryProofs`. `InUse` says that every open session is in one of the two maps,
once, and that a served one that is closed was replaced under its toolset by an
object the refresh is done with; `KeptForSame` that a session in both maps is
there for the same object; `NextIsDone` that the new map is of objects done with.
Without the last two, an object registered under a second toolset could close
what was just kept. `FreshExists` counts sessions: two maps do not use up the
pool. Hence `TypeCorrect`, `NoneLeaked`, `NoneClosedEarly`. `SettledStaysSettled`:
the objects of a refresh are taken in the order of the list, so that the last of a
toolset, for which it is served, is still to come or was kept; an earlier one is
connected anew in every refresh and closed again when the last is come to. When
nothing changes or fails, the swap exchanges the maps for equal ones.

`OperatorProofs`. `CopyIsOurs`: while a copy from a Get is not overtaken, the
object still has the label the Get saw, because whoever writes the object
overtakes the copy. Hence `TypeCorrect` and `ForeignStays`. `SettledStaysSettled`
and `HealthStays`: permissions, Deployment and status that are as an object asks
(`AsAsked`, `Hale`) stay so through every step that does not touch that object,
its permissions or its Deployment (`NotTouching`), which the steps for other
objects, failing calls, restarts and rollouts do not.

`BindingProofs`. `StoredSoFar` relates the words of `current` to those of the
value being stored, `NoneUnlessDeleted` and `GivesUpDeleted` say when nil may be
stored. Hence `TypeCorrect` and `GivenUpWhenDeleted`. `DInv` follows each word on
its way: the histories contain what there is now and what a refresh has read
(`RefreshDescribed`), so each word of `current` is that of something described
since the last refresh that was over (`WordsDescribed`), perhaps not both of the
same, and so is each word a lookup has loaded (`LoadsDescribed`). The end of a
refresh shortens the history of `current` to its own; an edit lengthens all of
them, and more was described in a longer history (`DescribedGrows`). Where one kind
was described only, the type says nothing and the other word is a whole provider
(`OneKindIsWhole`): hence `LookupsAlwaysKeepUp`. While nobody edits
the binding or its Secret, a provider that is as asked is stored over itself
(`SettledStaysSettled`), and the race that `binding_race` shows then does no harm
(`LookupsStayInStep`).

`ScanningProofs`. `OfOneCluster`: with one change at most, the cluster of now and
that of the start differ in one kind at most, and what was listed shows one of
the two. Hence `TypeCorrect` and `SnapshotsAreOfOneCluster`. Of the analyzers,
`UnboundGatewaysRight` and `OrphanedSubsetsRight` rest on `MatchMeansCarries` and
`MergedMeansBoth`, `DanglingHostsRight` on what trimming, splitting and the
wildcards do to the parts of a host (`TrimmedIs`, `NamesAService`, `CoversIs`).
`FindingsRight` puts them together for every snapshot that is sound: no label
asks for an empty value, no subset contradicts the selector of its Service, no
host is a bare name followed by `.svc.cluster.local` (section 7 has what happens
otherwise). From this `ScansAreRight`, which is `FindsOneCluster` for any sound
objects, whatever is changed and however many Lists fail.

The theorems about what stays settled are the safety half of the liveness
properties: TLC checks that such a place is reached, with few faults, and the
theorem that it is not left, with any number. They hold for steps and not for
instances, and no run checks them separately.

The type invariants of `Operator`, `Scanning`, `Reporting`, `Registry` and
`Binding` are proved and not run: every run of these modules is about something
else.

Only model-checked: everything under fairness (`SlotsReleased`,
`OpenedGetExplained`, `ApprovedEventuallySettled`, `PerformedEventuallyReported`,
`OpenFollowsProblems`, `FoundReachesServer`, `RollupSettles`, `MirrorSettles`,
`CompletionAgrees`, `ServesWhatIsRegistered`, `Converges`, `HealthSettles`,
`ServesTheBinding`, `FindingsSettle`), which is out of reach of the prover.

## 7. Where the code and its documentation disagree

Shown by a run (`findings` in `PROJECT.json`):

- `store_pin`: the pin is the version in the oldest finding, not that of the
  evidence the patch was made from (`llm/provider.go:136`, `types.go:93-95`). An
  approved patch is then refused by the agent as stale.
- `rem_history_wrong`: a lost report whose object was set back to Approved by the
  sync loop is retried as a failure (`resolutionreconciler.go:124`).
- `binding_race`: a lookup that runs while a refresh stores gets neither a
  provider nor the fallback: `Current` tests and returns `r.current` in two reads,
  and nothing orders them with the store (`llm/binding.go:46-53`, `:80`, `:95`).

Seen while modelling, without a run of their own. About the server:

- An MCP server that accepts a call and never answers keeps the incident from
  being explained (`mcp/client.go:61`, `enrich.go:61-63`): without `McpFairness`,
  `OpenedGetExplained` fails.
- With a disk that refuses writes, a restart takes back decisions that were
  answered with 200 (`store.go:73`): `ProposalsFollowLifecycle` fails for
  `PersistMayFail = TRUE` and one restart.
- An incident that recurs after its proposal was Applied gets no new one
  (`store.go:180`): an applied proposal stands for ever, also in
  `ProposalLifecycle`.
- A report is refused with 409 on every tick, and `outcomeReported` never
  set: after the escape hatch on a proposal that is not approved
  (`store.go:257`); after a lost answer to the report followed by a clobbered
  phase; after a crash between report and record.
  `PerformedEventuallyReported` is checked without those.
- After the escape hatch on a proposal that is Pending or Rejected the two
  computations of completeness differ: the agent's counts what was performed
  (`incidentreconciler.go:70-77`), the server's waits for an outcome it has refused
  (`store.go:257`, `:298`), for good if nobody approves the proposal later. The
  MeshIncident is then complete and the incident of the dashboard is not, where
  `docs/concepts/object-model.md:114` has the server "independently computing the
  same `Complete` value the CR already has, so `kubectl` and the dashboard never
  disagree". `CompletionAgrees` exempts this case, and says that the server is never
  ahead and that nothing else keeps the two apart.
- While two agents overlap in a rolling update, the one whose report is refused
  sets `outcomeReported` of an object back to false after the other had set it
  (`resolutionreconciler.go:96-103`); `Withdraw` in `RemediationLifecycle`.
- An incident that waits for its explanation when the server restarts gets none
  until it resolves and recurs (`http.go:61`); `OnlyRestartsForget` says that
  nothing else has this effect.
- The backlog is posted together with the findings of a scan that found less, so
  problems that were repaired meanwhile open incidents, for one report
  (`reporter.go:37-43`).
- The registry keeps a session its server has dropped (`registry.go:130`), and,
  when two objects share a toolset, may close the session lookups still get until
  the swap that ends the refresh (`registry.go:133`). `ClosedOnlyWhenReplaced`
  says how far that goes.
- A deleted ModelBinding brings the fallback back (`llm/binding.go:73-82`), where
  the comment on `Current` has it "if no binding has ever resolved". The status
  of a ModelBinding is never written.

About the agent:

- An apply is started over when its status patch fails
  (`resolutionreconciler.go:107`, `:59-60`). The target is still patched once: the
  pin no longer matches. But the second attempt reports a failure.
- A snapshot is not the "point-in-time view" of `pkg/mesh/types.go:94`: with two
  changes during one scan it may be of a cluster there never was, and a finding
  may be about a problem that never existed. It clears with the next scan.
- Where a subset's labels contain a key of its Service's selector, they replace
  it (`orphaned_subset.go:39`), so that pods of another Service count as upstream
  although the comment above (`:34-36`) wants pods of the Service.
- A label asked to be empty is matched by a pod without it (`helpers.go`,
  `labelsMatch`). The one-part host `x.svc.cluster.local` is taken for Service
  `x` of the rule's namespace.

About the operator:

- A deleted MeshDiagnostics leaves its Deployment and permissions behind.
- An agent that is blocked by a foreign object, or whose endpoint was removed,
  keeps the `agentHealthy` of before, though `docs/components/operator/README.md:13`
  says that readiness is watched; `upgradePolicy` (`:14`) is not read.
- ClusterRoleBinding, RoleBinding and ServiceAccount are taken as they are, and
  the Deployment is updated without a look at its label; only Role and
  ClusterRole are refused when they are someone else's.

## 8. What is left out

Abstractions inside the modules:

- `Store`: identifiers without their unix time, as if all were minted within a
  second; timestamps, names, texts and the contents of patches; the findings of
  an incident are about one resource, which the fingerprint implies. `Handle`
  takes its batch in any order. A death between a mutation and its write is a
  death before the mutation.
- `Remediation`: a patch that gets through changes the target, so that its
  resourceVersion moves on; resourceVersions are numbers that only the order
  matters of. The spec update of an object and its conflict are in
  `IncidentRollup` only, resolutions being merge-patched. Nobody deletes a
  MeshResolution here. A patch in flight when the agent dies is a patch whose
  answer was lost, followed by the crash.
- `Reporting`: a problem yields one finding; one cluster. What the server makes
  of a batch beyond opening and resolving is `Store`'s.
- `IncidentRollup`: the remediation of a proposal is two steps (outcome on the
  server, flag in the cluster); explanations are not mirrored.
- `Registry`: `Close` at the end of the process, `status.ready`, the listing of
  tools; closed sessions are reused.
- `Operator`: an object is as wanted, drifted or foreign, and what a drift is made
  of is left out; of a Deployment the template's image and endpoint, replicas and
  readiness are kept. Two operators at once (no leader election) are left out.
- `Binding`: models and keys are values. A lookup ends with the return of
  `Current`; that the caller then uses the provider for the length of a call,
  though its binding may change, is what the code is meant to do.
- `Scanning`: three clusters to start from; metadata of objects beyond names,
  labels and hosts is left out, as is the evidence in a finding.

Not modelled: the LLM providers (one request each; `Store` has their answers),
the mesh MCP server (read-only tools), `talamctl` and the console (clients of the
HTTP API, whose calls are those of people in `Store`), flags and start-up of the
processes. None of them keeps state that a later step depends on; there is
nothing in them to interleave. Deployment manifests, charts and the generated
CRDs hold no behaviour.
