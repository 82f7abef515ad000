------------------------------- MODULE Store -------------------------------
(***************************************************************************)
(* talam-server: the history store (internal/server/store.go), the HTTP    *)
(* handlers that mutate it (internal/server/http.go) and the orchestrator  *)
(* goroutines that run the explain and propose calls against it            *)
(* (internal/server/orchestrator.go, internal/server/llm/provider.go).     *)
(*                                                                         *)
(* Every Store method holds the one mutex for its whole body, so a method  *)
(* is one action.  What interleaves is what happens between two method     *)
(* calls of a goroutine: MCP and LLM round trips during which reports,     *)
(* decisions, other goroutines and a restart of the server may come in.    *)
(***************************************************************************)
EXTENDS Naturals, Sequences, FiniteSets, TLC, Functions

CONSTANTS Clusters,        \* cluster names an agent reports under
          Fingerprints,    \* analyzer|resource|cluster hashes (mesh.Finding)
          ClusterOf,       \* the cluster inside each fingerprint
          Versions,        \* resourceVersions a finding's evidence may carry
          Evidence,        \* what one batch may hold for one fingerprint
          Workers,         \* orchestrator goroutines, a bound on concurrency
          None,            \* no incident
          MaxFindings,     \* maxFindingsPerIncident (20 in the code)
          MaxSeq,          \* bound on the identifiers minted
          MaxCrashes,      \* bound on the restarts of the server
          PersistMayFail   \* whether writing the store file can fail

ASSUME StoreAssumption ==
    /\ IsFiniteSet(Fingerprints)
    /\ ClusterOf \in [Fingerprints -> Clusters]
    /\ Evidence \subseteq Seq(Versions)
    /\ << >> \notin Evidence
    /\ MaxFindings \in Nat \ {0}
    /\ MaxSeq \in Nat
    /\ MaxCrashes \in Nat
    /\ None \notin Nat
    /\ PersistMayFail \in BOOLEAN

VARIABLES incidents,   \* Store.Incidents: incident records by identifier
          proposals,   \* Store.Proposals: proposal records by identifier
          seq,         \* Store.seq
          proposing,   \* Store.proposing: incidents with a propose in flight
          disk,        \* the store file
          worker,      \* the orchestrator goroutines
          reported,    \* auxiliary: what each cluster last reported
          crashes      \* restarts so far

storeVars == <<incidents, proposals, seq, proposing, disk>>
vars == <<storeVars, worker, reported, crashes>>

-----------------------------------------------------------------------------
(* Identifiers are minted as prefix-unixtime-seq.  Only seq is kept: all    *)
(* identifiers are taken to be minted within one second, the case in which  *)
(* seq alone keeps them apart.                                              *)
Ids == 1 .. MaxSeq

ProposalStates == {"Pending", "Approved", "Rejected", "Applied", "Failed"}
Replaceable == {"Rejected", "Failed"}

IncidentRecord ==
    [fp : Fingerprints, state : {"Open", "Resolved"},
     findings : Seq(Versions),
     explained : {"none", "ok", "error"}]

\* "newest" is auxiliary: the resourceVersion in the newest finding the
\* propose call was given, to compare with the pin the code derives.
ProposalRecord ==
    [incident : Ids, state : ProposalStates, pin : Versions, newest : Versions]

\* A Go map from identifiers to records.
IsTable(f, Records) == DOMAIN f \subseteq Ids /\ f \in [DOMAIN f -> Records]
Put(table, id, record) ==
    [x \in DOMAIN table \cup {id} |-> IF x = id THEN record ELSE table[x]]

IsStored(incs, props) ==
    /\ IsTable(incs, IncidentRecord)
    /\ \A i \in DOMAIN incs : Len(incs[i].findings) \in 1 .. MaxFindings
    /\ IsTable(props, ProposalRecord)

\* A goroutine: the incidents of its batch still to process, the one being
\* processed, and the copy of its findings that GetIncident returned.
Stages == {"rest", "enrich", "explain", "reserve", "fetch", "reenrich",
           "propose", "release"}
SlotStages == {"fetch", "reenrich", "propose", "release"}
WorkerRecord ==
    [stage : Stages, todo : SUBSET Ids, cur : Ids \cup {None},
     copy : Seq(Versions)]
IdleWorker == [stage |-> "rest", todo |-> {}, cur |-> None, copy |-> << >>]
Free(w) == worker[w] = IdleWorker

-----------------------------------------------------------------------------
\* NewStore on a path where no file exists yet.
Init ==
    /\ incidents = << >>
    /\ proposals = << >>
    /\ seq = 0
    /\ proposing = {}
    /\ disk = [incidents |-> << >>, proposals |-> << >>]
    /\ worker = [w \in Workers |-> IdleWorker]
    /\ reported = [c \in Clusters |-> {}]
    /\ crashes = 0

\* persistLocked, last step of every mutating method: the file is written
\* aside and renamed, so it is replaced whole or, when a step fails, kept;
\* the failure is not reported to anybody.
Persist ==
    \/ disk' = [incidents |-> incidents', proposals |-> proposals']
    \/ PersistMayFail /\ UNCHANGED disk

\* Slip: one finding too many is kept.
KeepLastOneMore(s) ==
    IF Len(s) > MaxFindings + 1
    THEN SubSeq(s, Len(s) - MaxFindings, Len(s)) ELSE s

KeepLast(s) ==
    IF Len(s) > MaxFindings THEN SubSeq(s, Len(s) - MaxFindings + 1, Len(s))
                            ELSE s

\* Slip: only open incidents are searched.
KnownOpen ==
    {incidents[i].fp : i \in {j \in DOMAIN incidents : incidents[j].state = "Open"}}

\* findByFingerprintLocked: open and resolved incidents alike.
Known == {incidents[i].fp : i \in DOMAIN incidents}

\* Slip: a report resolves what other clusters have open.
CorrelatedAnyCluster(inc, c, batch) ==
    IF inc.fp \in DOMAIN batch
    THEN [inc EXCEPT !.state = "Open",
                     !.findings = KeepLast(@ \o batch[inc.fp])]
    ELSE [inc EXCEPT !.state = "Resolved"]

\* What Ingest makes of an incident that exists: its findings of the batch
\* are appended and it is open (again), or, when the batch of its cluster
\* does not mention it, it has cleared.
Correlated(inc, c, batch) ==
    IF inc.fp \in DOMAIN batch
    THEN [inc EXCEPT !.state = "Open",
                     !.findings = KeepLast(@ \o batch[inc.fp])]
    ELSE [inc EXCEPT !.state = IF ClusterOf[inc.fp] = c THEN "Resolved" ELSE @]

Opened(fp, findings) ==
    [fp |-> fp, state |-> "Open", findings |-> KeepLast(findings),
     explained |-> "none"]

\* A reported incident that had been resolved is handed to the orchestrator
\* again, as a new one is.
Reopened(batch) ==
    {i \in DOMAIN incidents :
        incidents[i].state = "Resolved" /\ incidents[i].fp \in DOMAIN batch}

\* go Orchestrator.Handle(newIncidents), unless there are none.
StartOrchestrator(ids) ==
    IF ids = {}
    THEN UNCHANGED worker
    ELSE \E w \in Workers :
            /\ Free(w)
            /\ worker' = [worker EXCEPT ![w].todo = ids]

\* POST /v1/findings from cluster c: correlate, open, reopen and resolve,
\* persist, answer, then start the orchestrator.  The batch maps each
\* reported fingerprint to its findings, oldest first; several are there
\* when the reporter flushes a backlog.
Ingest(c, batch) ==
    LET created == DOMAIN batch \ Known
        minted  == (seq + 1) .. (seq + Cardinality(created))
    IN  /\ seq + Cardinality(created) <= MaxSeq
        /\ \E fpOf \in Injection(minted, created) :
             incidents' =
               [i \in DOMAIN incidents \cup minted |->
                  IF i \in minted THEN Opened(fpOf[i], batch[fpOf[i]])
                  ELSE Correlated(incidents[i], c, batch)]
        /\ seq' = seq + Cardinality(created)
        /\ reported' = [reported EXCEPT ![c] = DOMAIN batch]
        /\ StartOrchestrator(minted \cup Reopened(batch))
        /\ UNCHANGED <<proposals, proposing, crashes>>
        /\ Persist

Batches(c) ==
    UNION { [fps -> Evidence] :
            fps \in SUBSET {fp \in Fingerprints : ClusterOf[fp] = c} }

Report == \E c \in Clusters : \E batch \in Batches(c) : Ingest(c, batch)

-----------------------------------------------------------------------------
(* Orchestrator.process, one action per store call and per round trip.     *)

At(w, stage) == worker[w].stage = stage
Goto(w, stage) == worker' = [worker EXCEPT ![w].stage = stage]

\* The goroutine is done with the current incident of its batch.
Leave(w) ==
    worker' = [worker EXCEPT
                 ![w] = [IdleWorker EXCEPT !.todo = worker[w].todo]]

\* Handle takes the next incident of the batch.
Begin(w) ==
    /\ At(w, "rest")
    /\ \E i \in worker[w].todo :
         worker' = [worker EXCEPT ![w].stage = "enrich", ![w].cur = i,
                                  ![w].todo = @ \ {i}]
    /\ UNCHANGED <<storeVars, reported, crashes>>

\* Enrich returns: a failed MCP call is skipped, a call with no answer keeps
\* the goroutine here.
Enrich(w) ==
    /\ \/ At(w, "enrich") /\ Goto(w, "explain")
       \/ At(w, "reenrich") /\ Goto(w, "propose")
    /\ UNCHANGED <<storeVars, reported, crashes>>

\* SetExplanation overwrites whatever an earlier goroutine left.
SetExplanation(i, result) ==
    /\ incidents' = [incidents EXCEPT ![i].explained = result]
    /\ UNCHANGED <<proposals, seq, proposing>>
    /\ Persist

ExplainSucceeds(w) ==
    /\ At(w, "explain")
    /\ SetExplanation(worker[w].cur, "ok")
    /\ Goto(w, "reserve")
    /\ UNCHANGED <<reported, crashes>>

\* Slip: the error is logged and not recorded.
ExplainFailsSilently(w) ==
    /\ At(w, "explain")
    /\ Leave(w)
    /\ UNCHANGED <<storeVars, reported, crashes>>

ExplainFails(w) ==
    /\ At(w, "explain")
    /\ SetExplanation(worker[w].cur, "error")
    /\ Leave(w)
    /\ UNCHANGED <<reported, crashes>>

\* Slip: a decided proposal no longer counts.
HasPendingProposal(i) ==
    \E p \in DOMAIN proposals :
        proposals[p].incident = i /\ proposals[p].state = "Pending"

\* hasProposalForIncidentLocked
HasProposal(i) ==
    \E p \in DOMAIN proposals :
        proposals[p].incident = i /\ proposals[p].state \notin Replaceable

\* Slip: the check without the in-flight mark.
ReserveUnlocked(w) ==
    /\ At(w, "reserve")
    /\ ~HasProposal(worker[w].cur)
    /\ proposing' = proposing \cup {worker[w].cur}
    /\ Goto(w, "fetch")
    /\ UNCHANGED <<incidents, proposals, seq, disk, reported, crashes>>

Reserve(w) ==
    LET i == worker[w].cur
    IN  /\ At(w, "reserve")
        /\ i \notin proposing
        /\ ~HasProposal(i)
        /\ proposing' = proposing \cup {i}
        /\ Goto(w, "fetch")
        /\ UNCHANGED <<incidents, proposals, seq, disk, reported, crashes>>

ReserveRefused(w) ==
    LET i == worker[w].cur
    IN  /\ At(w, "reserve")
        /\ i \in proposing \/ HasProposal(i)
        /\ Leave(w)
        /\ UNCHANGED <<storeVars, reported, crashes>>

\* GetIncident: always found, the store deletes no incident.
Fetch(w) ==
    /\ At(w, "fetch")
    /\ worker' = [worker EXCEPT ![w].stage = "reenrich",
                                ![w].copy = incidents[worker[w].cur].findings]
    /\ UNCHANGED <<storeVars, reported, crashes>>

\* targetResourceVersion: the first finding about the target, and all the
\* findings of an incident are about the same resource.
TargetResourceVersion(findings) == Head(findings)

\* AddProposal with what Propose returned.
AddProposal(w) ==
    /\ At(w, "propose")
    /\ seq < MaxSeq
    /\ seq' = seq + 1
    /\ proposals' =
         Put(proposals, seq',
             [incident |-> worker[w].cur, state |-> "Pending",
              pin |-> TargetResourceVersion(worker[w].copy),
              newest |-> worker[w].copy[Len(worker[w].copy)]])
    /\ Goto(w, "release")
    /\ UNCHANGED <<incidents, proposing, reported, crashes>>
    /\ Persist

\* Slip: the error path returns without releasing the slot.
ProposeFailsKeepingSlot(w) ==
    /\ At(w, "propose")
    /\ Leave(w)
    /\ UNCHANGED <<storeVars, reported, crashes>>

\* The call failed, the answer did not pass validation, or the model declined
\* (ErrNoPatch).
ProposeFails(w) ==
    /\ At(w, "propose")
    /\ Goto(w, "release")
    /\ UNCHANGED <<storeVars, reported, crashes>>

\* The deferred ReleaseProposalSlot.
Release(w) ==
    /\ At(w, "release")
    /\ proposing' = proposing \ {worker[w].cur}
    /\ Leave(w)
    /\ UNCHANGED <<incidents, proposals, seq, disk, reported, crashes>>

-----------------------------------------------------------------------------
(* Calls from people and agents.  A call the store refuses changes nothing *)
(* and is a stuttering step.                                               *)

SetProposalState(p, state) ==
    /\ proposals' = [proposals EXCEPT ![p].state = state]
    /\ UNCHANGED <<incidents, seq, proposing, worker, reported, crashes>>
    /\ Persist

\* Slip: a second decision overrides the first.
DecideAgain(p, approve) ==
    /\ proposals[p].state \in {"Pending", "Approved", "Rejected"}
    /\ SetProposalState(p, IF approve THEN "Approved" ELSE "Rejected")

\* POST /v1/proposals/{id}/decision
Decide(p, approve) ==
    /\ proposals[p].state = "Pending"
    /\ SetProposalState(p, IF approve THEN "Approved" ELSE "Rejected")

\* POST /v1/proposals/{id}/outcome.  Reporting the recorded outcome again is
\* accepted and changes nothing.
RecordOutcome(p, success) ==
    /\ proposals[p].state = "Approved"
    /\ SetProposalState(p, IF success THEN "Applied" ELSE "Failed")

\* Slip: the sequence starts over after a reload.
RestartFromZero ==
    /\ crashes < MaxCrashes
    /\ crashes' = crashes + 1
    /\ incidents' = disk.incidents
    /\ proposals' = disk.proposals
    /\ seq' = 0
    /\ proposing' = {}
    /\ worker' = [w \in Workers |-> IdleWorker]
    /\ UNCHANGED <<disk, reported>>

\* The process dies and NewStore loads the file; goroutines and proposing
\* are gone.  A death between a mutation and its persistLocked, which no
\* caller got an answer to, is a death before the mutation.
Restart ==
    /\ crashes < MaxCrashes
    /\ crashes' = crashes + 1
    /\ incidents' = disk.incidents
    /\ proposals' = disk.proposals
    /\ seq' = Cardinality(DOMAIN disk.incidents)
              + Cardinality(DOMAIN disk.proposals)
    /\ proposing' = {}
    /\ worker' = [w \in Workers |-> IdleWorker]
    /\ UNCHANGED <<disk, reported>>

-----------------------------------------------------------------------------
\* Every step of a goroutine but the MCP calls.
Advance(w) ==
    \/ Begin(w)
    \/ ExplainSucceeds(w) \/ ExplainFails(w)
    \/ Reserve(w) \/ ReserveRefused(w) \/ Fetch(w)
    \/ AddProposal(w) \/ ProposeFails(w) \/ Release(w)

Next ==
    \/ Report
    \/ \E w \in Workers : Advance(w) \/ Enrich(w)
    \/ \E p \in DOMAIN proposals, answer \in BOOLEAN :
          Decide(p, answer) \/ RecordOutcome(p, answer)
    \/ Restart

Spec == Init /\ [][Next]_vars

\* A goroutine is scheduled, and a provider call ends: every provider gives
\* its request a deadline (anthropic.go:30, openai.go:29, claudecli.go:27).
GoroutineFairness == \A w \in Workers : WF_vars(Advance(w))

\* An MCP call has no deadline: that it ends is an assumption on the MCP
\* servers.
McpFairness == \A w \in Workers : WF_vars(Enrich(w))

FairSpec == Spec /\ GoroutineFairness /\ McpFairness

-----------------------------------------------------------------------------
(* Properties *)

TypeOK ==
    /\ IsStored(incidents, proposals)
    /\ seq \in 0 .. MaxSeq
    /\ proposing \subseteq Ids
    /\ disk = [incidents |-> disk.incidents, proposals |-> disk.proposals]
    /\ IsStored(disk.incidents, disk.proposals)
    /\ worker \in [Workers -> WorkerRecord]
    /\ reported \in [Clusters -> SUBSET Fingerprints]
    /\ crashes \in 0 .. MaxCrashes

Partitioned(incs, props, n) ==
    /\ DOMAIN incs \cup DOMAIN props = 1 .. n
    /\ DOMAIN incs \cap DOMAIN props = {}

OneStanding(props) ==
    \A p, q \in DOMAIN props :
        /\ props[p].incident = props[q].incident
        /\ props[p].state \notin Replaceable
        /\ props[q].state \notin Replaceable
        => p = q

\* An incident never has two proposals that stand for it (Pending, Approved
\* or Applied), whatever goroutines, decisions, outcomes and restarts do
\* while a propose call is in flight (store.go:187-208).
OneStandingProposal == OneStanding(proposals)

HoldsSlot(w, i) == worker[w].stage \in SlotStages /\ worker[w].cur = i

\* The in-flight marks are exactly the incidents goroutines are proposing
\* for, each held by one goroutine: no mark is leaked on any return path of
\* process, and no two goroutines pass the reservation (orchestrator.go:43).
SlotsMatchWorkers ==
    \A i \in Ids :
        /\ i \in proposing <=> \E w \in Workers : HoldsSlot(w, i)
        /\ \A v, w \in Workers : HoldsSlot(v, i) /\ HoldsSlot(w, i) => v = w

\* A problem keeps one incident across scans, recurrences and restarts: no
\* two incidents share a fingerprint (store.go:136).
OneIncidentPerFingerprint ==
    \A i, j \in DOMAIN incidents :
        incidents[i].fp = incidents[j].fp => i = j

\* The identifiers in the store are 1..seq, each of one incident or one
\* proposal: the sequence NewStore resumes from never mints one again, so no
\* record is overwritten (store.go:58-60, 78-81).
IdentifiersPartitioned == Partitioned(incidents, proposals, seq)

\* With a disk that accepts writes the file is never behind the memory, so a
\* restart loses nothing that was answered for: the open incidents of every
\* cluster are those its agent reported last, before and after a restart,
\* and no other cluster's report touches them (store.go:83-87).
OpenAsLastReported ==
    \A c \in Clusters :
        {incidents[i].fp : i \in {j \in DOMAIN incidents :
             ClusterOf[incidents[j].fp] = c /\ incidents[j].state = "Open"}}
        = reported[c]

\* A proposal never moves back and never skips the decision: what a person
\* decided and what an agent reported stays, across restarts too, as long as
\* the file can be written (store.go:211-265, pkg/api/types.go:64-66).
ProposalsFollowLifecycle ==
    [][\A p \in DOMAIN proposals :
         /\ p \in DOMAIN proposals'
         /\ LET s == proposals[p].state
                t == proposals'[p].state
            IN  \/ t = s
                \/ s = "Pending" /\ t \in {"Approved", "Rejected"}
                \/ s = "Approved" /\ t \in {"Applied", "Failed"}]_vars

\* The store implements the lifecycle talam promises.
Lifecycle ==
    INSTANCE ProposalLifecycle WITH
        Proposals <- Ids, Incidents <- Ids, NoIncident <- None,
        phase <- [p \in Ids |-> IF p \in DOMAIN proposals
                                THEN proposals[p].state ELSE "Absent"],
        about <- [p \in Ids |-> IF p \in DOMAIN proposals
                                THEN proposals[p].incident ELSE None]

ImplementsLifecycle == Lifecycle!LifecycleSpec

\* Incident i waits for the explain call of goroutine w.
ToExplain(w, i) ==
    \/ i \in worker[w].todo
    \/ worker[w].cur = i /\ worker[w].stage \in {"enrich", "explain"}

\* Incidents without an explanation, or the error that takes its place, which
\* nobody is about to give one.
Forgotten ==
    {i \in DOMAIN incidents :
        incidents[i].explained = "none" /\ \A w \in Workers : ~ToExplain(w, i)}

\* Only a restart loses sight of an incident that was opened and not yet
\* explained: however reports, goroutines, failing calls and failing writes
\* come in between, before a restart and after it, some goroutine has it in
\* its batch until an explanation or the error is recorded (http.go:57-63,
\* orchestrator.go:26-41).
OnlyRestartsForget == [][crashes' = crashes => Forgotten' \subseteq Forgotten]_vars

\* A propose call in flight ends: no goroutine keeps an incident's slot for
\* ever (orchestrator.go:49).
SlotsReleased == \A i \in Ids : i \in proposing ~> i \notin proposing

\* Every incident a report opens gets an explanation or the error that took
\* its place (orchestrator.go:32-40, enrich.go:58-63).
OpenedGetExplained ==
    \A i \in Ids :
        i \in DOMAIN incidents ~>
            i \in DOMAIN incidents /\ incidents[i].explained /= "none"

\* A proposal is pinned to the resourceVersion of the newest evidence the
\* model computed the patch from (pkg/api/types.go:93-95).
PinnedToNewestEvidence ==
    \A p \in DOMAIN proposals : proposals[p].pin = proposals[p].newest
=============================================================================
