----------------------------- MODULE Reporting -----------------------------
(***************************************************************************)
(* From a scan to the server's open incidents, for one cluster: the scan   *)
(* loop (internal/agent/engine.go), the reporter with its backlog of       *)
(* undelivered findings (internal/agent/reporter.go), and what a delivered *)
(* batch does to the open incidents of the cluster (Ingest in              *)
(* internal/server/store.go, modelled in full by Store).                   *)
(*                                                                         *)
(* Scan and post alternate in one goroutine.  What is concurrent is the    *)
(* cluster, and a request the agent gave up on while the server had it.    *)
(***************************************************************************)
EXTENDS Naturals, Sequences, FiniteSets, SequencesExt

CONSTANTS Fingerprints,   \* problems a scan can find
          Analyzers,      \* the analyzer set
          AnalyzerOf,     \* which analyzer finds each problem
          FaultKinds,     \* which faults may happen
          MaxFaults,      \* bound on their number
          MaxChanges,     \* bound on the problems that come and go
          MaxBuffer       \* maxBuffer (10000 in the code)

AllFaults == {"analyzer", "request", "timeout", "answer", "crash"}

ASSUME ReportingAssumption ==
    /\ IsFiniteSet(Fingerprints)
    /\ AnalyzerOf \in [Fingerprints -> Analyzers]
    /\ FaultKinds \subseteq AllFaults
    /\ MaxFaults \in Nat
    /\ MaxChanges \in Nat
    /\ MaxBuffer \in Nat \ {0}

VARIABLES problems,   \* what is wrong in the cluster
          pending,    \* Reporter.pending
          stage,      \* where scanOnce is
          batch,      \* the batch being posted
          late,       \* batches given up on that the server still has
          open,       \* the cluster's open incidents on the server
          found,      \* auxiliary: what the last scan found
          unsent,     \* auxiliary: found and in no batch the server ingested
          spilled,    \* auxiliary: the backlog overflowed or died with the agent
          changes, faults

agent == <<pending, stage, batch>>
ghosts == <<found, unsent, spilled>>
vars == <<problems, agent, late, open, ghosts, changes, faults>>

Stages == {"idle", "post", "answer"}

Init ==
    /\ problems \in SUBSET Fingerprints
    /\ pending = << >> /\ stage = "idle" /\ batch = << >>
    /\ late = {}
    /\ open = {}
    /\ found = {} /\ unsent = {} /\ spilled = FALSE
    /\ changes = 0 /\ faults = 0

Fault(kind) ==
    /\ kind \in FaultKinds
    /\ faults < MaxFaults
    /\ faults' = faults + 1

\* A problem is made or repaired in the cluster.
Change(fp) ==
    /\ changes < MaxChanges
    /\ changes' = changes + 1
    /\ problems' = IF fp \in problems THEN problems \ {fp} ELSE problems \cup {fp}
    /\ UNCHANGED <<agent, late, open, ghosts, faults>>

-----------------------------------------------------------------------------
\* Findings of the analyzers that returned no error.
Findings(failing) == {fp \in problems : AnalyzerOf[fp] \notin failing}

\* What Report posts: the backlog and then what this scan found.
Batches(findings) == {pending \o order : order \in SetToSeqs(findings)}

\* Slip: there is nothing to report when there is nothing to send.
ScanUnlessClean(failing) ==
    /\ stage = "idle"
    /\ IF failing = {} THEN UNCHANGED faults ELSE Fault("analyzer")
    /\ found' = Findings(failing)
    /\ batch' \in Batches(found')
    /\ stage' = IF batch' = << >> THEN "idle" ELSE "post"
    /\ unsent' = unsent \cup found'
    /\ UNCHANGED <<problems, pending, late, open, spilled, changes>>

\* scanOnce up to the request; a failed snapshot ends it with nothing done.
Scan(failing) ==
    /\ stage = "idle"
    /\ IF failing = {} THEN UNCHANGED faults ELSE Fault("analyzer")
    /\ found' = Findings(failing)
    /\ batch' \in Batches(found')
    /\ stage' = "post"
    /\ unsent' = unsent \cup found'
    /\ UNCHANGED <<problems, pending, late, open, spilled, changes>>

\* Ingest opens what a batch mentions and resolves the rest of the cluster's
\* incidents.
Ingest(b) ==
    /\ open' = ToSet(b)
    /\ unsent' = unsent \ ToSet(b)

Deliver ==
    /\ stage = "post"
    /\ Ingest(batch)
    /\ stage' = "answer"
    /\ UNCHANGED <<problems, pending, batch, late, found, spilled, changes, faults>>

\* 200: the backlog is gone.
Answered ==
    /\ stage = "answer"
    /\ pending' = << >> /\ batch' = << >> /\ stage' = "idle"
    /\ UNCHANGED <<problems, late, open, ghosts, changes, faults>>

\* Slip: the oldest are kept.
KeepOldest(b) ==
    IF Len(b) > MaxBuffer THEN SubSeq(b, 1, MaxBuffer) ELSE b

KeepNewest(b) ==
    IF Len(b) > MaxBuffer THEN SubSeq(b, Len(b) - MaxBuffer + 1, Len(b)) ELSE b

\* Slip: what was in the backlog is kept, the findings of this scan are not.
BufferBacklogOnly ==
    /\ pending' = KeepNewest(pending) /\ batch' = << >> /\ stage' = "idle"
    /\ spilled' = (spilled \/ Len(batch) > MaxBuffer)

\* The error path of Report.
Buffer ==
    /\ pending' = KeepNewest(batch) /\ batch' = << >> /\ stage' = "idle"
    /\ spilled' = (spilled \/ Len(batch) > MaxBuffer)

\* No connection, or an answer that is not 200.
RequestLost ==
    /\ stage = "post"
    /\ Fault("request")
    /\ Buffer
    /\ UNCHANGED <<problems, late, open, found, unsent, changes>>

\* The client's timeout ends the call before the server has ingested the
\* batch, which its handler goes on to do: Ingest does not look at the request
\* context.
TimedOut ==
    /\ stage = "post"
    /\ Fault("timeout")
    /\ Buffer
    /\ late' = late \cup {batch}
    /\ UNCHANGED <<problems, open, found, unsent, changes>>

\* The batch was ingested and the answer did not arrive.
AnswerLost ==
    /\ stage = "answer"
    /\ Fault("answer")
    /\ Buffer
    /\ UNCHANGED <<problems, late, open, found, unsent, changes>>

\* The server gets to a batch the agent gave up on, whatever it ingested since.
IngestLate(b) ==
    /\ b \in late
    /\ Ingest(b)
    /\ late' = late \ {b}
    /\ UNCHANGED <<problems, agent, found, spilled, changes, faults>>

\* The agent dies: the backlog was in memory.  The request it was waiting for
\* may still be processed.
Crash ==
    /\ Fault("crash")
    /\ pending' = << >> /\ batch' = << >> /\ stage' = "idle"
    /\ \/ stage = "post" /\ late' = late \cup {batch}
       \/ UNCHANGED late
    /\ spilled' = TRUE
    /\ UNCHANGED <<problems, open, found, unsent, changes>>

-----------------------------------------------------------------------------
Next ==
    \/ \E fp \in Fingerprints : Change(fp)
    \/ \E failing \in SUBSET Analyzers : Scan(failing)
    \/ Deliver \/ Answered
    \/ RequestLost \/ TimedOut \/ AnswerLost
    \/ \E b \in late : IngestLate(b)
    \/ Crash

Spec == Init /\ [][Next]_vars

\* The ticker keeps firing and the request ends, by an answer or by the
\* client's timeout of 15 seconds (reporter.go:32), the faults being bounded.
Fairness == WF_vars(Scan({})) /\ WF_vars(Deliver) /\ WF_vars(Answered)

FairSpec == Spec /\ Fairness

-----------------------------------------------------------------------------
(* Properties *)

\* Type invariant: nothing is in flight between two scans (reporter.go, Report).
TypeOK ==
    /\ problems \subseteq Fingerprints
    /\ pending \in Seq(Fingerprints)
    /\ stage \in Stages
    /\ batch \in Seq(Fingerprints) /\ (stage = "idle" => batch = << >>)
    /\ \A b \in late : b \in Seq(Fingerprints)
    /\ open \subseteq Fingerprints
    /\ found \subseteq Fingerprints
    /\ unsent \subseteq Fingerprints
    /\ spilled \in BOOLEAN
    /\ changes \in 0 .. MaxChanges
    /\ faults \in 0 .. MaxFaults

\* However long the server is away and however often the cap is hit, the
\* backlog never exceeds it and holds everything the last scan found, if the cap
\* has room for one scan (reporter.go, maxBuffer).
BacklogHoldsLastScan ==
    /\ Len(pending) <= MaxBuffer
    /\ stage = "idle" /\ pending /= << >> /\ Cardinality(found) <= MaxBuffer
         => found \subseteq ToSet(pending)

\* What was found and has reached no server is in the backlog or in the batch
\* being posted: with a request, an answer or both lost, in whatever order, a
\* finding is dropped only when the backlog overflows or the agent dies
\* (reporter.go: "the batch is buffered and retried on the next report").
UnsentIsHeld ==
    ~spilled => unsent \subseteq ToSet(pending) \cup ToSet(batch)

\* Once the cluster stops changing and calls stop failing, the open incidents
\* are the problems of the cluster: duplicated, late and overtaking batches,
\* findings of problems since repaired, failing analyzers and restarts of the
\* agent leave nothing behind (engine.go, scanOnce; reporter.go, Report).
OpenFollowsProblems == <>[](open = problems)

\* What a scan found reaches the server, even a problem that was gone by the
\* time the server was back, unless the backlog overflowed or the agent died
\* (reporter.go: "the batch is buffered and retried on the next report").
FoundReachesServer ==
    \A fp \in Fingerprints :
        fp \in unsent ~> (fp \notin unsent \/ spilled)
=============================================================================
