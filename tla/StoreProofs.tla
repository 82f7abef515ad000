---------------------------- MODULE StoreProofs ----------------------------
(***************************************************************************)
(* Proofs about Store, for every number of clusters, fingerprints and      *)
(* goroutines and every value of the bounds.                               *)
(***************************************************************************)
EXTENDS Store, TLAPS, FiniteSetTheorems, FunctionTheorems, SequenceTheorems

-----------------------------------------------------------------------------
(* Facts about the data the store is made of.                              *)

\* Truncating the finding history keeps between one and MaxFindings findings
\* (store.go:117-120).
LEMMA KeepLastType ==
    ASSUME NEW s \in Seq(Versions), Len(s) >= 1
    PROVE  /\ KeepLast(s) \in Seq(Versions)
           /\ Len(KeepLast(s)) \in 1 .. MaxFindings
<1>1. Len(s) \in Nat /\ MaxFindings \in Nat \ {0}
  BY StoreAssumption
<1>2. CASE Len(s) > MaxFindings
  <2> DEFINE m == Len(s) - MaxFindings + 1
  <2>1. m \in Int /\ m >= 1 /\ m <= Len(s)
    BY <1>1, <1>2
  <2>2. \A i \in m .. Len(s) : s[i] \in Versions
    BY <2>1, <1>1, ElementOfSeq
  <2>3. /\ SubSeq(s, m, Len(s)) \in Seq(Versions)
        /\ Len(SubSeq(s, m, Len(s))) = Len(s) - m + 1
    BY <2>1, <2>2, <1>1, SubSeqProperties
  <2>4. Len(s) - m + 1 = MaxFindings
    BY <1>1
  <2>5. QED
    BY <1>1, <1>2, <2>3, <2>4 DEF KeepLast
<1>3. CASE ~(Len(s) > MaxFindings)
  BY <1>1, <1>3 DEF KeepLast
<1>4. QED
  BY <1>2, <1>3

\* The number of records of a store is the last identifier it minted, which
\* is what NewStore resumes from (store.go:60).
LEMMA RecordCount ==
    ASSUME NEW A, NEW B, NEW n \in Nat, A \cup B = 1 .. n, A \cap B = {}
    PROVE  Cardinality(A) + Cardinality(B) = n
<1>1. IsFiniteSet(1 .. n) /\ Cardinality(1 .. n) = n
  BY FS_Interval
<1>2. IsFiniteSet(A) /\ IsFiniteSet(B)
  BY <1>1, FS_Subset
<1>3. Cardinality(A \cup B) = Cardinality(A) + Cardinality(B) - Cardinality({})
  BY <1>2, FS_Union
<1>4. Cardinality({}) = 0 /\ Cardinality(A) \in Nat /\ Cardinality(B) \in Nat
  BY <1>2, FS_EmptySet, FS_CardinalityType
<1>5. Cardinality(A \cup B) = n
  BY <1>1
<1>6. QED
  BY <1>3, <1>4, <1>5

-----------------------------------------------------------------------------
(* Type correctness.  Strengthened with what it rests on: identifiers are   *)
(* 1..seq in memory and on disk, and a goroutine works on incidents of the  *)
(* store.                                                                   *)

StoreTyped ==
    /\ IsStored(incidents, proposals)
    /\ seq \in 0 .. MaxSeq
    /\ IdentifiersPartitioned

DiskTyped ==
    /\ disk = [incidents |-> disk.incidents, proposals |-> disk.proposals]
    /\ IsStored(disk.incidents, disk.proposals)
    /\ \E n \in 0 .. MaxSeq : Partitioned(disk.incidents, disk.proposals, n)

WorkersTyped ==
    /\ worker \in [Workers -> WorkerRecord]
    /\ \A w \in Workers :
         /\ worker[w].todo \subseteq DOMAIN incidents
         /\ worker[w].stage /= "rest" => worker[w].cur \in DOMAIN incidents
         /\ worker[w].stage \in {"reenrich", "propose"}
              => worker[w].copy /= << >>

CountersTyped ==
    /\ proposing \subseteq Ids
    /\ reported \in [Clusters -> SUBSET Fingerprints]
    /\ crashes \in 0 .. MaxCrashes

TypeInv == StoreTyped /\ DiskTyped /\ WorkersTyped /\ CountersTyped

LEMMA InitTyped == Init => TypeInv
<1> SUFFICES ASSUME Init PROVE TypeInv
  OBVIOUS
<1> USE DEF Init
<1>1. DOMAIN << >> = {} /\ 1 .. 0 = {}
  OBVIOUS
<1>2. IsTable(<< >>, IncidentRecord) /\ IsTable(<< >>, ProposalRecord)
  BY <1>1 DEF IsTable
<1>3. IsStored(<< >>, << >>) /\ Partitioned(<< >>, << >>, 0)
  BY <1>1, <1>2 DEF IsStored, Partitioned
<1>4. StoreTyped
  BY <1>3, StoreAssumption DEF StoreTyped, IdentifiersPartitioned
<1>5. DiskTyped
  BY <1>3, StoreAssumption DEF DiskTyped
<1>6. WorkersTyped
  BY EmptySeq DEF WorkersTyped, WorkerRecord, IdleWorker, Stages
<1>7. CountersTyped
  BY StoreAssumption DEF CountersTyped
<1>8. QED
  BY <1>4, <1>5, <1>6, <1>7 DEF TypeInv

\* persistLocked keeps the file a store, whether or not the write succeeds.
LEMMA PersistTyped ==
    ASSUME StoreTyped', DiskTyped, Persist
    PROVE  DiskTyped'
<1>1. CASE disk' = [incidents |-> incidents', proposals |-> proposals']
  BY <1>1 DEF StoreTyped, DiskTyped, IdentifiersPartitioned
<1>2. CASE UNCHANGED disk
  BY <1>2 DEF DiskTyped
<1>3. QED
  BY <1>1, <1>2 DEF Persist

\* The goroutine moves that only change one record of worker.
LEMMA GotoTyped ==
    ASSUME TypeInv, NEW w \in Workers, NEW stage \in Stages, Goto(w, stage),
           stage /= "rest", worker[w].stage /= "rest",
           stage \in {"reenrich", "propose"} => worker[w].copy /= << >>,
           DOMAIN incidents' = DOMAIN incidents
    PROVE  WorkersTyped'
BY DEF TypeInv, WorkersTyped, WorkerRecord, Goto

LEMMA LeaveTyped ==
    ASSUME TypeInv, NEW w \in Workers, Leave(w),
           DOMAIN incidents' = DOMAIN incidents
    PROVE  WorkersTyped'
<1> DEFINE left == [stage |-> "rest", todo |-> worker[w].todo, cur |-> None,
                    copy |-> << >>]
<1>1. [IdleWorker EXCEPT !.todo = worker[w].todo] = left
  BY DEF IdleWorker
<1>2. left \in WorkerRecord
  BY EmptySeq DEF TypeInv, WorkersTyped, WorkerRecord, Stages
<1>3. worker' = [worker EXCEPT ![w] = left]
  BY <1>1 DEF Leave
<1>4. QED
  BY <1>2, <1>3 DEF TypeInv, WorkersTyped

\* A batch is a function from fingerprints to evidence.
LEMMA BatchType ==
    ASSUME NEW c, NEW batch \in Batches(c)
    PROVE  /\ DOMAIN batch \subseteq Fingerprints
           /\ \A fp \in DOMAIN batch :
                batch[fp] \in Seq(Versions) /\ Len(batch[fp]) >= 1
<1>1. PICK fps \in SUBSET Fingerprints : batch \in [fps -> Evidence]
  BY DEF Batches
<1>2. \A fp \in DOMAIN batch : batch[fp] \in Seq(Versions) /\ batch[fp] /= << >>
  BY <1>1, StoreAssumption
<1>3. QED
  BY <1>1, <1>2, EmptySeq

\* What a report makes of a known incident and of a new one is an incident.
LEMMA CorrelatedType ==
    ASSUME NEW c, NEW batch \in Batches(c), NEW inc \in IncidentRecord,
           Len(inc.findings) >= 1
    PROVE  /\ Correlated(inc, c, batch) \in IncidentRecord
           /\ Len(Correlated(inc, c, batch).findings) \in 1 .. MaxFindings
              \/ Correlated(inc, c, batch).findings = inc.findings
           /\ Correlated(inc, c, batch).fp = inc.fp
<1>1. CASE inc.fp \in DOMAIN batch
  <2> DEFINE s == inc.findings \o batch[inc.fp]
  <2>1. s \in Seq(Versions) /\ Len(s) >= 1
    BY <1>1, BatchType, ConcatProperties, LenProperties DEF IncidentRecord
  <2>2. KeepLast(s) \in Seq(Versions) /\ Len(KeepLast(s)) \in 1 .. MaxFindings
    BY <2>1, KeepLastType
  <2>3. Correlated(inc, c, batch)
          = [inc EXCEPT !.state = "Open", !.findings = KeepLast(s)]
    BY <1>1 DEF Correlated, IncidentRecord
  <2> HIDE DEF s
  <2>4. QED
    BY <2>2, <2>3 DEF IncidentRecord
<1>2. CASE inc.fp \notin DOMAIN batch
  BY <1>2 DEF Correlated, IncidentRecord
<1>3. QED
  BY <1>1, <1>2

LEMMA OpenedType ==
    ASSUME NEW fp \in Fingerprints, NEW s \in Seq(Versions), Len(s) >= 1
    PROVE  /\ Opened(fp, s) \in IncidentRecord
           /\ Len(Opened(fp, s).findings) \in 1 .. MaxFindings
BY KeepLastType DEF Opened, IncidentRecord

\* The identifiers a report mints are new and follow seq.
LEMMA MintedIds ==
    ASSUME StoreTyped, NEW c, NEW batch \in Batches(c)
    PROVE  LET created == DOMAIN batch \ Known
               n == Cardinality(created)
               minted == (seq + 1) .. (seq + n)
           IN  /\ n \in Nat
               /\ minted \cap (DOMAIN incidents \cup DOMAIN proposals) = {}
               /\ (1 .. seq) \cup minted = 1 .. (seq + n)
<1> DEFINE created == DOMAIN batch \ Known
           n == Cardinality(created)
<1>1. IsFiniteSet(created) /\ n \in Nat
  BY BatchType, FS_Subset, FS_CardinalityType, StoreAssumption
<1>2. seq \in Nat /\ DOMAIN incidents \cup DOMAIN proposals = 1 .. seq
  BY StoreAssumption DEF StoreTyped, IdentifiersPartitioned, Partitioned
<1> HIDE DEF n
<1>3. /\ ((seq + 1) .. (seq + n)) \cap (1 .. seq) = {}
      /\ (1 .. seq) \cup ((seq + 1) .. (seq + n)) = 1 .. (seq + n)
  BY <1>1, <1>2
<1>4. QED
  BY <1>1, <1>2, <1>3 DEF n

LEMMA IngestTyped ==
    ASSUME TypeInv, NEW c \in Clusters, NEW batch \in Batches(c),
           Ingest(c, batch)
    PROVE  TypeInv'
<1> DEFINE created == DOMAIN batch \ Known
           n == Cardinality(created)
           minted == (seq + 1) .. (seq + n)
<1>1. /\ n \in Nat
      /\ minted \cap (DOMAIN incidents \cup DOMAIN proposals) = {}
      /\ (1 .. seq) \cup minted = 1 .. (seq + n)
  BY MintedIds DEF TypeInv
<1>2. PICK fpOf \in Injection(minted, created) :
        incidents' =
          [i \in DOMAIN incidents \cup minted |->
             IF i \in minted THEN Opened(fpOf[i], batch[fpOf[i]])
             ELSE Correlated(incidents[i], c, batch)]
  BY DEF Ingest
<1>3. seq' = seq + n /\ seq' <= MaxSeq /\ proposals' = proposals
  BY DEF Ingest
<1>4. /\ UNCHANGED <<proposing, crashes>>
      /\ reported' = [reported EXCEPT ![c] = DOMAIN batch]
      /\ StartOrchestrator(minted \cup Reopened(batch))
      /\ Persist
  BY DEF Ingest
<1> HIDE DEF n
<1>5. /\ seq \in 0 .. MaxSeq
      /\ DOMAIN incidents \cup DOMAIN proposals = 1 .. seq
      /\ DOMAIN incidents \cap DOMAIN proposals = {}
      /\ IsStored(incidents, proposals)
  BY DEF TypeInv, StoreTyped, IdentifiersPartitioned, Partitioned
<1>6. seq' \in 0 .. MaxSeq /\ minted \subseteq Ids
  BY <1>1, <1>3, <1>5, StoreAssumption DEF Ids
<1>7. DOMAIN incidents' = DOMAIN incidents \cup minted
  BY <1>2
<1>8. \A i \in DOMAIN incidents' :
        /\ incidents'[i] \in IncidentRecord
        /\ Len(incidents'[i].findings) \in 1 .. MaxFindings
  <2> SUFFICES ASSUME NEW i \in DOMAIN incidents'
               PROVE  /\ incidents'[i] \in IncidentRecord
                      /\ Len(incidents'[i].findings) \in 1 .. MaxFindings
    OBVIOUS
  <2>1. CASE i \in minted
    <3>1. fpOf[i] \in created
      BY <1>2, <2>1 DEF Injection
    <3>2. /\ fpOf[i] \in Fingerprints
          /\ batch[fpOf[i]] \in Seq(Versions)
          /\ Len(batch[fpOf[i]]) >= 1
      BY <3>1, BatchType
    <3>3. incidents'[i] = Opened(fpOf[i], batch[fpOf[i]])
      BY <1>2, <2>1
    <3>4. QED
      BY <3>2, <3>3, OpenedType
  <2>2. CASE i \notin minted
    <3>1. i \in DOMAIN incidents /\ incidents'[i] = Correlated(incidents[i], c, batch)
      BY <1>2, <1>7, <2>2
    <3>2. /\ incidents[i] \in IncidentRecord
          /\ Len(incidents[i].findings) \in 1 .. MaxFindings
      BY <1>5, <3>1 DEF IsStored, IsTable
    <3>3. QED
      BY <3>1, <3>2, CorrelatedType, StoreAssumption
  <2>3. QED
    BY <2>1, <2>2
<1>9. IsStored(incidents', proposals')
  <2>1. DOMAIN incidents' \subseteq Ids
    BY <1>5, <1>6, <1>7 DEF IsStored, IsTable
  <2>2. incidents' \in [DOMAIN incidents' -> IncidentRecord]
    BY <1>2, <1>7, <1>8
  <2>3. QED
    BY <1>3, <1>5, <1>8, <2>1, <2>2 DEF IsStored, IsTable
<1>10. Partitioned(incidents', proposals', seq')
  BY <1>1, <1>3, <1>5, <1>7 DEF Partitioned
<1>11. StoreTyped'
  BY <1>6, <1>9, <1>10 DEF StoreTyped, IdentifiersPartitioned
<1>12. DiskTyped'
  BY <1>4, <1>11, PersistTyped DEF TypeInv
<1>13. WorkersTyped'
  <2> DEFINE ids == minted \cup Reopened(batch)
  <2>1. ids \subseteq DOMAIN incidents' /\ ids \subseteq Ids
    BY <1>5, <1>6, <1>7 DEF Reopened, IsStored, IsTable
  <2>2. CASE UNCHANGED worker
    BY <1>7, <2>2 DEF TypeInv, WorkersTyped
  <2>3. ASSUME NEW w \in Workers, Free(w),
               worker' = [worker EXCEPT ![w].todo = ids]
        PROVE  WorkersTyped'
    <3> DEFINE started == [IdleWorker EXCEPT !.todo = ids]
    <3>1. worker' = [worker EXCEPT ![w] = started]
      BY <2>3 DEF Free, IdleWorker
    <3>2. /\ started \in WorkerRecord
          /\ started.stage = "rest"
          /\ started.todo = ids
      BY <2>1, EmptySeq DEF WorkerRecord, IdleWorker, Stages
    <3> HIDE DEF started
    <3>3. QED
      BY <1>7, <2>1, <3>1, <3>2 DEF TypeInv, WorkersTyped
  <2> HIDE DEF ids
  <2>4. QED
    BY <1>4, <2>2, <2>3 DEF StartOrchestrator, ids
<1>14. CountersTyped'
  <2>1. DOMAIN batch \subseteq Fingerprints
    BY BatchType
  <2>2. QED
    BY <1>4, <2>1 DEF TypeInv, CountersTyped
<1>15. QED
  BY <1>11, <1>12, <1>13, <1>14 DEF TypeInv

\* Steps of a goroutine that leave the store and the counters alone.
LEMMA WorkerStepTyped ==
    ASSUME TypeInv, WorkersTyped', UNCHANGED <<storeVars, reported, crashes>>
    PROVE  TypeInv'
BY DEF TypeInv, StoreTyped, DiskTyped, CountersTyped, storeVars,
       IsStored, IsTable, IdentifiersPartitioned, Partitioned

LEMMA SetExplanationTyped ==
    ASSUME TypeInv, NEW i, NEW result \in {"ok", "error"},
           SetExplanation(i, result)
    PROVE  /\ StoreTyped' /\ DiskTyped'
           /\ DOMAIN incidents' = DOMAIN incidents
           /\ proposing' = proposing
<1>1. incidents' = [incidents EXCEPT ![i].explained = result]
  BY DEF SetExplanation
<1>2. UNCHANGED <<proposals, seq, proposing>> /\ Persist
  BY DEF SetExplanation
<1>3. IsStored(incidents, proposals)
  BY DEF TypeInv, StoreTyped
<1>4. /\ incidents' \in [DOMAIN incidents -> IncidentRecord]
      /\ \A j \in DOMAIN incidents :
           incidents'[j].findings = incidents[j].findings
  BY <1>1, <1>3 DEF IsStored, IsTable, IncidentRecord
<1>5. IsStored(incidents', proposals')
  BY <1>2, <1>3, <1>4 DEF IsStored, IsTable
<1>6. StoreTyped'
  BY <1>2, <1>4, <1>5 DEF TypeInv, StoreTyped, IdentifiersPartitioned, Partitioned
<1>7. QED
  BY <1>2, <1>4, <1>6, PersistTyped DEF TypeInv

LEMMA AddProposalTyped ==
    ASSUME TypeInv, NEW w \in Workers, AddProposal(w)
    PROVE  TypeInv'
<1> DEFINE cur == worker[w].cur
           copy == worker[w].copy
           new == [incident |-> cur, state |-> "Pending",
                   pin |-> Head(copy), newest |-> copy[Len(copy)]]
<1>1. /\ worker[w].stage = "propose"
      /\ seq < MaxSeq /\ seq' = seq + 1
      /\ proposals' = Put(proposals, seq', new)
      /\ Goto(w, "release")
      /\ UNCHANGED <<incidents, proposing, reported, crashes>>
      /\ Persist
  BY DEF AddProposal, At, TargetResourceVersion
<1>2. /\ seq \in 0 .. MaxSeq
      /\ DOMAIN incidents \cup DOMAIN proposals = 1 .. seq
      /\ DOMAIN incidents \cap DOMAIN proposals = {}
      /\ IsStored(incidents, proposals)
  BY DEF TypeInv, StoreTyped, IdentifiersPartitioned, Partitioned
<1>3. cur \in Ids /\ copy \in Seq(Versions) /\ copy /= << >>
  <2>1. worker[w] \in WorkerRecord /\ cur \in DOMAIN incidents /\ copy /= << >>
    BY <1>1 DEF TypeInv, WorkersTyped
  <2>2. QED
    BY <1>2, <2>1 DEF WorkerRecord, IsStored, IsTable
<1>4. new \in ProposalRecord
  <2>1. Head(copy) \in Versions
    BY <1>3, HeadTailProperties
  <2>2. copy[Len(copy)] \in Versions
    BY <1>3, EmptySeq, LenProperties, ElementOfSeq
  <2>3. QED
    BY <1>3, <2>1, <2>2 DEF ProposalRecord, ProposalStates
<1> HIDE DEF new
<1>5. /\ DOMAIN proposals' = DOMAIN proposals \cup {seq'}
      /\ \A p \in DOMAIN proposals' :
           proposals'[p] = IF p = seq' THEN new ELSE proposals[p]
  BY <1>1 DEF Put
<1>6. seq' \in Ids /\ seq' \in 0 .. MaxSeq
  BY <1>1, <1>2, StoreAssumption DEF Ids
<1>7. proposals' \in [DOMAIN proposals' -> ProposalRecord]
  <2>1. \A p \in DOMAIN proposals' : proposals'[p] \in ProposalRecord
    BY <1>2, <1>4, <1>5 DEF IsStored, IsTable
  <2>2. proposals' = [p \in DOMAIN proposals' |-> proposals'[p]]
    BY <1>1 DEF Put
  <2>3. QED
    BY <2>1, <2>2
<1>8. IsStored(incidents', proposals')
  BY <1>1, <1>2, <1>5, <1>6, <1>7 DEF IsStored, IsTable
<1>9. Partitioned(incidents', proposals', seq')
  <2>1. 1 .. seq' = (1 .. seq) \cup {seq'} /\ seq' \notin 1 .. seq
    BY <1>1, <1>2, StoreAssumption
  <2>2. QED
    BY <1>1, <1>2, <1>5, <2>1 DEF Partitioned
<1>10. StoreTyped' /\ DiskTyped'
  BY <1>1, <1>6, <1>8, <1>9, PersistTyped
     DEF TypeInv, StoreTyped, IdentifiersPartitioned
<1>11. WorkersTyped'
  BY <1>1, GotoTyped DEF Stages
<1>12. QED
  BY <1>1, <1>10, <1>11 DEF TypeInv, CountersTyped

LEMMA SetProposalStateTyped ==
    ASSUME TypeInv, NEW p \in DOMAIN proposals, NEW state \in ProposalStates,
           SetProposalState(p, state)
    PROVE  TypeInv'
<1>1. /\ proposals' = [proposals EXCEPT ![p].state = state]
      /\ UNCHANGED <<incidents, seq, proposing, worker, reported, crashes>>
      /\ Persist
  BY DEF SetProposalState
<1>2. IsStored(incidents, proposals)
  BY DEF TypeInv, StoreTyped
<1>3. proposals' \in [DOMAIN proposals -> ProposalRecord]
  BY <1>1, <1>2 DEF IsStored, IsTable, ProposalRecord
<1>4. IsStored(incidents', proposals')
  BY <1>1, <1>2, <1>3 DEF IsStored, IsTable
<1>5. StoreTyped'
  BY <1>1, <1>3, <1>4 DEF TypeInv, StoreTyped, IdentifiersPartitioned, Partitioned
<1>6. DiskTyped' /\ WorkersTyped' /\ CountersTyped'
  BY <1>1, <1>5, PersistTyped DEF TypeInv, WorkersTyped, CountersTyped
<1>7. QED
  BY <1>5, <1>6 DEF TypeInv

LEMMA RestartTyped ==
    ASSUME TypeInv, Restart
    PROVE  TypeInv'
<1>1. PICK m \in 0 .. MaxSeq : Partitioned(disk.incidents, disk.proposals, m)
  BY DEF TypeInv, DiskTyped
<1>2. seq' = m
  BY <1>1, RecordCount DEF Restart, Partitioned
<1>3. StoreTyped'
  BY <1>1, <1>2 DEF TypeInv, StoreTyped, DiskTyped, Restart, IdentifiersPartitioned
<1>4. DiskTyped'
  BY DEF TypeInv, DiskTyped, Restart
<1>5. WorkersTyped'
  BY EmptySeq DEF WorkersTyped, Restart, WorkerRecord, IdleWorker, Stages
<1>6. CountersTyped'
  BY StoreAssumption DEF TypeInv, CountersTyped, Restart
<1>7. QED
  BY <1>3, <1>4, <1>5, <1>6 DEF TypeInv

LEMMA AdvanceTyped ==
    ASSUME TypeInv, NEW w \in Workers, Advance(w) \/ Enrich(w)
    PROVE  TypeInv'
<1>1. CASE Begin(w)
  <2>1. PICK i \in worker[w].todo :
          worker' = [worker EXCEPT ![w].stage = "enrich", ![w].cur = i,
                                   ![w].todo = @ \ {i}]
    BY <1>1 DEF Begin
  <2>2. UNCHANGED <<storeVars, reported, crashes>>
    BY <1>1 DEF Begin
  <2> DEFINE begun == [stage |-> "enrich", cur |-> i,
                       todo |-> worker[w].todo \ {i}, copy |-> worker[w].copy]
  <2>3. worker[w] \in WorkerRecord /\ worker[w].todo \subseteq DOMAIN incidents
    BY DEF TypeInv, WorkersTyped
  <2>4. worker' = [worker EXCEPT ![w] = begun]
    BY <2>1, <2>3 DEF TypeInv, WorkersTyped, WorkerRecord
  <2>5. begun \in WorkerRecord
    BY <2>3 DEF WorkerRecord, Stages
  <2>6. WorkersTyped'
    BY <2>2, <2>3, <2>4, <2>5 DEF TypeInv, WorkersTyped, storeVars
  <2>7. QED
    BY <2>2, <2>6, WorkerStepTyped
<1>2. CASE Enrich(w)
  <2>1. WorkersTyped'
    BY <1>2, GotoTyped DEF Enrich, At, Stages, storeVars, TypeInv, WorkersTyped
  <2>2. QED
    BY <1>2, <2>1, WorkerStepTyped DEF Enrich
<1>3. CASE ExplainSucceeds(w)
  <2>1. StoreTyped' /\ DiskTyped' /\ DOMAIN incidents' = DOMAIN incidents
        /\ proposing' = proposing
    BY <1>3, SetExplanationTyped DEF ExplainSucceeds
  <2>2. WorkersTyped'
    BY <1>3, <2>1, GotoTyped DEF ExplainSucceeds, At, Stages
  <2>3. QED
    BY <1>3, <2>1, <2>2 DEF ExplainSucceeds, TypeInv, CountersTyped
<1>4. CASE ExplainFails(w)
  <2>1. StoreTyped' /\ DiskTyped' /\ DOMAIN incidents' = DOMAIN incidents
        /\ proposing' = proposing
    BY <1>4, SetExplanationTyped DEF ExplainFails
  <2>2. WorkersTyped'
    BY <1>4, <2>1, LeaveTyped DEF ExplainFails
  <2>3. QED
    BY <1>4, <2>1, <2>2 DEF ExplainFails, TypeInv, CountersTyped
<1>5. CASE Reserve(w)
  <2>1. /\ UNCHANGED <<incidents, proposals, seq, disk, reported, crashes>>
        /\ proposing' = proposing \cup {worker[w].cur}
        /\ At(w, "reserve") /\ Goto(w, "fetch")
    BY <1>5 DEF Reserve
  <2>2. WorkersTyped'
    BY <2>1, GotoTyped DEF At, Stages
  <2>3. worker[w].cur \in Ids
    BY <2>1 DEF At, TypeInv, WorkersTyped, StoreTyped, IsStored, IsTable
  <2>4. StoreTyped' /\ DiskTyped'
    BY <2>1 DEF TypeInv, StoreTyped, DiskTyped, IsStored, IsTable,
                IdentifiersPartitioned, Partitioned
  <2>5. QED
    BY <2>1, <2>2, <2>3, <2>4 DEF TypeInv, CountersTyped
<1>6. CASE ReserveRefused(w)
  <2>1. WorkersTyped'
    BY <1>6, LeaveTyped DEF ReserveRefused, storeVars
  <2>2. QED
    BY <1>6, <2>1, WorkerStepTyped DEF ReserveRefused
<1>7. CASE Fetch(w)
  <2>1. /\ worker[w] \in WorkerRecord /\ worker[w].cur \in DOMAIN incidents
        /\ worker[w].todo \subseteq DOMAIN incidents
    BY <1>7 DEF Fetch, At, TypeInv, WorkersTyped
  <2>2. PICK f \in Seq(Versions) :
          f = incidents[worker[w].cur].findings /\ f /= << >>
    BY <2>1, EmptySeq DEF TypeInv, StoreTyped, IsStored, IsTable, IncidentRecord
  <2>3. worker' = [worker EXCEPT ![w].stage = "reenrich", ![w].copy = f]
    BY <1>7, <2>2 DEF Fetch
  <2>4. worker \in [Workers -> WorkerRecord] /\ UNCHANGED incidents
    BY <1>7 DEF Fetch, storeVars, TypeInv, WorkersTyped
  <2>5. worker' \in [Workers -> WorkerRecord]
    BY <2>2, <2>3, <2>4 DEF WorkerRecord, Stages
  <2>6. WorkersTyped'
    BY <2>1, <2>2, <2>3, <2>4, <2>5 DEF TypeInv, WorkersTyped, WorkerRecord
  <2>7. QED
    BY <1>7, <2>6, WorkerStepTyped DEF Fetch
<1>8. CASE AddProposal(w)
  BY <1>8, AddProposalTyped
<1>9. CASE ProposeFails(w)
  <2>1. WorkersTyped'
    BY <1>9, GotoTyped DEF ProposeFails, At, Stages, storeVars
  <2>2. QED
    BY <1>9, <2>1, WorkerStepTyped DEF ProposeFails
<1>10. CASE Release(w)
  <2>1. /\ UNCHANGED <<incidents, proposals, seq, disk, reported, crashes>>
        /\ proposing' = proposing \ {worker[w].cur} /\ Leave(w)
    BY <1>10 DEF Release
  <2>2. WorkersTyped'
    BY <2>1, LeaveTyped
  <2>3. StoreTyped' /\ DiskTyped'
    BY <2>1 DEF TypeInv, StoreTyped, DiskTyped, IsStored, IsTable,
                IdentifiersPartitioned, Partitioned
  <2>4. QED
    BY <2>1, <2>2, <2>3 DEF TypeInv, CountersTyped
<1>11. QED
  BY <1>1, <1>2, <1>3, <1>4, <1>5, <1>6, <1>7, <1>8, <1>9, <1>10 DEF Advance

LEMMA TypeInvStep == TypeInv /\ [Next]_vars => TypeInv'
<1> SUFFICES ASSUME TypeInv, [Next]_vars PROVE TypeInv'
  OBVIOUS
<1>1. CASE Report
  BY <1>1, IngestTyped DEF Report
<1>2. ASSUME NEW w \in Workers, Advance(w) \/ Enrich(w) PROVE TypeInv'
  BY <1>2, AdvanceTyped
<1>3. ASSUME NEW p \in DOMAIN proposals, NEW answer \in BOOLEAN,
             Decide(p, answer) \/ RecordOutcome(p, answer)
      PROVE  TypeInv'
  <2>1. PICK state \in ProposalStates : SetProposalState(p, state)
    BY <1>3 DEF Decide, RecordOutcome, ProposalStates
  <2>2. QED
    BY <2>1, SetProposalStateTyped
<1>4. CASE Restart
  BY <1>4, RestartTyped
<1>5. CASE UNCHANGED vars
  BY <1>5 DEF vars, storeVars, TypeInv, StoreTyped, DiskTyped, WorkersTyped,
              CountersTyped, IsStored, IsTable, IdentifiersPartitioned, Partitioned
<1>6. QED
  BY <1>1, <1>2, <1>3, <1>4, <1>5 DEF Next

LEMMA TypeInvariant == Spec => []TypeInv
<1>1. Init => TypeInv
  BY InitTyped
<1>2. TypeInv /\ [Next]_vars => TypeInv'
  BY TypeInvStep
<1>3. QED
  BY <1>1, <1>2, PTL DEF Spec

\* Every reachable state is well typed: records, finding histories between
\* one and MaxFindings long, identifiers within the bound (store.go:25-62).
THEOREM TypeCorrect == Spec => []TypeOK
<1>1. TypeInv => TypeOK
  BY DEF TypeInv, TypeOK, StoreTyped, DiskTyped, WorkersTyped, CountersTyped
<1>2. QED
  BY <1>1, TypeInvariant, PTL

\* No identifier is minted twice into the store, across restarts from any
\* state of the file (store.go:58-60).
THEOREM IdentifiersNeverReused == Spec => []IdentifiersPartitioned
<1>1. TypeInv => IdentifiersPartitioned
  BY DEF TypeInv, StoreTyped
<1>2. QED
  BY <1>1, TypeInvariant, PTL

-----------------------------------------------------------------------------
(* At most one standing proposal per incident.  The invariant holds because *)
(* a goroutine that may still add a proposal holds the only slot of its     *)
(* incident, and the incident had no standing proposal when it took it: the *)
(* decisions and outcomes of other proposals cannot make one stand again.   *)

Proposing == {"fetch", "reenrich", "propose"}

SlotInv ==
    /\ OneStanding(proposals)
    /\ OneStanding(disk.proposals)
    /\ SlotsMatchWorkers
    /\ \A w \in Workers :
         worker[w].stage \in Proposing => ~HasProposal(worker[w].cur)

LEMMA PersistOneStanding ==
    ASSUME OneStanding(proposals'), OneStanding(disk.proposals), Persist
    PROVE  OneStanding(disk'.proposals)
<1>1. CASE disk' = [incidents |-> incidents', proposals |-> proposals']
  BY <1>1
<1>2. CASE UNCHANGED disk
  BY <1>2
<1>3. QED
  BY <1>1, <1>2 DEF Persist

\* Steps that neither take nor release a slot nor touch a proposal.
LEMMA SlotKept ==
    ASSUME SlotInv, UNCHANGED <<proposals, proposing>>,
           OneStanding(disk'.proposals),
           \A v \in Workers :
             \/ worker'[v] = worker[v]
             \/ /\ worker'[v].cur = worker[v].cur
                /\ worker[v].stage \in SlotStages
                /\ worker'[v].stage \in SlotStages
                /\ worker'[v].stage \in Proposing => worker[v].stage \in Proposing
             \/ /\ worker[v].stage \notin SlotStages
                /\ worker'[v].stage \notin SlotStages
    PROVE  SlotInv'
<1>1. \A v \in Workers : \A i : HoldsSlot(v, i)' <=> HoldsSlot(v, i)
  BY DEF HoldsSlot
<1>2. SlotsMatchWorkers'
  BY <1>1 DEF SlotInv, SlotsMatchWorkers
<1>3. \A v \in Workers :
        worker'[v].stage \in Proposing
          => worker[v].stage \in Proposing /\ worker'[v].cur = worker[v].cur
  BY DEF Proposing, SlotStages
<1>4. \A v \in Workers :
        worker'[v].stage \in Proposing => ~HasProposal(worker[v].cur)'
  BY <1>3 DEF SlotInv, HasProposal
<1>5. OneStanding(proposals)' /\ OneStanding(disk.proposals)'
  BY DEF SlotInv, OneStanding
<1>6. QED
  BY <1>2, <1>4, <1>5 DEF SlotInv

LEMMA IngestSlots ==
    ASSUME TypeInv, SlotInv, NEW c \in Clusters, NEW batch \in Batches(c),
           Ingest(c, batch)
    PROVE  SlotInv'
<1>1. UNCHANGED <<proposals, proposing>> /\ Persist
  BY DEF Ingest
<1>2. OneStanding(disk'.proposals)
  BY <1>1, PersistOneStanding DEF SlotInv, OneStanding
<1>3. \A v \in Workers :
        \/ worker'[v] = worker[v]
        \/ worker[v].stage = "rest" /\ worker'[v].stage = "rest"
  <2>1. PICK ids : StartOrchestrator(ids)
    BY DEF Ingest
  <2>2. CASE UNCHANGED worker
    BY <2>2
  <2>3. ASSUME NEW w \in Workers, Free(w),
               worker' = [worker EXCEPT ![w].todo = ids]
        PROVE  \A v \in Workers :
                 \/ worker'[v] = worker[v]
                 \/ worker[v].stage = "rest" /\ worker'[v].stage = "rest"
    <3>1. worker[w] = IdleWorker /\ worker \in [Workers -> WorkerRecord]
      BY <2>3 DEF Free, TypeInv, WorkersTyped
    <3>2. \A v \in Workers :
            worker'[v] = IF v = w THEN [worker[w] EXCEPT !.todo = ids]
                                  ELSE worker[v]
      BY <2>3, <3>1
    <3>3. [worker[w] EXCEPT !.todo = ids].stage = "rest"
      BY <3>1 DEF IdleWorker
    <3>4. worker[w].stage = "rest"
      BY <3>1 DEF IdleWorker
    <3>5. QED
      BY <3>2, <3>3, <3>4
  <2>4. QED
    BY <2>1, <2>2, <2>3 DEF StartOrchestrator
<1>4. QED
  BY <1>1, <1>2, <1>3, SlotKept DEF SlotStages

\* Where the steps that keep proposing and proposals take a goroutine.
LEMMA QuietSteps ==
    ASSUME TypeInv, NEW w \in Workers,
           \/ Begin(w) \/ Enrich(w) \/ ExplainSucceeds(w) \/ ExplainFails(w)
           \/ ReserveRefused(w) \/ Fetch(w) \/ ProposeFails(w)
    PROVE  /\ UNCHANGED <<proposals, proposing>>
           /\ UNCHANGED disk \/ Persist
           /\ \A v \in Workers \ {w} : worker'[v] = worker[v]
           /\ \/ /\ worker'[w].cur = worker[w].cur
                 /\ \/ worker[w].stage = "fetch" /\ worker'[w].stage = "reenrich"
                    \/ worker[w].stage = "reenrich" /\ worker'[w].stage = "propose"
                    \/ worker[w].stage = "propose" /\ worker'[w].stage = "release"
              \/ /\ worker[w].stage \in {"rest", "enrich", "explain", "reserve"}
                 /\ worker'[w].stage \in {"rest", "enrich", "explain", "reserve"}
<1>1. worker \in [Workers -> WorkerRecord]
  BY DEF TypeInv, WorkersTyped
<1>2. CASE Begin(w)
  BY <1>1, <1>2 DEF Begin, At, storeVars, WorkerRecord
<1>3. CASE Enrich(w)
  BY <1>1, <1>3 DEF Enrich, At, Goto, storeVars, WorkerRecord
<1>4. CASE ExplainSucceeds(w)
  BY <1>1, <1>4 DEF ExplainSucceeds, At, Goto, SetExplanation, WorkerRecord
<1>5. ASSUME NEW stage, worker[w].stage = stage, Leave(w)
      PROVE  /\ \A v \in Workers \ {w} : worker'[v] = worker[v]
             /\ worker'[w].stage = "rest"
  <2>1. [IdleWorker EXCEPT !.todo = worker[w].todo].stage = "rest"
    BY DEF IdleWorker
  <2>2. QED
    BY <1>1, <1>5, <2>1 DEF Leave
<1>6. CASE ExplainFails(w)
  BY <1>5, <1>6 DEF ExplainFails, At, SetExplanation
<1>7. CASE ReserveRefused(w)
  BY <1>5, <1>7 DEF ReserveRefused, At, storeVars
<1>8. CASE Fetch(w)
  BY <1>1, <1>8 DEF Fetch, At, storeVars, WorkerRecord
<1>9. CASE ProposeFails(w)
  BY <1>1, <1>9 DEF ProposeFails, At, Goto, storeVars, WorkerRecord
<1>10. QED
  BY <1>2, <1>3, <1>4, <1>6, <1>7, <1>8, <1>9

LEMMA QuietSlots ==
    ASSUME TypeInv, SlotInv, NEW w \in Workers,
           \/ Begin(w) \/ Enrich(w) \/ ExplainSucceeds(w) \/ ExplainFails(w)
           \/ ReserveRefused(w) \/ Fetch(w) \/ ProposeFails(w)
    PROVE  SlotInv'
<1>1. UNCHANGED <<proposals, proposing>> /\ (UNCHANGED disk \/ Persist)
  BY QuietSteps
<1>2. OneStanding(disk'.proposals)
  BY <1>1, PersistOneStanding DEF SlotInv, OneStanding
<1>3. \A v \in Workers :
         \/ worker'[v] = worker[v]
         \/ /\ worker'[v].cur = worker[v].cur
            /\ worker[v].stage \in SlotStages
            /\ worker'[v].stage \in SlotStages
            /\ worker'[v].stage \in Proposing => worker[v].stage \in Proposing
         \/ /\ worker[v].stage \notin SlotStages
            /\ worker'[v].stage \notin SlotStages
  BY QuietSteps DEF SlotStages, Proposing
<1>4. QED
  BY <1>1, <1>2, <1>3, SlotKept

LEMMA ReserveSlots ==
    ASSUME TypeInv, SlotInv, NEW w \in Workers, Reserve(w)
    PROVE  SlotInv'
<1> DEFINE cur == worker[w].cur
<1>1. /\ worker[w].stage = "reserve" /\ cur \notin proposing
      /\ ~HasProposal(cur)
      /\ proposing' = proposing \cup {cur}
      /\ UNCHANGED <<proposals, disk>>
  BY DEF Reserve, At
<1>2. worker \in [Workers -> WorkerRecord]
  BY DEF TypeInv, WorkersTyped
<1>3. /\ worker'[w].stage = "fetch" /\ worker'[w].cur = cur
      /\ \A v \in Workers \ {w} : worker'[v] = worker[v]
  BY <1>2 DEF Reserve, Goto, WorkerRecord
<1>4. \A i \in Ids : \A v \in Workers :
        HoldsSlot(v, i)' <=> HoldsSlot(v, i) \/ (v = w /\ i = cur)
  BY <1>1, <1>3 DEF HoldsSlot, SlotStages
<1>5. SlotsMatchWorkers'
  BY <1>1, <1>4 DEF SlotInv, SlotsMatchWorkers
<1>6. \A v \in Workers :
        worker'[v].stage \in Proposing => ~HasProposal(worker'[v].cur)
  BY <1>1, <1>3 DEF SlotInv
<1>7. \A v \in Workers :
        worker'[v].stage \in Proposing => ~HasProposal(worker[v].cur)'
  BY <1>1, <1>6 DEF HasProposal
<1>8. OneStanding(proposals)' /\ OneStanding(disk.proposals)'
  BY <1>1 DEF SlotInv, OneStanding
<1>9. QED
  BY <1>5, <1>7, <1>8 DEF SlotInv

LEMMA AddProposalSlots ==
    ASSUME TypeInv, SlotInv, NEW w \in Workers, AddProposal(w)
    PROVE  SlotInv'
<1> DEFINE cur == worker[w].cur
<1>1. PICK new :
        /\ proposals' = Put(proposals, seq + 1, new)
        /\ new.incident = cur
  BY DEF AddProposal
<1>2. /\ worker[w].stage = "propose" /\ proposing' = proposing /\ Persist
      /\ Goto(w, "release")
  BY DEF AddProposal, At
<1>3. worker \in [Workers -> WorkerRecord] /\ cur \in Ids
  BY <1>2 DEF TypeInv, WorkersTyped, StoreTyped, IsStored, IsTable
<1>4. /\ worker'[w].stage = "release" /\ worker'[w].cur = cur
      /\ \A v \in Workers \ {w} : worker'[v] = worker[v]
  BY <1>2, <1>3 DEF Goto, WorkerRecord
<1>5. /\ DOMAIN proposals' = DOMAIN proposals \cup {seq + 1}
      /\ proposals'[seq + 1] = new
      /\ \A p \in DOMAIN proposals : p /= seq + 1 => proposals'[p] = proposals[p]
  BY <1>1 DEF Put
<1>6. ~HasProposal(cur)
  BY <1>2 DEF SlotInv, Proposing
<1>7. OneStanding(proposals')
  BY <1>1, <1>5, <1>6 DEF SlotInv, OneStanding, HasProposal
<1>8. OneStanding(disk'.proposals)
  BY <1>2, <1>7, PersistOneStanding DEF SlotInv
<1>9. \A v \in Workers : \A i : HoldsSlot(v, i)' <=> HoldsSlot(v, i)
  BY <1>2, <1>4 DEF HoldsSlot, SlotStages
<1>10. SlotsMatchWorkers'
  BY <1>2, <1>9 DEF SlotInv, SlotsMatchWorkers
<1>11. ASSUME NEW v \in Workers, worker'[v].stage \in Proposing
       PROVE  ~HasProposal(worker[v].cur)'
  <2>1. v /= w /\ worker'[v] = worker[v]
    BY <1>4, <1>11 DEF Proposing
  <2>2. worker[v].cur \in Ids
    BY <2>1, <1>11 DEF TypeInv, WorkersTyped, Proposing, StoreTyped, IsStored, IsTable
  <2>3. HoldsSlot(v, worker[v].cur) /\ HoldsSlot(w, cur)
    BY <1>2, <1>11, <2>1 DEF HoldsSlot, SlotStages, Proposing
  <2>4. worker[v].cur /= cur
    BY <1>3, <2>1, <2>2, <2>3 DEF SlotInv, SlotsMatchWorkers
  <2>5. ~HasProposal(worker[v].cur)
    BY <1>11, <2>1 DEF SlotInv
  <2>6. \A p \in DOMAIN proposals' :
          ~(proposals'[p].incident = worker[v].cur
            /\ proposals'[p].state \notin Replaceable)
    BY <1>1, <1>5, <2>4, <2>5 DEF HasProposal
  <2>7. QED
    BY <2>1, <2>6 DEF HasProposal
<1>12. OneStanding(proposals)' /\ OneStanding(disk.proposals)'
  BY <1>7, <1>8 DEF OneStanding
<1>13. QED
  BY <1>10, <1>11, <1>12 DEF SlotInv

LEMMA ReleaseSlots ==
    ASSUME TypeInv, SlotInv, NEW w \in Workers, Release(w)
    PROVE  SlotInv'
<1> DEFINE cur == worker[w].cur
<1>1. /\ worker[w].stage = "release" /\ proposing' = proposing \ {cur}
      /\ UNCHANGED <<proposals, disk>>
      /\ Leave(w)
  BY DEF Release, At
<1>2. worker \in [Workers -> WorkerRecord] /\ cur \in Ids
  BY <1>1 DEF TypeInv, WorkersTyped, StoreTyped, IsStored, IsTable
<1>3. [IdleWorker EXCEPT !.todo = worker[w].todo].stage = "rest"
  BY DEF IdleWorker
<1>4. /\ worker'[w].stage = "rest"
      /\ \A v \in Workers \ {w} : worker'[v] = worker[v]
  BY <1>1, <1>2, <1>3 DEF Leave
<1>5. HoldsSlot(w, cur)
  BY <1>1 DEF HoldsSlot, SlotStages
<1>6. \A i \in Ids : \A v \in Workers :
        HoldsSlot(v, i)' <=> HoldsSlot(v, i) /\ v /= w
  BY <1>4 DEF HoldsSlot, SlotStages
<1>7. \A i \in Ids : i /= cur => ~HoldsSlot(w, i)
  BY DEF HoldsSlot
<1>8. SlotsMatchWorkers'
  BY <1>1, <1>2, <1>5, <1>6, <1>7 DEF SlotInv, SlotsMatchWorkers
<1>9. \A v \in Workers :
        worker'[v].stage \in Proposing => ~HasProposal(worker[v].cur)'
  BY <1>1, <1>4 DEF SlotInv, HasProposal, Proposing
<1>10. OneStanding(proposals)' /\ OneStanding(disk.proposals)'
  BY <1>1 DEF SlotInv, OneStanding
<1>11. QED
  BY <1>8, <1>9, <1>10 DEF SlotInv

\* A decision and an outcome make no proposal stand that did not.
LEMMA SetProposalStateSlots ==
    ASSUME TypeInv, SlotInv, NEW p \in DOMAIN proposals,
           NEW answer \in BOOLEAN,
           Decide(p, answer) \/ RecordOutcome(p, answer)
    PROVE  SlotInv'
<1>1. PICK state :
        /\ proposals' = [proposals EXCEPT ![p].state = state]
        /\ UNCHANGED <<proposing, worker>> /\ Persist
        /\ proposals[p].state \notin Replaceable
  BY DEF Decide, RecordOutcome, SetProposalState, Replaceable
<1>2. proposals \in [DOMAIN proposals -> ProposalRecord]
  BY DEF TypeInv, StoreTyped, IsStored, IsTable
<1>3. /\ DOMAIN proposals' = DOMAIN proposals
      /\ \A q \in DOMAIN proposals :
           /\ proposals'[q].incident = proposals[q].incident
           /\ proposals'[q].state \notin Replaceable
                => proposals[q].state \notin Replaceable
  BY <1>1, <1>2 DEF ProposalRecord
<1>4. OneStanding(proposals')
  BY <1>3 DEF SlotInv, OneStanding
<1>5. OneStanding(disk'.proposals)
  BY <1>1, <1>4, PersistOneStanding DEF SlotInv
<1>6. SlotsMatchWorkers'
  BY <1>1 DEF SlotInv, SlotsMatchWorkers, HoldsSlot
<1>7. \A v \in Workers :
        worker'[v].stage \in Proposing => ~HasProposal(worker[v].cur)'
  BY <1>1, <1>3 DEF SlotInv, HasProposal
<1>8. OneStanding(proposals)' /\ OneStanding(disk.proposals)'
  BY <1>4, <1>5 DEF OneStanding
<1>9. QED
  BY <1>6, <1>7, <1>8 DEF SlotInv

LEMMA RestartSlots ==
    ASSUME SlotInv, Restart
    PROVE  SlotInv'
<1>1. /\ proposals' = disk.proposals /\ disk' = disk /\ proposing' = {}
      /\ worker' = [w \in Workers |-> IdleWorker]
  BY DEF Restart
<1>2. \A w \in Workers : worker'[w].stage = "rest"
  BY <1>1 DEF IdleWorker
<1>3. SlotsMatchWorkers'
  BY <1>1, <1>2 DEF SlotsMatchWorkers, HoldsSlot, SlotStages
<1>4. OneStanding(proposals)' /\ OneStanding(disk.proposals)'
  BY <1>1 DEF SlotInv, OneStanding
<1>5. QED
  BY <1>2, <1>3, <1>4 DEF SlotInv, Proposing

LEMMA SlotInvStep == TypeInv /\ SlotInv /\ [Next]_vars => SlotInv'
<1> SUFFICES ASSUME TypeInv, SlotInv, [Next]_vars PROVE SlotInv'
  OBVIOUS
<1>1. CASE Report
  BY <1>1, IngestSlots DEF Report
<1>2. ASSUME NEW w \in Workers, Advance(w) \/ Enrich(w) PROVE SlotInv'
  BY <1>2, QuietSlots, ReserveSlots, AddProposalSlots, ReleaseSlots DEF Advance
<1>3. ASSUME NEW p \in DOMAIN proposals, NEW answer \in BOOLEAN,
             Decide(p, answer) \/ RecordOutcome(p, answer)
      PROVE  SlotInv'
  BY <1>3, SetProposalStateSlots
<1>4. CASE Restart
  BY <1>4, RestartSlots
<1>5. CASE UNCHANGED vars
  <2>1. UNCHANGED <<proposals, proposing, disk, worker>>
    BY <1>5 DEF vars, storeVars
  <2>2. QED
    BY <2>1 DEF SlotInv, OneStanding, SlotsMatchWorkers, HoldsSlot, HasProposal
<1>6. QED
  BY <1>1, <1>2, <1>3, <1>4, <1>5 DEF Next

LEMMA SlotInvariant == Spec => []SlotInv
<1>1. Init => SlotInv
  <2> SUFFICES ASSUME Init PROVE SlotInv
    OBVIOUS
  <2>1. /\ proposals = << >> /\ disk.proposals = << >> /\ proposing = {}
        /\ \A w \in Workers : worker[w].stage = "rest"
    BY DEF Init, IdleWorker
  <2>2. QED
    BY <2>1 DEF SlotInv, OneStanding, SlotsMatchWorkers, HoldsSlot,
                SlotStages, Proposing
<1>2. TypeInv /\ SlotInv /\ [Next]_vars => SlotInv'
  BY SlotInvStep
<1>3. QED
  BY <1>1, <1>2, TypeInvariant, PTL DEF Spec

\* An incident never has two proposals that stand for it, for any number of
\* concurrent goroutines, restarts and failed writes (store.go:187-208).
THEOREM StandingProposalUnique == Spec => []OneStandingProposal
<1>1. SlotInv => OneStandingProposal
  BY DEF SlotInv, OneStandingProposal
<1>2. QED
  BY <1>1, SlotInvariant, PTL

\* The in-flight marks are those of the goroutines that propose, one each
\* (orchestrator.go:43-49).
THEOREM SlotsExclusive == Spec => []SlotsMatchWorkers
<1>1. SlotInv => SlotsMatchWorkers
  BY DEF SlotInv
<1>2. QED
  BY <1>1, SlotInvariant, PTL

-----------------------------------------------------------------------------
(* One incident per fingerprint, and what is open.  Only a report opens,    *)
(* reopens or resolves; everything else keeps problem and state of every    *)
(* incident, in memory and in the file.                                     *)

\* Incidents keep their identifier, problem and state.
SameIncidents(table, other) ==
    /\ DOMAIN other = DOMAIN table
    /\ \A i \in DOMAIN table :
         other[i].fp = table[i].fp /\ other[i].state = table[i].state

LEMMA SetExplanationKeeps ==
    ASSUME TypeInv, NEW i, NEW result, SetExplanation(i, result)
    PROVE  SameIncidents(incidents, incidents') /\ Persist
<1>1. /\ incidents' = [incidents EXCEPT ![i].explained = result] /\ Persist
      /\ \A j \in DOMAIN incidents : incidents[j] \in IncidentRecord
      /\ incidents = [j \in DOMAIN incidents |-> incidents[j]]
  BY DEF SetExplanation, TypeInv, StoreTyped, IsStored, IsTable
<1>2. SameIncidents(incidents, incidents')
  BY <1>1 DEF SameIncidents, IncidentRecord
<1> QED
  BY <1>1, <1>2

\* Every step but a report and a restart.
LEMMA OtherStepsKeep ==
    ASSUME TypeInv,
           \/ \E w \in Workers : Advance(w) \/ Enrich(w)
           \/ \E p \in DOMAIN proposals, answer \in BOOLEAN :
                Decide(p, answer) \/ RecordOutcome(p, answer)
           \/ UNCHANGED vars
    PROVE  /\ SameIncidents(incidents, incidents')
           /\ UNCHANGED <<incidents, disk>> \/ Persist
           /\ UNCHANGED reported
<1>1. ASSUME UNCHANGED incidents PROVE SameIncidents(incidents, incidents')
  BY <1>1 DEF SameIncidents
<1>2. ASSUME NEW w \in Workers, ExplainSucceeds(w) \/ ExplainFails(w)
      PROVE  SameIncidents(incidents, incidents') /\ Persist /\ UNCHANGED reported
  BY <1>2, SetExplanationKeeps DEF ExplainSucceeds, ExplainFails
<1>3. ASSUME NEW w \in Workers,
             \/ Begin(w) \/ Enrich(w) \/ Reserve(w) \/ ReserveRefused(w) \/ Fetch(w)
             \/ AddProposal(w) \/ ProposeFails(w) \/ Release(w)
      PROVE  UNCHANGED <<incidents, reported>> /\ (UNCHANGED disk \/ Persist)
  BY <1>3 DEF Begin, Enrich, Reserve, ReserveRefused, Fetch, AddProposal, ProposeFails,
     Release, storeVars
<1>4. ASSUME NEW p, NEW answer, Decide(p, answer) \/ RecordOutcome(p, answer)
      PROVE  UNCHANGED <<incidents, reported>> /\ Persist
  BY <1>4 DEF Decide, RecordOutcome, SetProposalState
<1>5. CASE UNCHANGED vars
  BY <1>1, <1>5 DEF vars, storeVars
<1> QED
  BY <1>1, <1>2, <1>3, <1>4, <1>5 DEF Advance

\* What a report makes of the incidents there are, and which it adds.
LEMMA IngestOpens ==
    ASSUME TypeInv, NEW c \in Clusters, NEW batch \in Batches(c), Ingest(c, batch)
    PROVE  /\ \A i \in DOMAIN incidents :
                /\ i \in DOMAIN incidents'
                /\ incidents'[i].fp = incidents[i].fp
                /\ incidents'[i].state =
                     IF incidents[i].fp \in DOMAIN batch THEN "Open"
                     ELSE IF ClusterOf[incidents[i].fp] = c THEN "Resolved"
                     ELSE incidents[i].state
           /\ \A i \in DOMAIN incidents' \ DOMAIN incidents :
                /\ incidents'[i].fp \in DOMAIN batch \ Known
                /\ incidents'[i].state = "Open"
                /\ \A j \in DOMAIN incidents' \ DOMAIN incidents :
                     incidents'[i].fp = incidents'[j].fp => i = j
           /\ \A fp \in DOMAIN batch \ Known :
                \E i \in DOMAIN incidents' \ DOMAIN incidents : incidents'[i].fp = fp
<1> DEFINE created == DOMAIN batch \ Known
           n == Cardinality(created)
           minted == (seq + 1) .. (seq + n)
<1>1. n \in Nat /\ minted \cap (DOMAIN incidents \cup DOMAIN proposals) = {}
  BY MintedIds DEF TypeInv
<1>2. PICK fpOf \in Injection(minted, created) :
        incidents' =
          [i \in DOMAIN incidents \cup minted |->
             IF i \in minted THEN Opened(fpOf[i], batch[fpOf[i]])
             ELSE Correlated(incidents[i], c, batch)]
  BY DEF Ingest
<1>3. IsFiniteSet(created) /\ Cardinality(created) = n /\ seq \in Nat
  BY BatchType, FS_Subset, StoreAssumption DEF TypeInv, StoreTyped
<1> HIDE DEF n, created
<1>4. IsFiniteSet(minted) /\ Cardinality(minted) = n
  BY <1>1, <1>3, FS_Interval
<1> HIDE DEF minted
<1>5. fpOf \in Surjection(minted, created)
  BY <1>2, <1>3, <1>4, FS_Injection
<1>6. /\ fpOf \in [minted -> created]
      /\ \A i, j \in minted : fpOf[i] = fpOf[j] => i = j
      /\ \A fp \in created : \E i \in minted : fpOf[i] = fp
  BY <1>2, <1>5, Fun_SurjectionProperties, Fun_InjectionProperties
<1>7. DOMAIN incidents' = DOMAIN incidents \cup minted
      /\ DOMAIN incidents' \ DOMAIN incidents = minted
  BY <1>1, <1>2
<1>8. ASSUME NEW i \in minted
      PROVE  incidents'[i].fp = fpOf[i] /\ incidents'[i].state = "Open"
  BY <1>2, <1>8 DEF Opened
<1>9. ASSUME NEW i \in DOMAIN incidents
      PROVE  /\ incidents'[i].fp = incidents[i].fp
             /\ incidents'[i].state =
                  IF incidents[i].fp \in DOMAIN batch THEN "Open"
                  ELSE IF ClusterOf[incidents[i].fp] = c THEN "Resolved"
                  ELSE incidents[i].state
  <2>1. incidents'[i] = Correlated(incidents[i], c, batch)
    BY <1>1, <1>2
  <2>2. incidents[i] \in IncidentRecord
    BY DEF TypeInv, StoreTyped, IsStored, IsTable
  <2> QED
    BY <2>1, <2>2 DEF Correlated, IncidentRecord
<1>10. \A fp \in created : \E i \in minted : incidents'[i].fp = fp
  BY <1>6, <1>8
<1> QED
  BY <1>6, <1>7, <1>8, <1>9, <1>10 DEF created

UniqueFingerprints(table) ==
    \A i, j \in DOMAIN table : table[i].fp = table[j].fp => i = j

FingerprintInv == UniqueFingerprints(incidents) /\ UniqueFingerprints(disk.incidents)

LEMMA PersistUnique ==
    ASSUME UniqueFingerprints(incidents'), UniqueFingerprints(disk.incidents),
           UNCHANGED disk \/ Persist
    PROVE  UniqueFingerprints(disk'.incidents)
<1>1. CASE disk' = [incidents |-> incidents', proposals |-> proposals']
  BY <1>1
<1>2. CASE UNCHANGED disk
  BY <1>2
<1> QED
  BY <1>1, <1>2 DEF Persist

LEMMA FingerprintInvStep == TypeInv /\ FingerprintInv /\ [Next]_vars => FingerprintInv'
<1> SUFFICES ASSUME TypeInv, FingerprintInv, [Next]_vars PROVE FingerprintInv'
  OBVIOUS
<1>1. ASSUME NEW c \in Clusters, NEW batch \in Batches(c), Ingest(c, batch)
      PROVE  FingerprintInv'
  <2>1. UniqueFingerprints(incidents')
    <3> SUFFICES ASSUME NEW i \in DOMAIN incidents', NEW j \in DOMAIN incidents',
                        incidents'[i].fp = incidents'[j].fp
                 PROVE  i = j
      BY DEF UniqueFingerprints
    <3>1. \A k \in DOMAIN incidents : incidents'[k].fp = incidents[k].fp /\ incidents[k].fp \in Known
      BY <1>1, IngestOpens DEF Known
    <3>2. \A k \in DOMAIN incidents' \ DOMAIN incidents : incidents'[k].fp \notin Known
      BY <1>1, IngestOpens
    <3>3. CASE i \in DOMAIN incidents /\ j \in DOMAIN incidents
      BY <3>1, <3>3 DEF FingerprintInv, UniqueFingerprints
    <3>4. CASE i \notin DOMAIN incidents /\ j \notin DOMAIN incidents
      BY <1>1, <3>4, IngestOpens
    <3> QED
      BY <3>1, <3>2, <3>3, <3>4
  <2>2. Persist
    BY <1>1 DEF Ingest
  <2> QED
    BY <2>1, <2>2, PersistUnique DEF FingerprintInv
<1>2. CASE Restart
  BY <1>2 DEF Restart, FingerprintInv
<1>3. ASSUME SameIncidents(incidents, incidents'), UNCHANGED <<incidents, disk>> \/ Persist
      PROVE  FingerprintInv'
  <2>1. UniqueFingerprints(incidents')
    BY <1>3 DEF SameIncidents, FingerprintInv, UniqueFingerprints
  <2> QED
    BY <1>3, <2>1, PersistUnique DEF FingerprintInv
<1> QED
  BY <1>1, <1>2, <1>3, OtherStepsKeep DEF Next, Report

\* No two incidents share a fingerprint, for any number of clusters, reports,
\* restarts and failed writes (store.go:136).
THEOREM IncidentPerFingerprint == Spec => []OneIncidentPerFingerprint
<1>1. Init => FingerprintInv
  BY DEF Init, FingerprintInv, UniqueFingerprints
<1>2. FingerprintInv => OneIncidentPerFingerprint
  BY DEF FingerprintInv, UniqueFingerprints, OneIncidentPerFingerprint
<1> QED
  BY <1>1, <1>2, FingerprintInvStep, TypeInvariant, PTL DEF Spec

\* What is open is what was reported, and the file is not behind.
OpenInv == OpenAsLastReported /\ disk.incidents = incidents

\* A report leaves open in its own cluster what it mentions, and in the others
\* what was.
LEMMA IngestReported ==
    ASSUME TypeInv, OpenAsLastReported, NEW c \in Clusters, NEW batch \in Batches(c),
           Ingest(c, batch)
    PROVE  OpenAsLastReported'
<1> DEFINE Open(d) == {incidents[i].fp : i \in {j \in DOMAIN incidents :
                          ClusterOf[incidents[j].fp] = d /\ incidents[j].state = "Open"}}
           OpenNext(d) == {incidents'[i].fp : i \in {j \in DOMAIN incidents' :
                          ClusterOf[incidents'[j].fp] = d /\ incidents'[j].state = "Open"}}
<1>1. \A fp \in DOMAIN batch : ClusterOf[fp] = c
  <2>1. PICK fps \in SUBSET {fp \in Fingerprints : ClusterOf[fp] = c} : batch \in [fps -> Evidence]
    BY DEF Batches
  <2> QED
    BY <2>1
<1>2. reported' = [reported EXCEPT ![c] = DOMAIN batch]
      /\ reported \in [Clusters -> SUBSET Fingerprints]
  BY DEF Ingest, TypeInv, CountersTyped
<1>3. \A i \in DOMAIN incidents' :
        \/ /\ i \in DOMAIN incidents
           /\ incidents'[i].fp = incidents[i].fp
           /\ incidents'[i].state =
                IF incidents[i].fp \in DOMAIN batch THEN "Open"
                ELSE IF ClusterOf[incidents[i].fp] = c THEN "Resolved"
                ELSE incidents[i].state
        \/ incidents'[i].fp \in DOMAIN batch /\ incidents'[i].state = "Open"
  BY IngestOpens
<1>4. OpenNext(c) = DOMAIN batch
  <2>1. OpenNext(c) \subseteq DOMAIN batch
    BY <1>3
  <2>2. ASSUME NEW fp \in DOMAIN batch
        PROVE  \E i \in DOMAIN incidents' : incidents'[i].fp = fp /\ incidents'[i].state = "Open"
    <3>1. CASE fp \in Known
      <4>1. PICK i \in DOMAIN incidents : incidents[i].fp = fp
        BY <3>1 DEF Known
      <4> QED
        BY <4>1, IngestOpens
    <3>2. CASE fp \notin Known
      BY <3>2, IngestOpens
    <3> QED
      BY <3>1, <3>2
  <2> QED
    BY <1>1, <2>1, <2>2
<1>5. ASSUME NEW d \in Clusters \ {c} PROVE OpenNext(d) = Open(d)
  <2>1. ASSUME NEW i \in DOMAIN incidents', ClusterOf[incidents'[i].fp] = d
        PROVE  /\ i \in DOMAIN incidents /\ incidents'[i].fp = incidents[i].fp
               /\ incidents'[i].state = incidents[i].state
    BY <1>1, <1>3, <2>1
  <2>2. ASSUME NEW i \in DOMAIN incidents, ClusterOf[incidents[i].fp] = d
        PROVE  /\ i \in DOMAIN incidents' /\ incidents'[i].fp = incidents[i].fp
               /\ incidents'[i].state = incidents[i].state
    <3>1. i \in DOMAIN incidents' /\ incidents'[i].fp = incidents[i].fp
      BY IngestOpens
    <3> QED
      BY <2>1, <2>2, <3>1
  <2> QED
    BY <2>1, <2>2
<1>6. \A d \in Clusters : Open(d) = reported[d]
  BY DEF OpenAsLastReported
<1>7. \A d \in Clusters : OpenNext(d) = reported'[d]
  <2> HIDE DEF Open, OpenNext
  <2> QED
    BY <1>2, <1>4, <1>5, <1>6
<1> QED
  BY <1>7 DEF OpenAsLastReported

LEMMA OpenInvStep ==
    ASSUME PersistMayFail = FALSE
    PROVE  TypeInv /\ OpenInv /\ [Next]_vars => OpenInv'
<1> SUFFICES ASSUME TypeInv, OpenInv, [Next]_vars PROVE OpenInv'
  OBVIOUS
<1>1. ASSUME Persist PROVE disk'.incidents = incidents'
  BY <1>1 DEF Persist
<1>2. ASSUME NEW c \in Clusters, NEW batch \in Batches(c), Ingest(c, batch)
      PROVE  OpenInv'
  BY <1>1, <1>2, IngestReported DEF OpenInv, Ingest
<1>3. CASE Restart
  BY <1>3 DEF Restart, OpenInv, OpenAsLastReported
<1>4. ASSUME SameIncidents(incidents, incidents'), UNCHANGED <<incidents, disk>> \/ Persist,
             UNCHANGED reported
      PROVE  OpenInv'
  <2>1. disk'.incidents = incidents'
    BY <1>1, <1>4 DEF OpenInv
  <2>2. OpenAsLastReported'
    BY <1>4 DEF SameIncidents, OpenInv, OpenAsLastReported
  <2> QED
    BY <2>1, <2>2 DEF OpenInv
<1> QED
  BY <1>2, <1>3, <1>4, OtherStepsKeep DEF Next, Report

\* With a disk that accepts writes, the open incidents of every cluster are
\* those its agent reported last, for any number of clusters, reports and
\* restarts (store.go:83-144).
THEOREM OpenIsReported ==
    ASSUME PersistMayFail = FALSE
    PROVE  Spec => []OpenAsLastReported
<1>1. Init => OpenInv
  BY DEF Init, OpenInv, OpenAsLastReported
<1>2. TypeInv /\ OpenInv /\ [Next]_vars => OpenInv'
  BY OpenInvStep
<1>3. OpenInv => OpenAsLastReported
  BY DEF OpenInv
<1> QED
  BY <1>1, <1>2, <1>3, TypeInvariant, PTL DEF Spec

-----------------------------------------------------------------------------
(* The store implements the lifecycle of proposals, as long as the file can *)
(* be written.                                                              *)

\* The file holds the proposals of the memory, so a restart moves none.
FileCurrent == disk.proposals = proposals

\* Only a finished propose call, a decision, an outcome and a restart touch
\* proposals.
LEMMA ProposalSteps ==
    ASSUME TypeInv, [Next]_vars
    PROVE  \/ UNCHANGED proposals /\ (UNCHANGED disk \/ Persist)
           \/ \E w \in Workers : AddProposal(w)
           \/ \E p \in DOMAIN proposals, answer \in BOOLEAN :
                Decide(p, answer) \/ RecordOutcome(p, answer)
           \/ Restart
<1>1. CASE Report
  BY <1>1 DEF Report, Ingest
<1>2. ASSUME NEW w \in Workers, Advance(w) \/ Enrich(w), ~AddProposal(w)
      PROVE  UNCHANGED proposals /\ (UNCHANGED disk \/ Persist)
  <2>1. ASSUME Reserve(w) \/ Release(w) PROVE UNCHANGED <<proposals, disk>>
    BY <2>1 DEF Reserve, Release
  <2> QED
    BY <1>2, <2>1, QuietSteps DEF Advance
<1>3. CASE UNCHANGED vars
  BY <1>3 DEF vars, storeVars
<1> QED
  BY <1>1, <1>2, <1>3 DEF Next

LEMMA FileCurrentStep ==
    ASSUME PersistMayFail = FALSE
    PROVE  TypeInv /\ FileCurrent /\ [Next]_vars => FileCurrent'
<1> SUFFICES ASSUME TypeInv, FileCurrent, [Next]_vars PROVE FileCurrent'
  OBVIOUS
<1>1. ASSUME Persist PROVE FileCurrent'
  BY <1>1 DEF Persist, FileCurrent
<1>2. CASE UNCHANGED proposals /\ UNCHANGED disk
  BY <1>2 DEF FileCurrent
<1>3. ASSUME NEW w \in Workers, AddProposal(w) PROVE Persist
  BY <1>3 DEF AddProposal
<1>4. ASSUME NEW p, NEW answer, Decide(p, answer) \/ RecordOutcome(p, answer)
      PROVE  Persist
  BY <1>4 DEF Decide, RecordOutcome, SetProposalState
<1>5. CASE Restart
  BY <1>5 DEF Restart, FileCurrent
<1> QED
  BY <1>1, <1>2, <1>3, <1>4, <1>5, ProposalSteps

\* What one step may do to a proposal.
Follows(s, t) ==
    \/ s = "Pending" /\ t \in {"Approved", "Rejected"}
    \/ s = "Approved" /\ t \in {"Applied", "Failed"}

LEMMA DecisionMoves ==
    ASSUME TypeInv, NEW p \in DOMAIN proposals, NEW answer \in BOOLEAN,
           Decide(p, answer) \/ RecordOutcome(p, answer)
    PROVE  /\ DOMAIN proposals' = DOMAIN proposals
           /\ Follows(proposals[p].state, proposals'[p].state)
           /\ proposals'[p].incident = proposals[p].incident
           /\ \A q \in DOMAIN proposals \ {p} : proposals'[q] = proposals[q]
<1>1. PICK state :
        /\ proposals' = [proposals EXCEPT ![p].state = state]
        /\ Follows(proposals[p].state, state)
  BY DEF Decide, RecordOutcome, SetProposalState, Follows
<1>2. proposals \in [DOMAIN proposals -> ProposalRecord]
  BY DEF TypeInv, StoreTyped, IsStored, IsTable
<1>3. /\ DOMAIN proposals' = DOMAIN proposals
      /\ proposals'[p].state = state
      /\ proposals'[p].incident = proposals[p].incident
      /\ \A q \in DOMAIN proposals \ {p} : proposals'[q] = proposals[q]
  BY <1>1, <1>2 DEF ProposalRecord
<1> QED
  BY <1>1, <1>3

\* What a finished propose call adds.
LEMMA AddProposalAdds ==
    ASSUME TypeInv, SlotInv, NEW w \in Workers, AddProposal(w)
    PROVE  \E new \in Ids \ DOMAIN proposals, i \in Ids :
             /\ DOMAIN proposals' = DOMAIN proposals \cup {new}
             /\ proposals'[new].state = "Pending"
             /\ proposals'[new].incident = i
             /\ ~HasProposal(i)
             /\ \A q \in DOMAIN proposals : proposals'[q] = proposals[q]
<1> DEFINE cur == worker[w].cur
<1>1. PICK record :
        /\ proposals' = Put(proposals, seq + 1, record)
        /\ record.incident = cur /\ record.state = "Pending"
  BY DEF AddProposal
<1>2. worker[w].stage = "propose" /\ seq < MaxSeq
  BY DEF AddProposal, At
<1>3. cur \in Ids /\ ~HasProposal(cur)
  BY <1>2 DEF TypeInv, WorkersTyped, StoreTyped, IsStored, IsTable, SlotInv, Proposing
<1>4. seq + 1 \in Ids \ DOMAIN proposals
  BY <1>2, StoreAssumption DEF TypeInv, StoreTyped, IdentifiersPartitioned, Partitioned, Ids
<1>5. /\ DOMAIN proposals' = DOMAIN proposals \cup {seq + 1}
      /\ proposals'[seq + 1] = record
      /\ \A q \in DOMAIN proposals : proposals'[q] = proposals[q]
  BY <1>1, <1>4 DEF Put
<1> QED
  BY <1>1, <1>3, <1>4, <1>5

\* With a disk that accepts writes no step takes back what a person decided
\* or an agent reported, for any number of goroutines, proposals and restarts
\* (store.go:211-265).
THEOREM LifecycleFollowed ==
    ASSUME PersistMayFail = FALSE
    PROVE  Spec => ProposalsFollowLifecycle
<1>1. Init => FileCurrent
  BY DEF Init, FileCurrent
<1>2. TypeInv /\ FileCurrent /\ [Next]_vars => FileCurrent'
  BY FileCurrentStep
<1> DEFINE Followed ==
      \A p \in DOMAIN proposals :
         /\ p \in DOMAIN proposals'
         /\ LET s == proposals[p].state
                t == proposals'[p].state
            IN  \/ t = s
                \/ s = "Pending" /\ t \in {"Approved", "Rejected"}
                \/ s = "Approved" /\ t \in {"Applied", "Failed"}
<1>3. TypeInv /\ SlotInv /\ FileCurrent /\ [Next]_vars => [Followed]_vars
  <2> SUFFICES ASSUME TypeInv, SlotInv, FileCurrent, [Next]_vars PROVE Followed
    OBVIOUS
  <2>1. ASSUME UNCHANGED proposals PROVE Followed
    BY <2>1
  <2>2. ASSUME NEW w \in Workers, AddProposal(w) PROVE Followed
    BY <2>2, AddProposalAdds
  <2>3. ASSUME NEW p \in DOMAIN proposals, NEW answer \in BOOLEAN,
               Decide(p, answer) \/ RecordOutcome(p, answer)
        PROVE  Followed
    BY <2>3, DecisionMoves DEF Follows
  <2>4. CASE Restart
    BY <2>1, <2>4 DEF Restart, FileCurrent
  <2> HIDE DEF Followed
  <2> QED
    BY <2>1, <2>2, <2>3, <2>4, ProposalSteps
<1> QED
  BY <1>1, <1>2, <1>3, TypeInvariant, SlotInvariant, PTL
     DEF Spec, ProposalsFollowLifecycle

-----------------------------------------------------------------------------
(* Nothing that was opened is lost sight of.                                *)

\* A step is harmless if it takes an incident from a goroutine only with an
\* explanation in its place, and no explanation from an incident.
LEMMA KeptInSight ==
    ASSUME DOMAIN incidents' = DOMAIN incidents,
           \A i \in DOMAIN incidents :
             \/ incidents'[i].explained = incidents[i].explained
             \/ incidents'[i].explained /= "none",
           \A w \in Workers, i \in DOMAIN incidents :
             ToExplain(w, i) => ToExplain(w, i)' \/ incidents'[i].explained /= "none"
    PROVE  Forgotten' \subseteq Forgotten
BY DEF Forgotten

\* What a step of a goroutine makes of what it has still to explain.
LEMMA WorkerKeepsInSight ==
    ASSUME TypeInv, NEW w \in Workers, Advance(w) \/ Enrich(w)
    PROVE  Forgotten' \subseteq Forgotten
<1>1. /\ worker \in [Workers -> WorkerRecord]
      /\ incidents \in [DOMAIN incidents -> IncidentRecord]
  BY DEF TypeInv, WorkersTyped, StoreTyped, IsStored, IsTable
<1>2. ASSUME UNCHANGED incidents,
             \A v \in Workers \ {w} : worker'[v] = worker[v],
             \A i \in DOMAIN incidents : ToExplain(w, i) => ToExplain(w, i)'
      PROVE  Forgotten' \subseteq Forgotten
  <2>1. \A v \in Workers, i \in DOMAIN incidents : ToExplain(v, i) => ToExplain(v, i)'
    BY <1>2 DEF ToExplain
  <2> QED
    BY <1>2, <2>1, KeptInSight
<1>3. ASSUME NEW result \in {"ok", "error"}, worker[w].stage = "explain",
             SetExplanation(worker[w].cur, result),
             \A v \in Workers \ {w} : worker'[v] = worker[v],
             worker'[w].todo = worker[w].todo
      PROVE  Forgotten' \subseteq Forgotten
  <2>1. incidents' = [incidents EXCEPT ![worker[w].cur].explained = result]
    BY <1>3 DEF SetExplanation
  <2>2. worker[w].cur \in DOMAIN incidents
    BY <1>3 DEF TypeInv, WorkersTyped
  <2>3. /\ DOMAIN incidents' = DOMAIN incidents
        /\ incidents'[worker[w].cur].explained /= "none"
        /\ \A i \in DOMAIN incidents :
             i /= worker[w].cur => incidents'[i].explained = incidents[i].explained
    BY <1>1, <2>1, <2>2 DEF IncidentRecord
  <2>4. ASSUME NEW v \in Workers, NEW i \in DOMAIN incidents, ToExplain(v, i),
               i /= worker[w].cur
        PROVE  ToExplain(v, i)'
    BY <1>3, <2>4 DEF ToExplain
  <2> QED
    BY <2>3, <2>4, KeptInSight
<1>4. ASSUME Leave(w)
      PROVE  /\ \A v \in Workers \ {w} : worker'[v] = worker[v]
             /\ worker'[w].todo = worker[w].todo
  <2>1. [IdleWorker EXCEPT !.todo = worker[w].todo].todo = worker[w].todo
    BY DEF IdleWorker
  <2> QED
    BY <1>1, <1>4, <2>1 DEF Leave
<1>5. CASE Begin(w)
  <2>1. PICK j \in worker[w].todo :
          worker' = [worker EXCEPT ![w].stage = "enrich", ![w].cur = j,
                                   ![w].todo = @ \ {j}]
    BY <1>5 DEF Begin
  <2>2. /\ \A v \in Workers \ {w} : worker'[v] = worker[v]
        /\ worker'[w].stage = "enrich" /\ worker'[w].cur = j
        /\ worker'[w].todo = worker[w].todo \ {j}
    BY <1>1, <2>1 DEF WorkerRecord
  <2>3. \A i \in DOMAIN incidents : ToExplain(w, i) => ToExplain(w, i)'
    BY <1>5, <2>2 DEF Begin, At, ToExplain
  <2>4. UNCHANGED incidents
    BY <1>5 DEF Begin, storeVars
  <2> QED
    BY <1>2, <2>2, <2>3, <2>4
<1>6. CASE Enrich(w)
  <2>1. /\ UNCHANGED incidents
        /\ \A v \in Workers \ {w} : worker'[v] = worker[v]
        /\ worker'[w].todo = worker[w].todo /\ worker'[w].cur = worker[w].cur
        /\ worker[w].stage = "enrich" => worker'[w].stage = "explain"
        /\ worker[w].stage \in {"enrich", "reenrich"}
    BY <1>1, <1>6 DEF Enrich, At, Goto, storeVars, WorkerRecord
  <2> QED
    BY <1>2, <2>1 DEF ToExplain
<1>7. CASE ExplainSucceeds(w)
  <2>1. /\ \A v \in Workers \ {w} : worker'[v] = worker[v]
        /\ worker'[w].todo = worker[w].todo
    BY <1>1, <1>7 DEF ExplainSucceeds, Goto, WorkerRecord
  <2> QED
    BY <1>3, <1>7, <2>1 DEF ExplainSucceeds, At
<1>8. CASE ExplainFails(w)
  BY <1>3, <1>4, <1>8 DEF ExplainFails, At
<1>9. CASE ReserveRefused(w) \/ Release(w)
  BY <1>2, <1>4, <1>9 DEF ReserveRefused, Release, At, storeVars, ToExplain
<1>10. CASE Reserve(w) \/ AddProposal(w) \/ ProposeFails(w)
  <2>1. /\ UNCHANGED incidents
        /\ worker[w].stage \notin {"enrich", "explain"}
        /\ \E stage : Goto(w, stage)
    BY <1>10 DEF Reserve, AddProposal, ProposeFails, At, storeVars
  <2>2. /\ \A v \in Workers \ {w} : worker'[v] = worker[v]
        /\ worker'[w].todo = worker[w].todo
    BY <1>1, <2>1 DEF Goto, WorkerRecord
  <2> QED
    BY <1>2, <2>1, <2>2 DEF ToExplain
<1>11. CASE Fetch(w)
  <2>1. /\ UNCHANGED incidents
        /\ worker[w].stage = "fetch"
        /\ \A v \in Workers \ {w} : worker'[v] = worker[v]
        /\ worker'[w].todo = worker[w].todo
    BY <1>1, <1>11 DEF Fetch, At, storeVars, WorkerRecord
  <2> QED
    BY <1>2, <2>1 DEF ToExplain
<1> QED
  BY <1>5, <1>6, <1>7, <1>8, <1>9, <1>10, <1>11 DEF Advance

\* A report hands all it opens to one goroutine, and takes nothing from another.
LEMMA IngestKeepsInSight ==
    ASSUME TypeInv, NEW c \in Clusters, NEW batch \in Batches(c), Ingest(c, batch)
    PROVE  Forgotten' \subseteq Forgotten
<1> DEFINE created == DOMAIN batch \ Known
           minted == (seq + 1) .. (seq + Cardinality(created))
           ids == minted \cup Reopened(batch)
<1>1. PICK fpOf \in Injection(minted, created) :
        incidents' =
          [i \in DOMAIN incidents \cup minted |->
             IF i \in minted THEN Opened(fpOf[i], batch[fpOf[i]])
             ELSE Correlated(incidents[i], c, batch)]
  BY DEF Ingest
<1>2. StartOrchestrator(ids)
  BY DEF Ingest
<1>3. worker \in [Workers -> WorkerRecord]
  BY DEF TypeInv, WorkersTyped
<1> HIDE DEF minted
<1>4. \A i \in DOMAIN incidents' \ minted :
        i \in DOMAIN incidents /\ incidents'[i].explained = incidents[i].explained
  <2>1. \A i \in DOMAIN incidents : incidents[i] \in IncidentRecord
    BY DEF TypeInv, StoreTyped, IsStored, IsTable
  <2>2. \A i \in DOMAIN incidents' \ minted :
          i \in DOMAIN incidents /\ incidents'[i] = Correlated(incidents[i], c, batch)
    BY <1>1
  <2> QED
    BY <2>1, <2>2 DEF Correlated, IncidentRecord
<1> HIDE DEF ids
<1>5. \/ ids = {} /\ UNCHANGED worker
      \/ \E w \in Workers :
           /\ worker[w].todo = {} /\ worker[w].stage = "rest"
           /\ \A v \in Workers \ {w} : worker'[v] = worker[v]
           /\ worker'[w].todo = ids
  <2>1. CASE ids = {}
    BY <1>2, <2>1 DEF StartOrchestrator
  <2>2. CASE ids /= {}
    <3>1. PICK w \in Workers : Free(w) /\ worker' = [worker EXCEPT ![w].todo = ids]
      BY <1>2, <2>2 DEF StartOrchestrator
    <3>2. worker[w].todo = {} /\ worker[w].stage = "rest"
      BY <3>1 DEF Free, IdleWorker
    <3>3. worker'[w].todo = ids /\ \A v \in Workers \ {w} : worker'[v] = worker[v]
      BY <1>3, <3>1 DEF WorkerRecord
    <3> QED
      BY <3>2, <3>3
  <2> QED
    BY <2>1, <2>2
<1>6. \A w \in Workers : \A i : ToExplain(w, i) => ToExplain(w, i)'
  BY <1>5 DEF ToExplain
<1>7. \A i \in ids : \E w \in Workers : ToExplain(w, i)'
  BY <1>5 DEF ToExplain
<1>8. minted \subseteq ids
  BY DEF ids
<1> QED
  BY <1>4, <1>6, <1>7, <1>8 DEF Forgotten

\* Only a restart loses sight of an incident that has no explanation yet, for any
\* number of goroutines, reports, restarts and failed writes (http.go:57-63,
\* orchestrator.go:26-41).
THEOREM NoneForgottenButByRestart == Spec => OnlyRestartsForget
<1>1. TypeInv /\ [Next]_vars
        => [crashes' = crashes => Forgotten' \subseteq Forgotten]_vars
  <2> SUFFICES ASSUME TypeInv, [Next]_vars, crashes' = crashes
               PROVE  Forgotten' \subseteq Forgotten \/ UNCHANGED vars
    OBVIOUS
  <2>1. ASSUME NEW c \in Clusters, NEW batch \in Batches(c), Ingest(c, batch)
        PROVE  Forgotten' \subseteq Forgotten
    BY <2>1, IngestKeepsInSight
  <2>2. ASSUME NEW p, NEW answer, Decide(p, answer) \/ RecordOutcome(p, answer)
        PROVE  Forgotten' \subseteq Forgotten
    BY <2>2 DEF Decide, RecordOutcome, SetProposalState, Forgotten, ToExplain
  <2>3. ~Restart
    <3>1. crashes \in Nat
      BY StoreAssumption DEF TypeInv, CountersTyped
    <3> QED
      BY <3>1 DEF Restart
  <2> QED
    BY <2>1, <2>2, <2>3, WorkerKeepsInSight DEF Next, Report
<1> QED
  BY <1>1, TypeInvariant, PTL DEF Spec, OnlyRestartsForget

-----------------------------------------------------------------------------
(* The refinement.                                                          *)

LEMMA InitImplements == Init => Lifecycle!LifecycleInit
<1> SUFFICES ASSUME Init PROVE Lifecycle!LifecycleInit
  OBVIOUS
<1>1. DOMAIN proposals = {}
  BY DEF Init
<1> QED
  BY <1>1 DEF Lifecycle!LifecycleInit

LEMMA SameProposalsImplement ==
    ASSUME UNCHANGED proposals
    PROVE  UNCHANGED Lifecycle!lifecycleVars
BY DEF Lifecycle!lifecycleVars

LEMMA AddProposalImplements ==
    ASSUME TypeInv, SlotInv, NEW w \in Workers, AddProposal(w)
    PROVE  Lifecycle!LifecycleNext
<1>1. PICK new \in Ids \ DOMAIN proposals, i \in Ids :
             /\ DOMAIN proposals' = DOMAIN proposals \cup {new}
             /\ proposals'[new].state = "Pending"
             /\ proposals'[new].incident = i
             /\ ~HasProposal(i)
             /\ \A q \in DOMAIN proposals : proposals'[q] = proposals[q]
  BY AddProposalAdds
<1>2. None \notin Ids
  BY StoreAssumption DEF Ids
<1>3. Lifecycle!Raise(new, i)
  BY <1>1, <1>2 DEF Lifecycle!Raise, Lifecycle!Standing, HasProposal, Replaceable
<1> QED
  BY <1>1, <1>3 DEF Lifecycle!LifecycleNext

LEMMA DecisionImplements ==
    ASSUME TypeInv, NEW p \in DOMAIN proposals, NEW answer \in BOOLEAN,
           Decide(p, answer) \/ RecordOutcome(p, answer)
    PROVE  Lifecycle!LifecycleNext
<1>1. /\ DOMAIN proposals' = DOMAIN proposals
      /\ Follows(proposals[p].state, proposals'[p].state)
      /\ proposals'[p].incident = proposals[p].incident
      /\ \A q \in DOMAIN proposals \ {p} : proposals'[q] = proposals[q]
  BY DecisionMoves
<1>2. DOMAIN proposals \subseteq Ids
  BY DEF TypeInv, StoreTyped, IsStored, IsTable
<1>3. ASSUME NEW s, NEW t, proposals[p].state = s, proposals'[p].state = t
      PROVE  Lifecycle!Move(p, s, t)
  BY <1>1, <1>2, <1>3 DEF Lifecycle!Move
<1>4. Lifecycle!Settle(p)
  BY <1>1, <1>3 DEF Lifecycle!Settle, Follows
<1> QED
  BY <1>2, <1>4 DEF Lifecycle!LifecycleNext

\* With a disk that accepts writes the store, its lock, goroutines, file and
\* restarts, does to proposals only what the lifecycle allows: one decision,
\* an outcome only of what was approved, one standing proposal per incident
\* (store.go:176-265).
THEOREM StoreImplementsLifecycle ==
    ASSUME PersistMayFail = FALSE
    PROVE  Spec => ImplementsLifecycle
<1>1. Init => FileCurrent
  BY DEF Init, FileCurrent
<1>2. TypeInv /\ FileCurrent /\ [Next]_vars => FileCurrent'
  BY FileCurrentStep
<1>3. TypeInv /\ SlotInv /\ FileCurrent /\ [Next]_vars
        => [Lifecycle!LifecycleNext]_(Lifecycle!lifecycleVars)
  <2> SUFFICES ASSUME TypeInv, SlotInv, FileCurrent, [Next]_vars
               PROVE  Lifecycle!LifecycleNext \/ UNCHANGED Lifecycle!lifecycleVars
    OBVIOUS
  <2>1. CASE Restart
    BY <2>1, SameProposalsImplement DEF Restart, FileCurrent
  <2> QED
    BY <2>1, SameProposalsImplement, AddProposalImplements, DecisionImplements,
       ProposalSteps
<1> QED
  BY <1>1, <1>2, <1>3, InitImplements, TypeInvariant, SlotInvariant, PTL
     DEF Spec, ImplementsLifecycle, Lifecycle!LifecycleSpec
=============================================================================
