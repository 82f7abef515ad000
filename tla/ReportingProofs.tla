---------------------------- MODULE ReportingProofs ----------------------------
(***************************************************************************)
(* Proofs about Reporting, for any number of problems, analyzers, faults   *)
(* and any size of the backlog: the cap holds, and what it cuts is never   *)
(* what the last scan found.                                               *)
(***************************************************************************)
EXTENDS Reporting, FiniteSetTheorems, FunctionTheorems, SequenceTheorems, TLAPS

USE ReportingAssumption

-----------------------------------------------------------------------------
(* Sequences                                                               *)

\* The last n elements of a sequence.
Newest(s, n) == {s[i] : i \in {j \in 1 .. Len(s) : j > Len(s) - n}}

LEMMA KeepNewestTypes ==
    ASSUME NEW b \in Seq(Fingerprints)
    PROVE  /\ KeepNewest(b) \in Seq(Fingerprints)
           /\ Len(KeepNewest(b)) <= MaxBuffer
<1>1. MaxBuffer \in Nat \ {0} /\ Len(b) \in Nat
  BY DEF ReportingAssumption
<1>2. CASE Len(b) > MaxBuffer
  <2> DEFINE m == Len(b) - MaxBuffer + 1
  <2>1. m \in 1 .. Len(b) /\ Len(b) - m + 1 = MaxBuffer
    BY <1>1, <1>2
  <2>2. KeepNewest(b) = SubSeq(b, m, Len(b))
    BY <1>2 DEF KeepNewest
  <2> HIDE DEF m
  <2>3. /\ SubSeq(b, m, Len(b)) \in Seq(Fingerprints)
        /\ Len(SubSeq(b, m, Len(b))) = Len(b) - m + 1
    BY <1>1, <2>1, SubSeqProperties
  <2> QED
    BY <1>1, <2>1, <2>2, <2>3
<1>3. CASE ~(Len(b) > MaxBuffer)
  BY <1>1, <1>3 DEF KeepNewest
<1> QED
  BY <1>2, <1>3

\* The cut leaves the newest elements, as many as there is room for.
LEMMA KeepNewestKeeps ==
    ASSUME NEW b \in Seq(Fingerprints), NEW n \in Nat, n <= MaxBuffer
    PROVE  Newest(b, n) \subseteq ToSet(KeepNewest(b))
<1>1. MaxBuffer \in Nat \ {0} /\ Len(b) \in Nat
  BY DEF ReportingAssumption
<1> SUFFICES ASSUME NEW i \in 1 .. Len(b), i > Len(b) - n
             PROVE  b[i] \in ToSet(KeepNewest(b))
  BY DEF Newest
<1>2. CASE Len(b) > MaxBuffer
  <2> DEFINE m == Len(b) - MaxBuffer + 1
             j == i - m + 1
  <2>1. /\ m \in 1 .. Len(b) /\ j \in 1 .. MaxBuffer /\ m + j - 1 = i
        /\ Len(b) - m + 1 = MaxBuffer
    BY <1>1, <1>2
  <2>2. KeepNewest(b) = SubSeq(b, m, Len(b))
    BY <1>2 DEF KeepNewest
  <2> HIDE DEF m, j
  <2>3. /\ SubSeq(b, m, Len(b)) \in Seq(Fingerprints)
        /\ Len(SubSeq(b, m, Len(b))) = MaxBuffer
        /\ SubSeq(b, m, Len(b))[j] = b[m + j - 1]
    BY <1>1, <2>1, SubSeqProperties
  <2>4. j \in DOMAIN KeepNewest(b) /\ KeepNewest(b)[j] = b[i]
    BY <2>1, <2>2, <2>3
  <2> QED
    BY <2>4 DEF ToSet
<1>3. CASE ~(Len(b) > MaxBuffer)
  BY <1>1, <1>3 DEF KeepNewest, ToSet
<1> QED
  BY <1>2, <1>3

\* An order of a finite set is a sequence of all its elements.
LEMMA OrderTypes ==
    ASSUME NEW S \in SUBSET Fingerprints, NEW order \in SetToSeqs(S)
    PROVE  /\ order \in Seq(Fingerprints) /\ Len(order) = Cardinality(S)
           /\ Cardinality(S) \in Nat
           /\ \A x \in S : \E i \in 1 .. Cardinality(S) : order[i] = x
<1> DEFINE n == Cardinality(S)
           D == 1 .. n
<1>1. IsFiniteSet(S) /\ n \in Nat
  BY FS_Subset, FS_CardinalityType DEF ReportingAssumption
<1>2. order \in [D -> S] /\ \A i, j \in D : i # j => order[i] # order[j]
  BY DEF SetToSeqs
<1>3. order \in Seq(Fingerprints) /\ Len(order) = n
  <2>1. order \in [1 .. n -> Fingerprints]
    BY <1>2
  <2> HIDE DEF n
  <2> QED
    BY <1>1, <2>1
<1>4. IsFiniteSet(D) /\ Cardinality(D) = n
  BY <1>1, FS_Interval
<1> HIDE DEF D
<1>5. order \in Injection(D, S)
  BY <1>2, Fun_IsInj
<1>6. order \in Surjection(D, S)
  BY <1>1, <1>4, <1>5, FS_Injection
<1>7. \A x \in S : \E i \in D : order[i] = x
  BY <1>6, Fun_SurjectionProperties
<1> QED
  BY <1>1, <1>3, <1>7 DEF D

\* A batch ends with what the scan found.
LEMMA BatchTypes ==
    ASSUME NEW findings \in SUBSET Fingerprints, pending \in Seq(Fingerprints),
           NEW b \in Batches(findings)
    PROVE  /\ b \in Seq(Fingerprints)
           /\ findings \subseteq Newest(b, Cardinality(findings))
<1>1. PICK order \in SetToSeqs(findings) : b = pending \o order
  BY DEF Batches
<1>2. /\ order \in Seq(Fingerprints) /\ Len(order) = Cardinality(findings)
      /\ Cardinality(findings) \in Nat
      /\ \A x \in findings : \E i \in 1 .. Cardinality(findings) : order[i] = x
  BY OrderTypes
<1>3. b \in Seq(Fingerprints) /\ Len(b) = Len(pending) + Len(order) /\ Len(pending) \in Nat
  <2>1. order \in Seq(Fingerprints) /\ Len(pending) \in Nat
    BY <1>2
  <2>2. /\ pending \o order \in Seq(Fingerprints)
        /\ Len(pending \o order) = Len(pending) + Len(order)
    BY <2>1, ConcatProperties
  <2> QED
    BY <1>1, <2>1, <2>2
<1>4. ASSUME NEW x \in findings PROVE x \in Newest(b, Cardinality(findings))
  <2>1. PICK i \in 1 .. Cardinality(findings) : order[i] = x
    BY <1>2
  <2>2. b[Len(pending) + i] = x
    BY <1>1, <1>2, <2>1, ConcatProperties
  <2>3. /\ Len(pending) + i \in 1 .. Len(b)
        /\ Len(pending) + i > Len(b) - Cardinality(findings)
    BY <1>2, <1>3
  <2> QED
    BY <2>2, <2>3 DEF Newest
<1> QED
  BY <1>3, <1>4

-----------------------------------------------------------------------------
(* The inductive invariant                                                 *)

\* A batch that is being posted ends with what was found.
BatchEndsWithScan ==
    stage /= "idle" => found \subseteq Newest(batch, Cardinality(found))

IInv == TypeOK /\ BatchEndsWithScan /\ BacklogHoldsLastScan

LEMMA FoundCounted == ASSUME TypeOK PROVE Cardinality(found) \in Nat
<1>1. IsFiniteSet(found)
  BY FS_Subset DEF TypeOK, ReportingAssumption
<1> QED
  BY <1>1, FS_CardinalityType

LEMMA FaultTypes ==
    ASSUME TypeOK, NEW kind, Fault(kind) PROVE faults' \in 0 .. MaxFaults
BY DEF TypeOK, Fault, ReportingAssumption

LEMMA NoBatch == << >> \in Seq(Fingerprints) /\ Len(<< >>) = 0
OBVIOUS

LEMMA InitIInv == Init => IInv
<1> SUFFICES ASSUME Init PROVE IInv
  OBVIOUS
<1>1. changes \in 0 .. MaxChanges /\ faults \in 0 .. MaxFaults
  BY DEF Init, ReportingAssumption
<1>2. pending = << >> /\ batch = << >> /\ stage = "idle" /\ spilled \in BOOLEAN
  BY DEF Init
<1>3. Len(pending) <= MaxBuffer
  BY <1>2, NoBatch DEF ReportingAssumption
<1>4. TypeOK
  BY <1>1, <1>2, <1>3, NoBatch DEF Init, TypeOK, Stages
<1> QED
  BY <1>2, <1>4 DEF IInv, BatchEndsWithScan, BacklogHoldsLastScan

-----------------------------------------------------------------------------
(* Steps                                                                   *)

\* Neither the agent nor what it found last changes.
LEMMA ElsewhereIInv ==
    ASSUME IInv, TypeOK', UNCHANGED <<agent, found>> PROVE IInv'
BY DEF IInv, agent, BatchEndsWithScan, BacklogHoldsLastScan

LEMMA ChangeIInv == ASSUME IInv, NEW fp \in Fingerprints, Change(fp) PROVE IInv'
<1>1. changes' \in 0 .. MaxChanges /\ problems' \subseteq Fingerprints
  BY DEF Change, IInv, TypeOK, ReportingAssumption
<1>2. TypeOK' /\ UNCHANGED <<agent, found>>
  BY <1>1 DEF Change, IInv, TypeOK, agent, ghosts
<1> QED
  BY <1>2, ElsewhereIInv

LEMMA IngestTypes ==
    ASSUME TypeOK, NEW b \in Seq(Fingerprints), Ingest(b)
    PROVE  open' \subseteq Fingerprints /\ unsent' \subseteq Fingerprints
<1>1. ToSet(b) \subseteq Fingerprints
  BY DEF ToSet
<1> QED
  BY <1>1 DEF Ingest, TypeOK

LEMMA IngestLateIInv == ASSUME IInv, NEW b \in late, IngestLate(b) PROVE IInv'
<1>1. b \in Seq(Fingerprints)
  BY DEF IInv, TypeOK
<1>2. open' \subseteq Fingerprints /\ unsent' \subseteq Fingerprints
  BY <1>1, IngestTypes DEF IngestLate, IInv
<1>3. TypeOK' /\ UNCHANGED <<agent, found>>
  BY <1>2 DEF IngestLate, IInv, TypeOK, agent
<1> QED
  BY <1>3, ElsewhereIInv

LEMMA ScanIInv == ASSUME IInv, NEW failing \in SUBSET Analyzers, Scan(failing) PROVE IInv'
<1>1. /\ found' \subseteq Fingerprints /\ batch' \in Batches(found') /\ stage' = "post"
      /\ unsent' = unsent \cup found'
      /\ UNCHANGED <<problems, pending, late, open, spilled, changes>>
  BY DEF Scan, Findings, IInv, TypeOK
<1>2. pending \in Seq(Fingerprints)
  BY DEF IInv, TypeOK
<1>3. batch' \in Seq(Fingerprints) /\ found' \subseteq Newest(batch', Cardinality(found'))
  <2> DEFINE f == found'
             b == batch'
  <2>1. f \in SUBSET Fingerprints /\ b \in Batches(f)
    BY <1>1
  <2> HIDE DEF f, b
  <2>2. b \in Seq(Fingerprints) /\ f \subseteq Newest(b, Cardinality(f))
    BY <1>2, <2>1, BatchTypes
  <2> QED
    BY <2>2 DEF f, b
<1>4. faults' \in 0 .. MaxFaults
  <2>1. CASE failing = {}
    BY <2>1 DEF Scan, IInv, TypeOK
  <2>2. CASE failing /= {}
    BY <2>2, FaultTypes DEF Scan, IInv
  <2> QED
    BY <2>1, <2>2
<1>5. TypeOK'
  BY <1>1, <1>3, <1>4 DEF IInv, TypeOK, Stages
<1> QED
  BY <1>1, <1>3, <1>5 DEF IInv, BatchEndsWithScan, BacklogHoldsLastScan

LEMMA DeliverIInv == ASSUME IInv, Deliver PROVE IInv'
<1>1. batch \in Seq(Fingerprints)
  BY DEF IInv, TypeOK
<1>2. open' \subseteq Fingerprints /\ unsent' \subseteq Fingerprints
  BY <1>1, IngestTypes DEF Deliver, IInv
<1>3. TypeOK'
  BY <1>2 DEF Deliver, IInv, TypeOK, Stages
<1> QED
  BY <1>3 DEF Deliver, IInv, BatchEndsWithScan, BacklogHoldsLastScan

LEMMA AnsweredIInv == ASSUME IInv, Answered PROVE IInv'
<1>1. pending' = << >> /\ batch' = << >> /\ stage' = "idle"
      /\ UNCHANGED <<problems, late, open, ghosts, changes, faults>>
  BY DEF Answered
<1>2. Len(pending') <= MaxBuffer
  BY <1>1, NoBatch DEF ReportingAssumption
<1>3. TypeOK'
  BY <1>1, <1>2, NoBatch DEF IInv, TypeOK, Stages, ghosts
<1> QED
  BY <1>1, <1>3 DEF IInv, BatchEndsWithScan, BacklogHoldsLastScan

\* A request the reporter got no 200 for.
LEMMA BufferIInv ==
    ASSUME IInv, stage /= "idle", Buffer, faults' \in 0 .. MaxFaults,
           \A b \in late' : b \in Seq(Fingerprints),
           UNCHANGED <<problems, open, found, unsent, changes>>
    PROVE  IInv'
<1>1. batch \in Seq(Fingerprints) /\ Cardinality(found) \in Nat
  BY FoundCounted DEF IInv, TypeOK
<1>2. pending' = KeepNewest(batch) /\ batch' = << >> /\ stage' = "idle"
  BY DEF Buffer
<1>3. KeepNewest(batch) \in Seq(Fingerprints) /\ Len(KeepNewest(batch)) <= MaxBuffer
  BY <1>1, KeepNewestTypes
<1>4. spilled' \in BOOLEAN
  <2>1. spilled' = (spilled \/ Len(batch) > MaxBuffer)
    BY DEF Buffer
  <2> QED
    BY <2>1, Zenon
<1>5. TypeOK'
  BY <1>2, <1>3, <1>4, NoBatch DEF IInv, TypeOK, Stages
<1>6. BacklogHoldsLastScan'
  <2> SUFFICES ASSUME Cardinality(found) <= MaxBuffer PROVE found \subseteq ToSet(KeepNewest(batch))
    BY <1>2, <1>3 DEF BacklogHoldsLastScan
  <2>1. found \subseteq Newest(batch, Cardinality(found))
    BY DEF IInv, BatchEndsWithScan
  <2>2. Newest(batch, Cardinality(found)) \subseteq ToSet(KeepNewest(batch))
    BY <1>1, KeepNewestKeeps
  <2> QED
    BY <2>1, <2>2
<1> QED
  BY <1>2, <1>5, <1>6 DEF IInv, BatchEndsWithScan

LEMMA FailsIInv == ASSUME IInv, RequestLost \/ TimedOut \/ AnswerLost PROVE IInv'
<1>1. stage /= "idle" /\ Buffer /\ UNCHANGED <<problems, open, found, unsent, changes>>
  BY DEF RequestLost, TimedOut, AnswerLost
<1>2. faults' \in 0 .. MaxFaults
  BY FaultTypes DEF RequestLost, TimedOut, AnswerLost, IInv
<1>3. \A b \in late' : b \in Seq(Fingerprints)
  BY DEF RequestLost, TimedOut, AnswerLost, IInv, TypeOK
<1> QED
  BY <1>1, <1>2, <1>3, BufferIInv

LEMMA CrashIInv == ASSUME IInv, Crash PROVE IInv'
<1>1. /\ pending' = << >> /\ batch' = << >> /\ stage' = "idle" /\ spilled' = TRUE
      /\ UNCHANGED <<problems, open, found, unsent, changes>>
  BY DEF Crash
<1>2. faults' \in 0 .. MaxFaults
  BY FaultTypes DEF Crash, IInv
<1>3. \A b \in late' : b \in Seq(Fingerprints)
  BY DEF Crash, IInv, TypeOK
<1>4. Len(pending') <= MaxBuffer
  BY <1>1, NoBatch DEF ReportingAssumption
<1>5. TypeOK'
  BY <1>1, <1>2, <1>3, <1>4, NoBatch DEF IInv, TypeOK, Stages
<1> QED
  BY <1>1, <1>5 DEF IInv, BatchEndsWithScan, BacklogHoldsLastScan

LEMMA NextIInv == IInv /\ [Next]_vars => IInv'
<1> SUFFICES ASSUME IInv, [Next]_vars PROVE IInv'
  OBVIOUS
<1>1. CASE UNCHANGED vars
  BY <1>1 DEF vars, agent, ghosts, IInv, TypeOK, BatchEndsWithScan, BacklogHoldsLastScan
<1> QED
  BY <1>1, ChangeIInv, ScanIInv, DeliverIInv, AnsweredIInv, FailsIInv, IngestLateIInv,
     CrashIInv DEF Next

LEMMA InvariantHolds == Spec => []IInv
BY InitIInv, NextIInv, PTL DEF Spec

-----------------------------------------------------------------------------
(* Nothing found is dropped.                                               *)

\* Before the answer the batch has the backlog in it; after it was ingested,
\* nothing is left to send, unless something was dropped before.
HeldInv ==
    /\ UnsentIsHeld
    /\ stage /= "idle" => ToSet(pending) \subseteq ToSet(batch)
    /\ stage = "answer" => spilled \/ unsent = {}

\* A batch has in it what the backlog has and what was found.
LEMMA BatchCovers ==
    ASSUME NEW findings \in SUBSET Fingerprints, pending \in Seq(Fingerprints),
           NEW b \in Batches(findings)
    PROVE  findings \cup ToSet(pending) \subseteq ToSet(b)
<1>1. PICK order \in SetToSeqs(findings) : b = pending \o order
  BY DEF Batches
<1>2. /\ b \in Seq(Fingerprints)
      /\ findings \subseteq Newest(b, Cardinality(findings))
  BY BatchTypes
<1>3. findings \subseteq ToSet(b)
  BY <1>2 DEF Newest, ToSet
<1>4. ASSUME NEW i \in DOMAIN pending PROVE pending[i] \in ToSet(b)
  <2>1. order \in Seq(Fingerprints)
    BY OrderTypes
  <2>2. i \in 1 .. Len(pending) /\ Len(pending) \in Nat /\ Len(order) \in Nat
    BY <2>1
  <2>3. /\ Len(pending \o order) = Len(pending) + Len(order)
        /\ (pending \o order)[i] = pending[i]
    BY <2>1, <2>2, ConcatProperties
  <2>4. i \in DOMAIN b /\ b[i] = pending[i]
    BY <1>1, <1>2, <2>2, <2>3
  <2> QED
    BY <2>4 DEF ToSet
<1> QED
  BY <1>3, <1>4 DEF ToSet

LEMMA InitHeld == Init => HeldInv
BY DEF Init, HeldInv, UnsentIsHeld

LEMMA ScanHeld ==
    ASSUME IInv, HeldInv, NEW failing \in SUBSET Analyzers, Scan(failing)
    PROVE  HeldInv'
<1> DEFINE f == found'
           b == batch'
<1>1. f \in SUBSET Fingerprints /\ b \in Batches(f) /\ pending \in Seq(Fingerprints)
  BY DEF Scan, Findings, IInv, TypeOK
<1> HIDE DEF f, b
<1>2. f \cup ToSet(pending) \subseteq ToSet(b)
  BY <1>1, BatchCovers
<1>3. /\ stage = "idle" /\ stage' = "post" /\ unsent' = unsent \cup f
      /\ UNCHANGED <<pending, spilled>> /\ batch' = b
  BY DEF Scan, f, b
<1>4. stage = "idle" => ToSet(batch) = {}
  BY DEF IInv, TypeOK, ToSet
<1> QED
  BY <1>2, <1>3, <1>4 DEF HeldInv, UnsentIsHeld

LEMMA DeliverHeld == ASSUME HeldInv, Deliver PROVE HeldInv'
BY DEF HeldInv, UnsentIsHeld, Deliver, Ingest

LEMMA AnsweredHeld == ASSUME HeldInv, Answered PROVE HeldInv'
<1>1. /\ stage = "answer" /\ stage' = "idle"
      /\ UNCHANGED <<unsent, spilled>>
  BY DEF Answered, ghosts
<1> QED
  BY <1>1 DEF HeldInv, UnsentIsHeld

\* A buffered batch keeps all that is unsent if the backlog has room for it.
LEMMA BufferHeld ==
    ASSUME HeldInv, stage /= "idle", Buffer, UNCHANGED unsent PROVE HeldInv'
<1>1. /\ pending' = KeepNewest(batch) /\ stage' = "idle"
      /\ spilled' \/ (~spilled /\ ~(Len(batch) > MaxBuffer))
  BY DEF Buffer
<1>2. CASE spilled'
  BY <1>1, <1>2 DEF HeldInv, UnsentIsHeld
<1>3. CASE ~spilled /\ ~(Len(batch) > MaxBuffer)
  <2>1. pending' = batch
    BY <1>1, <1>3 DEF KeepNewest
  <2>2. unsent \subseteq ToSet(batch)
    BY <1>3 DEF HeldInv, UnsentIsHeld
  <2> QED
    BY <1>1, <2>1, <2>2 DEF HeldInv, UnsentIsHeld
<1> QED
  BY <1>1, <1>2, <1>3

LEMMA HeldStep == IInv /\ HeldInv /\ [Next]_vars => HeldInv'
<1> SUFFICES ASSUME IInv, HeldInv, [Next]_vars PROVE HeldInv'
  OBVIOUS
<1>1. CASE UNCHANGED vars
  BY <1>1 DEF vars, agent, ghosts, HeldInv, UnsentIsHeld
<1>2. ASSUME NEW fp, Change(fp) PROVE HeldInv'
  BY <1>2 DEF Change, agent, ghosts, HeldInv, UnsentIsHeld
<1>3. CASE RequestLost \/ TimedOut \/ AnswerLost
  BY <1>3, BufferHeld DEF RequestLost, TimedOut, AnswerLost
<1>4. ASSUME NEW b, IngestLate(b) PROVE HeldInv'
  BY <1>4 DEF IngestLate, Ingest, agent, HeldInv, UnsentIsHeld
<1>5. CASE Crash
  BY <1>5 DEF Crash, HeldInv, UnsentIsHeld
<1> QED
  BY <1>1, <1>2, <1>3, <1>4, <1>5, ScanHeld, DeliverHeld, AnsweredHeld DEF Next

-----------------------------------------------------------------------------
(* The fixpoint of the reporting: the safety half of OpenFollowsProblems.  *)

\* The server shows the problems of the cluster, and whatever is under way
\* would make it show the same.
Settled ==
    /\ found = problems
    /\ open = problems
    /\ ToSet(pending) \subseteq problems
    /\ stage /= "idle" => ToSet(batch) = problems
    /\ \A b \in late : ToSet(b) = problems

\* What the cap leaves was in the batch.
LEMMA KeepNewestAddsNothing ==
    ASSUME NEW b \in Seq(Fingerprints) PROVE ToSet(KeepNewest(b)) \subseteq ToSet(b)
<1>1. MaxBuffer \in Nat \ {0} /\ Len(b) \in Nat
  BY DEF ReportingAssumption
<1>2. CASE Len(b) > MaxBuffer
  <2> DEFINE m == Len(b) - MaxBuffer + 1
  <2>1. m \in 1 .. Len(b) /\ Len(b) - m + 1 = MaxBuffer
    BY <1>1, <1>2
  <2>2. KeepNewest(b) = SubSeq(b, m, Len(b))
    BY <1>2 DEF KeepNewest
  <2>3. \A j \in 1 .. MaxBuffer : m + j - 1 \in 1 .. Len(b)
    BY <1>1, <1>2
  <2> HIDE DEF m
  <2>4. /\ SubSeq(b, m, Len(b)) \in Seq(Fingerprints)
        /\ Len(SubSeq(b, m, Len(b))) = MaxBuffer
        /\ \A j \in 1 .. MaxBuffer : SubSeq(b, m, Len(b))[j] = b[m + j - 1]
    BY <1>1, <2>1, SubSeqProperties
  <2>5. DOMAIN KeepNewest(b) = 1 .. MaxBuffer /\ DOMAIN b = 1 .. Len(b)
    BY <1>1, <2>2, <2>4
  <2> QED
    BY <2>2, <2>3, <2>4, <2>5 DEF ToSet
<1>3. CASE ~(Len(b) > MaxBuffer)
  BY <1>1, <1>3 DEF KeepNewest
<1> QED
  BY <1>2, <1>3

LEMMA NothingInEmpty == ToSet(<< >>) = {}
BY DEF ToSet

\* A batch adds to the backlog nothing but what was found.
LEMMA BatchIs ==
    ASSUME NEW findings \in SUBSET Fingerprints, pending \in Seq(Fingerprints),
           NEW b \in Batches(findings)
    PROVE  ToSet(b) = ToSet(pending) \cup findings
<1>1. PICK order \in SetToSeqs(findings) : b = pending \o order
  BY DEF Batches
<1>2. order \in Seq(Fingerprints) /\ Len(order) = Cardinality(findings)
  BY OrderTypes
<1>3. order \in [1 .. Cardinality(findings) -> findings]
  BY DEF SetToSeqs
<1>4. ToSet(b) \subseteq ToSet(pending) \cup findings
  <2> SUFFICES ASSUME NEW i \in DOMAIN b PROVE b[i] \in ToSet(pending) \cup findings
    BY DEF ToSet
  <2>1. /\ Len(pending) \in Nat /\ Len(order) \in Nat
        /\ i \in 1 .. Len(pending) + Len(order)
        /\ b[i] = IF i <= Len(pending) THEN pending[i] ELSE order[i - Len(pending)]
    BY <1>1, <1>2, ConcatProperties
  <2>2. CASE i <= Len(pending)
    BY <2>1, <2>2 DEF ToSet
  <2>3. CASE ~(i <= Len(pending))
    <3>1. i - Len(pending) \in 1 .. Cardinality(findings)
      BY <1>2, <2>1, <2>3
    <3> QED
      BY <1>3, <2>1, <2>3, <3>1
  <2> QED
    BY <2>2, <2>3
<1> QED
  BY <1>4, BatchCovers

\* A request that fails, or is given up on, moves the batch into the backlog.
LEMMA BufferSettled ==
    ASSUME TypeOK, Settled, stage /= "idle", Buffer, late' \subseteq late \cup {batch},
           UNCHANGED <<problems, found, open>>
    PROVE  Settled'
<1>1. pending' = KeepNewest(batch) /\ stage' = "idle"
  BY DEF Buffer
<1>2. ToSet(KeepNewest(batch)) \subseteq ToSet(batch)
  BY KeepNewestAddsNothing DEF TypeOK
<1> QED
  BY <1>1, <1>2 DEF Settled

LEMMA ScanSettled ==
    ASSUME TypeOK, Settled, NEW failing \in SUBSET Analyzers, Scan(failing),
           UNCHANGED found
    PROVE  Settled'
<1>1. ToSet(batch') = ToSet(pending) \cup found
  <2> DEFINE b == batch'
  <2>1. b \in Batches(found) /\ found \in SUBSET Fingerprints /\ pending \in Seq(Fingerprints)
    BY DEF Scan, TypeOK
  <2> HIDE DEF b
  <2>2. ToSet(b) = ToSet(pending) \cup found
    BY <2>1, BatchIs
  <2> QED
    BY <2>2 DEF b
<1> QED
  BY <1>1 DEF Settled, Scan

LEMMA CrashSettled == ASSUME Settled, Crash PROVE Settled'
<1>1. pending' = << >> /\ stage' = "idle" /\ UNCHANGED <<problems, open, found>>
  BY DEF Crash
<1>2. \A b \in late' : ToSet(b) = problems
  BY DEF Crash, Settled
<1> QED
  BY <1>1, <1>2, NothingInEmpty DEF Settled

LEMMA AnsweredSettled == ASSUME Settled, Answered PROVE Settled'
<1>1. pending' = << >> /\ stage' = "idle" /\ UNCHANGED <<problems, open, found, late>>
  BY DEF Answered, ghosts
<1> QED
  BY <1>1, NothingInEmpty DEF Settled

LEMMA SettledStep ==
    IInv /\ [Next]_vars => (Settled /\ UNCHANGED <<problems, found>> => Settled')
<1> SUFFICES ASSUME IInv, [Next]_vars, Settled, UNCHANGED <<problems, found>> PROVE Settled'
  OBVIOUS
<1>0. TypeOK
  BY DEF IInv
<1>1. CASE UNCHANGED vars
  BY <1>1 DEF vars, agent, ghosts, Settled
<1>2. ASSUME NEW fp \in Fingerprints, Change(fp) PROVE Settled'
  BY <1>2 DEF Change, agent, ghosts, Settled
<1>3. CASE Deliver
  BY <1>3 DEF Deliver, Ingest, Settled
<1>4. CASE RequestLost \/ TimedOut \/ AnswerLost
  BY <1>0, <1>4, BufferSettled DEF RequestLost, TimedOut, AnswerLost
<1>5. ASSUME NEW b \in late, IngestLate(b) PROVE Settled'
  BY <1>5 DEF IngestLate, Ingest, agent, Settled
<1> QED
  BY <1>0, <1>1, <1>2, <1>3, <1>4, <1>5, ScanSettled, AnsweredSettled, CrashSettled DEF Next

-----------------------------------------------------------------------------
(* Results                                                                 *)

\* Every reachable state is well typed, for any cap, any number of problems and
\* any number of faults.
THEOREM TypeCorrect == Spec => []TypeOK
BY InvariantHolds, PTL DEF IInv

\* The backlog never exceeds its cap, and holds all that the last scan found if
\* there is room for one scan, for any cap and whatever failed before.
THEOREM BacklogIsRecent == Spec => []BacklogHoldsLastScan
BY InvariantHolds, PTL DEF IInv

\* A finding that reached no server is in the backlog or under way until the
\* backlog overflows or the agent dies, for any cap, any number of findings and
\* any order of lost requests, lost answers and late batches.
THEOREM NothingDropped == Spec => []UnsentIsHeld
<1>1. HeldInv => UnsentIsHeld
  BY DEF HeldInv
<1> QED
  BY <1>1, InitHeld, HeldStep, InvariantHolds, PTL DEF Spec

\* Once the server shows what is wrong in the cluster it shows nothing else until
\* the cluster changes or a scan's analyzer fails: requests and answers lost in
\* any number, batches the server gets to late, the cap and restarts of the agent
\* change nothing (reporter.go, Report; store.go, Ingest).
THEOREM SettledStaysSettled ==
    Spec => [][Settled /\ UNCHANGED <<problems, found>> => Settled']_vars
BY InvariantHolds, SettledStep, PTL DEF Spec
=============================================================================
