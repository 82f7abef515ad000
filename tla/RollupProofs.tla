----------------------------- MODULE RollupProofs -----------------------------
(***************************************************************************)
(* Proofs about IncidentRollup, for any number of agents, incidents and    *)
(* proposals: a MeshIncident that is marked complete refers to performed   *)
(* resolutions, although both are computed from older lists.               *)
(***************************************************************************)
EXTENDS IncidentRollup, TLAPS

USE RollupAssumption

-----------------------------------------------------------------------------
(* Go maps                                                                 *)

LEMMA PartialMember ==
    ASSUME NEW D, NEW V, NEW f
    PROVE  f \in Partial(D, V) <=>
             DOMAIN f \subseteq D /\ f = [x \in DOMAIN f |-> f[x]] /\ \A x \in DOMAIN f : f[x] \in V
<1>1. ASSUME f \in Partial(D, V)
      PROVE  DOMAIN f \subseteq D /\ f = [x \in DOMAIN f |-> f[x]] /\ \A x \in DOMAIN f : f[x] \in V
  <2>1. PICK E \in SUBSET D : f \in [E -> V]
    BY <1>1 DEF Partial
  <2> QED
    BY <2>1
<1>2. ASSUME DOMAIN f \subseteq D, f = [x \in DOMAIN f |-> f[x]], \A x \in DOMAIN f : f[x] \in V
      PROVE  f \in Partial(D, V)
  <2>1. f \in [DOMAIN f -> V]
    BY <1>2
  <2> QED
    BY <1>2, <2>1 DEF Partial
<1> QED
  BY <1>1, <1>2

LEMMA EmptyMap ==
    ASSUME NEW D, NEW V, NEW v PROVE [x \in {} |-> v] \in Partial(D, V)
<1>1. [x \in {} |-> v] \in [{} -> V]
  OBVIOUS
<1> QED
  BY <1>1 DEF Partial

LEMMA WithoutTypes ==
    ASSUME NEW D, NEW V, NEW f \in Partial(D, V), NEW x
    PROVE  /\ Without(f, x) \in Partial(D, V)
           /\ DOMAIN Without(f, x) = DOMAIN f \ {x}
           /\ \A y \in DOMAIN f \ {x} : Without(f, x)[y] = f[y]
BY PartialMember DEF Without

LEMMA UpdateTypes ==
    ASSUME NEW D, NEW V, NEW f \in Partial(D, V), NEW x \in DOMAIN f, NEW v \in V,
           NEW g, g = [f EXCEPT ![x] = v]
    PROVE  /\ g \in Partial(D, V) /\ DOMAIN g = DOMAIN f /\ g[x] = v
           /\ \A y \in DOMAIN f \ {x} : g[y] = f[y]
<1>1. PICK E \in SUBSET D : f \in [E -> V]
  BY DEF Partial
<1>2. g \in [E -> V] /\ DOMAIN f = E
  BY <1>1
<1> QED
  BY <1>1, <1>2 DEF Partial

LEMMA TotalTypes ==
    ASSUME NEW D, NEW V, NEW E \in SUBSET D, NEW f \in [E -> V]
    PROVE  f \in Partial(D, V)
BY PartialMember

-----------------------------------------------------------------------------
(* The inductive invariant                                                 *)

\* What a loop has listed, or an object shows, of performed resolutions was so
\* once; without deletions it is still so.
StillPerformed(flags) ==
    \A p \in DOMAIN flags : p \in DOMAIN performed /\ (flags[p] => performed[p])

ListsStillHold == deletes = 0 => \A a \in Agents : StillPerformed(rollup[a].performed)

RollupRecord ==
    [stage : RollupStages, listed : Partial(Incidents, MeshIncident),
     performed : Partial(Proposals, BOOLEAN)]

OwnRefs == \A i \in DOMAIN mirror : \A p \in mirror[i].refs : IncidentOf[p] = i
FreshIsThere ==
    \A a \in Agents : syncer[a].stage = "update" /\ syncer[a].fresh
                        => syncer[a].cur \in DOMAIN mirror
AtAnIncident ==
    \A a \in Agents : syncer[a].stage \in {"create", "update", "status"}
                        => syncer[a].cur \in Incidents

Types ==
    /\ incident \in [Incidents -> IncidentStates \cup {"Absent"}]
    /\ proposal \in [Proposals -> ProposalStates \cup {"Absent"}]
    /\ mirror \in Partial(Incidents, MeshIncident)
    /\ performed \in Partial(Proposals, BOOLEAN)
    /\ syncer \in [Agents -> SyncerRecord]
    /\ rollup \in [Agents -> RollupRecord]
    /\ deletes \in Nat

IInv ==
    /\ Types
    /\ OwnRefs
    /\ FreshIsThere
    /\ AtAnIncident
    /\ ListsStillHold
    /\ CompleteMeansPerformed

LEMMA IInvTypes == IInv => TypeOK
BY DEF IInv, Types, OwnRefs, FreshIsThere, TypeOK, RollupRecord

LEMMA IdleTypes ==
    /\ IdleSyncer \in SyncerRecord /\ IdleSyncer.stage = "rest"
    /\ IdleRollup \in RollupRecord /\ IdleRollup.performed = [p \in {} |-> FALSE]
    /\ Created \in MeshIncident /\ Created.refs = {} /\ ~Created.complete
<1>1. /\ [i \in {} |-> "Open"] \in Partial(Incidents, IncidentStates)
      /\ [i \in {} |-> Created] \in Partial(Incidents, MeshIncident)
      /\ [p \in {} |-> FALSE] \in Partial(Proposals, BOOLEAN)
  BY EmptyMap
<1> QED
  BY <1>1 DEF IdleSyncer, SyncerRecord, SyncStages, IncidentStates,
     IdleRollup, RollupRecord, RollupStages, Created, MeshIncident

LEMMA InitIInv == Init => IInv
<1> SUFFICES ASSUME Init PROVE IInv
  OBVIOUS
<1>1. Types
  <2>1. mirror \in Partial(Incidents, MeshIncident) /\ performed \in Partial(Proposals, BOOLEAN)
    BY EmptyMap DEF Init
  <2>2. deletes \in Nat
    BY DEF Init
  <2> QED
    BY <2>1, <2>2, IdleTypes DEF Init, Types
<1>2. OwnRefs /\ FreshIsThere /\ AtAnIncident
  BY IdleTypes DEF Init, OwnRefs, FreshIsThere, AtAnIncident
<1>3. ListsStillHold /\ CompleteMeansPerformed
  BY IdleTypes DEF Init, ListsStillHold, StillPerformed, CompleteMeansPerformed
<1> QED
  BY <1>1, <1>2, <1>3 DEF IInv

-----------------------------------------------------------------------------
(* Loops of the agent                                                      *)

LEMMA NextIncidentTypes ==
    ASSUME NEW loops \in [Agents -> SyncerRecord], NEW a \in Agents
    PROVE  /\ NextIncident(loops, a) \in [Agents -> SyncerRecord]
           /\ NextIncident(loops, a)[a].stage = "incidents"
           /\ \A b \in Agents \ {a} : NextIncident(loops, a)[b] = loops[b]
BY IdleTypes DEF NextIncident, SyncerRecord, SyncStages

\* Outdated only takes freshness away.
LEMMA OutdatedTypes ==
    ASSUME NEW loops \in [Agents -> SyncerRecord], NEW i
    PROVE  /\ Outdated(loops, i) \in [Agents -> SyncerRecord]
           /\ \A a \in Agents : /\ Outdated(loops, i)[a].stage = loops[a].stage
                                /\ Outdated(loops, i)[a].cur = loops[a].cur
                                /\ Outdated(loops, i)[a].fresh =>
                                     loops[a].fresh /\ loops[a].cur /= i
<1>1. ASSUME NEW a \in Agents
      PROVE  [loops[a] EXCEPT !.fresh = FALSE] \in SyncerRecord
  BY DEF SyncerRecord
<1>2. Outdated(loops, i) \in [Agents -> SyncerRecord]
  BY <1>1 DEF Outdated
<1>3. ASSUME NEW a \in Agents
      PROVE  /\ Outdated(loops, i)[a].stage = loops[a].stage
             /\ Outdated(loops, i)[a].cur = loops[a].cur
             /\ Outdated(loops, i)[a].fresh => loops[a].fresh /\ loops[a].cur /= i
  <2>1. loops[a] \in SyncerRecord
    OBVIOUS
  <2>2. CASE loops[a].cur = i
    BY <2>1, <2>2 DEF Outdated, SyncerRecord
  <2>3. CASE loops[a].cur /= i
    BY <2>3 DEF Outdated
  <2> QED
    BY <2>2, <2>3
<1> QED
  BY <1>2, <1>3

\* A step of the sync loop that leaves the reconcilers and the resolutions
\* alone.
LEMMA SyncIInv ==
    ASSUME IInv, SyncFrame,
           mirror' \in Partial(Incidents, MeshIncident),
           syncer' \in [Agents -> SyncerRecord],
           OwnRefs', FreshIsThere', AtAnIncident',
           \A i \in DOMAIN mirror' : mirror'[i].complete =>
               /\ i \in DOMAIN mirror
               /\ mirror[i].complete
               /\ mirror'[i].refs = mirror[i].refs
    PROVE  IInv'
<1>1. Types'
  BY DEF IInv, Types, SyncFrame, server
<1>2. ListsStillHold'
  BY DEF IInv, SyncFrame, ListsStillHold, StillPerformed
<1>3. CompleteMeansPerformed'
  BY DEF IInv, SyncFrame, CompleteMeansPerformed
<1> QED
  BY <1>1, <1>2, <1>3 DEF IInv

\* One that leaves the mirror alone and goes on with one agent.
LEMMA SyncerIInv ==
    ASSUME IInv, SyncFrame, UNCHANGED mirror, NEW a \in Agents,
           syncer' \in [Agents -> SyncerRecord],
           \A b \in Agents \ {a} : syncer'[b] = syncer[b],
           syncer'[a].stage = "update" /\ syncer'[a].fresh => syncer'[a].cur \in DOMAIN mirror,
           syncer'[a].stage \in {"create", "update", "status"} => syncer'[a].cur \in Incidents
    PROVE  IInv'
<1>1. FreshIsThere' /\ AtAnIncident'
  BY DEF IInv, FreshIsThere, AtAnIncident
<1>2. OwnRefs'
  BY DEF IInv, OwnRefs
<1> QED
  BY <1>1, <1>2, SyncIInv DEF IInv, Types

LEMMA StepTypes ==
    ASSUME NEW loops \in [Agents -> SyncerRecord], NEW a \in Agents, NEW stage \in SyncStages,
           NEW next, next = [loops EXCEPT ![a].stage = stage]
    PROVE  /\ next \in [Agents -> SyncerRecord]
           /\ next[a].stage = stage /\ next[a].cur = loops[a].cur
           /\ \A b \in Agents \ {a} : next[b] = loops[b]
<1> DEFINE new == [loops[a] EXCEPT !.stage = stage]
<1>1. new \in SyncerRecord /\ new.stage = stage /\ new.cur = loops[a].cur
  BY DEF SyncerRecord
<1>2. next = [loops EXCEPT ![a] = new]
  OBVIOUS
<1> HIDE DEF new
<1> QED
  BY <1>1, <1>2

LEMMA FetchIncidentsIInv == ASSUME IInv, NEW a \in Agents, FetchIncidents(a) PROVE IInv'
<1> DEFINE todo == [i \in Stored |-> incident[i]]
<1>1. syncer \in [Agents -> SyncerRecord] /\ syncer[a].stage = "rest"
  BY DEF IInv, Types, FetchIncidents
<1>2. todo \in Partial(Incidents, IncidentStates)
  <2>1. todo \in [Stored -> IncidentStates] /\ Stored \subseteq Incidents
    BY DEF IInv, Types, Stored
  <2> HIDE DEF todo
  <2> QED
    BY <2>1, TotalTypes
<1> HIDE DEF todo
<1>3. /\ syncer' \in [Agents -> SyncerRecord] /\ syncer'[a].stage = "incidents"
      /\ \A b \in Agents \ {a} : syncer'[b] = syncer[b]
  <2>1. CASE syncer' = [syncer EXCEPT ![a].stage = "incidents", ![a].todo = todo]
    <3> DEFINE new == [syncer[a] EXCEPT !.stage = "incidents", !.todo = todo]
    <3>1. new \in SyncerRecord /\ new.stage = "incidents"
      BY <1>1, <1>2 DEF SyncerRecord, SyncStages
    <3>2. syncer' = [syncer EXCEPT ![a] = new]
      BY <1>1, <2>1
    <3> HIDE DEF new
    <3> QED
      BY <1>1, <3>1, <3>2
  <2>2. CASE Step(a, "incidents")
    BY <1>1, <2>2, StepTypes DEF Step, SyncStages
  <2> QED
    BY <2>1, <2>2 DEF FetchIncidents, todo
<1> QED
  BY <1>3, SyncerIInv DEF FetchIncidents

LEMMA SyncGetIInv ==
    ASSUME IInv, NEW a \in Agents, NEW i \in Incidents, SyncGet(a, i) PROVE IInv'
<1> DEFINE stage == IF i \in DOMAIN mirror THEN "update" ELSE "create"
           new == [IdleSyncer EXCEPT !.stage = stage,
                     !.todo = Without(syncer[a].todo, i),
                     !.cur = i, !.want = syncer[a].todo[i], !.fresh = TRUE]
<1>1. /\ syncer \in [Agents -> SyncerRecord]
      /\ syncer[a].todo \in Partial(Incidents, IncidentStates) /\ i \in DOMAIN syncer[a].todo
  BY DEF IInv, Types, SyncGet, SyncerRecord
<1>2. syncer[a].todo[i] \in IncidentStates
  BY <1>1, PartialMember
<1>3. Without(syncer[a].todo, i) \in Partial(Incidents, IncidentStates)
  BY <1>1, WithoutTypes
<1>4. stage \in {"update", "create"} /\ (stage = "update" => i \in DOMAIN mirror)
  OBVIOUS
<1>5. syncer' = [syncer EXCEPT ![a] = new] /\ SyncFrame /\ UNCHANGED mirror
  BY DEF SyncGet
<1> HIDE DEF stage
<1>6. new \in SyncerRecord /\ new.stage = stage /\ new.cur = i
  BY <1>2, <1>3, <1>4, IdleTypes DEF SyncerRecord, SyncStages
<1> HIDE DEF new
<1>7. syncer' \in [Agents -> SyncerRecord] /\ syncer'[a] = new
      /\ \A b \in Agents \ {a} : syncer'[b] = syncer[b]
  BY <1>1, <1>5, <1>6
<1> QED
  BY <1>4, <1>5, <1>6, <1>7, SyncerIInv

\* On to the next incident, with nothing written.
LEMMA MovesOnIInv ==
    ASSUME IInv, NEW a \in Agents, SyncFrame, UNCHANGED mirror,
           syncer' = NextIncident(syncer, a)
    PROVE  IInv'
<1>1. syncer \in [Agents -> SyncerRecord]
  BY DEF IInv, Types
<1> QED
  BY <1>1, NextIncidentTypes, SyncerIInv

LEMMA SyncCreateIInv == ASSUME IInv, NEW a \in Agents, SyncCreate(a) PROVE IInv'
<1> DEFINE i == syncer[a].cur
<1>1. /\ syncer \in [Agents -> SyncerRecord] /\ mirror \in Partial(Incidents, MeshIncident)
      /\ syncer[a].stage = "create" /\ i \in Incidents /\ SyncFrame
  BY DEF IInv, Types, AtAnIncident, SyncCreate
<1>2. CASE i \in DOMAIN mirror
  BY <1>1, <1>2, MovesOnIInv DEF SyncCreate
<1>3. CASE i \notin DOMAIN mirror
  <2>1. /\ mirror' = [j \in DOMAIN mirror \cup {i} |-> IF j = i THEN Created ELSE mirror[j]]
        /\ Step(a, "status")
    BY <1>3 DEF SyncCreate
  <2>2. /\ syncer' \in [Agents -> SyncerRecord]
        /\ syncer'[a].stage = "status" /\ syncer'[a].cur = i
        /\ \A b \in Agents \ {a} : syncer'[b] = syncer[b]
    BY <1>1, <2>1, StepTypes DEF Step, SyncStages
  <2>3. DOMAIN mirror \subseteq Incidents /\ \A j \in DOMAIN mirror : mirror[j] \in MeshIncident
    BY <1>1, PartialMember
  <2>4. /\ DOMAIN mirror' = DOMAIN mirror \cup {i} /\ mirror'[i] = Created
        /\ \A j \in DOMAIN mirror : mirror'[j] = mirror[j]
    BY <1>3, <2>1
  <2>5. mirror' \in Partial(Incidents, MeshIncident)
    <3>1. mirror' \in [DOMAIN mirror \cup {i} -> MeshIncident]
      BY <2>1, <2>3, IdleTypes
    <3> QED
      BY <1>1, <2>3, <3>1, TotalTypes
  <2>6. OwnRefs'
    BY <2>4, IdleTypes DEF IInv, OwnRefs
  <2>7. FreshIsThere' /\ AtAnIncident'
    BY <1>1, <2>2, <2>4 DEF IInv, FreshIsThere, AtAnIncident
  <2>8. \A j \in DOMAIN mirror' : mirror'[j].complete => j \in DOMAIN mirror
    BY <2>4, IdleTypes
  <2> QED
    BY <1>1, <2>2, <2>4, <2>5, <2>6, <2>7, <2>8, SyncIInv
<1> QED
  BY <1>2, <1>3

LEMMA SyncUpdateIInv == ASSUME IInv, NEW a \in Agents, SyncUpdate(a) PROVE IInv'
<1>1. /\ syncer \in [Agents -> SyncerRecord] /\ SyncFrame /\ UNCHANGED mirror
      /\ syncer[a].stage = "update" /\ syncer[a].cur \in Incidents
  BY DEF IInv, Types, AtAnIncident, SyncUpdate
<1>2. CASE syncer' = NextIncident(syncer, a)
  BY <1>1, <1>2, MovesOnIInv
<1>3. CASE Step(a, "status")
  BY <1>1, <1>3, StepTypes, SyncerIInv DEF Step, SyncStages
<1>4. CASE syncer' = [Outdated(syncer, syncer[a].cur) EXCEPT ![a].stage = "status"]
  <2> DEFINE loops == Outdated(syncer, syncer[a].cur)
  <2>1. /\ loops \in [Agents -> SyncerRecord]
        /\ \A b \in Agents : /\ loops[b].stage = syncer[b].stage
                             /\ loops[b].cur = syncer[b].cur
                             /\ loops[b].fresh => syncer[b].fresh
    BY <1>1, OutdatedTypes
  <2>2. syncer' = [loops EXCEPT ![a].stage = "status"]
    BY <1>4
  <2> HIDE DEF loops
  <2>3. /\ syncer' \in [Agents -> SyncerRecord]
        /\ syncer'[a].stage = "status" /\ syncer'[a].cur = loops[a].cur
        /\ \A b \in Agents \ {a} : syncer'[b] = loops[b]
    BY <2>1, <2>2, StepTypes DEF SyncStages
  <2>4. FreshIsThere' /\ AtAnIncident'
    BY <1>1, <2>1, <2>3 DEF IInv, FreshIsThere, AtAnIncident
  <2>5. OwnRefs'
    BY <1>1 DEF IInv, OwnRefs
  <2> QED
    BY <1>1, <2>3, <2>4, <2>5, SyncIInv DEF IInv, Types
<1> QED
  BY <1>2, <1>3, <1>4 DEF SyncUpdate

LEMMA SyncStatusIInv == ASSUME IInv, NEW a \in Agents, SyncStatus(a) PROVE IInv'
<1> DEFINE i == syncer[a].cur
           loops == IF mirror' = mirror THEN syncer ELSE Outdated(syncer, i)
<1>1. /\ syncer \in [Agents -> SyncerRecord] /\ mirror \in Partial(Incidents, MeshIncident)
      /\ i \in Incidents /\ SyncFrame
  BY DEF IInv, Types, AtAnIncident, SyncStatus
<1>2. CASE i \notin DOMAIN mirror
  BY <1>1, <1>2, MovesOnIInv DEF SyncStatus
<1>3. CASE i \in DOMAIN mirror
  <2>1. /\ mirror' = [mirror EXCEPT ![i].state = syncer[a].want]
        /\ syncer' = NextIncident(loops, a)
    BY <1>3 DEF SyncStatus
  <2>2. DOMAIN mirror \subseteq Incidents /\ \A j \in DOMAIN mirror : mirror[j] \in MeshIncident
    BY <1>1, PartialMember
  <2>3. syncer[a].want \in IncidentStates
    BY <1>1 DEF SyncerRecord
  <2>4. /\ DOMAIN mirror' = DOMAIN mirror
        /\ \A j \in DOMAIN mirror : /\ mirror'[j] \in MeshIncident
                                    /\ mirror'[j].refs = mirror[j].refs
                                    /\ mirror'[j].complete = mirror[j].complete
    BY <1>3, <2>1, <2>2, <2>3 DEF MeshIncident
  <2>5. mirror' \in Partial(Incidents, MeshIncident)
    <3>1. mirror' = [j \in DOMAIN mirror |-> mirror'[j]]
      BY <2>1
    <3> QED
      BY <2>2, <2>4, <3>1, PartialMember
  <2>6. /\ loops \in [Agents -> SyncerRecord]
        /\ \A b \in Agents : /\ loops[b].stage = syncer[b].stage
                             /\ loops[b].cur = syncer[b].cur
                             /\ loops[b].fresh => syncer[b].fresh
    BY <1>1, OutdatedTypes
  <2> HIDE DEF loops
  <2>7. /\ syncer' \in [Agents -> SyncerRecord]
        /\ syncer'[a].stage = "incidents"
        /\ \A b \in Agents \ {a} : syncer'[b] = loops[b]
    BY <2>1, <2>6, NextIncidentTypes
  <2>8. FreshIsThere' /\ AtAnIncident'
    BY <2>4, <2>6, <2>7 DEF IInv, FreshIsThere, AtAnIncident
  <2>9. OwnRefs'
    BY <2>4 DEF IInv, OwnRefs
  <2> QED
    BY <1>1, <2>4, <2>5, <2>7, <2>8, <2>9, SyncIInv
<1> QED
  BY <1>2, <1>3

LEMMA MirroringTypes ==
    ASSUME NEW ps \in SUBSET Proposals
    PROVE  Mirroring(ps) \in SyncerRecord /\ Mirroring(ps).stage \in {"rest", "resolutions"}
<1>1. CASE ps = {}
  BY <1>1, IdleTypes DEF Mirroring
<1>2. CASE ps /= {}
  BY <1>2, IdleTypes DEF Mirroring, SyncerRecord, SyncStages
<1> QED
  BY <1>1, <1>2

LEMMA FetchProposalsIInv == ASSUME IInv, NEW a \in Agents, FetchProposals(a) PROVE IInv'
<1>1. syncer \in [Agents -> SyncerRecord]
  BY DEF IInv, Types
<1>2. Raised \in SUBSET Proposals
  BY DEF Raised
<1>3. PICK new \in {Mirroring(Raised), IdleSyncer} : syncer' = [syncer EXCEPT ![a] = new]
  BY DEF FetchProposals
<1>4. new \in SyncerRecord /\ new.stage \in {"rest", "resolutions"}
  BY <1>2, IdleTypes, MirroringTypes
<1>5. syncer' \in [Agents -> SyncerRecord] /\ syncer'[a] = new
      /\ \A b \in Agents \ {a} : syncer'[b] = syncer[b]
  BY <1>1, <1>3, <1>4
<1> QED
  BY <1>4, <1>5, SyncerIInv DEF FetchProposals

\* A resolution appears, which no list that was made before has.
LEMMA MirrorResolutionIInv ==
    ASSUME IInv, NEW a \in Agents, NEW p \in Proposals, MirrorResolution(a, p) PROVE IInv'
<1>1. /\ syncer \in [Agents -> SyncerRecord] /\ performed \in Partial(Proposals, BOOLEAN)
      /\ syncer[a].raised \in SUBSET Proposals
      /\ UNCHANGED <<server, mirror, rollup, changes, deletes>>
  BY DEF IInv, Types, SyncerRecord, MirrorResolution
<1>2. DOMAIN performed \subseteq Proposals
  BY <1>1, PartialMember
<1>3. /\ performed' \in Partial(Proposals, BOOLEAN)
      /\ \A q \in DOMAIN performed : q \in DOMAIN performed' /\ (performed[q] => performed'[q])
  <2> DEFINE new == [q \in DOMAIN performed \cup {p} |-> q \in DOMAIN performed /\ performed[q]]
  <2>1. CASE performed' = new
    <3>1. new \in [DOMAIN performed \cup {p} -> BOOLEAN]
      <4>1. \A q : (q \in DOMAIN performed /\ performed[q]) \in BOOLEAN
        OBVIOUS
      <4> QED
        BY <4>1, Zenon
    <3>2. \A q \in DOMAIN performed : q \in DOMAIN new /\ (performed[q] => new[q])
      BY Zenon
    <3> HIDE DEF new
    <3>3. DOMAIN performed \cup {p} \in SUBSET Proposals
      BY <1>2
    <3>4. new \in Partial(Proposals, BOOLEAN)
      BY <3>1, <3>3, TotalTypes
    <3> QED
      BY <2>1, <3>2, <3>4
  <2>2. CASE UNCHANGED performed
    BY <1>1, <2>2
  <2> QED
    BY <2>1, <2>2 DEF MirrorResolution
<1>4. PICK new \in SyncerRecord : /\ syncer' = [syncer EXCEPT ![a] = new]
                                  /\ new.stage \in {"rest", "resolutions"}
  BY <1>1, MirroringTypes DEF MirrorResolution
<1>5. syncer' \in [Agents -> SyncerRecord] /\ syncer'[a] = new
      /\ \A b \in Agents \ {a} : syncer'[b] = syncer[b]
  BY <1>1, <1>4
<1>6. Types'
  BY <1>1, <1>3, <1>5 DEF IInv, Types, server
<1>7. OwnRefs' /\ FreshIsThere' /\ AtAnIncident'
  BY <1>1, <1>4, <1>5 DEF IInv, OwnRefs, FreshIsThere, AtAnIncident
<1>8. ListsStillHold'
  BY <1>1, <1>3 DEF IInv, ListsStillHold, StillPerformed
<1>9. CompleteMeansPerformed'
  BY <1>1, <1>3 DEF IInv, CompleteMeansPerformed
<1> QED
  BY <1>6, <1>7, <1>8, <1>9 DEF IInv

LEMMA SyncStepIInv == ASSUME IInv, NEW a \in Agents, SyncStep(a) PROVE IInv'
<1>1. CASE SyncAbandon(a)
  BY <1>1, MovesOnIInv DEF SyncAbandon
<1> QED
  BY <1>1, FetchIncidentsIInv, SyncGetIInv, SyncCreateIInv, SyncUpdateIInv, SyncStatusIInv,
     FetchProposalsIInv, MirrorResolutionIInv DEF SyncStep

-----------------------------------------------------------------------------
(* Incident reconciler                                                     *)

\* A step of the reconciler of one agent that leaves the mirror alone.
LEMMA RollupIInv ==
    ASSUME IInv, RollupFrame, UNCHANGED <<mirror, syncer>>,
           NEW a \in Agents, NEW new \in RollupRecord,
           rollup' = [rollup EXCEPT ![a] = new],
           deletes = 0 => StillPerformed(new.performed)
    PROVE  IInv'
<1>1. rollup \in [Agents -> RollupRecord]
  BY DEF IInv, Types
<1>2. rollup' \in [Agents -> RollupRecord] /\ rollup'[a] = new
      /\ \A b \in Agents \ {a} : rollup'[b] = rollup[b]
  BY <1>1
<1>3. Types' /\ OwnRefs' /\ FreshIsThere' /\ AtAnIncident' /\ CompleteMeansPerformed'
  BY <1>2 DEF IInv, Types, RollupFrame, server, OwnRefs, FreshIsThere, AtAnIncident,
     CompleteMeansPerformed
<1>4. ListsStillHold'
  BY <1>2 DEF IInv, ListsStillHold, StillPerformed, RollupFrame
<1> QED
  BY <1>3, <1>4 DEF IInv

LEMMA ContinueTypes ==
    ASSUME NEW r \in RollupRecord
    PROVE  /\ Continue(r) \in RollupRecord
           /\ \A p \in DOMAIN Continue(r).performed :
                p \in DOMAIN r.performed /\ Continue(r).performed[p] = r.performed[p]
<1>1. CASE DOMAIN r.listed = {}
  BY <1>1, IdleTypes DEF Continue
<1>2. CASE DOMAIN r.listed /= {}
  BY <1>2 DEF Continue
<1> QED
  BY <1>1, <1>2

LEMMA ListIncidentsIInv == ASSUME IInv, NEW a \in Agents, ListIncidents(a) PROVE IInv'
<1> DEFINE new == [rollup[a] EXCEPT !.stage = "listed", !.listed = mirror]
<1>1. rollup[a] \in RollupRecord /\ rollup \in [Agents -> RollupRecord]
      /\ mirror \in Partial(Incidents, MeshIncident)
  BY DEF IInv, Types
<1>2. new \in RollupRecord /\ new.performed = rollup[a].performed
  BY <1>1 DEF RollupRecord, RollupStages
<1>3. rollup' = [rollup EXCEPT ![a] = new]
  BY <1>1 DEF ListIncidents
<1> HIDE DEF new
<1> QED
  BY <1>2, <1>3, RollupIInv DEF ListIncidents, IInv, ListsStillHold

LEMMA ListResolutionsIInv == ASSUME IInv, NEW a \in Agents, ListResolutions(a) PROVE IInv'
<1> DEFINE r == [rollup[a] EXCEPT !.stage = "work", !.performed = performed]
<1>1. rollup[a] \in RollupRecord /\ rollup \in [Agents -> RollupRecord]
      /\ performed \in Partial(Proposals, BOOLEAN)
  BY DEF IInv, Types
<1>2. CASE rollup' = [rollup EXCEPT ![a] = Continue(r)]
  <2>1. r \in RollupRecord /\ r.performed = performed
    BY <1>1 DEF RollupRecord, RollupStages
  <2> HIDE DEF r
  <2>2. Continue(r) \in RollupRecord /\ StillPerformed(Continue(r).performed)
    BY <2>1, ContinueTypes DEF StillPerformed
  <2> QED
    BY <1>2, <2>2, RollupIInv DEF ListResolutions
<1>3. CASE rollup' = [rollup EXCEPT ![a] = IdleRollup]
  BY <1>3, IdleTypes, RollupIInv DEF ListResolutions, StillPerformed
<1>4. rollup' = [rollup EXCEPT ![a] = Continue(r)] \/ rollup' = [rollup EXCEPT ![a] = IdleRollup]
  BY DEF ListResolutions
<1> QED
  BY <1>2, <1>3, <1>4

\* Flag and references are written together, from lists that still hold.
LEMMA ReconcileOneIInv ==
    ASSUME IInv, NEW a \in Agents, NEW i \in Incidents, ReconcileOne(a, i) PROVE IInv'
<1> DEFINE r == [rollup[a] EXCEPT !.listed = Without(rollup[a].listed, i)]
<1>1. /\ rollup[a] \in RollupRecord /\ rollup \in [Agents -> RollupRecord]
      /\ mirror \in Partial(Incidents, MeshIncident) /\ syncer \in [Agents -> SyncerRecord]
      /\ rollup[a].performed \in Partial(Proposals, BOOLEAN)
      /\ RollupFrame
  BY DEF IInv, Types, RollupRecord, ReconcileOne
<1>2. r \in RollupRecord /\ r.performed = rollup[a].performed
  <2>1. Without(rollup[a].listed, i) \in Partial(Incidents, MeshIncident)
    BY <1>1, WithoutTypes DEF RollupRecord
  <2> QED
    BY <1>1, <2>1 DEF RollupRecord
<1>3. rollup' = [rollup EXCEPT ![a] = Continue(r)]
  BY DEF ReconcileOne
<1> HIDE DEF r
<1>4. Continue(r) \in RollupRecord /\ (deletes = 0 => StillPerformed(Continue(r).performed))
  BY <1>2, ContinueTypes DEF IInv, ListsStillHold, StillPerformed
<1>5. CASE UNCHANGED <<mirror, syncer>>
  BY <1>1, <1>3, <1>4, <1>5, RollupIInv
<1>6. CASE /\ i \in DOMAIN mirror
           /\ mirror' = [mirror EXCEPT ![i].refs = Refs(a, i), ![i].complete = Complete(a, i)]
           /\ syncer' = IF mirror' = mirror THEN syncer ELSE Outdated(syncer, i)
  <2>1. DOMAIN mirror \subseteq Incidents /\ \A j \in DOMAIN mirror : mirror[j] \in MeshIncident
    BY <1>1, PartialMember
  <2>2. Refs(a, i) \in SUBSET Proposals
    BY <1>1, PartialMember DEF Refs
  <2>3. Complete(a, i) \in BOOLEAN
    BY Zenon DEF Complete
  <2>4. /\ DOMAIN mirror' = DOMAIN mirror
        /\ mirror'[i] = [mirror[i] EXCEPT !.refs = Refs(a, i), !.complete = Complete(a, i)]
        /\ \A j \in DOMAIN mirror \ {i} : mirror'[j] = mirror[j]
        /\ mirror' \in Partial(Incidents, MeshIncident)
    <3> DEFINE obj == [mirror[i] EXCEPT !.refs = Refs(a, i), !.complete = Complete(a, i)]
    <3>1. obj \in MeshIncident
      BY <1>6, <2>1, <2>2, <2>3 DEF MeshIncident
    <3>2. mirror' = [mirror EXCEPT ![i] = obj]
      BY <1>6
    <3> HIDE DEF obj
    <3>3. mirror' \in Partial(Incidents, MeshIncident) /\ DOMAIN mirror' = DOMAIN mirror
          /\ mirror'[i] = obj /\ \A j \in DOMAIN mirror \ {i} : mirror'[j] = mirror[j]
      <4>1. i \in DOMAIN mirror
        BY <1>6
      <4> QED
        BY <1>1, <3>1, <3>2, <4>1, UpdateTypes
    <3> QED
      BY <3>3 DEF obj
  <2>5. mirror'[i].refs = Refs(a, i) /\ mirror'[i].complete = Complete(a, i)
    BY <1>6, <2>1, <2>4 DEF MeshIncident
  <2>7. OwnRefs'
    BY <2>4, <2>5 DEF IInv, OwnRefs, Refs
  <2>8. /\ syncer' \in [Agents -> SyncerRecord]
        /\ \A b \in Agents : /\ syncer'[b].stage = syncer[b].stage
                             /\ syncer'[b].cur = syncer[b].cur
                             /\ syncer'[b].fresh => syncer[b].fresh
    BY <1>1, <1>6, OutdatedTypes
  <2>9. FreshIsThere' /\ AtAnIncident'
    BY <2>4, <2>8 DEF IInv, FreshIsThere, AtAnIncident
  <2>10. rollup' \in [Agents -> RollupRecord] /\ rollup'[a] = Continue(r)
         /\ \A b \in Agents \ {a} : rollup'[b] = rollup[b]
    BY <1>1, <1>3, <1>4
  <2>11. Types'
    BY <1>1, <2>4, <2>8, <2>10 DEF IInv, Types, RollupFrame, server
  <2>12. ListsStillHold'
    BY <1>1, <1>4, <2>10 DEF IInv, ListsStillHold, StillPerformed, RollupFrame
  <2>13. CompleteMeansPerformed'
    <3>1. deletes' = deletes /\ performed' = performed
      BY <1>1 DEF RollupFrame
    <3>2. ASSUME deletes = 0, Complete(a, i)
          PROVE  /\ Refs(a, i) /= {}
                 /\ \A p \in Refs(a, i) : p \in DOMAIN performed /\ performed[p]
      BY <3>2 DEF IInv, ListsStillHold, StillPerformed, Complete, Refs
    <3>3. ASSUME deletes = 0, NEW j \in DOMAIN mirror', mirror'[j].complete
          PROVE  /\ mirror'[j].refs /= {}
                 /\ \A p \in mirror'[j].refs : p \in DOMAIN performed' /\ performed'[p]
      <4>1. CASE j = i
        BY <2>5, <3>1, <3>2, <3>3, <4>1
      <4>2. CASE j /= i
        BY <2>4, <3>1, <3>3, <4>2 DEF IInv, CompleteMeansPerformed
      <4> QED
        BY <4>1, <4>2
    <3> QED
      BY <3>1, <3>3 DEF CompleteMeansPerformed
  <2> QED
    BY <2>7, <2>9, <2>11, <2>12, <2>13 DEF IInv
<1> QED
  BY <1>5, <1>6 DEF ReconcileOne

LEMMA RollupStepIInv == ASSUME IInv, NEW a \in Agents, RollupStep(a) PROVE IInv'
BY ListIncidentsIInv, ListResolutionsIInv, ReconcileOneIInv DEF RollupStep

-----------------------------------------------------------------------------
(* The server and people                                                   *)

\* A step that writes no object and is none of the loops'.
LEMMA ServerIInv ==
    ASSUME IInv, UNCHANGED <<mirror, performed, syncer, rollup, deletes>>,
           incident' \in [Incidents -> IncidentStates \cup {"Absent"}],
           proposal' \in [Proposals -> ProposalStates \cup {"Absent"}]
    PROVE  IInv'
BY DEF IInv, Types, OwnRefs, FreshIsThere, AtAnIncident, ListsStillHold, StillPerformed,
   CompleteMeansPerformed

LEMMA IncidentChangesIInv ==
    ASSUME IInv, NEW i \in Incidents, IncidentChanges(i) PROVE IInv'
<1>1. incident' \in [Incidents -> IncidentStates \cup {"Absent"}]
  BY DEF IInv, Types, IncidentChanges, IncidentStates
<1> QED
  BY <1>1, ServerIInv DEF IncidentChanges, IInv, Types

LEMMA ProposalIInv ==
    ASSUME IInv, NEW p \in Proposals, Propose(p) \/ Decide(p) \/ RecordOutcome(p) PROVE IInv'
<1>1. PICK s \in ProposalStates : proposal' = [proposal EXCEPT ![p] = s]
  BY DEF Propose, Decide, RecordOutcome, ProposalStates
<1>2. proposal' \in [Proposals -> ProposalStates \cup {"Absent"}]
  BY <1>1 DEF IInv, Types
<1>3. UNCHANGED <<incident, mirror, performed, syncer, rollup, deletes>>
  BY DEF Propose, Decide, RecordOutcome, ServerFrame, bounds
<1> QED
  BY <1>2, <1>3, ServerIInv DEF IInv, Types

\* What is performed stays so.
LEMMA PerformIInv == ASSUME IInv, NEW p \in Proposals, Perform(p) PROVE IInv'
<1>1. /\ performed \in Partial(Proposals, BOOLEAN) /\ p \in DOMAIN performed
      /\ performed' = [performed EXCEPT ![p] = TRUE]
      /\ UNCHANGED <<server, mirror, syncer, rollup, deletes>>
  BY DEF IInv, Types, Perform, bounds
<1>2. /\ DOMAIN performed' = DOMAIN performed
      /\ \A q \in DOMAIN performed : /\ performed'[q] \in BOOLEAN
                                     /\ performed[q] => performed'[q]
      /\ performed' \in Partial(Proposals, BOOLEAN)
  <2>1. /\ performed' \in Partial(Proposals, BOOLEAN) /\ DOMAIN performed' = DOMAIN performed
        /\ performed'[p] = TRUE
        /\ \A q \in DOMAIN performed \ {p} : performed'[q] = performed[q]
    BY <1>1, UpdateTypes
  <2> QED
    BY <2>1, PartialMember
<1>3. Types' /\ OwnRefs' /\ FreshIsThere' /\ AtAnIncident'
  BY <1>1, <1>2 DEF IInv, Types, server, OwnRefs, FreshIsThere, AtAnIncident
<1>4. ListsStillHold' /\ CompleteMeansPerformed'
  BY <1>1, <1>2 DEF IInv, ListsStillHold, StillPerformed, CompleteMeansPerformed
<1> QED
  BY <1>3, <1>4 DEF IInv

LEMMA DeleteIInv == ASSUME IInv, NEW i \in Incidents, Delete(i) PROVE IInv'
<1>1. /\ mirror \in Partial(Incidents, MeshIncident) /\ performed \in Partial(Proposals, BOOLEAN)
      /\ syncer \in [Agents -> SyncerRecord] /\ deletes \in Nat
      /\ deletes' = deletes + 1 /\ UNCHANGED <<server, rollup>>
  BY DEF IInv, Types, Delete
<1>2. ListsStillHold' /\ CompleteMeansPerformed'
  BY <1>1 DEF ListsStillHold, CompleteMeansPerformed
<1>3. CASE mirror' = Without(mirror, i) /\ syncer' = Outdated(syncer, i) /\ UNCHANGED performed
  <2>1. /\ mirror' \in Partial(Incidents, MeshIncident) /\ DOMAIN mirror' = DOMAIN mirror \ {i}
        /\ \A j \in DOMAIN mirror' : mirror'[j] = mirror[j]
    <3> DEFINE rest == Without(mirror, i)
    <3>1. /\ rest \in Partial(Incidents, MeshIncident) /\ DOMAIN rest = DOMAIN mirror \ {i}
          /\ \A j \in DOMAIN mirror \ {i} : rest[j] = mirror[j]
      BY <1>1, WithoutTypes DEF Without
    <3> HIDE DEF rest
    <3> QED
      BY <1>3, <3>1 DEF rest
  <2>2. /\ syncer' \in [Agents -> SyncerRecord]
        /\ \A a \in Agents : /\ syncer'[a].stage = syncer[a].stage
                             /\ syncer'[a].cur = syncer[a].cur
                             /\ syncer'[a].fresh => syncer[a].fresh /\ syncer[a].cur /= i
    BY <1>1, <1>3, OutdatedTypes
  <2>3. OwnRefs' /\ FreshIsThere' /\ AtAnIncident'
    BY <2>1, <2>2 DEF IInv, OwnRefs, FreshIsThere, AtAnIncident
  <2>4. Types'
    BY <1>1, <1>3, <2>1, <2>2 DEF IInv, Types, server
  <2> QED
    BY <1>2, <2>3, <2>4 DEF IInv
<1>4. ASSUME NEW p \in DOMAIN performed, performed' = Without(performed, p),
             UNCHANGED <<mirror, syncer>>
      PROVE  IInv'
  <2>1. performed' \in Partial(Proposals, BOOLEAN)
    BY <1>1, <1>4, WithoutTypes
  <2>2. Types' /\ OwnRefs' /\ FreshIsThere' /\ AtAnIncident'
    BY <1>1, <1>4, <2>1 DEF IInv, Types, server, OwnRefs, FreshIsThere, AtAnIncident
  <2> QED
    BY <1>2, <2>2 DEF IInv
<1> QED
  BY <1>3, <1>4 DEF Delete

LEMMA NextIInv == IInv /\ [Next]_vars => IInv'
<1> SUFFICES ASSUME IInv, [Next]_vars PROVE IInv'
  OBVIOUS
<1>1. ASSUME NEW i \in Incidents, IncidentChanges(i) \/ Delete(i) PROVE IInv'
  BY <1>1, IncidentChangesIInv, DeleteIInv
<1>2. ASSUME NEW p \in Proposals, Propose(p) \/ Decide(p) \/ Remediate(p) PROVE IInv'
  BY <1>2, ProposalIInv, PerformIInv DEF Remediate
<1>3. ASSUME NEW a \in Agents, SyncStep(a) \/ RollupStep(a) PROVE IInv'
  BY <1>3, SyncStepIInv, RollupStepIInv
<1>4. CASE UNCHANGED vars
  BY <1>4, ServerIInv DEF vars, server, bounds, IInv, Types
<1> QED
  BY <1>1, <1>2, <1>3, <1>4 DEF Next

LEMMA InvariantHolds == Spec => []IInv
BY InitIInv, NextIInv, PTL DEF Spec

-----------------------------------------------------------------------------
(* The fixpoints of the two loops: the safety halves of RollupSettles and  *)
(* of MirrorSettles.                                                       *)

\* Two tables say the same of the resolutions of incident i.
SameOwn(i, f, g) ==
    \A p \in Proposals : IncidentOf[p] = i =>
        /\ p \in DOMAIN f <=> p \in DOMAIN g
        /\ p \in DOMAIN f => (f[p] <=> g[p])

\* The object shows its roll-up, and no reconciler at work on it has another.
SettledRollup(i) ==
    /\ i \in DOMAIN mirror
    /\ RolledUp(i)
    /\ \A a \in Agents :
         rollup[a].stage = "work" /\ i \in DOMAIN rollup[a].listed
           => SameOwn(i, rollup[a].performed, performed)

\* The object shows the state of its incident, and no sync loop has another.
SettledMirror(i) ==
    /\ i \in DOMAIN mirror
    /\ mirror[i].state = incident[i]
    /\ \A a \in Agents :
         /\ i \in DOMAIN syncer[a].todo => syncer[a].todo[i] = incident[i]
         /\ syncer[a].cur = i => syncer[a].want = incident[i]

\* What may become of an object that stays: nothing, the state an agent has at
\* hand, or the roll-up of the lists of an agent.
ObjectKept(i) ==
    /\ mirror'[i].refs = mirror[i].refs
    /\ mirror'[i].complete = mirror[i].complete
ObjectRolledUp(i) ==
    /\ mirror'[i].state = mirror[i].state
    /\ \E a \in Agents :
         /\ rollup[a].stage = "work" /\ i \in DOMAIN rollup[a].listed
         /\ mirror'[i].refs = Refs(a, i)
         /\ mirror'[i].complete = Complete(a, i)
StateKept(i) ==
    \/ mirror'[i].state = mirror[i].state
    \/ \E a \in Agents : syncer[a].cur = i /\ mirror'[i].state = syncer[a].want

LEMMA SyncObject ==
    ASSUME IInv, NEW a \in Agents, SyncStep(a), NEW i \in DOMAIN mirror
    PROVE  ObjectKept(i) /\ StateKept(i)
<1>0. mirror \in Partial(Incidents, MeshIncident)
  BY DEF IInv, Types
<1>1. CASE SyncCreate(a)
  BY <1>1 DEF SyncCreate, ObjectKept, StateKept
<1>2. CASE SyncStatus(a)
  <2>1. CASE syncer[a].cur \in DOMAIN mirror
    <3>1. mirror' = [mirror EXCEPT ![syncer[a].cur].state = syncer[a].want]
      BY <1>2, <2>1 DEF SyncStatus
    <3>2. mirror[i] \in MeshIncident
      BY <1>0, PartialMember
    <3> QED
      BY <3>1, <3>2 DEF ObjectKept, StateKept, MeshIncident
  <2>2. CASE syncer[a].cur \notin DOMAIN mirror
    BY <1>2, <2>2 DEF SyncStatus, ObjectKept, StateKept
  <2> QED
    BY <2>1, <2>2
<1>3. CASE UNCHANGED mirror
  BY <1>3 DEF ObjectKept, StateKept
<1> QED
  BY <1>1, <1>2, <1>3, Zenon DEF SyncStep, FetchIncidents, SyncGet, SyncUpdate, SyncAbandon,
                                 FetchProposals, MirrorResolution

LEMMA RollupObject ==
    ASSUME IInv, NEW a \in Agents, RollupStep(a), NEW i \in DOMAIN mirror
    PROVE  ObjectRolledUp(i) \/ mirror'[i] = mirror[i]
<1>0. mirror \in Partial(Incidents, MeshIncident) /\ mirror[i] \in MeshIncident
  BY PartialMember DEF IInv, Types
<1>1. ASSUME NEW j \in Incidents, ReconcileOne(a, j)
      PROVE  ObjectRolledUp(i) \/ mirror'[i] = mirror[i]
  <2>1. CASE mirror' = [mirror EXCEPT ![j].refs = Refs(a, j), ![j].complete = Complete(a, j)]
    <3>1. CASE j = i
      <4> DEFINE refs == Refs(a, i)
                 complete == Complete(a, i)
      <4>1. mirror' = [mirror EXCEPT ![i].refs = refs, ![i].complete = complete]
        BY <2>1, <3>1
      <4> HIDE DEF refs, complete
      <4>2. /\ mirror'[i].refs = refs /\ mirror'[i].complete = complete
            /\ mirror'[i].state = mirror[i].state
        BY <1>0, <4>1 DEF MeshIncident
      <4>3. rollup[a].stage = "work" /\ i \in DOMAIN rollup[a].listed
        BY <1>1, <3>1 DEF ReconcileOne
      <4> QED
        BY <4>2, <4>3 DEF ObjectRolledUp, refs, complete
    <3>2. CASE j /= i
      <4>1. mirror'[i] = mirror[i]
        BY <2>1, <3>2
      <4> QED
        BY <4>1
    <3> QED
      BY <3>1, <3>2
  <2>2. CASE UNCHANGED mirror
    BY <2>2
  <2> QED
    BY <1>1, <2>1, <2>2 DEF ReconcileOne
<1>2. CASE UNCHANGED mirror
  BY <1>2
<1> QED
  BY <1>1, <1>2 DEF RollupStep, ListIncidents, ListResolutions

LEMMA ObjectStep ==
    ASSUME IInv, [Next]_vars, NEW i \in DOMAIN mirror, i \in DOMAIN mirror'
    PROVE  /\ ObjectKept(i) \/ ObjectRolledUp(i)
           /\ StateKept(i)
<1>1. ASSUME NEW j \in Incidents, Delete(j) PROVE mirror'[i] = mirror[i]
  BY <1>1 DEF Delete, Without
<1>2. CASE UNCHANGED mirror
  BY <1>2 DEF ObjectKept, StateKept
<1>3. ASSUME NEW a \in Agents, RollupStep(a)
      PROVE  (ObjectKept(i) \/ ObjectRolledUp(i)) /\ StateKept(i)
  BY <1>3, RollupObject DEF ObjectRolledUp, ObjectKept, StateKept
<1>4. CASE mirror'[i] = mirror[i]
  BY <1>4 DEF ObjectKept, StateKept
<1>5. ASSUME NEW j \in Incidents, IncidentChanges(j) PROVE UNCHANGED mirror
  BY <1>5 DEF IncidentChanges
<1>6. ASSUME NEW p \in Proposals, Propose(p) \/ Decide(p) \/ Remediate(p) PROVE UNCHANGED mirror
  BY <1>6 DEF Propose, Decide, Remediate, RecordOutcome, Perform, ServerFrame
<1>7. CASE UNCHANGED vars
  BY <1>2, <1>7 DEF vars
<1> QED
  BY <1>1, <1>2, <1>3, <1>4, <1>5, <1>6, <1>7, SyncObject DEF Next

\* An agent at work on an incident was so before, with the same list, or has
\* just made the list.
LEMMA ListStep ==
    ASSUME IInv, [Next]_vars, NEW b \in Agents, NEW i,
           rollup'[b].stage = "work", i \in DOMAIN rollup'[b].listed
    PROVE  \/ rollup'[b].performed = performed /\ UNCHANGED performed
           \/ /\ rollup[b].stage = "work" /\ i \in DOMAIN rollup[b].listed
              /\ rollup'[b].performed = rollup[b].performed
<1>0. rollup \in [Agents -> RollupRecord] /\ rollup[b] \in RollupRecord
  BY DEF IInv, Types
<1>1. IdleRollup.stage = "rest"
  BY DEF IdleRollup
<1>2. ASSUME NEW a \in Agents, ListIncidents(a)
      PROVE  a /= b /\ UNCHANGED rollup[b]
  BY <1>0, <1>2 DEF ListIncidents, RollupRecord
<1>3. ASSUME NEW a \in Agents, ListResolutions(a)
      PROVE  \/ rollup'[b].performed = performed /\ UNCHANGED performed
             \/ UNCHANGED rollup[b]
  <2>1. CASE a = b
    <3> DEFINE r == [rollup[b] EXCEPT !.stage = "work", !.performed = performed]
    <3>1. rollup'[b] = Continue(r) \/ rollup'[b] = IdleRollup
      BY <1>0, <1>3, <2>1 DEF ListResolutions
    <3>2. rollup'[b] = r
      BY <1>1, <3>1 DEF Continue
    <3>3. r.performed = performed
      BY <1>0 DEF RollupRecord
    <3> QED
      BY <1>3, <3>2, <3>3 DEF ListResolutions, RollupFrame
  <2>2. CASE a /= b
    BY <1>0, <1>3, <2>2 DEF ListResolutions
  <2> QED
    BY <2>1, <2>2
<1>4. ASSUME NEW a \in Agents, NEW j \in Incidents, ReconcileOne(a, j)
      PROVE  /\ rollup[b].stage = "work" /\ i \in DOMAIN rollup[b].listed
             /\ rollup'[b].performed = rollup[b].performed
  <2>1. CASE a = b
    <3> DEFINE r == [rollup[b] EXCEPT !.listed = Without(rollup[b].listed, j)]
    <3>1. rollup'[b] = Continue(r) /\ rollup[b].stage = "work"
      BY <1>0, <1>4, <2>1 DEF ReconcileOne
    <3>2. rollup'[b] = r
      BY <1>1, <3>1 DEF Continue
    <3>3. r.performed = rollup[b].performed /\ r.listed = Without(rollup[b].listed, j)
      BY <1>0 DEF RollupRecord
    <3> QED
      BY <3>1, <3>2, <3>3 DEF Without
  <2>2. CASE a /= b
    BY <1>0, <1>4, <2>2 DEF ReconcileOne
  <2> QED
    BY <2>1, <2>2
<1>5. CASE UNCHANGED rollup
  BY <1>5
<1>6. ASSUME NEW j \in Incidents, IncidentChanges(j) \/ Delete(j) PROVE UNCHANGED rollup
  BY <1>6 DEF IncidentChanges, Delete
<1>7. ASSUME NEW p \in Proposals, Propose(p) \/ Decide(p) \/ Remediate(p) PROVE UNCHANGED rollup
  BY <1>7 DEF Propose, Decide, Remediate, RecordOutcome, Perform, ServerFrame
<1>8. ASSUME NEW a \in Agents, SyncStep(a) PROVE UNCHANGED rollup
  BY <1>8, Zenon DEF SyncStep, FetchIncidents, SyncGet, SyncCreate, SyncUpdate, SyncStatus,
              SyncAbandon, FetchProposals, MirrorResolution, SyncFrame
<1>9. CASE UNCHANGED vars
  BY <1>5, <1>9 DEF vars
<1> QED
  BY <1>2, <1>3, <1>4, <1>5, <1>6, <1>7, <1>8, <1>9 DEF Next, RollupStep

\* A roll-up of a list that says what the objects say is the present one.
LEMMA RolledUpNow ==
    ASSUME IInv, NEW a \in Agents, NEW i, SameOwn(i, rollup[a].performed, performed)
    PROVE  LET refs == {p \in DOMAIN performed : IncidentOf[p] = i}
           IN  /\ Refs(a, i) = refs
               /\ Complete(a, i) <=> refs /= {} /\ \A p \in refs : performed[p]
<1>1. DOMAIN performed \subseteq Proposals /\ DOMAIN rollup[a].performed \subseteq Proposals
  BY PartialMember DEF IInv, Types, RollupRecord
<1> QED
  BY <1>1, Zenon DEF SameOwn, Refs, Complete

LEMMA RollupStays ==
    ASSUME IInv, [Next]_vars, NEW i \in Incidents, SettledRollup(i),
           SameOwn(i, performed, performed'), i \in DOMAIN mirror'
    PROVE  SettledRollup(i)'
<1> DEFINE refs == {p \in DOMAIN performed : IncidentOf[p] = i}
           whole == refs /= {} /\ \A p \in refs : performed[p]
           refs2 == {p \in DOMAIN performed' : IncidentOf[p] = i}
           whole2 == refs2 /= {} /\ \A p \in refs2 : performed'[p]
<1>1. DOMAIN performed \subseteq Proposals /\ DOMAIN performed' \subseteq Proposals
  BY NextIInv, PartialMember DEF IInv, Types
<1>2. refs2 = refs /\ (whole2 <=> whole)
  BY <1>1, Zenon DEF SameOwn
<1>3. mirror[i].refs = refs /\ (mirror[i].complete <=> whole)
  BY DEF SettledRollup, RolledUp
<1>4. mirror'[i].refs = refs /\ (mirror'[i].complete <=> whole)
  <2>1. CASE ObjectKept(i)
    BY <1>3, <2>1 DEF ObjectKept
  <2>2. ASSUME ObjectRolledUp(i) PROVE mirror'[i].refs = refs /\ (mirror'[i].complete <=> whole)
    <3>1. PICK a \in Agents : /\ rollup[a].stage = "work" /\ i \in DOMAIN rollup[a].listed
                              /\ mirror'[i].refs = Refs(a, i)
                              /\ mirror'[i].complete = Complete(a, i)
      BY <2>2 DEF ObjectRolledUp
    <3>2. SameOwn(i, rollup[a].performed, performed)
      BY <3>1 DEF SettledRollup
    <3>3. Refs(a, i) = refs /\ (Complete(a, i) <=> whole)
      BY <3>2, RolledUpNow
    <3> QED
      BY <3>1, <3>3, Zenon
  <2> QED
    BY <2>1, <2>2, ObjectStep DEF SettledRollup
<1>5. RolledUp(i)'
  BY <1>2, <1>4 DEF RolledUp
<1>6. ASSUME NEW a \in Agents, rollup'[a].stage = "work", i \in DOMAIN rollup'[a].listed
      PROVE  SameOwn(i, rollup'[a].performed, performed')
  <2>1. CASE rollup'[a].performed = performed /\ UNCHANGED performed
    BY <2>1 DEF SameOwn
  <2>2. CASE /\ rollup[a].stage = "work" /\ i \in DOMAIN rollup[a].listed
             /\ rollup'[a].performed = rollup[a].performed
    <3>1. SameOwn(i, rollup[a].performed, performed)
      BY <2>2 DEF SettledRollup
    <3> QED
      BY <2>2, <3>1, Zenon DEF SameOwn
  <2> QED
    BY <1>6, <2>1, <2>2, ListStep
<1> QED
  BY <1>5, <1>6 DEF SettledRollup

\* What a sync loop has of an incident it had before, or has just fetched.
SyncerHas(b, i) ==
    /\ i \in DOMAIN syncer'[b].todo =>
         \/ syncer'[b].todo[i] = incident[i]
         \/ i \in DOMAIN syncer[b].todo /\ syncer'[b].todo[i] = syncer[b].todo[i]
    /\ syncer'[b].cur = i =>
         \/ syncer[b].cur = i /\ syncer'[b].want = syncer[b].want
         \/ i \in DOMAIN syncer[b].todo /\ syncer'[b].want = syncer[b].todo[i]

LEMMA SameSyncer ==
    ASSUME NEW b, NEW i, syncer'[b].todo = syncer[b].todo \/ DOMAIN syncer'[b].todo = {},
           \/ syncer'[b].cur = syncer[b].cur /\ syncer'[b].want = syncer[b].want
           \/ syncer'[b].cur /= i
    PROVE  SyncerHas(b, i)
BY DEF SyncerHas

LEMMA IdleIs ==
    /\ IdleSyncer.cur = None /\ DOMAIN IdleSyncer.todo = {}
    /\ \A ps : Mirroring(ps).cur = None /\ DOMAIN Mirroring(ps).todo = {}
BY DEF IdleSyncer, Mirroring

\* Being outdated changes neither what is to do nor what is at hand.
LEMMA OutdatedKeeps ==
    ASSUME NEW loops \in [Agents -> SyncerRecord], NEW j, NEW b \in Agents
    PROVE  /\ Outdated(loops, j)[b].todo = loops[b].todo
           /\ Outdated(loops, j)[b].cur = loops[b].cur
           /\ Outdated(loops, j)[b].want = loops[b].want
<1>1. loops[b] \in SyncerRecord
  OBVIOUS
<1>2. CASE loops[b].cur = j
  BY <1>1, <1>2 DEF Outdated, SyncerRecord
<1>3. CASE loops[b].cur /= j
  BY <1>3 DEF Outdated
<1> QED
  BY <1>2, <1>3

LEMMA NextIncidentKeeps ==
    ASSUME NEW loops \in [Agents -> SyncerRecord], NEW a \in Agents, NEW b \in Agents
    PROVE  /\ NextIncident(loops, a)[b].todo = loops[b].todo
           /\ \/ NextIncident(loops, a)[b].cur = None
              \/ /\ NextIncident(loops, a)[b].cur = loops[b].cur
                 /\ NextIncident(loops, a)[b].want = loops[b].want
BY IdleTypes DEF NextIncident, IdleSyncer, SyncerRecord

LEMMA StepKeeps ==
    ASSUME NEW loops \in [Agents -> SyncerRecord], NEW a \in Agents, NEW b \in Agents, NEW stage,
           NEW next, next = [loops EXCEPT ![a].stage = stage]
    PROVE  next[b].todo = loops[b].todo /\ next[b].cur = loops[b].cur
           /\ next[b].want = loops[b].want
BY DEF SyncerRecord

LEMMA SyncHas ==
    ASSUME IInv, NEW a \in Agents, SyncStep(a), NEW b \in Agents, NEW i \in Incidents
    PROVE  SyncerHas(b, i)
<1>0. syncer \in [Agents -> SyncerRecord] /\ i /= None
  BY DEF IInv, Types, RollupAssumption
<1>1. CASE FetchIncidents(a)
  <2> DEFINE todo == [j \in Stored |-> incident[j]]
  <2>1. CASE syncer' = [syncer EXCEPT ![a].stage = "incidents", ![a].todo = todo]
    <3>1. /\ syncer'[b].todo = todo \/ syncer'[b].todo = syncer[b].todo
          /\ syncer'[b].cur = syncer[b].cur /\ syncer'[b].want = syncer[b].want
      <4> HIDE DEF todo
      <4> QED
        BY <1>0, <2>1 DEF SyncerRecord
    <3> QED
      BY <3>1 DEF SyncerHas
  <2>2. CASE Step(a, "incidents")
    BY <1>0, <2>2, StepKeeps, SameSyncer DEF Step
  <2> QED
    BY <1>1, <2>1, <2>2 DEF FetchIncidents
<1>2. ASSUME NEW j \in Incidents, SyncGet(a, j) PROVE SyncerHas(b, i)
  <2> DEFINE new == [IdleSyncer EXCEPT
                       !.stage = IF j \in DOMAIN mirror THEN "update" ELSE "create",
                       !.todo = Without(syncer[a].todo, j),
                       !.cur = j, !.want = syncer[a].todo[j], !.fresh = TRUE]
  <2>1. /\ new.todo = Without(syncer[a].todo, j) /\ new.cur = j
        /\ new.want = syncer[a].todo[j]
    BY DEF IdleSyncer
  <2>2. syncer' = [syncer EXCEPT ![a] = new] /\ j \in DOMAIN syncer[a].todo
    BY <1>2 DEF SyncGet
  <2> HIDE DEF new
  <2>3. CASE b = a
    <3>1. syncer'[b] = new
      BY <1>0, <2>2, <2>3
    <3> QED
      BY <2>1, <2>2, <2>3, <3>1 DEF SyncerHas, Without
  <2>4. CASE b /= a
    BY <1>0, <2>2, <2>4 DEF SyncerHas
  <2> QED
    BY <2>3, <2>4
<1>3. CASE syncer' = NextIncident(syncer, a)
  BY <1>0, <1>3, NextIncidentKeeps, SameSyncer
<1>4. ASSUME NEW j, syncer' = NextIncident(Outdated(syncer, j), a) PROVE SyncerHas(b, i)
  <2> DEFINE loops == Outdated(syncer, j)
  <2>1. /\ loops \in [Agents -> SyncerRecord] /\ loops[b].todo = syncer[b].todo
        /\ loops[b].cur = syncer[b].cur /\ loops[b].want = syncer[b].want
    BY <1>0, OutdatedTypes, OutdatedKeeps
  <2> HIDE DEF loops
  <2>2. syncer' = NextIncident(loops, a)
    BY <1>4 DEF loops
  <2> QED
    BY <1>0, <2>1, <2>2, NextIncidentKeeps, SameSyncer
<1>5. CASE SyncCreate(a)
  <2>1. CASE Step(a, "status")
    BY <1>0, <2>1, StepKeeps, SameSyncer DEF Step
  <2> QED
    BY <1>3, <1>5, <2>1, Zenon DEF SyncCreate
<1>6. CASE SyncUpdate(a)
  <2>1. CASE Step(a, "status")
    BY <1>0, <2>1, StepKeeps, SameSyncer DEF Step
  <2>2. CASE syncer' = [Outdated(syncer, syncer[a].cur) EXCEPT ![a].stage = "status"]
    <3> DEFINE loops == Outdated(syncer, syncer[a].cur)
    <3>1. /\ loops \in [Agents -> SyncerRecord] /\ loops[b].todo = syncer[b].todo
          /\ loops[b].cur = syncer[b].cur /\ loops[b].want = syncer[b].want
      BY <1>0, OutdatedTypes, OutdatedKeeps
    <3> HIDE DEF loops
    <3>2. syncer' = [loops EXCEPT ![a].stage = "status"]
      BY <2>2 DEF loops
    <3> QED
      BY <3>1, <3>2, StepKeeps, SameSyncer
  <2> QED
    BY <1>3, <1>6, <2>1, <2>2 DEF SyncUpdate
<1>7. CASE SyncStatus(a)
  BY <1>3, <1>4, <1>7 DEF SyncStatus
<1>8. CASE SyncAbandon(a)
  BY <1>3, <1>8 DEF SyncAbandon
<1>9. ASSUME NEW new, new.cur = None, DOMAIN new.todo = {}, syncer' = [syncer EXCEPT ![a] = new]
      PROVE  SyncerHas(b, i)
  BY <1>0, <1>9 DEF SyncerHas
<1>10. CASE FetchProposals(a)
  BY <1>9, <1>10, IdleIs DEF FetchProposals
<1>11. ASSUME NEW p \in Proposals, MirrorResolution(a, p) PROVE SyncerHas(b, i)
  BY <1>9, <1>11, IdleIs DEF MirrorResolution
<1> QED
  BY <1>1, <1>2, <1>5, <1>6, <1>7, <1>8, <1>10, <1>11 DEF SyncStep

LEMMA SyncerStep ==
    ASSUME IInv, [Next]_vars, NEW b \in Agents, NEW i \in Incidents PROVE SyncerHas(b, i)
<1>0. syncer \in [Agents -> SyncerRecord]
  BY DEF IInv, Types
<1>1. CASE UNCHANGED syncer
  BY <1>1 DEF SyncerHas
<1>2. ASSUME NEW j, syncer' = Outdated(syncer, j) PROVE SyncerHas(b, i)
  BY <1>0, <1>2, OutdatedKeeps, SameSyncer
<1>3. ASSUME NEW j \in Incidents, Delete(j) PROVE SyncerHas(b, i)
  BY <1>1, <1>2, <1>3 DEF Delete
<1>4. ASSUME NEW a \in Agents, RollupStep(a) PROVE SyncerHas(b, i)
  BY <1>1, <1>2, <1>4, Zenon DEF RollupStep, ListIncidents, ListResolutions, ReconcileOne
<1>5. ASSUME NEW j \in Incidents, IncidentChanges(j) PROVE UNCHANGED syncer
  BY <1>5 DEF IncidentChanges
<1>6. ASSUME NEW p \in Proposals, Propose(p) \/ Decide(p) \/ Remediate(p) PROVE UNCHANGED syncer
  BY <1>6 DEF Propose, Decide, Remediate, RecordOutcome, Perform, ServerFrame
<1>7. CASE UNCHANGED vars
  BY <1>1, <1>7 DEF vars
<1> QED
  BY <1>1, <1>3, <1>4, <1>5, <1>6, <1>7, SyncHas DEF Next

LEMMA MirrorStays ==
    ASSUME IInv, [Next]_vars, NEW i \in Incidents, SettledMirror(i),
           incident'[i] = incident[i], i \in DOMAIN mirror'
    PROVE  SettledMirror(i)'
<1>1. mirror'[i].state = incident[i]
  BY ObjectStep DEF StateKept, SettledMirror
<1>2. ASSUME NEW a \in Agents
      PROVE  /\ i \in DOMAIN syncer'[a].todo => syncer'[a].todo[i] = incident[i]
             /\ syncer'[a].cur = i => syncer'[a].want = incident[i]
  BY SyncerStep DEF SyncerHas, SettledMirror
<1> QED
  BY <1>1, <1>2 DEF SettledMirror

-----------------------------------------------------------------------------
(* Results                                                                 *)

\* Every reachable state is well typed, a MeshIncident refers to resolutions
\* of its own incident only, and an Update that is not a conflict has an
\* object to write, for any number of agents.
THEOREM TypeCorrect == Spec => []TypeOK
BY InvariantHolds, IInvTypes, PTL

\* As long as nobody deletes objects, an incident that is marked complete
\* refers to performed resolutions only, for any number of agents and however
\* old the lists are that flag and references are computed from.
THEOREM CompleteIsTrue == Spec => []CompleteMeansPerformed
BY InvariantHolds, PTL DEF IInv

\* Once an object shows its roll-up, and the reconcilers have seen what it is
\* made of, it goes on showing it until one of its own resolutions is made,
\* performed or deleted: failing calls, skipped patches, older lists of the other
\* incidents and the sync loop change nothing (incidentreconciler.go,
\* reconcileOne).
THEOREM RollupStaysSettled ==
    Spec => [][\A i \in Incidents :
                 /\ SettledRollup(i)
                 /\ SameOwn(i, performed, performed') /\ i \in DOMAIN mirror'
                 => SettledRollup(i)']_vars
<1> DEFINE Stays == \A i \in Incidents :
                      /\ SettledRollup(i)
                      /\ SameOwn(i, performed, performed') /\ i \in DOMAIN mirror'
                      => SettledRollup(i)'
<1>1. IInv /\ [Next]_vars => [Stays]_vars
  BY RollupStays
<1> QED
  BY <1>1, InvariantHolds, PTL DEF Spec

\* Once an object shows the state of its incident, and no sync loop has an older
\* one at hand, it goes on showing it until the incident changes or the object is
\* deleted, with any number of agents and failing calls (crdsync.go,
\* upsertIncident).
THEOREM MirrorStaysSettled ==
    Spec => [][\A i \in Incidents :
                 SettledMirror(i) /\ incident'[i] = incident[i] /\ i \in DOMAIN mirror'
                 => SettledMirror(i)']_vars
<1> DEFINE Stays == \A i \in Incidents :
                      SettledMirror(i) /\ incident'[i] = incident[i] /\ i \in DOMAIN mirror'
                      => SettledMirror(i)'
<1>1. IInv /\ [Next]_vars => [Stays]_vars
  BY MirrorStays
<1> QED
  BY <1>1, InvariantHolds, PTL DEF Spec
=============================================================================
