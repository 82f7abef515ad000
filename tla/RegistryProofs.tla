----------------------------- MODULE RegistryProofs -----------------------------
(***************************************************************************)
(* Proofs about Registry, for any number of MCPServers, toolsets, edits    *)
(* and failing calls: no session is leaked, and none is closed before the  *)
(* one that replaces it is there.                                          *)
(***************************************************************************)
EXTENDS Registry, FiniteSetTheorems, FunctionTheorems, WellFoundedInduction, TLAPS

USE RegistryAssumption

-----------------------------------------------------------------------------
(* Go maps                                                                 *)

LEMMA PartialMember ==
    ASSUME NEW D, NEW V, NEW f
    PROVE  f \in Partial(D, V) <=>
             DOMAIN f \subseteq D /\ f = [x \in DOMAIN f |-> f[x]] /\ \A x \in DOMAIN f : f[x] \in V
<1>1. ASSUME f \in Partial(D, V)
      PROVE  DOMAIN f \subseteq D /\ f = [x \in DOMAIN f |-> f[x]] /\ \A x \in DOMAIN f : f[x] \in V
  <2>1. PICK E \in SUBSET D : f \in [E -> V]
    BY <1>1 DEF Partial
  <2> QED
    BY <2>1
<1>2. ASSUME DOMAIN f \subseteq D, f = [x \in DOMAIN f |-> f[x]], \A x \in DOMAIN f : f[x] \in V
      PROVE  f \in Partial(D, V)
  <2>1. f \in [DOMAIN f -> V]
    BY <1>2
  <2> QED
    BY <1>2, <2>1 DEF Partial
<1> QED
  BY <1>1, <1>2

LEMMA EmptyMap ==
    ASSUME NEW D, NEW V, NEW v PROVE [x \in {} |-> v] \in Partial(D, V)
<1>1. [x \in {} |-> v] \in [{} -> V]
  OBVIOUS
<1> QED
  BY <1>1 DEF Partial

LEMMA WithoutTypes ==
    ASSUME NEW D, NEW V, NEW f \in Partial(D, V), NEW x
    PROVE  /\ Without(f, x) \in Partial(D, V)
           /\ DOMAIN Without(f, x) = DOMAIN f \ {x}
           /\ \A y \in DOMAIN f \ {x} : Without(f, x)[y] = f[y]
BY PartialMember DEF Without

LEMMA TotalTypes ==
    ASSUME NEW D, NEW V, NEW E \in SUBSET D, NEW f \in [E -> V]
    PROVE  f \in Partial(D, V)
BY PartialMember

LEMMA PutTypes ==
    ASSUME NEW D, NEW V, NEW f \in Partial(D, V), NEW x \in D, NEW v \in V
    PROVE  /\ Put(f, x, v) \in Partial(D, V)
           /\ DOMAIN Put(f, x, v) = DOMAIN f \cup {x}
           /\ Put(f, x, v)[x] = v
           /\ \A y \in DOMAIN f \ {x} : Put(f, x, v)[y] = f[y]
<1>1. DOMAIN f \subseteq D /\ \A y \in DOMAIN f : f[y] \in V
  BY PartialMember
<1>2. Put(f, x, v) \in [DOMAIN f \cup {x} -> V]
  BY <1>1 DEF Put
<1>3. Put(f, x, v) \in Partial(D, V)
  BY <1>1, <1>2, TotalTypes
<1> QED
  BY <1>3 DEF Put

-----------------------------------------------------------------------------
(* Sessions nobody holds                                                   *)

LEMMA MinLeast ==
    ASSUME NEW S \in SUBSET Nat, S /= {}
    PROVE  Min(S) \in S /\ \A y \in S : Min(S) <= y
<1>1. \E x \in S : \A y \in S : ~ (<<y, x>> \in OpToRel(<, Nat))
  BY NatLessThanWellFounded, WFMin, Zenon
<1>2. ASSUME NEW x \in Nat, NEW y \in Nat, ~ (<<y, x>> \in OpToRel(<, Nat)) PROVE ~(y < x)
  BY <1>2, Zenon DEF OpToRel
<1>3. \E x \in S : \A y \in S : ~(y < x)
  BY <1>1, <1>2, Zenon
<1>4. \E x \in S : \A y \in S : x =< y
  BY <1>3
<1> QED
  BY <1>4 DEF Min

\* A map by toolset holds at most one session for each.
LEMMA FewSessions ==
    ASSUME NEW f \in Partial(Toolsets, Sessions)
    PROVE  /\ Range(f) \subseteq Sessions /\ IsFiniteSet(Range(f))
           /\ Cardinality(Range(f)) \in Nat /\ Cardinality(Range(f)) <= Cardinality(Toolsets)
<1> DEFINE D == DOMAIN f
           R == Range(f)
<1>1. D \subseteq Toolsets /\ f = [x \in D |-> f[x]] /\ \A x \in D : f[x] \in Sessions
  BY PartialMember
<1>2. IsFiniteSet(D) /\ Cardinality(D) <= Cardinality(Toolsets)
  BY <1>1, FS_Subset DEF RegistryAssumption
<1>3. R \subseteq Sessions /\ f \in [D -> R] /\ \A t \in R : \E x \in D : f[x] = t
  BY <1>1 DEF Range
<1> HIDE DEF D, R
<1>4. f \in Surjection(D, R)
  BY <1>3, Fun_IsSurj
<1>5. IsFiniteSet(R) /\ Cardinality(R) <= Cardinality(D)
  BY <1>2, <1>4, FS_Surjection
<1>6. Cardinality(R) \in Nat /\ Cardinality(D) \in Nat /\ Cardinality(Toolsets) \in Nat
  BY <1>2, <1>5, FS_CardinalityType DEF RegistryAssumption
<1> QED
  BY <1>2, <1>3, <1>5, <1>6 DEF R

\* There is always a session that neither map holds.
LEMMA FreshExists ==
    ASSUME clients \in Partial(Toolsets, Sessions), next \in Partial(Toolsets, Sessions),
           DOMAIN session \subseteq Range(clients) \cup Range(next)
    PROVE  /\ Fresh \in Sessions
           /\ Fresh \notin DOMAIN session
           /\ \A ts \in DOMAIN clients : Fresh /= clients[ts]
           /\ \A ts \in DOMAIN next : Fresh /= next[ts]
<1> DEFINE C == Range(clients)
           N == Range(next)
           held == DOMAIN session \cup C \cup N
<1>1. /\ C \subseteq Sessions /\ IsFiniteSet(C) /\ Cardinality(C) \in Nat
      /\ N \subseteq Sessions /\ IsFiniteSet(N) /\ Cardinality(N) \in Nat
      /\ Cardinality(C) <= Cardinality(Toolsets) /\ Cardinality(N) <= Cardinality(Toolsets)
  BY FewSessions
<1>2. held = C \cup N
  OBVIOUS
<1> HIDE DEF C, N
<1>3. /\ Cardinality(C \cup N) = Cardinality(C) + Cardinality(N) - Cardinality(C \cap N)
      /\ IsFiniteSet(C \cup N)
  BY <1>1, FS_Union
<1>4. Cardinality(C \cap N) \in Nat /\ Cardinality(C \cup N) \in Nat /\ Cardinality(Toolsets) \in Nat
      /\ Cardinality(Sessions) \in Nat
  <2>1. IsFiniteSet(C \cap N)
    BY <1>1, FS_Subset
  <2> QED
    BY <1>3, <2>1, FS_CardinalityType DEF RegistryAssumption
<1>5. Cardinality(C \cup N) < Cardinality(Sessions)
  BY <1>1, <1>3, <1>4 DEF RegistryAssumption
<1>6. C \cup N /= Sessions
  BY <1>4, <1>5
<1>7. Sessions \ held /= {} /\ Sessions \ held \subseteq Nat
  BY <1>1, <1>2, <1>6 DEF RegistryAssumption
<1>8. Fresh \in Sessions \ held
  BY <1>7, MinLeast DEF Fresh, C, N
<1> QED
  BY <1>8 DEF C, N, Range

-----------------------------------------------------------------------------
(* The inductive invariant                                                 *)

Types ==
    /\ registered \in Partial(Servers, MCPServer)
    /\ token \in [Servers -> Tokens]
    /\ session \in Partial(Sessions, ConnKey)
    /\ clients \in Partial(Toolsets, Sessions)
    /\ conns \in Partial(Toolsets, ConnKey)
    /\ stage \in {"rest", "work"}
    /\ todo \in Partial(Servers, MCPServer)
    /\ next \in Partial(Toolsets, Sessions)
    /\ nextConns \in Partial(Toolsets, ConnKey)
    /\ DOMAIN conns = DOMAIN clients /\ DOMAIN nextConns = DOMAIN next

AtRest == stage = "rest" => DOMAIN next = {} /\ DOMAIN todo = {}

Held(table, i) == \E ts \in DOMAIN table : table[ts] = i
OneToolset(table) == \A t, u \in DOMAIN table : table[t] = table[u] => t = u

\* What is open is served now or will be; what is served but not open any
\* more has been replaced, and the object it was opened for is done with.
InUse ==
    /\ \A ts \in DOMAIN next : next[ts] \in DOMAIN session
    /\ \A i \in DOMAIN session : Held(clients, i) \/ Held(next, i)
    /\ \A ts \in DOMAIN clients :
         clients[ts] \notin DOMAIN session =>
            /\ ts \in DOMAIN next
            /\ next[ts] /= clients[ts]
            /\ conns[ts].name \notin DOMAIN todo
    /\ OneToolset(clients) /\ OneToolset(next)

\* A session of both maps is kept under its toolset, for the object it was
\* opened for.
KeptForSame ==
    \A t \in DOMAIN next, u \in DOMAIN clients :
        next[t] = clients[u] => t = u /\ nextConns[t] = conns[u]

\* What the new map holds is for objects the refresh is done with.
NextIsDone == \A ts \in DOMAIN next : nextConns[ts].name \notin DOMAIN todo

IInv == Types /\ AtRest /\ InUse /\ KeptForSame /\ NextIsDone

LEMMA IInvImplies == IInv => TypeOK /\ OpenMeansServed /\ ClosedOnlyWhenReplaced
<1> SUFFICES ASSUME IInv PROVE TypeOK /\ OpenMeansServed /\ ClosedOnlyWhenReplaced
  OBVIOUS
<1>1. TypeOK
  BY DEF IInv, Types, TypeOK
<1>2. OpenMeansServed
  BY DEF IInv, AtRest, InUse, Held, OpenMeansServed, Range
<1>3. ClosedOnlyWhenReplaced
  BY DEF IInv, Types, AtRest, InUse, ClosedOnlyWhenReplaced
<1> QED
  BY <1>1, <1>2, <1>3

LEMMA NoEntriesTypes ==
    /\ \A D, V : NoEntries \in Partial(D, V)
    /\ DOMAIN NoEntries = {}
<1>1. \A V : NoEntries \in [{} -> V]
  BY DEF NoEntries
<1> QED
  BY <1>1 DEF Partial, NoEntries

LEMMA InitIInv == Init => IInv
<1> SUFFICES ASSUME Init PROVE IInv
  OBVIOUS
<1>1. Types
  BY NoEntriesTypes DEF Init, Types
<1>2. AtRest /\ InUse /\ KeptForSame /\ NextIsDone
  BY NoEntriesTypes DEF Init, AtRest, InUse, KeptForSame, NextIsDone, Held, OneToolset
<1> QED
  BY <1>1, <1>2 DEF IInv

-----------------------------------------------------------------------------
(* Steps                                                                   *)

\* People write nothing the registry keeps.
LEMMA ChangeIInv == ASSUME IInv, NEW s \in Servers, Change(s) PROVE IInv'
<1>1. /\ registered \in Partial(Servers, MCPServer) /\ token \in [Servers -> Tokens]
      /\ UNCHANGED <<session, served, refresh>>
  BY DEF Change, IInv, Types
<1>2. registered' \in Partial(Servers, MCPServer) /\ token' \in [Servers -> Tokens]
  <2>1. CASE registered' = Without(registered, s) /\ UNCHANGED token
    BY <1>1, <2>1, WithoutTypes
  <2>2. CASE \E t \in Tokens : token' = [token EXCEPT ![s] = t] /\ UNCHANGED registered
    BY <1>1, <2>2
  <2>3. CASE \E obj \in MCPServer : registered' = Put(registered, s, obj) /\ UNCHANGED token
    <3>1. PICK obj \in MCPServer : registered' = Put(registered, s, obj) /\ UNCHANGED token
      BY <2>3
    <3>2. Put(registered, s, obj) \in Partial(Servers, MCPServer)
      BY <1>1, PutTypes
    <3> QED
      BY <1>1, <3>1, <3>2
  <2> QED
    BY <2>1, <2>2, <2>3 DEF Change
<1> QED
  BY <1>1, <1>2 DEF IInv, Types, AtRest, InUse, KeptForSame, NextIsDone, Held, OneToolset,
     served, refresh

LEMMA ListIInv == ASSUME IInv, List PROVE IInv'
<1>1. /\ DOMAIN next = {} /\ DOMAIN nextConns = {} /\ stage' = "work" /\ todo' = registered
      /\ UNCHANGED <<objects, session, served, next, nextConns>>
  BY DEF List, IInv, Types, AtRest
<1> QED
  BY <1>1 DEF IInv, Types, AtRest, InUse, KeptForSame, NextIsDone, Held, OneToolset,
     objects, served

\* The object at hand and what the refresh makes of it.
LEMMA AtHand ==
    ASSUME IInv, NEW s \in Servers, Current(s)
    PROVE  /\ s \in DOMAIN todo /\ stage = "work"
           /\ todo[s].toolset \in Toolsets \cup {None}
           /\ Want(s) \in ConnKey /\ Want(s).name = s
<1>1. s \in DOMAIN todo
  BY DEF Current
<1>2. stage = "work"
  BY <1>1 DEF IInv, Types, AtRest
<1>3. todo[s] \in MCPServer
  BY <1>1, PartialMember DEF IInv, Types
<1>4. token[s] \in Tokens
  BY DEF IInv, Types
<1> QED
  BY <1>1, <1>2, <1>3, <1>4 DEF MCPServer, Want, ConnKey

\* The object is done with.
LEMMA TodoShrinks ==
    ASSUME IInv, NEW s \in Servers, todo' = Without(todo, s)
    PROVE  todo' \in Partial(Servers, MCPServer) /\ DOMAIN todo' = DOMAIN todo \ {s}
<1>1. todo \in Partial(Servers, MCPServer)
  BY DEF IInv, Types
<1> QED
  BY <1>1, WithoutTypes DEF Without

LEMMA PassedIInv ==
    ASSUME IInv, NEW s \in Servers, Current(s), todo' = Without(todo, s),
           UNCHANGED <<session, next, nextConns>>, RefreshFrame
    PROVE  IInv'
<1>1. todo' \in Partial(Servers, MCPServer) /\ DOMAIN todo' = DOMAIN todo \ {s}
  BY TodoShrinks
<1>2. stage' = "work"
  BY AtHand DEF RefreshFrame
<1> QED
  BY <1>1, <1>2 DEF IInv, Types, AtRest, InUse, KeptForSame, NextIsDone, Held, OneToolset,
     RefreshFrame, objects, served

\* What closing the earlier session leaves.
LEMMA CloseEarlierTypes ==
    ASSUME IInv, NEW ts \in Toolsets
    PROVE  /\ CloseEarlier(ts) \in Partial(Sessions, ConnKey)
           /\ \A i : i \in DOMAIN CloseEarlier(ts) <=>
                       i \in DOMAIN session /\ (ts \in DOMAIN next => i /= next[ts])
<1>1. session \in Partial(Sessions, ConnKey)
  BY DEF IInv, Types
<1>2. CASE ts \in DOMAIN next
  BY <1>1, <1>2, WithoutTypes DEF CloseEarlier, Without
<1>3. CASE ts \notin DOMAIN next
  BY <1>1, <1>3 DEF CloseEarlier
<1> QED
  BY <1>2, <1>3

\* The maps of the refresh with session i for the object at hand.
LEMMA HandledTypes ==
    ASSUME IInv, NEW s \in Servers, Current(s), NEW ts \in Toolsets, NEW i \in Sessions,
           next' = Put(next, ts, i), nextConns' = Put(nextConns, ts, Want(s)),
           todo' = Without(todo, s), RefreshFrame, session' \in Partial(Sessions, ConnKey)
    PROVE  /\ Types' /\ AtRest' /\ NextIsDone'
           /\ DOMAIN next' = DOMAIN next \cup {ts} /\ next'[ts] = i
           /\ \A t \in DOMAIN next \ {ts} : next'[t] = next[t] /\ nextConns'[t] = nextConns[t]
           /\ nextConns'[ts] = Want(s)
           /\ DOMAIN todo' = DOMAIN todo \ {s}
<1>1. /\ next \in Partial(Toolsets, Sessions) /\ nextConns \in Partial(Toolsets, ConnKey)
      /\ DOMAIN nextConns = DOMAIN next
  BY DEF IInv, Types
<1>2. Want(s) \in ConnKey /\ Want(s).name = s /\ s \in DOMAIN todo /\ stage = "work"
  BY AtHand
<1>3. todo' \in Partial(Servers, MCPServer) /\ DOMAIN todo' = DOMAIN todo \ {s}
  BY TodoShrinks
<1>4. /\ next' \in Partial(Toolsets, Sessions) /\ DOMAIN next' = DOMAIN next \cup {ts}
      /\ next'[ts] = i /\ \A t \in DOMAIN next \ {ts} : next'[t] = next[t]
  <2> DEFINE new == Put(next, ts, i)
  <2>1. /\ new \in Partial(Toolsets, Sessions) /\ DOMAIN new = DOMAIN next \cup {ts}
        /\ new[ts] = i /\ \A t \in DOMAIN next \ {ts} : new[t] = next[t]
    BY <1>1, PutTypes DEF Put
  <2> HIDE DEF new
  <2> QED
    BY <2>1 DEF new
<1>5. /\ nextConns' \in Partial(Toolsets, ConnKey) /\ DOMAIN nextConns' = DOMAIN next \cup {ts}
      /\ nextConns'[ts] = Want(s) /\ \A t \in DOMAIN next \ {ts} : nextConns'[t] = nextConns[t]
  <2> DEFINE new == Put(nextConns, ts, Want(s))
  <2>1. /\ new \in Partial(Toolsets, ConnKey) /\ DOMAIN new = DOMAIN next \cup {ts}
        /\ new[ts] = Want(s) /\ \A t \in DOMAIN next \ {ts} : new[t] = nextConns[t]
    BY <1>1, <1>2, PutTypes DEF Put
  <2> HIDE DEF new
  <2> QED
    BY <2>1 DEF new
<1>6. Types' /\ AtRest'
  BY <1>2, <1>3, <1>4, <1>5 DEF IInv, Types, AtRest, RefreshFrame, objects, served
<1>7. NextIsDone'
  BY <1>2, <1>3, <1>4, <1>5 DEF IInv, NextIsDone
<1> QED
  BY <1>3, <1>4, <1>5, <1>6, <1>7

LEMMA KeepIInv == ASSUME IInv, NEW s \in Servers, Keep(s) PROVE IInv'
<1> DEFINE ts == todo[s].toolset
           i == clients[ts]
<1>1. /\ Current(s) /\ ts \in Toolsets /\ s \in DOMAIN todo
      /\ Want(s) \in ConnKey /\ Want(s).name = s /\ stage = "work"
  BY AtHand DEF Keep
<1>2. ts \in DOMAIN clients /\ conns[ts] = Want(s) /\ i \in Sessions
  BY PartialMember DEF Keep, Unchanged, IInv, Types
<1>3. /\ session' = CloseEarlier(ts)
      /\ next' = Put(next, ts, i) /\ nextConns' = Put(nextConns, ts, Want(s))
      /\ todo' = Without(todo, s) /\ RefreshFrame
  BY DEF Keep
<1> HIDE DEF ts, i
<1>4. /\ session' \in Partial(Sessions, ConnKey)
      /\ \A j : j \in DOMAIN session' <=>
                  j \in DOMAIN session /\ (ts \in DOMAIN next => j /= next[ts])
  BY <1>1, <1>3, CloseEarlierTypes
<1>5. /\ Types' /\ AtRest' /\ NextIsDone'
      /\ DOMAIN next' = DOMAIN next \cup {ts} /\ next'[ts] = i
      /\ \A t \in DOMAIN next \ {ts} : next'[t] = next[t] /\ nextConns'[t] = nextConns[t]
      /\ nextConns'[ts] = Want(s)
      /\ DOMAIN todo' = DOMAIN todo \ {s}
  BY <1>1, <1>2, <1>3, <1>4, HandledTypes
<1>6. UNCHANGED <<clients, conns>>
  BY <1>3 DEF RefreshFrame, served
<1>7. i \in DOMAIN session /\ (ts \in DOMAIN next => i /= next[ts])
  <2>1. conns[ts].name \in DOMAIN todo
    BY <1>1, <1>2
  <2>2. i \in DOMAIN session
    BY <1>2, <2>1 DEF IInv, InUse, i
  <2>3. ts \in DOMAIN next => i /= next[ts]
    BY <1>2, <2>1 DEF IInv, KeptForSame, NextIsDone, i
  <2> QED
    BY <2>2, <2>3
<1>8. KeptForSame'
  BY <1>2, <1>5, <1>6 DEF IInv, KeptForSame, InUse, OneToolset, i
<1>9. InUse'
  <2>1. \A t \in DOMAIN next' : next'[t] \in DOMAIN session'
    BY <1>4, <1>5, <1>7 DEF IInv, InUse, OneToolset
  <2>2. \A j \in DOMAIN session' : Held(clients', j) \/ Held(next', j)
    BY <1>4, <1>5, <1>6 DEF IInv, InUse, Held
  <2>3. ASSUME NEW t \in DOMAIN clients', clients'[t] \notin DOMAIN session'
        PROVE  t \in DOMAIN next' /\ next'[t] /= clients'[t] /\ conns'[t].name \notin DOMAIN todo'
    <3>1. clients[t] \notin DOMAIN session
      BY <1>2, <1>4, <1>6, <1>7, <2>3 DEF IInv, KeptForSame, i
    <3>2. t /= ts
      BY <1>7, <3>1 DEF i
    <3> QED
      BY <1>5, <1>6, <2>3, <3>1, <3>2 DEF IInv, InUse
  <2>4. OneToolset(next')
    BY <1>2, <1>5 DEF IInv, InUse, OneToolset, KeptForSame, i
  <2> QED
    BY <1>6, <2>1, <2>2, <2>3, <2>4 DEF IInv, InUse
<1> QED
  BY <1>5, <1>8, <1>9 DEF IInv

LEMMA ConnectIInv == ASSUME IInv, NEW s \in Servers, Connect(s) PROVE IInv'
<1> DEFINE ts == todo[s].toolset
           i == Fresh
<1>1. /\ Current(s) /\ ts \in Toolsets /\ s \in DOMAIN todo
      /\ Want(s) \in ConnKey /\ stage = "work"
  BY AtHand DEF Connect
<1>2. /\ i \in Sessions /\ i \notin DOMAIN session
      /\ \A t \in DOMAIN clients : i /= clients[t]
      /\ \A t \in DOMAIN next : i /= next[t]
  <2>1. DOMAIN session \subseteq Range(clients) \cup Range(next)
    BY DEF IInv, InUse, Held, Range
  <2> QED
    BY <2>1, FreshExists DEF IInv, Types
<1>3. /\ session' = Put(CloseEarlier(ts), i, Want(s))
      /\ next' = Put(next, ts, i) /\ nextConns' = Put(nextConns, ts, Want(s))
      /\ todo' = Without(todo, s) /\ RefreshFrame
  BY DEF Connect
<1> HIDE DEF ts, i
<1>4. /\ session' \in Partial(Sessions, ConnKey)
      /\ \A j : j \in DOMAIN session' <=>
                  \/ j = i
                  \/ j \in DOMAIN session /\ (ts \in DOMAIN next => j /= next[ts])
  <2> DEFINE rest == CloseEarlier(ts)
  <2>1. /\ rest \in Partial(Sessions, ConnKey)
        /\ \A j : j \in DOMAIN rest <=>
                    j \in DOMAIN session /\ (ts \in DOMAIN next => j /= next[ts])
    BY <1>1, CloseEarlierTypes
  <2> HIDE DEF rest
  <2>2. session' = Put(rest, i, Want(s))
    BY <1>3 DEF rest
  <2> QED
    BY <1>1, <1>2, <2>1, <2>2, PutTypes DEF Put
<1>5. /\ Types' /\ AtRest' /\ NextIsDone'
      /\ DOMAIN next' = DOMAIN next \cup {ts} /\ next'[ts] = i
      /\ \A t \in DOMAIN next \ {ts} : next'[t] = next[t] /\ nextConns'[t] = nextConns[t]
      /\ nextConns'[ts] = Want(s)
      /\ DOMAIN todo' = DOMAIN todo \ {s}
  BY <1>1, <1>2, <1>3, <1>4, HandledTypes
<1>6. UNCHANGED <<clients, conns>>
  BY <1>3 DEF RefreshFrame, served
<1>7. KeptForSame'
  BY <1>2, <1>5, <1>6 DEF IInv, KeptForSame
<1>8. InUse'
  <2>1. \A t \in DOMAIN next' : next'[t] \in DOMAIN session'
    BY <1>4, <1>5 DEF IInv, InUse, OneToolset
  <2>2. \A j \in DOMAIN session' : Held(clients', j) \/ Held(next', j)
    BY <1>4, <1>5, <1>6 DEF IInv, InUse, Held
  <2>3. ASSUME NEW t \in DOMAIN clients', clients'[t] \notin DOMAIN session'
        PROVE  t \in DOMAIN next' /\ next'[t] /= clients'[t] /\ conns'[t].name \notin DOMAIN todo'
    <3>1. CASE clients[t] \notin DOMAIN session
      BY <1>2, <1>5, <1>6, <2>3, <3>1 DEF IInv, InUse
    <3>2. CASE clients[t] \in DOMAIN session
      <4>1. ts \in DOMAIN next /\ clients[t] = next[ts]
        BY <1>4, <1>6, <2>3, <3>2
      <4>2. t = ts /\ conns[ts].name \notin DOMAIN todo
        BY <1>6, <2>3, <4>1 DEF IInv, KeptForSame, NextIsDone
      <4> QED
        BY <1>2, <1>5, <1>6, <2>3, <4>2
    <3> QED
      BY <3>1, <3>2
  <2>4. OneToolset(next')
    BY <1>2, <1>5 DEF IInv, InUse, OneToolset
  <2> QED
    BY <1>6, <2>1, <2>2, <2>3, <2>4 DEF IInv, InUse
<1> QED
  BY <1>5, <1>7, <1>8 DEF IInv

LEMMA SwapIInv == ASSUME IInv, Swap PROVE IInv'
<1>1. /\ stage' = "rest" /\ DOMAIN todo = {} /\ clients' = next /\ conns' = nextConns
      /\ next' = NoEntries /\ nextConns' = NoEntries /\ UNCHANGED <<objects, todo>>
      /\ session' = [i \in DOMAIN session \ Replaced |-> session[i]]
  BY DEF Swap
<1>2. session' \in Partial(Sessions, ConnKey) /\ DOMAIN session' = DOMAIN session \ Replaced
  <2>1. session \in Partial(Sessions, ConnKey)
    BY DEF IInv, Types
  <2>2. DOMAIN session \subseteq Sessions /\ \A i \in DOMAIN session : session[i] \in ConnKey
    BY <2>1, PartialMember
  <2>3. session' \in [DOMAIN session \ Replaced -> ConnKey]
    BY <1>1, <2>2
  <2>4. DOMAIN session \ Replaced \in SUBSET Sessions
    BY <2>2
  <2> QED
    BY <2>3, <2>4, TotalTypes
<1>3. Types'
  BY <1>1, <1>2, NoEntriesTypes DEF IInv, Types, objects
<1>4. \A ts \in DOMAIN next : next[ts] \notin Replaced
  BY DEF IInv, KeptForSame, Replaced
<1>5. \A i \in DOMAIN session \ Replaced : Held(next, i)
  BY DEF IInv, InUse, Held, Replaced
<1>6. InUse'
  BY <1>1, <1>2, <1>4, <1>5, NoEntriesTypes DEF IInv, InUse, Held, OneToolset
<1>7. AtRest' /\ KeptForSame' /\ NextIsDone'
  BY <1>1, NoEntriesTypes DEF AtRest, KeptForSame, NextIsDone
<1> QED
  BY <1>3, <1>6, <1>7 DEF IInv

LEMMA NextIInv == IInv /\ [Next]_vars => IInv'
<1> SUFFICES ASSUME IInv, [Next]_vars PROVE IInv'
  OBVIOUS
<1>1. ASSUME NEW s \in Servers, Change(s) PROVE IInv'
  BY <1>1, ChangeIInv
<1>2. ASSUME NEW s \in Servers, PassOver(s) \/ ConnectFails(s) PROVE IInv'
  BY <1>2, PassedIInv DEF PassOver, ConnectFails
<1>3. ASSUME NEW s \in Servers, Keep(s) \/ Connect(s) PROVE IInv'
  BY <1>3, KeepIInv, ConnectIInv
<1>4. CASE List \/ Swap
  BY <1>4, ListIInv, SwapIInv
<1>5. CASE UNCHANGED vars
  BY <1>5 DEF vars, objects, served, refresh, IInv, Types, AtRest, InUse, KeptForSame,
     NextIsDone, Held, OneToolset
<1> QED
  BY <1>1, <1>2, <1>3, <1>4, <1>5 DEF Next, Refresh

LEMMA InvariantHolds == Spec => []IInv
BY InitIInv, NextIInv, PTL DEF Spec

-----------------------------------------------------------------------------
(* What is served as registered stays so.                                  *)

LEMMA MaxIn ==
    ASSUME NEW S \in SUBSET Nat, IsFiniteSet(S), S /= {}
    PROVE  Max(S) \in S /\ \A y \in S : y <= Max(S)
<1> DEFINE Above(x) == {y \in S : y > x}
           Counts == {Cardinality(Above(x)) : x \in S}
<1>1. \A x \in S : IsFiniteSet(Above(x)) /\ Cardinality(Above(x)) \in Nat
  BY FS_Subset, FS_CardinalityType
<1>2. Counts \in SUBSET Nat /\ Counts /= {}
  BY <1>1
<1>3. \E n \in Counts : \A m \in Counts : ~ (<<m, n>> \in OpToRel(<, Nat))
  <2> HIDE DEF Counts
  <2> QED
    BY <1>2, NatLessThanWellFounded, WFMin, Zenon
<1>4. PICK x \in S : \A m \in Counts : ~ (<<m, Cardinality(Above(x))>> \in OpToRel(<, Nat))
  BY <1>3
<1>5. \A y \in S : ~(Cardinality(Above(y)) < Cardinality(Above(x)))
  <2> TAKE y \in S
  <2>1. Cardinality(Above(y)) \in Counts /\ Cardinality(Above(y)) \in Nat
        /\ Cardinality(Above(x)) \in Nat
    BY <1>1
  <2>2. ~ (<<Cardinality(Above(y)), Cardinality(Above(x))>> \in OpToRel(<, Nat))
    BY <1>4, <2>1
  <2> HIDE DEF Above
  <2> QED
    BY <2>1, <2>2, Zenon DEF OpToRel
<1>6. ASSUME NEW y \in S, y > x PROVE FALSE
  <2>1. Above(y) \in SUBSET Above(x) /\ y \in Above(x) /\ y \notin Above(y)
    <3>1. x \in Nat /\ y \in Nat /\ \A z \in S : z \in Nat
      OBVIOUS
    <3>2. \A z \in S : z > y => z > x
      BY <1>6, <3>1
    <3>3. ~(y > y)
      BY <3>1
    <3> QED
      BY <1>6, <3>2, <3>3, Zenon
  <2>2. Cardinality(Above(y)) <= Cardinality(Above(x)) /\ Cardinality(Above(y)) /= Cardinality(Above(x))
    <3> HIDE DEF Above
    <3> QED
      BY <1>1, <2>1, FS_Subset
  <2>3. Cardinality(Above(x)) \in Nat /\ Cardinality(Above(y)) \in Nat
    BY <1>1
  <2> HIDE DEF Above
  <2> QED
    BY <1>5, <2>2, <2>3
<1>7. \E z \in S : \A y \in S : z >= y
  BY <1>6
<1> QED
  BY <1>7 DEF Max

Last(ts) == Max(Of(ts))

\* Each toolset is served as registered, and a refresh under way has listed
\* what is registered: where it is done with a toolset, it has kept the session.
Settled ==
    /\ \A ts \in Toolsets : ServedAsRegistered(ts)
    /\ \A ts \in DOMAIN clients : conns[ts] = session[clients[ts]]
    /\ stage = "work" =>
         /\ \A s \in DOMAIN todo : s \in DOMAIN registered /\ todo[s] = registered[s]
         /\ \A s \in DOMAIN registered \ DOMAIN todo, u \in DOMAIN todo : s < u
         /\ \A ts \in DOMAIN next : Of(ts) /= {}
         /\ \A ts \in Toolsets :
              Of(ts) /= {} /\ Of(ts) \cap DOMAIN todo = {}
                => ts \in DOMAIN next /\ next[ts] = clients[ts] /\ nextConns[ts] = conns[ts]

LEMMA SettledFacts ==
    ASSUME IInv, Settled
    PROVE  /\ DOMAIN registered \subseteq Servers /\ Servers \subseteq Nat
           /\ DOMAIN clients \subseteq Toolsets /\ DOMAIN conns = DOMAIN clients
           /\ \A ts \in DOMAIN clients : Of(ts) /= {} /\ clients[ts] \in DOMAIN session
           /\ \A ts \in Toolsets :
                Of(ts) /= {}
                  => /\ ts \in DOMAIN clients
                     /\ Last(ts) \in Of(ts) /\ \A s \in Of(ts) : s <= Last(ts)
                     /\ conns[ts] = [name |-> Last(ts),
                                     endpoint |-> registered[Last(ts)].endpoint,
                                     token |-> token[Last(ts)]]
<1>1. /\ DOMAIN registered \subseteq Servers /\ DOMAIN clients \subseteq Toolsets
      /\ DOMAIN conns = DOMAIN clients
  BY PartialMember DEF IInv, Types
<1>2. ASSUME NEW ts \in Toolsets, Of(ts) /= {}
      PROVE  Last(ts) \in Of(ts) /\ \A s \in Of(ts) : s <= Last(ts)
  <2>1. Of(ts) \in SUBSET Servers
    BY <1>1 DEF Of
  <2>2. IsFiniteSet(Of(ts)) /\ Of(ts) \in SUBSET Nat
    BY <2>1, FS_Subset DEF RegistryAssumption
  <2> QED
    BY <1>2, <2>2, MaxIn DEF Last
<1>3. ASSUME NEW ts \in Toolsets, Of(ts) /= {}
      PROVE  /\ ts \in DOMAIN clients /\ clients[ts] \in DOMAIN session
             /\ conns[ts] = [name |-> Last(ts),
                             endpoint |-> registered[Last(ts)].endpoint,
                             token |-> token[Last(ts)]]
  BY <1>3 DEF Settled, ServedAsRegistered, Last
<1>4. ASSUME NEW ts \in DOMAIN clients PROVE Of(ts) /= {}
  BY <1>1, <1>4 DEF Settled, ServedAsRegistered
<1> QED
  BY <1>1, <1>2, <1>3, <1>4 DEF RegistryAssumption

\* The object at hand is the last of its toolset or comes before it, and the
\* session to close is none that is served.
LEMMA AtHandSettled ==
    ASSUME IInv, Settled, NEW s \in Servers, Current(s), todo[s].toolset \in Toolsets
    PROVE  LET ts == todo[s].toolset
           IN  /\ s \in Of(ts) /\ ts \in DOMAIN clients
               /\ Last(ts) \in DOMAIN todo /\ Last(ts) \in Of(ts)
               /\ Last(ts) = s => Unchanged(s) /\ Of(ts) \cap DOMAIN todo = {s}
               /\ Unchanged(s) => Last(ts) = s
               /\ \A t \in DOMAIN clients : ts \in DOMAIN next => clients[t] /= next[ts]
<1> DEFINE ts == todo[s].toolset
<1>1. stage = "work" /\ s \in DOMAIN todo
  BY AtHand
<1>2. s \in DOMAIN registered /\ todo[s] = registered[s]
  BY <1>1 DEF Settled
<1>3. s \in Of(ts) /\ ts \in Toolsets
  BY <1>2 DEF Of
<1>4. /\ ts \in DOMAIN clients /\ ts \in DOMAIN conns
      /\ Last(ts) \in Of(ts) /\ \A u \in Of(ts) : u <= Last(ts)
      /\ conns[ts] = [name |-> Last(ts), endpoint |-> registered[Last(ts)].endpoint,
                      token |-> token[Last(ts)]]
      /\ Of(ts) \in SUBSET Nat
  BY <1>3, SettledFacts DEF Of
<1> HIDE DEF ts
<1>5. Last(ts) \in DOMAIN todo
  <2>1. s <= Last(ts) /\ Last(ts) \in Nat /\ s \in Nat
    BY <1>3, <1>4
  <2>2. Last(ts) \in DOMAIN registered
    BY <1>4 DEF Of
  <2>3. Last(ts) \notin DOMAIN todo => Last(ts) < s
    BY <1>1, <2>2 DEF Settled
  <2> QED
    BY <2>1, <2>3
<1>6. ASSUME Last(ts) = s PROVE Unchanged(s) /\ Of(ts) \cap DOMAIN todo = {s}
  <2>1. conns[ts] = Want(s)
    BY <1>2, <1>4, <1>6 DEF Want
  <2>2. ASSUME NEW u \in Of(ts) \cap DOMAIN todo PROVE u = s
    <3>1. DOMAIN todo \in SUBSET Nat /\ DOMAIN todo /= {}
      BY <1>1, PartialMember DEF IInv, Types, RegistryAssumption
    <3>2. s <= u
      BY <2>2, <3>1, MinLeast DEF Current
    <3>3. u <= s /\ u \in Nat /\ s \in Nat
      BY <1>3, <1>4, <1>6, <2>2
    <3> QED
      BY <3>2, <3>3
  <2> QED
    BY <1>1, <1>3, <1>4, <2>1, <2>2 DEF Unchanged, ts
<1>7. ASSUME Unchanged(s) PROVE Last(ts) = s
  <2>1. conns[ts] = Want(s)
    BY <1>7 DEF Unchanged, ts
  <2> QED
    BY <1>4, <2>1 DEF Want
<1>8. ASSUME NEW t \in DOMAIN clients, ts \in DOMAIN next, clients[t] = next[ts] PROVE FALSE
  <2>1. t = ts /\ nextConns[ts] = conns[ts]
    BY <1>8 DEF IInv, KeptForSame
  <2>2. nextConns[ts].name = Last(ts)
    BY <1>4, <2>1
  <2> QED
    BY <1>5, <1>8, <2>2 DEF IInv, NextIsDone
<1> QED
  BY <1>3, <1>4, <1>5, <1>6, <1>7, <1>8 DEF ts

LEMMA CloseEarlierKeeps ==
    ASSUME IInv, NEW ts \in Toolsets, NEW i \in DOMAIN CloseEarlier(ts)
    PROVE  CloseEarlier(ts)[i] = session[i]
<1>1. CASE ts \in DOMAIN next
  BY <1>1 DEF CloseEarlier, Without
<1>2. CASE ts \notin DOMAIN next
  BY <1>2 DEF CloseEarlier
<1> QED
  BY <1>1, <1>2

\* The object at hand is done with: it was kept, or the last of its toolset is
\* still to come.
LEMMA HandledSettled ==
    ASSUME IInv, Settled, NEW s \in Servers, Current(s), NEW ts \in Toolsets, s \in Of(ts),
           stage = "work", RefreshFrame, todo' = Without(todo, s),
           DOMAIN next' = DOMAIN next \cup {ts},
           \A t \in DOMAIN next \ {ts} : next'[t] = next[t] /\ nextConns'[t] = nextConns[t],
           \A t \in DOMAIN clients :
              clients[t] \in DOMAIN session' /\ session'[clients[t]] = session[clients[t]],
           \/ next'[ts] = clients[ts] /\ nextConns'[ts] = conns[ts]
           \/ Last(ts) \in DOMAIN todo \ {s} /\ Last(ts) \in Of(ts)
    PROVE  Settled'
<1>1. UNCHANGED <<registered, token, clients, conns, stage>>
  BY DEF RefreshFrame, objects, served
<1>2. /\ DOMAIN todo' = DOMAIN todo \ {s} /\ \A u \in DOMAIN todo' : todo'[u] = todo[u]
  BY DEF Without
<1>3. \A t : Of(t)' = Of(t)
  BY <1>1 DEF Of
<1>4. \A t \in Toolsets : ServedAsRegistered(t)'
  <2> TAKE t \in Toolsets
  <2>1. CASE Of(t) = {}
    BY <1>1, <1>3, <2>1 DEF Settled, ServedAsRegistered
  <2>2. CASE Of(t) /= {}
    <3>1. /\ t \in DOMAIN clients /\ clients[t] \in DOMAIN session
          /\ session[clients[t]] = [name |-> Max(Of(t)), endpoint |-> registered[Max(Of(t))].endpoint,
                                    token |-> token[Max(Of(t))]]
      BY <2>2 DEF Settled, ServedAsRegistered
    <3> QED
      BY <1>1, <1>3, <2>2, <3>1 DEF ServedAsRegistered
  <2> QED
    BY <2>1, <2>2
<1>5. \A t \in DOMAIN clients' : conns'[t] = session'[clients'[t]]
  BY <1>1 DEF Settled
<1>6. \A u \in DOMAIN todo' : u \in DOMAIN registered' /\ todo'[u] = registered'[u]
  BY <1>1, <1>2 DEF Settled
<1>7. \A u \in DOMAIN registered' \ DOMAIN todo', v \in DOMAIN todo' : u < v
  <2>1. DOMAIN todo \in SUBSET Nat /\ s \in DOMAIN todo
    BY AtHand, PartialMember DEF IInv, Types, RegistryAssumption
  <2>2. ASSUME NEW v \in DOMAIN todo' PROVE s < v
    <3>1. s <= v
      BY <1>2, <2>1, <2>2, MinLeast DEF Current
    <3> QED
      BY <1>2, <2>1, <2>2, <3>1
  <2> QED
    BY <1>1, <1>2, <2>2 DEF Settled
<1>8. \A t \in DOMAIN next' : Of(t)' /= {}
  BY <1>3 DEF Settled
<1>9. ASSUME NEW t \in Toolsets, Of(t) /= {}, Of(t) \cap DOMAIN todo' = {}
      PROVE  t \in DOMAIN next' /\ next'[t] = clients'[t] /\ nextConns'[t] = conns'[t]
  <2>1. CASE t = ts
    BY <1>1, <1>2, <1>9, <2>1
  <2>2. CASE t /= ts
    <3>1. Of(t) \cap DOMAIN todo = {}
      BY <1>2, <1>9, <2>2 DEF Of
    <3> QED
      BY <1>1, <1>9, <2>2, <3>1 DEF Settled
  <2> QED
    BY <2>1, <2>2
<1> QED
  BY <1>3, <1>4, <1>5, <1>6, <1>7, <1>8, <1>9 DEF Settled

\* What a refresh does with one object leaves the registry settled.
LEMMA KeepSettled ==
    ASSUME IInv, Settled, NEW s \in Servers, Keep(s)
    PROVE  Settled'
<1> DEFINE ts == todo[s].toolset
<1>1. /\ Current(s) /\ ts \in Toolsets /\ s \in DOMAIN todo /\ stage = "work" /\ Unchanged(s)
      /\ Want(s) \in ConnKey
  BY AtHand DEF Keep
<1>2. /\ s \in Of(ts) /\ ts \in DOMAIN clients /\ Last(ts) = s
      /\ Of(ts) \cap DOMAIN todo = {s}
      /\ \A t \in DOMAIN clients : ts \in DOMAIN next => clients[t] /= next[ts]
  BY <1>1, AtHandSettled
<1>3. conns[ts] = Want(s) /\ clients[ts] \in Sessions
  BY <1>1, <1>2, PartialMember DEF Unchanged, IInv, Types
<1>4. /\ session' = CloseEarlier(ts) /\ next' = Put(next, ts, clients[ts])
      /\ nextConns' = Put(nextConns, ts, Want(s)) /\ todo' = Without(todo, s)
      /\ RefreshFrame
  BY DEF Keep
<1> HIDE DEF ts
<1>5. /\ session' \in Partial(Sessions, ConnKey)
      /\ \A i : i \in DOMAIN session' <=>
                  i \in DOMAIN session /\ (ts \in DOMAIN next => i /= next[ts])
      /\ \A i \in DOMAIN session' : session'[i] = session[i]
  BY <1>1, <1>4, CloseEarlierTypes, CloseEarlierKeeps
<1>6. /\ DOMAIN next' = DOMAIN next \cup {ts} /\ next'[ts] = clients[ts]
      /\ \A t \in DOMAIN next \ {ts} : next'[t] = next[t] /\ nextConns'[t] = nextConns[t]
      /\ nextConns'[ts] = Want(s)
      /\ DOMAIN todo' = DOMAIN todo \ {s}
  BY <1>1, <1>3, <1>4, <1>5, HandledTypes
<1>7. \A t \in DOMAIN clients : clients[t] \in DOMAIN session' /\ session'[clients[t]] = session[clients[t]]
  BY <1>2, <1>5, SettledFacts
<1> QED
  BY <1>1, <1>2, <1>3, <1>4, <1>6, <1>7, HandledSettled

LEMMA ConnectSettled ==
    ASSUME IInv, Settled, NEW s \in Servers, Connect(s)
    PROVE  Settled'
<1> DEFINE ts == todo[s].toolset
           i == Fresh
           rest == CloseEarlier(ts)
<1>1. /\ Current(s) /\ ts \in Toolsets /\ s \in DOMAIN todo /\ stage = "work" /\ ~Unchanged(s)
      /\ Want(s) \in ConnKey
  BY AtHand DEF Connect
<1>2. /\ s \in Of(ts) /\ ts \in DOMAIN clients /\ Last(ts) /= s
      /\ Last(ts) \in DOMAIN todo /\ Last(ts) \in Of(ts)
      /\ \A t \in DOMAIN clients : ts \in DOMAIN next => clients[t] /= next[ts]
  BY <1>1, AtHandSettled
<1>3. i \in Sessions /\ \A t \in DOMAIN clients : i /= clients[t]
  <2>1. DOMAIN session \subseteq Range(clients) \cup Range(next)
    BY DEF IInv, InUse, Held, Range
  <2> QED
    BY <2>1, FreshExists DEF IInv, Types
<1>4. /\ session' = Put(rest, i, Want(s)) /\ next' = Put(next, ts, i)
      /\ nextConns' = Put(nextConns, ts, Want(s)) /\ todo' = Without(todo, s)
      /\ RefreshFrame
  BY DEF Connect
<1>5. /\ rest \in Partial(Sessions, ConnKey)
      /\ \A j : j \in DOMAIN rest <=>
                  j \in DOMAIN session /\ (ts \in DOMAIN next => j /= next[ts])
      /\ \A j \in DOMAIN rest : rest[j] = session[j]
  BY <1>1, CloseEarlierTypes, CloseEarlierKeeps
<1> HIDE DEF ts, i, rest
<1>6. /\ session' \in Partial(Sessions, ConnKey) /\ DOMAIN session' = DOMAIN rest \cup {i}
      /\ \A j \in DOMAIN rest \ {i} : session'[j] = rest[j]
  <2> DEFINE new == Put(rest, i, Want(s))
  <2>1. /\ new \in Partial(Sessions, ConnKey) /\ DOMAIN new = DOMAIN rest \cup {i}
        /\ \A j \in DOMAIN rest \ {i} : new[j] = rest[j]
    <3>1. rest \in Partial(Sessions, ConnKey) /\ i \in Sessions /\ Want(s) \in ConnKey
      BY <1>1, <1>3, <1>5
    <3> QED
      BY <3>1, PutTypes DEF Put
  <2>2. session' = new
    BY <1>4
  <2> HIDE DEF new
  <2> QED
    BY <2>1, <2>2
<1>7. /\ DOMAIN next' = DOMAIN next \cup {ts} /\ next'[ts] = i
      /\ \A t \in DOMAIN next \ {ts} : next'[t] = next[t] /\ nextConns'[t] = nextConns[t]
      /\ nextConns'[ts] = Want(s)
      /\ DOMAIN todo' = DOMAIN todo \ {s}
  BY <1>1, <1>3, <1>4, <1>6, HandledTypes
<1>8. \A t \in DOMAIN clients : clients[t] \in DOMAIN session' /\ session'[clients[t]] = session[clients[t]]
  BY <1>2, <1>3, <1>5, <1>6, SettledFacts
<1> QED
  BY <1>1, <1>2, <1>4, <1>7, <1>8, HandledSettled

LEMMA PassedSettled ==
    ASSUME IInv, Settled, NEW s \in Servers, PassOver(s), faults \in Nat, UNCHANGED faults
    PROVE  Settled'
<1>1. /\ Current(s) /\ todo[s].toolset = None /\ todo' = Without(todo, s)
      /\ UNCHANGED <<registered, token, session, clients, conns, stage, next, nextConns>>
  <2>1. ~Fault
    BY DEF Fault
  <2> QED
    BY <2>1 DEF PassOver, RefreshFrame, objects, served
<1>2. /\ DOMAIN todo' = DOMAIN todo \ {s} /\ \A u \in DOMAIN todo' : todo'[u] = todo[u]
  BY <1>1 DEF Without
<1>3. stage = "work" /\ s \in DOMAIN todo
  BY <1>1, AtHand
<1>4. \A t : Of(t)' = Of(t)
  BY <1>1 DEF Of
<1>5. \A t \in Toolsets : s \notin Of(t)
  BY <1>1, <1>3 DEF Settled, Of, RegistryAssumption
<1>6. \A u \in DOMAIN registered \ DOMAIN todo', v \in DOMAIN todo' : u < v
  <2>1. DOMAIN todo \in SUBSET Nat
    BY PartialMember DEF IInv, Types, RegistryAssumption
  <2>2. ASSUME NEW v \in DOMAIN todo' PROVE s < v
    <3>1. s <= v
      BY <1>1, <1>2, <1>3, <2>1, <2>2, MinLeast DEF Current
    <3> QED
      BY <1>2, <1>3, <2>1, <2>2, <3>1
  <2> QED
    BY <1>2, <1>3, <2>2 DEF Settled
<1>7. \A t \in Toolsets : ServedAsRegistered(t)'
  BY <1>1, <1>4 DEF Settled, ServedAsRegistered
<1>8. \A t \in Toolsets : Of(t) \cap DOMAIN todo' = {} => Of(t) \cap DOMAIN todo = {}
  BY <1>2, <1>5
<1> QED
  BY <1>1, <1>2, <1>3, <1>4, <1>6, <1>7, <1>8 DEF Settled

LEMMA ListSettled == ASSUME IInv, Settled, List PROVE Settled'
<1>1. /\ stage' = "work" /\ todo' = registered /\ DOMAIN next = {}
      /\ UNCHANGED <<registered, token, session, clients, conns, next, nextConns>>
  BY DEF List, IInv, AtRest, objects, served
<1>2. \A t : Of(t)' = Of(t) /\ Of(t) \subseteq DOMAIN registered
  BY <1>1 DEF Of
<1>3. \A t \in Toolsets : ServedAsRegistered(t)'
  BY <1>1, <1>2 DEF Settled, ServedAsRegistered
<1> QED
  BY <1>1, <1>2, <1>3 DEF Settled

\* The new map is the old one.
LEMMA SwapSettled == ASSUME IInv, Settled, Swap PROVE Settled' /\ clients' = clients
<1>1. /\ stage = "work" /\ stage' = "rest" /\ DOMAIN todo = {} /\ clients' = next
      /\ conns' = nextConns /\ UNCHANGED <<registered, token>>
      /\ session' = [i \in DOMAIN session \ Replaced |-> session[i]]
  BY DEF Swap, objects
<1>2. /\ DOMAIN next \subseteq Toolsets /\ DOMAIN clients \subseteq Toolsets
      /\ next = [t \in DOMAIN next |-> next[t]] /\ clients = [t \in DOMAIN clients |-> clients[t]]
      /\ nextConns = [t \in DOMAIN nextConns |-> nextConns[t]]
      /\ conns = [t \in DOMAIN conns |-> conns[t]]
      /\ DOMAIN nextConns = DOMAIN next /\ DOMAIN conns = DOMAIN clients
  BY PartialMember DEF IInv, Types
<1>3. \A t \in DOMAIN clients : t \in DOMAIN next /\ next[t] = clients[t] /\ nextConns[t] = conns[t]
  BY <1>1, <1>2, SettledFacts DEF Settled
<1>4. \A t \in DOMAIN next : t \in DOMAIN clients
  BY <1>1, <1>2, SettledFacts DEF Settled
<1>5. DOMAIN next = DOMAIN clients
  BY <1>3, <1>4
<1>6. next = clients /\ nextConns = conns
  BY <1>2, <1>3, <1>5
<1>7. clients' = clients /\ conns' = conns
  BY <1>1, <1>6
<1>8. Replaced = {}
  BY <1>3 DEF Replaced
<1>9. DOMAIN session' = DOMAIN session /\ \A i \in DOMAIN session : session'[i] = session[i]
  BY <1>1, <1>8
<1>10. \A t : Of(t)' = Of(t)
  BY <1>1 DEF Of
<1>11. \A t \in DOMAIN clients : clients[t] \in DOMAIN session
  BY SettledFacts
<1>12. \A t \in Toolsets : ServedAsRegistered(t)'
  BY <1>1, <1>7, <1>9, <1>10 DEF Settled, ServedAsRegistered
<1> QED
  BY <1>1, <1>7, <1>9, <1>11, <1>12 DEF Settled

Counted == faults \in Nat

LEMMA FaultsAreCounted == Spec => []Counted
<1>1. Init => Counted
  BY DEF Init, Counted
<1>2. Counted /\ [Next]_vars => Counted'
  <2>1. [Next]_vars => UNCHANGED faults \/ faults' = faults + 1
    BY DEF Next, Refresh, Change, List, PassOver, Keep, ConnectFails, Connect, Swap, Fault, vars
  <2> QED
    BY <2>1 DEF Counted
<1> QED
  BY <1>1, <1>2, PTL DEF Spec

LEMMA SettledStep ==
    IInv /\ faults \in Nat /\ [Next]_vars
      => (Settled /\ UNCHANGED <<registered, token, faults>> => Settled' /\ clients' = clients)
<1> SUFFICES ASSUME IInv, faults \in Nat, [Next]_vars, Settled, UNCHANGED <<registered, token, faults>>
             PROVE  Settled' /\ clients' = clients
  OBVIOUS
<1>1. ASSUME UNCHANGED <<session, served, refresh>> PROVE Settled' /\ clients' = clients
  <2>1. /\ \A t : Of(t)' = Of(t)
        /\ UNCHANGED <<session, clients, conns, stage, todo, next, nextConns>>
    BY <1>1 DEF Of, served, refresh
  <2>2. \A t \in Toolsets : ServedAsRegistered(t)'
    BY <2>1 DEF Settled, ServedAsRegistered
  <2> QED
    BY <2>1, <2>2 DEF Settled
<1>2. ASSUME NEW s \in Servers, Change(s) PROVE Settled' /\ clients' = clients
  BY <1>1, <1>2 DEF Change
<1>3. ASSUME NEW s \in Servers, ConnectFails(s) PROVE FALSE
  BY <1>3 DEF ConnectFails, Fault
<1>4. ASSUME NEW s \in Servers, PassOver(s) PROVE Settled' /\ clients' = clients
  BY <1>4, PassedSettled DEF PassOver, RefreshFrame, served
<1>5. ASSUME NEW s \in Servers, Keep(s) \/ Connect(s) PROVE Settled' /\ clients' = clients
  BY <1>5, KeepSettled, ConnectSettled DEF Keep, Connect, RefreshFrame, served
<1>6. CASE List
  BY <1>6, ListSettled DEF List, served
<1>7. CASE Swap
  BY <1>7, SwapSettled
<1>8. CASE UNCHANGED vars
  BY <1>1, <1>8 DEF vars
<1> QED
  BY <1>2, <1>3, <1>4, <1>5, <1>6, <1>7, <1>8 DEF Next, Refresh

-----------------------------------------------------------------------------
(* Results                                                                 *)

\* Every reachable state of the registry is well typed, and its two maps have
\* the same toolsets.
THEOREM TypeCorrect == Spec => []TypeOK
BY InvariantHolds, IInvImplies, PTL

\* Between two refreshes exactly the served sessions are open, for any number
\* of MCPServers, toolsets, edits and failing calls.
THEOREM NoneLeaked == Spec => []OpenMeansServed
BY InvariantHolds, IInvImplies, PTL

\* A session lookups still get is closed only when the one that replaces it is
\* there, for any number of MCPServers, toolsets, edits and failing calls.
THEOREM NoneClosedEarly == Spec => []ClosedOnlyWhenReplaced
BY InvariantHolds, IInvImplies, PTL

\* Once every toolset is served as registered, every refresh keeps the sessions
\* lookups get, until an object or a Secret changes or a call fails; objects that
\* share a toolset have the earlier ones reconnected each time, and the session
\* that is served is not the one closed for it (registry.go, refresh).
THEOREM SettledStaysSettled ==
    Spec => [][Settled /\ UNCHANGED <<registered, token, faults>>
                 => Settled' /\ clients' = clients]_vars
<1> DEFINE Stays == Settled /\ UNCHANGED <<registered, token, faults>>
                      => Settled' /\ clients' = clients
<1>1. IInv /\ Counted /\ [Next]_vars => [Stays]_vars
  BY SettledStep DEF Counted
<1> QED
  BY <1>1, InvariantHolds, FaultsAreCounted, PTL DEF Spec
=============================================================================
