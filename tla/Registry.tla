------------------------------ MODULE Registry ------------------------------
(***************************************************************************)
(* The server's MCP registry (internal/server/mcp/registry.go): one        *)
(* goroutine polls the MCPServer objects, opens a session for each and     *)
(* serves the sessions by toolset to the orchestrator goroutines.          *)
(*                                                                         *)
(* A refresh makes calls that take time for each object, without the lock; *)
(* it swaps the two maps under the lock at its end.  What lookups see      *)
(* meanwhile, and what becomes of replaced sessions, is the matter here.   *)
(* Registry.Close, called as the process ends, is left out.                *)
(***************************************************************************)
EXTENDS Naturals, FiniteSets, FiniteSetsExt, Functions

CONSTANTS Servers,      \* MCPServer objects, in the order a List returns them
          Toolsets,     \* values of spec.toolset
          Endpoints,    \* values of spec.endpoint
          Tokens,       \* values of the Secret they refer to
          None,         \* no spec.toolset
          Sessions,     \* sessions, reused once closed and forgotten
          MaxChanges,   \* bound on the edits of objects and Secrets
          MaxFaults     \* bound on the calls that fail

ASSUME RegistryAssumption ==
    /\ Servers \subseteq Nat /\ IsFiniteSet(Servers)
    /\ IsFiniteSet(Toolsets) /\ None \notin Toolsets
    /\ Sessions \subseteq Nat /\ IsFiniteSet(Sessions)
    /\ Cardinality(Sessions) > 2 * Cardinality(Toolsets)
    /\ MaxChanges \in Nat
    /\ MaxFaults \in Nat

VARIABLES registered,   \* the MCPServer objects
          token,        \* the Secret of each
          session,      \* the open sessions and what they were opened with
          clients,      \* Registry.clients
          conns,        \* Registry.conns
          stage,        \* whether a refresh is under way
          todo,         \* listed objects it has not come to
          next,         \* refresh's next
          nextConns,    \* refresh's nextConns
          changes, faults

objects == <<registered, token, changes>>
served == <<clients, conns>>
refresh == <<stage, todo, next, nextConns>>
vars == <<objects, session, served, refresh, faults>>

MCPServer == [toolset : Toolsets \cup {None}, endpoint : Endpoints]
ConnKey == [name : Servers, endpoint : Endpoints, token : Tokens]

\* A Go map without entries.
NoEntries == [x \in {} |-> None]
Put(table, key, value) ==
    [x \in DOMAIN table \cup {key} |-> IF x = key THEN value ELSE table[x]]
Without(table, key) == [x \in DOMAIN table \ {key} |-> table[x]]

Init ==
    /\ registered = NoEntries
    /\ token \in [Servers -> Tokens]
    /\ session = NoEntries
    /\ clients = NoEntries /\ conns = NoEntries
    /\ stage = "rest" /\ todo = NoEntries
    /\ next = NoEntries /\ nextConns = NoEntries
    /\ changes = 0 /\ faults = 0

Fault == faults < MaxFaults /\ faults' = faults + 1

-----------------------------------------------------------------------------
(* People                                                                  *)

\* An MCPServer is created, edited or deleted, or its token rotated.
Change(s) ==
    /\ changes < MaxChanges
    /\ changes' = changes + 1
    /\ \/ /\ \E obj \in MCPServer : registered' = Put(registered, s, obj)
          /\ UNCHANGED token
       \/ registered' = Without(registered, s) /\ UNCHANGED token
       \/ \E t \in Tokens : token' = [token EXCEPT ![s] = t] /\ UNCHANGED registered
    /\ UNCHANGED <<session, served, refresh, faults>>

-----------------------------------------------------------------------------
(* refresh                                                                 *)

RefreshFrame == UNCHANGED <<objects, served, stage>>

\* A List that fails ends the refresh with nothing done.
List ==
    /\ stage = "rest"
    /\ stage' = "work"
    /\ todo' = registered
    /\ UNCHANGED <<objects, session, served, next, nextConns, faults>>

\* The listed object the loop has come to.
Current(s) == s \in DOMAIN todo /\ s = Min(DOMAIN todo)

\* No toolset, or the token or the endpoint cannot be had: the object is
\* passed over.
PassOver(s) ==
    /\ Current(s)
    /\ \/ todo[s].toolset = None /\ UNCHANGED faults
       \/ todo[s].toolset /= None /\ Fault
    /\ todo' = Without(todo, s)
    /\ UNCHANGED <<session, next, nextConns>>
    /\ RefreshFrame

\* Slip: a rotated token is not noticed.
WantAnyToken(s) ==
    LET ts == todo[s].toolset
    IN  [name |-> s, endpoint |-> todo[s].endpoint,
         token |-> IF ts \in DOMAIN conns THEN conns[ts].token ELSE token[s]]

\* The Secret is read when the loop comes to the object, the rest is listed.
Want(s) == [name |-> s, endpoint |-> todo[s].endpoint, token |-> token[s]]

Unchanged(s) ==
    LET ts == todo[s].toolset
    IN  ts \in DOMAIN clients /\ ts \in DOMAIN conns /\ conns[ts] = Want(s)

\* Slip: the session of an earlier object of the toolset is forgotten.
KeepEarlier(ts) == session

\* The session of an earlier object of the same toolset is closed.
CloseEarlier(ts) ==
    IF ts \in DOMAIN next THEN Without(session, next[ts]) ELSE session

Keep(s) ==
    LET ts == todo[s].toolset
    IN  /\ Current(s)
        /\ ts /= None
        /\ Unchanged(s)
        /\ session' = CloseEarlier(ts)
        /\ next' = Put(next, ts, clients[ts])
        /\ nextConns' = Put(nextConns, ts, Want(s))
        /\ todo' = Without(todo, s)
        /\ UNCHANGED faults
        /\ RefreshFrame

\* A session nobody holds any more.
Fresh == Min(Sessions \ (DOMAIN session \cup Range(clients) \cup Range(next)))

\* Slip: the session to be replaced is closed before the new one is opened.
ConnectFailsClosing(s) ==
    LET ts == todo[s].toolset
    IN  /\ Current(s)
        /\ ts /= None
        /\ ~Unchanged(s)
        /\ Fault
        /\ session' = IF ts \in DOMAIN clients THEN Without(session, clients[ts])
                                               ELSE session
        /\ todo' = Without(todo, s)
        /\ UNCHANGED <<next, nextConns>>
        /\ RefreshFrame

ConnectFails(s) ==
    /\ Current(s)
    /\ todo[s].toolset /= None
    /\ ~Unchanged(s)
    /\ Fault
    /\ todo' = Without(todo, s)
    /\ UNCHANGED <<session, next, nextConns>>
    /\ RefreshFrame

Connect(s) ==
    LET ts == todo[s].toolset
    IN  /\ Current(s)
        /\ ts /= None
        /\ ~Unchanged(s)
        /\ session' = Put(CloseEarlier(ts), Fresh, Want(s))
        /\ next' = Put(next, ts, Fresh)
        /\ nextConns' = Put(nextConns, ts, Want(s))
        /\ todo' = Without(todo, s)
        /\ UNCHANGED faults
        /\ RefreshFrame

\* Sessions the swap leaves in neither map.
Replaced ==
    {clients[ts] : ts \in {t \in DOMAIN clients :
                             t \notin DOMAIN next \/ next[t] /= clients[t]}}

\* The maps change hands under the lock; what is replaced is closed after it.
Swap ==
    /\ stage = "work" /\ DOMAIN todo = {}
    /\ clients' = next /\ conns' = nextConns
    /\ session' = [i \in DOMAIN session \ Replaced |-> session[i]]
    /\ stage' = "rest"
    /\ next' = NoEntries /\ nextConns' = NoEntries
    /\ UNCHANGED <<objects, todo, faults>>

Refresh ==
    \/ List
    \/ \E s \in Servers : PassOver(s) \/ Keep(s) \/ ConnectFails(s) \/ Connect(s)
    \/ Swap

Next == Refresh \/ \E s \in Servers : Change(s)

Spec == Init /\ [][Next]_vars

\* The ticker keeps firing and the calls of a refresh end.  Registry.refresh
\* gives them no deadline: that they end is an assumption on the MCP servers.
FairSpec == Spec /\ WF_vars(Refresh)

-----------------------------------------------------------------------------
(* Properties                                                              *)

Partial(D, V) == UNION {[E -> V] : E \in SUBSET D}

\* Type invariant.
TypeOK ==
    /\ registered \in Partial(Servers, MCPServer)
    /\ token \in [Servers -> Tokens]
    /\ session \in Partial(Sessions, ConnKey)
    /\ clients \in Partial(Toolsets, Sessions)
    /\ conns \in Partial(Toolsets, ConnKey)
    /\ stage \in {"rest", "work"}
    /\ todo \in Partial(Servers, MCPServer)
    /\ next \in Partial(Toolsets, Sessions)
    /\ nextConns \in Partial(Toolsets, ConnKey)
    /\ DOMAIN conns = DOMAIN clients /\ DOMAIN nextConns = DOMAIN next

\* Between two refreshes the open sessions are exactly the served ones: none
\* is leaked, whatever was renamed, rotated, deleted, registered twice or
\* failed to connect, and none that was closed is still served (registry.go,
\* refresh).
OpenMeansServed == stage = "rest" => DOMAIN session = Range(clients)

\* A lookup gets a session that is open, unless a refresh has already opened
\* or kept the one that replaces it: a failing call never takes a session
\* away before the swap (registry.go, refresh and ClientFor).
ClosedOnlyWhenReplaced ==
    \A ts \in DOMAIN clients :
        clients[ts] \notin DOMAIN session
          => stage = "work" /\ ts \in DOMAIN next /\ next[ts] /= clients[ts]

\* The objects of a toolset; the one listed last is served.
Of(ts) == {s \in DOMAIN registered : registered[s].toolset = ts}
ServedAsRegistered(ts) ==
    IF Of(ts) = {} THEN ts \notin DOMAIN clients
    ELSE LET s == Max(Of(ts))
         IN  /\ ts \in DOMAIN clients
             /\ clients[ts] \in DOMAIN session
             /\ session[clients[ts]] =
                  [name |-> s, endpoint |-> registered[s].endpoint, token |-> token[s]]

\* Once people leave the objects and Secrets alone and calls stop failing,
\* every toolset is served by an open session to the last object registered
\* for it, opened with its present endpoint and token (registry.go:37-39,
\* docs/api/crds.md:69).
ServesWhatIsRegistered == <>[](\A ts \in Toolsets : ServedAsRegistered(ts))
=============================================================================
