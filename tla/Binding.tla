------------------------------ MODULE Binding ------------------------------
(***************************************************************************)
(* The server's choice of an LLM (internal/server/llm/binding.go): one     *)
(* goroutine polls the ModelBinding object and builds the provider it      *)
(* describes; orchestrator goroutines look the present one up for every    *)
(* explain and propose call, without a lock.                               *)
(*                                                                         *)
(* A Provider is a Go interface value, two words: the type of the provider *)
(* and a pointer to it.  Words are stored and loaded one at a time, in an  *)
(* order the compiler chooses, and what a lookup tests and what it returns *)
(* may be loaded at different moments.                                     *)
(***************************************************************************)
EXTENDS Naturals, FiniteSets

CONSTANTS Keys,         \* credentials a Secret may hold
          NoSecret,     \* the Secret is not there
          EnvKey,       \* ANTHROPIC_API_KEY, or None
          Models,       \* values of spec.model
          Bindings,     \* contents people give the ModelBinding
          None,         \* an empty field, or an object that is not there
          Lookups,      \* goroutines that look the provider up
          MaxChanges,   \* bound on the edits of the binding and its Secret
          MaxFaults     \* bound on failing calls

Kinds == {"anthropic", "openai-compatible", "claude-cli"}

ASSUME BindingAssumption ==
    /\ EnvKey \in Keys \cup {None}
    /\ None \notin Keys \cup Models \cup Kinds
    /\ NoSecret \notin Keys \cup {None}
    /\ Bindings \subseteq
          [provider : Kinds \cup {"unknown"}, model : Models \cup {None},
           baseURL : BOOLEAN, keyRef : BOOLEAN]
    /\ MaxChanges \in Nat
    /\ MaxFaults \in Nat

VARIABLES binding,      \* the ModelBinding, or None
          secret,       \* the key in the Secret it refers to: None if it has no
                        \* such key, NoSecret if there is no Secret
          refresh,      \* what the resolver is at
          current,      \* BindingResolver.current, its two words
          lookup,       \* what each lookup is at
          gone,         \* auxiliary: the binding was deleted since it was last read
          since,        \* auxiliary: what binding and Secret have been since the
                        \* last refresh that replaced current began
          changes, faults

vars == <<binding, secret, refresh, current, lookup, gone, since, changes, faults>>

\* What a provider's pointer leads to.
ProviderData ==
    [kind : Kinds, key : Keys \cup {None}, model : Models \cup {None}]
Words == {"type", "data"}
Interface == [type : Kinds \cup {None}, data : ProviderData \cup {None}]
Nil == [type |-> None, data |-> None]
Boxed(p) == [type |-> p.kind, data |-> p]

\* Everything the binding and its Secret have been for a while.
History ==
    [bindings : SUBSET (Bindings \cup {None}), secrets : SUBSET (Keys \cup {None, NoSecret})]
Nothing == [bindings |-> {}, secrets |-> {}]
Now == [bindings |-> {binding}, secrets |-> {secret}]

\* The since of a refresh and of a lookup are auxiliary like the variable: the
\* history from where the refresh began, and from where that of current did when
\* the lookup began.
Idle == [stage |-> "rest", binding |-> None, value |-> Nil, todo |-> {}, since |-> Nothing]
Absent == [stage |-> "rest", todo |-> {}, got |-> Nil, since |-> Nothing]

Init ==
    /\ binding = None /\ secret = NoSecret
    /\ refresh = Idle
    /\ current = Nil /\ gone = FALSE /\ since = Now
    /\ lookup = [g \in Lookups |-> Absent]
    /\ changes = 0 /\ faults = 0

Fault == faults < MaxFaults /\ faults' = faults + 1

\* The history goes on.
Longer(history) ==
    [bindings |-> history.bindings \cup {binding'}, secrets |-> history.secrets \cup {secret'}]

\* kubectl on the ModelBinding or on the Secret.
Change ==
    /\ changes < MaxChanges
    /\ changes' = changes + 1
    /\ \/ /\ binding' \in Bindings \cup {None}
          /\ gone' = (gone \/ binding' = None)
          /\ UNCHANGED secret
       \/ secret' \in Keys \cup {None, NoSecret} /\ UNCHANGED <<binding, gone>>
    /\ since' = Longer(since)
    /\ refresh' = IF refresh.stage = "rest" THEN refresh
                  ELSE [refresh EXCEPT !.since = Longer(refresh.since)]
    /\ lookup' = [g \in Lookups |->
                    IF lookup[g].stage /= "load" THEN lookup[g]
                    ELSE [lookup[g] EXCEPT !.since = Longer(lookup[g].since)]]
    /\ UNCHANGED <<current, faults>>

-----------------------------------------------------------------------------
(* refresh                                                                 *)

RefreshFrame == UNCHANGED <<binding, secret, lookup, changes>>

\* A provider, or nil, is put into current: two stores.
Storing(value, history) ==
    [stage |-> "store", binding |-> refresh.binding, value |-> value, todo |-> Words,
     since |-> history]

\* Slip: the provider of a deleted binding is kept.
GetBindingKeeping ==
    /\ refresh.stage = "rest"
    /\ refresh' = IF binding = None THEN Idle
                  ELSE [Idle EXCEPT !.stage = "build", !.binding = binding, !.since = Now]
    /\ gone' = (gone /\ binding = None)
    /\ UNCHANGED <<current, since, faults>>
    /\ RefreshFrame

\* A binding that is not there means no provider but the fallback.
GetBinding ==
    /\ refresh.stage = "rest"
    /\ refresh' = IF binding = None THEN Storing(Nil, Now)
                  ELSE [Idle EXCEPT !.stage = "build", !.binding = binding, !.since = Now]
    /\ gone' = (gone /\ binding = None)
    /\ UNCHANGED <<current, since, faults>>
    /\ RefreshFrame

\* secretKey, as the set of what it returns when the Secret has been as in
\* secrets: nothing when it fails.
SecretKey(b, secrets) == IF b.keyRef THEN secrets \ {NoSecret} ELSE {None}

\* build, as the set of what it returns.  NewAnthropic starts from the
\* environment's key, and no key at all is an error.
BuildFrom(b, secrets) ==
    CASE b.provider = "anthropic" ->
           {p \in {[kind |-> "anthropic", key |-> IF k = None THEN EnvKey ELSE k,
                    model |-> b.model] : k \in SecretKey(b, secrets)} : p.key /= None}
      [] b.provider = "openai-compatible" ->
           {[kind |-> b.provider, key |-> k, model |-> b.model] :
              k \in {s \in SecretKey(b, secrets) : b.baseURL}}
      [] b.provider = "claude-cli" ->
           {[kind |-> b.provider, key |-> None, model |-> None]}
      [] OTHER -> {}

Build(b) == BuildFrom(b, {secret})

\* The Secret is read after the binding; an error keeps the present provider.
BuildProvider ==
    /\ refresh.stage = "build"
    /\ IF Build(refresh.binding) = {} THEN refresh' = Idle
       ELSE \E p \in Build(refresh.binding) : refresh' = Storing(Boxed(p), refresh.since)
    /\ UNCHANGED <<current, gone, since, faults>>
    /\ RefreshFrame

\* Slip: what cannot be fetched is given up.
RefreshFailsForgetting ==
    /\ refresh.stage \in {"rest", "build"}
    /\ Fault
    /\ refresh' = Storing(Nil, refresh.since)
    /\ UNCHANGED <<current, gone, since>>
    /\ RefreshFrame

\* The Get of the binding or of the Secret fails: the provider is kept.
RefreshFails ==
    /\ refresh.stage \in {"rest", "build"}
    /\ Fault
    /\ refresh' = Idle
    /\ UNCHANGED <<current, gone, since>>
    /\ RefreshFrame

\* Slip: a provider of the same name is not taken for a new one.
StoreUnlessSameName(word) ==
    /\ word \in refresh.todo
    /\ IF refresh.todo = Words /\ refresh.value.type = current.type
       THEN UNCHANGED current /\ refresh' = Idle /\ since' = refresh.since
       ELSE /\ current' = [current EXCEPT ![word] = refresh.value[word]]
            /\ refresh' = IF refresh.todo = {word} THEN Idle
                          ELSE [refresh EXCEPT !.todo = @ \ {word}]
            /\ since' = IF refresh.todo = {word} THEN refresh.since ELSE since
    /\ UNCHANGED <<binding, secret, lookup, gone, changes, faults>>

\* r.current = p, a word at a time; a lookup under way may see only one.
Store(word) ==
    /\ word \in refresh.todo
    /\ current' = [current EXCEPT ![word] = refresh.value[word]]
    /\ refresh' = IF refresh.todo = {word} THEN Idle
                  ELSE [refresh EXCEPT !.todo = @ \ {word}]
    /\ since' = IF refresh.todo = {word} THEN refresh.since ELSE since
    /\ UNCHANGED <<binding, secret, lookup, gone, changes, faults>>

Refresh == GetBinding \/ BuildProvider \/ RefreshFails \/ \E word \in Words : Store(word)

-----------------------------------------------------------------------------
(* Current                                                                 *)

LookupFrame == UNCHANGED <<binding, secret, refresh, current, gone, since, changes, faults>>
Fallback == [type |-> "fallback", data |-> "fallback"]

\* The test against nil loads the type; the value returned is loaded after it,
\* its type again or not.
Test(g) ==
    /\ lookup[g].stage = "rest"
    /\ IF current.type = None
       THEN lookup' = [lookup EXCEPT ![g] =
              [stage |-> "done", todo |-> {}, got |-> Fallback, since |-> since]]
       ELSE \E todo \in {{"data"}, Words} :
              lookup' = [lookup EXCEPT ![g] =
                [stage |-> "load", todo |-> todo,
                 got |-> [Nil EXCEPT !.type = current.type], since |-> since]]
    /\ LookupFrame

Load(g, word) ==
    /\ lookup[g].stage = "load" /\ word \in lookup[g].todo
    /\ lookup' = [lookup EXCEPT
                    ![g].got[word] = current[word],
                    ![g].todo = @ \ {word},
                    ![g].stage = IF lookup[g].todo = {word} THEN "done" ELSE "load"]
    /\ LookupFrame

\* The call is made with it, and some time later there is another.
Use(g) ==
    /\ lookup[g].stage = "done"
    /\ lookup' = [lookup EXCEPT ![g] = Absent]
    /\ LookupFrame

Lookup(g) == Test(g) \/ Use(g) \/ \E word \in Words : Load(g, word)

Next == Change \/ Refresh \/ \E g \in Lookups : Lookup(g)

Spec == Init /\ [][Next]_vars

\* The ticker keeps firing and the calls of a refresh are answered.
FairSpec == Spec /\ WF_vars(Refresh)

-----------------------------------------------------------------------------
(* Properties                                                              *)

Whole(value) == value = Nil \/ \E p \in ProviderData : value = Boxed(p)

\* Type invariant; between two refreshes current is a provider or nil.
TypeOK ==
    /\ binding \in Bindings \cup {None}
    /\ secret \in Keys \cup {None, NoSecret}
    /\ refresh.stage \in {"rest", "build", "store"}
    /\ refresh.binding \in Bindings \cup {None}
    /\ refresh.stage = "build" => refresh.binding \in Bindings
    /\ Whole(refresh.value)
    /\ refresh.todo \subseteq Words
    /\ refresh.stage = "store" <=> refresh.todo /= {}
    /\ current \in Interface
    /\ refresh.stage /= "store" => Whole(current)
    /\ gone \in BOOLEAN
    /\ since \in History /\ refresh.since \in History
    /\ \A g \in Lookups :
          /\ lookup[g].stage \in {"rest", "load", "done"}
          /\ lookup[g].todo \subseteq Words
          /\ lookup[g].since \in History

\* A provider that was resolved is given up for the fallback only after the
\* binding was deleted: an invalid binding, a Secret that is not there and a
\* failing call keep it (binding.go:73-94).
KeptUntilDeleted ==
    [][current.type /= None /\ current'.type = None => gone]_vars

\* What a refresh may put into current when the binding and its Secret are as in
\* a history: the one is read before the other.
Described(history) ==
    UNION {IF b = None THEN {Nil} ELSE {Boxed(p) : p \in BuildFrom(b, history.secrets)} :
             b \in history.bindings}

\* Whatever is edited, and however a lookup and refreshes overlap word by word,
\* the lookup returns a provider the binding described at some time since the last
\* refresh that was over when the lookup began had itself begun, or the fallback
\* for a binding that was not there: a key or model given up before is not used
\* any more, and none is half of one provider and half of another.  The exception
\* is the race LookupGetsProvider shows: binding made, deleted, or changed to
\* another kind of provider meanwhile (binding.go:46-53, 80, 95).
LookupsKeepUp ==
    \A g \in Lookups :
        LET may == Described(lookup[g].since)
        IN  lookup[g].stage = "done" /\ (\A v, w \in may : v.type = w.type) =>
              \E v \in may : lookup[g].got = IF v = Nil THEN Fallback ELSE v

\* Once binding and Secret are left alone and calls are answered, what is
\* served is what the binding describes, and nothing but the fallback where
\* there is none (binding.go:26-30, 40-42).
ServesTheBinding ==
    <>[](/\ binding = None => current = Nil
         /\ binding /= None /\ Build(binding) /= {} => current.data \in Build(binding)
         /\ Whole(current))

\* A lookup returns a provider, the fallback or one that was resolved
\* (binding.go:46-47).
LookupGetsProvider ==
    \A g \in Lookups : lookup[g].stage = "done" =>
        lookup[g].got = Fallback \/ \E p \in ProviderData : lookup[g].got = Boxed(p)
=============================================================================
