---------------------------- MODULE BindingProofs ----------------------------
(***************************************************************************)
(* Proofs about Binding, for any number of lookups, edits and faults:      *)
(* a provider is given up only for a deleted binding, and a lookup returns *)
(* what was described since a refresh that was over before it began.  Both *)
(* rest on what the two words of the provider are while a refresh is       *)
(* storing them one at a time.                                             *)
(***************************************************************************)
EXTENDS Binding, TLAPS

USE BindingAssumption

-----------------------------------------------------------------------------
(* Interface values                                                        *)

LEMMA WholeTypes ==
    /\ Nil \in Interface /\ Nil.type = None
    /\ \A p \in ProviderData : Boxed(p) \in Interface /\ Boxed(p).type /= None
    /\ \A value : Whole(value) => value \in Interface /\ (value.type = None <=> value = Nil)
BY DEF Nil, Boxed, Interface, ProviderData, Whole, Kinds

\* One word is stored, the other keeps its value.
LEMMA OneWord ==
    ASSUME NEW P, NEW Q, NEW r \in [type : P, data : Q], NEW R, NEW S,
           NEW v \in [type : R, data : S],
           R \subseteq P, S \subseteq Q, NEW word \in Words
    PROVE  LET s == [r EXCEPT ![word] = v[word]]
           IN  /\ s \in [type : P, data : Q]
               /\ s[word] = v[word]
               /\ \A w \in Words \ {word} : s[w] = r[w]
               /\ s.type = IF word = "type" THEN v.type ELSE r.type
<1>1. CASE word = "type"
  BY <1>1 DEF Words
<1>2. CASE word = "data"
  BY <1>2 DEF Words
<1> QED
  BY <1>1, <1>2 DEF Words

\* A value is its two words.
LEMMA BothWords ==
    ASSUME NEW P, NEW Q, NEW r \in [type : P, data : Q], NEW R, NEW S,
           NEW v \in [type : R, data : S],
           \A w \in Words : r[w] = v[w]
    PROVE  r = v
<1>1. r.type = v.type /\ r.data = v.data
  BY DEF Words
<1> QED
  BY <1>1

-----------------------------------------------------------------------------
(* The inductive invariant                                                 *)

RefreshRecord ==
    [stage : {"rest", "build", "store"}, binding : Bindings \cup {None},
     value : Interface, todo : SUBSET Words, since : History]
LookupRecord ==
    [stage : {"rest", "load", "done"}, todo : SUBSET Words,
     got : [type : Kinds \cup {None, "fallback"}, data : ProviderData \cup {None, "fallback"}],
     since : History]

HalfStored == refresh.todo \notin {{}, Words}

\* The words a refresh has stored are those of its value.
StoredSoFar ==
    /\ refresh.todo /= Words => \A w \in Words \ refresh.todo :
                                   refresh.stage = "store" => current[w] = refresh.value[w]
    /\ ~HalfStored => Whole(current)

\* Where there is no binding and none was deleted since the last read, no
\* provider is served, or about to be.
NoneUnlessDeleted ==
    binding = None /\ ~gone =>
        /\ current.type = None
        /\ refresh.stage /= "build"
        /\ refresh.stage = "store" => refresh.value = Nil

\* A refresh that gives up a provider does so for a deleted binding.
GivesUpDeleted ==
    refresh.stage = "store" /\ refresh.value = Nil /\ current.type /= None => gone

Types ==
    /\ binding \in Bindings \cup {None}
    /\ secret \in Keys \cup {None, NoSecret}
    /\ refresh \in RefreshRecord
    /\ refresh.stage = "build" => refresh.binding \in Bindings
    /\ refresh.stage = "store" <=> refresh.todo /= {}
    /\ Whole(refresh.value)
    /\ current \in Interface
    /\ gone \in BOOLEAN
    /\ since \in History
    /\ lookup \in [Lookups -> LookupRecord]
    /\ \A g \in Lookups : lookup[g].stage = "load" <=> lookup[g].todo /= {}

IInv ==
    /\ Types
    /\ StoredSoFar
    /\ NoneUnlessDeleted
    /\ GivesUpDeleted

LEMMA IInvTypes == IInv => TypeOK
BY DEF IInv, Types, TypeOK, RefreshRecord, LookupRecord, StoredSoFar, HalfStored

LEMMA IdleTypes ==
    /\ Idle \in RefreshRecord /\ Whole(Idle.value)
    /\ Idle.stage = "rest" /\ Idle.todo = {}
BY WholeTypes DEF Idle, RefreshRecord, Whole, Nothing, History

LEMMA AbsentTypes == Absent \in LookupRecord
BY DEF Absent, LookupRecord, Nil, Nothing, History

LEMMA StoringTypes ==
    ASSUME IInv, NEW value, Whole(value), NEW history \in History
    PROVE  /\ Storing(value, history) \in RefreshRecord
           /\ Storing(value, history).stage = "store" /\ Storing(value, history).todo = Words
           /\ Storing(value, history).value = value
           /\ Storing(value, history).since = history
BY WholeTypes DEF IInv, Types, Storing, RefreshRecord

LEMMA InitIInv == Init => IInv
<1> SUFFICES ASSUME Init PROVE IInv
  OBVIOUS
<1>1. Types
  BY IdleTypes, AbsentTypes, WholeTypes DEF Init, Types, Now, History, Absent
<1>2. StoredSoFar /\ NoneUnlessDeleted /\ GivesUpDeleted
  BY IdleTypes, WholeTypes DEF Init, StoredSoFar, NoneUnlessDeleted, GivesUpDeleted, HalfStored, Whole
<1> QED
  BY <1>1, <1>2 DEF IInv

-----------------------------------------------------------------------------
(* Steps                                                                   *)

LEMMA NowTypes == ASSUME Types PROVE Now \in History
BY DEF Types, Now, History

\* An edit only makes histories longer.
LEMMA ChangeMoves ==
    ASSUME IInv, Change
    PROVE  /\ \A history \in History : Longer(history) \in History
           /\ UNCHANGED current
           /\ refresh' \in RefreshRecord
           /\ UNCHANGED <<refresh.stage, refresh.binding, refresh.value, refresh.todo>>
           /\ refresh.stage /= "rest" => refresh'.since = Longer(refresh.since)
           /\ since' = Longer(since)
           /\ lookup' \in [Lookups -> LookupRecord]
           /\ \A g \in Lookups :
                 /\ UNCHANGED <<lookup[g].stage, lookup[g].todo, lookup[g].got>>
                 /\ lookup[g].stage /= "load" => lookup'[g] = lookup[g]
                 /\ lookup[g].stage = "load" => lookup'[g].since = Longer(lookup[g].since)
<1>0. Types
  BY DEF IInv
<1>1. \A history \in History : Longer(history) \in History
  BY <1>0 DEF Change, Longer, History, Types
<1>2. /\ refresh' \in RefreshRecord
      /\ UNCHANGED <<refresh.stage, refresh.binding, refresh.value, refresh.todo>>
      /\ refresh.stage /= "rest" => refresh'.since = Longer(refresh.since)
  <2>1. refresh \in RefreshRecord /\ refresh.since \in History
    BY <1>0 DEF Types, RefreshRecord
  <2>2. CASE refresh.stage = "rest"
    BY <2>1, <2>2 DEF Change
  <2>3. CASE refresh.stage /= "rest"
    <3>1. Longer(refresh.since) \in History
      BY <1>1, <2>1
    <3>2. refresh' = [refresh EXCEPT !.since = Longer(refresh.since)]
      BY <2>3 DEF Change
    <3> DEFINE longer == Longer(refresh.since)
    <3> HIDE DEF longer
    <3> QED
      BY <2>1, <3>1, <3>2 DEF RefreshRecord, longer
  <2> QED
    BY <2>2, <2>3
<1>3. ASSUME NEW g \in Lookups
      PROVE  /\ lookup'[g] \in LookupRecord
             /\ UNCHANGED <<lookup[g].stage, lookup[g].todo, lookup[g].got>>
             /\ lookup[g].stage /= "load" => lookup'[g] = lookup[g]
             /\ lookup[g].stage = "load" => lookup'[g].since = Longer(lookup[g].since)
  <2>1. lookup[g] \in LookupRecord /\ lookup[g].since \in History
    BY <1>0 DEF Types, LookupRecord
  <2>2. CASE lookup[g].stage /= "load"
    <3>1. lookup'[g] = lookup[g]
      BY <2>2 DEF Change
    <3> QED
      BY <2>1, <2>2, <3>1
  <2>3. CASE lookup[g].stage = "load"
    <3>1. Longer(lookup[g].since) \in History
      BY <1>1, <2>1
    <3>2. lookup'[g] = [lookup[g] EXCEPT !.since = Longer(lookup[g].since)]
      BY <2>3 DEF Change
    <3> QED
      BY <2>1, <2>3, <3>1, <3>2 DEF LookupRecord
  <2> QED
    BY <2>2, <2>3
<1>4. DOMAIN lookup' = Lookups /\ lookup' = [g \in Lookups |-> lookup'[g]]
  BY DEF Change
<1>5. lookup' \in [Lookups -> LookupRecord]
  BY <1>3, <1>4
<1>6. UNCHANGED current /\ since' = Longer(since)
  BY DEF Change
<1> QED
  BY <1>1, <1>2, <1>3, <1>5, <1>6

LEMMA ChangeIInv == ASSUME IInv, Change PROVE IInv'
<1>1. /\ UNCHANGED <<current, refresh.stage, refresh.binding, refresh.value, refresh.todo>>
      /\ refresh' \in RefreshRecord /\ lookup' \in [Lookups -> LookupRecord]
      /\ \A g \in Lookups : UNCHANGED <<lookup[g].stage, lookup[g].todo>>
      /\ since' \in History
  <2>1. since \in History
    BY DEF IInv, Types
  <2> QED
    BY <2>1, ChangeMoves
<1>2. /\ binding' \in Bindings \cup {None} /\ secret' \in Keys \cup {None, NoSecret}
      /\ gone' \in BOOLEAN /\ (gone => gone')
      /\ binding' /= binding => (binding' = None => gone')
  <2>1. gone \in BOOLEAN /\ binding \in Bindings \cup {None} /\ secret \in Keys \cup {None, NoSecret}
    BY DEF IInv, Types
  <2>2. CASE /\ binding' \in Bindings \cup {None}
             /\ gone' = (gone \/ binding' = None)
             /\ UNCHANGED secret
    <3>1. gone' \in BOOLEAN
      BY <2>2, Zenon
    <3> QED
      BY <2>1, <2>2, <3>1
  <2>3. CASE secret' \in Keys \cup {None, NoSecret} /\ UNCHANGED <<binding, gone>>
    BY <2>1, <2>3
  <2> QED
    BY <2>2, <2>3 DEF Change
<1>3. Types'
  BY <1>1, <1>2 DEF IInv, Types
<1>4. StoredSoFar'
  BY <1>1 DEF IInv, StoredSoFar, HalfStored
<1>5. NoneUnlessDeleted' /\ GivesUpDeleted'
  BY <1>1, <1>2 DEF IInv, NoneUnlessDeleted, GivesUpDeleted
<1> QED
  BY <1>3, <1>4, <1>5 DEF IInv

\* A refresh that stores nothing and has stored nothing.
LEMMA QuietIInv ==
    ASSUME IInv, RefreshFrame, UNCHANGED current,
           refresh.todo = {},
           refresh' \in RefreshRecord, Whole(refresh'.value),
           refresh'.todo \in {{}, Words},
           refresh'.stage = "build" => refresh'.binding \in Bindings,
           refresh'.stage = "store" <=> refresh'.todo /= {},
           gone' \in BOOLEAN, UNCHANGED since
    PROVE  Types' /\ StoredSoFar'
<1>1. Types'
  BY DEF IInv, Types, RefreshFrame
<1>2. ~HalfStored /\ ~HalfStored'
  BY DEF HalfStored
<1>3. StoredSoFar'
  BY <1>2 DEF IInv, StoredSoFar, Whole
<1> QED
  BY <1>1, <1>3

LEMMA GetBindingIInv == ASSUME IInv, GetBinding PROVE IInv'
<1>1. /\ UNCHANGED <<current, since>> /\ RefreshFrame
      /\ refresh.todo = {} /\ refresh.stage = "rest"
  BY DEF GetBinding, IInv, Types
<1>2. binding' = binding /\ gone' = (gone /\ binding = None)
  BY DEF GetBinding, RefreshFrame
<1>3. CASE binding = None
  <2>1. refresh' = Storing(Nil, Now) /\ Whole(Nil) /\ Now \in History
    BY <1>3, NowTypes DEF GetBinding, Whole, IInv
  <2>2. /\ refresh' \in RefreshRecord /\ refresh'.stage = "store"
        /\ refresh'.todo = Words /\ refresh'.value = Nil /\ Words /= {}
    BY <2>1, StoringTypes DEF Words
  <2>3. gone' \in BOOLEAN
    BY <1>2, Zenon
  <2>4. Types' /\ StoredSoFar'
    BY <1>1, <2>1, <2>2, <2>3, QuietIInv
  <2>5. NoneUnlessDeleted' /\ GivesUpDeleted'
    BY <1>1, <1>2, <1>3, <2>1, StoringTypes DEF IInv, Types, NoneUnlessDeleted, GivesUpDeleted
  <2> QED
    BY <2>4, <2>5 DEF IInv
<1>4. CASE binding /= None
  <2>1. /\ refresh' = [Idle EXCEPT !.stage = "build", !.binding = binding, !.since = Now]
        /\ binding \in Bindings /\ Now \in History
    BY <1>4, NowTypes DEF GetBinding, IInv, Types
  <2>2. /\ refresh' \in RefreshRecord /\ Whole(refresh'.value) /\ refresh'.todo = {}
        /\ refresh'.stage = "build" /\ refresh'.binding = binding
    BY <2>1, IdleTypes DEF RefreshRecord, Idle
  <2>3. Types' /\ StoredSoFar'
    BY <1>1, <1>2, <2>1, <2>2, QuietIInv DEF IInv, Types
  <2>4. NoneUnlessDeleted' /\ GivesUpDeleted'
    BY <1>2, <1>4, <2>2 DEF NoneUnlessDeleted, GivesUpDeleted
  <2> QED
    BY <2>3, <2>4 DEF IInv
<1> QED
  BY <1>3, <1>4

\* What build returns is a provider.
LEMMA BuildTypes ==
    ASSUME NEW b \in Bindings, NEW secrets \in SUBSET (Keys \cup {None, NoSecret}),
           NEW p \in BuildFrom(b, secrets)
    PROVE  p \in ProviderData
<1>1. b \in [provider : Kinds \cup {"unknown"}, model : Models \cup {None},
             baseURL : BOOLEAN, keyRef : BOOLEAN]
  OBVIOUS
<1>2. SecretKey(b, secrets) \subseteq Keys \cup {None}
  BY DEF SecretKey
<1>3. CASE b.provider = "anthropic"
  <2>1. PICK k \in SecretKey(b, secrets) :
          p = [kind |-> "anthropic", key |-> IF k = None THEN EnvKey ELSE k, model |-> b.model]
    BY <1>3 DEF BuildFrom
  <2> QED
    BY <1>1, <1>2, <2>1 DEF ProviderData, Kinds
<1>4. CASE b.provider = "openai-compatible"
  <2>1. PICK k \in SecretKey(b, secrets) :
          p = [kind |-> b.provider, key |-> k, model |-> b.model]
    BY <1>4 DEF BuildFrom
  <2> QED
    BY <1>1, <1>2, <1>4, <2>1 DEF ProviderData, Kinds
<1>5. CASE b.provider = "claude-cli"
  <2>1. p = [kind |-> b.provider, key |-> None, model |-> None]
    BY <1>5 DEF BuildFrom
  <2> QED
    BY <1>5, <2>1 DEF ProviderData, Kinds
<1>6. CASE b.provider = "unknown"
  BY <1>6 DEF BuildFrom
<1> QED
  BY <1>1, <1>3, <1>4, <1>5, <1>6 DEF Kinds

LEMMA IdleIInv ==
    ASSUME IInv, RefreshFrame, UNCHANGED <<current, gone, since>>, refresh.todo = {},
           refresh' = Idle
    PROVE  IInv'
<1>1. Types' /\ StoredSoFar'
  BY IdleTypes, QuietIInv DEF IInv, Types
<1>2. NoneUnlessDeleted' /\ GivesUpDeleted'
  BY IdleTypes DEF IInv, NoneUnlessDeleted, GivesUpDeleted, RefreshFrame
<1> QED
  BY <1>1, <1>2 DEF IInv

LEMMA BuildProviderIInv == ASSUME IInv, BuildProvider PROVE IInv'
<1>1. /\ RefreshFrame /\ UNCHANGED <<current, gone, since>>
      /\ refresh.stage = "build" /\ refresh.todo = {} /\ refresh.binding \in Bindings
  BY DEF BuildProvider, IInv, Types
<1>2. CASE refresh' = Idle
  BY <1>1, <1>2, IdleIInv
<1>3. CASE refresh' /= Idle
  <2>1. PICK p \in Build(refresh.binding) : refresh' = Storing(Boxed(p), refresh.since)
    BY <1>3 DEF BuildProvider
  <2>2. p \in ProviderData /\ refresh.since \in History
    <3>1. {secret} \in SUBSET (Keys \cup {None, NoSecret}) /\ refresh.since \in History
      BY DEF IInv, Types, RefreshRecord
    <3> QED
      BY <1>1, <2>1, <3>1, BuildTypes DEF Build
  <2>3. Whole(Boxed(p)) /\ Boxed(p) /= Nil
    BY <2>2, WholeTypes DEF Whole
  <2>4. /\ refresh' \in RefreshRecord /\ refresh'.stage = "store"
        /\ refresh'.todo = Words /\ refresh'.value = Boxed(p) /\ Words /= {}
    BY <2>1, <2>2, <2>3, StoringTypes DEF Words
  <2>5. gone' \in BOOLEAN
    BY <1>1 DEF IInv, Types
  <2>6. Types' /\ StoredSoFar'
    BY <1>1, <2>3, <2>4, <2>5, QuietIInv
  <2>7. NoneUnlessDeleted' /\ GivesUpDeleted'
    BY <1>1, <2>3, <2>4
    DEF IInv, NoneUnlessDeleted, GivesUpDeleted, RefreshFrame
  <2> QED
    BY <2>6, <2>7 DEF IInv
<1> QED
  BY <1>2, <1>3

LEMMA RefreshFailsIInv == ASSUME IInv, RefreshFails PROVE IInv'
<1>1. refresh.stage /= "store"
  BY DEF RefreshFails
<1>2. refresh.todo = {}
  BY <1>1 DEF IInv, Types
<1> QED
  BY <1>2, IdleIInv DEF RefreshFails

LEMMA StoreIInv == ASSUME IInv, NEW word \in Words, Store(word) PROVE IInv'
<1>1. /\ refresh.stage = "store" /\ word \in refresh.todo /\ refresh.todo \subseteq Words
      /\ refresh.value \in Interface /\ current \in Interface /\ refresh \in RefreshRecord
      /\ Whole(refresh.value)
  BY DEF Store, IInv, Types, RefreshRecord
<1>2. /\ current' = [current EXCEPT ![word] = refresh.value[word]]
      /\ current' \in Interface
      /\ current'[word] = refresh.value[word]
      /\ \A w \in Words \ {word} : current'[w] = current[w]
      /\ current'.type = IF word = "type" THEN refresh.value.type ELSE current.type
  <2> DEFINE P == Kinds \cup {None}
             Q == ProviderData \cup {None}
  <2>1. current' = [current EXCEPT ![word] = refresh.value[word]]
    BY DEF Store
  <2>2. current \in [type : P, data : Q] /\ refresh.value \in [type : P, data : Q]
    BY <1>1 DEF Interface
  <2>3. LET s == [current EXCEPT ![word] = refresh.value[word]]
        IN  /\ s \in [type : P, data : Q]
            /\ s[word] = refresh.value[word]
            /\ \A w \in Words \ {word} : s[w] = current[w]
            /\ s.type = IF word = "type" THEN refresh.value.type ELSE current.type
    <3> HIDE DEF P, Q
    <3> QED
      BY <2>2, OneWord
  <2> QED
    BY <2>1, <2>3 DEF Interface
<1>3. UNCHANGED <<binding, secret, gone, lookup>> /\ since' \in History
  BY <1>1 DEF Store, RefreshRecord, IInv, Types
<1>4. CASE refresh.todo = {word}
  <2>1. refresh' = Idle
    BY <1>4 DEF Store
  <2>2. current' = refresh.value
    <3>1. \A w \in Words : current'[w] = refresh.value[w]
      <4>1. refresh.todo /= Words
        BY <1>4 DEF Words
      <4> QED
        BY <1>1, <1>2, <1>4, <4>1 DEF IInv, StoredSoFar
    <3> DEFINE P == Kinds \cup {None}
               Q == ProviderData \cup {None}
    <3>2. current' \in [type : P, data : Q] /\ refresh.value \in [type : P, data : Q]
      BY <1>1, <1>2 DEF Interface
    <3> HIDE DEF P, Q
    <3> QED
      BY <3>1, <3>2, BothWords
  <2>3. StoredSoFar'
    BY <1>1, <2>1, <2>2, IdleTypes DEF StoredSoFar, Whole
  <2>4. GivesUpDeleted'
    BY <2>1, IdleTypes DEF GivesUpDeleted
  <2>5. NoneUnlessDeleted'
    BY <1>1, <1>3, <2>1, <2>2, IdleTypes, WholeTypes DEF IInv, NoneUnlessDeleted
  <2>6. refresh' \in RefreshRecord /\ Whole(refresh'.value)
        /\ (refresh'.stage = "store" <=> refresh'.todo /= {}) /\ refresh'.stage /= "build"
    BY <2>1, IdleTypes
  <2>8. Types'
    BY <1>2, <1>3, <2>1, <2>6, IdleTypes DEF IInv, Types
  <2> QED
    BY <2>3, <2>4, <2>5, <2>8 DEF IInv
<1>5. CASE refresh.todo /= {word}
  <2>1. refresh' = [refresh EXCEPT !.todo = @ \ {word}]
    BY <1>5 DEF Store
  <2>2. /\ refresh' \in RefreshRecord /\ refresh'.stage = "store"
        /\ refresh'.value = refresh.value /\ refresh'.todo = refresh.todo \ {word}
        /\ refresh'.todo /= {}
    BY <1>1, <1>5, <2>1 DEF RefreshRecord
  <2>3. refresh.todo = Words /\ Words \ refresh'.todo = {word} /\ HalfStored'
    BY <1>1, <1>5, <2>2 DEF Words, HalfStored
  <2>4. StoredSoFar'
    BY <1>2, <2>2, <2>3 DEF StoredSoFar
  <2>5. NoneUnlessDeleted'
    BY <1>1, <1>2, <1>3, <2>2, WholeTypes DEF IInv, NoneUnlessDeleted
  <2>6. GivesUpDeleted'
    BY <1>1, <1>2, <1>3, <2>2, WholeTypes DEF IInv, GivesUpDeleted
  <2>8. Types'
    BY <1>1, <1>2, <1>3, <2>2 DEF IInv, Types
  <2> QED
    BY <2>4, <2>5, <2>6, <2>8 DEF IInv
<1> QED
  BY <1>4, <1>5

LEMMA RefreshIInv == ASSUME IInv, Refresh PROVE IInv'
BY GetBindingIInv, BuildProviderIInv, RefreshFailsIInv, StoreIInv DEF Refresh

\* A lookup under way, or over, leaves everything else as it is.
LEMMA LookupIInv ==
    ASSUME IInv, NEW g \in Lookups, LookupFrame, NEW new \in LookupRecord,
           lookup' = [lookup EXCEPT ![g] = new],
           new.stage = "load" <=> new.todo /= {}
    PROVE  IInv'
<1>1. lookup \in [Lookups -> LookupRecord]
  BY DEF IInv, Types
<1>2. lookup' \in [Lookups -> LookupRecord] /\ lookup'[g] = new
      /\ \A h \in Lookups \ {g} : lookup'[h] = lookup[h]
  BY <1>1
<1>3. Types' /\ StoredSoFar' /\ NoneUnlessDeleted' /\ GivesUpDeleted'
  BY <1>2 DEF IInv, Types, LookupFrame, StoredSoFar, NoneUnlessDeleted, GivesUpDeleted, HalfStored
<1> QED
  BY <1>3 DEF IInv

\* What a test leaves of a lookup.
LEMMA TestMoves ==
    ASSUME IInv, NEW g \in Lookups, Test(g)
    PROVE  /\ current.type = None =>
                lookup' = [lookup EXCEPT ![g] =
                   [stage |-> "done", todo |-> {}, got |-> Fallback, since |-> since]]
           /\ current.type /= None =>
                \E new \in LookupRecord :
                   /\ lookup' = [lookup EXCEPT ![g] = new]
                   /\ new.stage = "load" /\ new.todo /= {} /\ new.since = since
                   /\ \A w \in Words \ new.todo : w = "type" /\ new.got[w] = current[w]
<1>1. current \in Interface /\ since \in History
  BY DEF IInv, Types
<1>2. CASE current.type = None
  BY <1>2 DEF Test
<1>3. CASE current.type /= None
  <2>1. PICK todo \in {{"data"}, Words} :
          lookup' = [lookup EXCEPT ![g] =
             [stage |-> "load", todo |-> todo,
              got |-> [Nil EXCEPT !.type = current.type], since |-> since]]
    BY <1>3 DEF Test
  <2> DEFINE new == [stage |-> "load", todo |-> todo,
                     got |-> [Nil EXCEPT !.type = current.type], since |-> since]
  <2>2. new \in LookupRecord
    BY <1>1 DEF LookupRecord, Nil, Interface, Words
  <2>3. new.stage = "load" /\ new.todo = todo /\ todo /= {} /\ new.since = since
    BY DEF Words
  <2>4. \A w \in Words \ todo : w = "type" /\ new.got[w] = current[w]
    BY DEF Words, Nil
  <2>5. lookup' = [lookup EXCEPT ![g] = new]
    BY <2>1
  <2> HIDE DEF new
  <2> QED
    BY <1>3, <2>2, <2>3, <2>4, <2>5
<1> QED
  BY <1>2, <1>3

LEMMA TestIInv == ASSUME IInv, NEW g \in Lookups, Test(g) PROVE IInv'
<1>1. CASE current.type = None
  <2> DEFINE new == [stage |-> "done", todo |-> {}, got |-> Fallback, since |-> since]
  <2>1. new \in LookupRecord
    BY DEF LookupRecord, Fallback, IInv, Types
  <2>2. lookup' = [lookup EXCEPT ![g] = new]
    BY <1>1, TestMoves
  <2>3. new.stage = "done" /\ new.todo = {}
    OBVIOUS
  <2> HIDE DEF new
  <2> QED
    BY <2>1, <2>2, <2>3, LookupIInv DEF Test
<1>2. CASE current.type /= None
  BY <1>2, TestMoves, LookupIInv DEF Test
<1> QED
  BY <1>1, <1>2

\* What a load leaves of a lookup.
LEMMA LoadMoves ==
    ASSUME IInv, NEW g \in Lookups, NEW word \in Words, Load(g, word)
    PROVE  \E new \in LookupRecord :
              /\ lookup' = [lookup EXCEPT ![g] = new]
              /\ new.todo = lookup[g].todo \ {word}
              /\ new.stage = IF lookup[g].todo = {word} THEN "done" ELSE "load"
              /\ new.since = lookup[g].since
              /\ new.got[word] = current[word]
              /\ \A w \in Words \ {word} : new.got[w] = lookup[g].got[w]
<1> DEFINE got == [lookup[g].got EXCEPT ![word] = current[word]]
           stage == IF lookup[g].todo = {word} THEN "done" ELSE "load"
           new == [lookup[g] EXCEPT !.got = got, !.todo = @ \ {word}, !.stage = stage]
           P == Kinds \cup {None, "fallback"}
           Q == ProviderData \cup {None, "fallback"}
<1>1. lookup[g] \in LookupRecord /\ current \in Interface
  BY DEF IInv, Types
<1>2. got \in [type : P, data : Q]
      /\ got[word] = current[word] /\ \A w \in Words \ {word} : got[w] = lookup[g].got[w]
  <2>1. lookup[g].got \in [type : P, data : Q]
    BY <1>1 DEF LookupRecord
  <2> DEFINE R == Kinds \cup {None}
             S == ProviderData \cup {None}
  <2>2. R \subseteq P /\ S \subseteq Q /\ current \in [type : R, data : S]
    BY <1>1 DEF Interface
  <2> HIDE DEF P, Q, R, S
  <2> QED
    BY <2>1, <2>2, OneWord
<1>3. lookup' = [lookup EXCEPT ![g] = new]
  BY DEF Load
<1>4. stage \in {"load", "done"}
  OBVIOUS
<1> HIDE DEF got, stage
<1>5. new \in LookupRecord /\ new.got = got /\ new.todo = lookup[g].todo \ {word}
      /\ new.stage = stage /\ new.since = lookup[g].since
  BY <1>1, <1>2, <1>4 DEF LookupRecord
<1> HIDE DEF new
<1> QED
  BY <1>2, <1>3, <1>5 DEF stage

LEMMA LoadIInv == ASSUME IInv, NEW g \in Lookups, NEW word \in Words, Load(g, word) PROVE IInv'
<1>1. PICK new \in LookupRecord :
        /\ lookup' = [lookup EXCEPT ![g] = new]
        /\ new.todo = lookup[g].todo \ {word}
        /\ new.stage = IF lookup[g].todo = {word} THEN "done" ELSE "load"
  BY LoadMoves
<1>2. word \in lookup[g].todo /\ LookupFrame
  BY DEF Load
<1>3. new.stage = "load" <=> new.todo /= {}
  BY <1>1, <1>2
<1> QED
  BY <1>1, <1>2, <1>3, LookupIInv

LEMMA UseIInv == ASSUME IInv, NEW g \in Lookups, Use(g) PROVE IInv'
<1>1. Absent.stage = "rest" /\ Absent.todo = {}
  BY DEF Absent
<1> QED
  BY <1>1, AbsentTypes, LookupIInv DEF Use

LEMMA NextIInv == IInv /\ [Next]_vars => IInv'
<1> SUFFICES ASSUME IInv, [Next]_vars PROVE IInv'
  OBVIOUS
<1>1. CASE Change
  BY <1>1, ChangeIInv
<1>2. CASE Refresh
  BY <1>2, RefreshIInv
<1>3. ASSUME NEW g \in Lookups, Lookup(g) PROVE IInv'
  BY <1>3, TestIInv, LoadIInv, UseIInv DEF Lookup
<1>4. CASE UNCHANGED vars
  BY <1>4 DEF vars, IInv, Types, StoredSoFar, HalfStored, NoneUnlessDeleted, GivesUpDeleted
<1> QED
  BY <1>1, <1>2, <1>3, <1>4 DEF Next

LEMMA InvariantHolds == Spec => []IInv
BY InitIInv, NextIInv, PTL DEF Spec

\* The last word that is loaded completes the value.
LEMMA LoadsLast ==
    ASSUME IInv, NEW g \in Lookups, NEW word \in Words, Load(g, word),
           lookup[g].todo = {word}, current.type /= None,
           \A w \in Words \ {word} : lookup[g].got[w] = current[w]
    PROVE  lookup'[g].got = current /\ current /= Nil
<1> DEFINE P == Kinds \cup {None, "fallback"}
           Q == ProviderData \cup {None, "fallback"}
           R == Kinds \cup {None}
           S == ProviderData \cup {None}
<1>1. lookup \in [Lookups -> LookupRecord] /\ current \in [type : R, data : S]
  BY DEF IInv, Types, Interface
<1>2. PICK new \in LookupRecord :
        /\ lookup' = [lookup EXCEPT ![g] = new]
        /\ new.got[word] = current[word]
        /\ \A w \in Words \ {word} : new.got[w] = lookup[g].got[w]
  BY LoadMoves
<1>3. \A w \in Words : new.got[w] = current[w]
  BY <1>2
<1>4. new.got \in [type : P, data : Q]
  BY DEF LookupRecord
<1>5. lookup'[g] = new /\ current /= Nil
  BY <1>1, <1>2, WholeTypes
<1> HIDE DEF P, Q, R, S
<1> QED
  BY <1>1, <1>3, <1>4, <1>5, BothWords

-----------------------------------------------------------------------------
(* The fixpoint of the resolver: the safety half of ServesTheBinding.      *)

\* What the present binding asks for; nothing when it is invalid or its Secret
\* is not there.
Asked == IF binding = None THEN {Nil} ELSE {Boxed(p) : p \in Build(binding)}

\* That is served, and a refresh under way will store it again.
Settled ==
    /\ Asked = {} \/ current \in Asked
    /\ Whole(current)
    /\ refresh.stage = "build" => binding /= None /\ refresh.binding = binding
    /\ refresh.stage = "store" => refresh.value = current

\* There is one key, so there is one provider.
LEMMA BuildsOne ==
    ASSUME NEW b, NEW p \in Build(b), NEW q \in Build(b) PROVE p = q
<1>1. \A k, l \in SecretKey(b, {secret}) : k = l
  BY DEF SecretKey
<1>2. CASE b.provider = "anthropic"
  BY <1>1, <1>2 DEF Build, BuildFrom
<1>3. CASE b.provider = "openai-compatible"
  BY <1>1, <1>3 DEF Build, BuildFrom
<1>4. CASE b.provider = "claude-cli"
  BY <1>4 DEF Build, BuildFrom
<1>5. CASE b.provider \notin {"anthropic", "openai-compatible", "claude-cli"}
  BY <1>5 DEF Build, BuildFrom
<1> QED
  BY <1>2, <1>3, <1>4, <1>5

LEMMA StoreSettled ==
    ASSUME IInv, Settled, NEW word \in Words, Store(word), UNCHANGED binding, UNCHANGED secret
    PROVE  Settled' /\ current' = current
<1>1. refresh.stage = "store" /\ refresh.value = current
  BY DEF Store, IInv, Types, Settled
<1>2. current' = current
  <2>1. current' = [current EXCEPT ![word] = current[word]] /\ current \in Interface
    BY <1>1 DEF Store, IInv, Types
  <2> QED
    BY <2>1 DEF Interface, Words
<1>3. refresh'.stage \in {"rest", "store"} /\ (refresh'.stage = "store" => refresh'.value = refresh.value)
  <2>1. refresh' = Idle \/ refresh' = [refresh EXCEPT !.todo = @ \ {word}]
    BY DEF Store
  <2>2. refresh \in RefreshRecord
    BY DEF IInv, Types
  <2> QED
    BY <1>1, <2>1, <2>2, IdleTypes DEF RefreshRecord
<1>4. Asked' = Asked
  BY DEF Asked, Build
<1>5. Whole(current') <=> Whole(current)
  BY <1>2
<1> QED
  BY <1>1, <1>2, <1>3, <1>4, <1>5 DEF Settled

LEMMA SettledStep ==
    ASSUME IInv, [Next]_vars, Settled, UNCHANGED <<binding, secret>>
    PROVE  Settled' /\ current' = current
<1>1. Asked' = Asked
  BY DEF Asked, Build
<1>2. CASE UNCHANGED <<refresh, current>>
  BY <1>1, <1>2 DEF Settled, Whole
<1>3. ASSUME UNCHANGED current, refresh'.stage \in {"rest", "build", "store"},
             refresh'.stage = "build" => binding /= None /\ refresh'.binding = binding,
             refresh'.stage = "store" => refresh'.value = current
      PROVE  Settled' /\ current' = current
  BY <1>1, <1>3 DEF Settled, Whole
<1>4. CASE GetBinding
  <2>1. CASE binding = None
    <3>1. current = Nil
      BY <2>1 DEF Settled, Asked
    <3>2. refresh' = Storing(Nil, Now) /\ UNCHANGED current
      BY <1>4, <2>1 DEF GetBinding
    <3> QED
      BY <1>3, <3>1, <3>2 DEF Storing
  <2>2. CASE binding /= None
    <3>1. /\ refresh' = [Idle EXCEPT !.stage = "build", !.binding = binding, !.since = Now]
          /\ UNCHANGED current
      BY <1>4, <2>2 DEF GetBinding
    <3>2. refresh'.stage = "build" /\ refresh'.binding = binding
      BY <3>1 DEF Idle
    <3> QED
      BY <1>3, <2>2, <3>1, <3>2
  <2> QED
    BY <2>1, <2>2
<1>5. CASE BuildProvider
  <2>0. refresh.stage = "build" /\ binding /= None /\ refresh.binding = binding /\ UNCHANGED current
    BY <1>5 DEF BuildProvider, Settled
  <2>1. CASE refresh' = Idle
    BY <1>3, <2>0, <2>1, IdleTypes
  <2>2. ASSUME NEW p \in Build(binding), refresh' = Storing(Boxed(p), refresh.since)
        PROVE  Settled' /\ current' = current
    <3>1. \E q \in Build(binding) : current = Boxed(q)
      BY <2>0, <2>2 DEF Settled, Asked
    <3>2. current = Boxed(p)
      BY <3>1, <2>2, BuildsOne
    <3> QED
      BY <1>3, <2>0, <2>2, <3>2 DEF Storing
  <2> QED
    BY <1>5, <2>0, <2>1, <2>2 DEF BuildProvider
<1>6. CASE RefreshFails
  BY <1>3, <1>6, IdleTypes DEF RefreshFails
<1>7. ASSUME NEW word \in Words, Store(word) PROVE Settled' /\ current' = current
  BY <1>7, StoreSettled
<1>8. CASE Change
  BY <1>1, <1>8, ChangeMoves DEF Settled, Whole
<1>9. ASSUME NEW g \in Lookups, Lookup(g) PROVE UNCHANGED <<refresh, current>>
  BY <1>9 DEF Lookup, Test, Load, Use, LookupFrame
<1>10. CASE UNCHANGED vars
  BY <1>2, <1>10 DEF vars
<1> QED
  BY <1>2, <1>4, <1>5, <1>6, <1>7, <1>8, <1>9, <1>10 DEF Next, Refresh

\* Of the value that is served, a lookup has each word it has loaded.
InStep(g) ==
    /\ lookup[g].stage = "load" =>
          /\ current.type /= None
          /\ \A w \in Words \ lookup[g].todo : lookup[g].got[w] = current[w]
    /\ lookup[g].stage = "done" =>
          lookup[g].got = IF current = Nil THEN Fallback ELSE current

LEMMA TestInStep == ASSUME IInv, Settled, NEW g \in Lookups, Test(g) PROVE InStep(g)'
<1>1. lookup \in [Lookups -> LookupRecord] /\ UNCHANGED current /\ Whole(current)
  BY DEF IInv, Types, Test, LookupFrame, Settled
<1>2. CASE current.type = None
  <2>1. lookup'[g].stage = "done" /\ lookup'[g].got = Fallback
    BY <1>1, <1>2 DEF Test
  <2> QED
    BY <1>1, <1>2, <2>1, WholeTypes DEF InStep
<1>3. CASE current.type /= None
  <2>1. PICK new \in LookupRecord :
          /\ lookup' = [lookup EXCEPT ![g] = new] /\ new.stage = "load"
          /\ \A w \in Words \ new.todo : new.got[w] = current[w]
    BY <1>3, TestMoves
  <2>2. lookup'[g] = new
    BY <1>1, <2>1
  <2> QED
    BY <1>1, <1>3, <2>1, <2>2 DEF InStep
<1> QED
  BY <1>2, <1>3

LEMMA LoadInStep ==
    ASSUME IInv, NEW g \in Lookups, InStep(g), NEW word \in Words, Load(g, word)
    PROVE  InStep(g)'
<1>1. PICK new \in LookupRecord :
        /\ lookup' = [lookup EXCEPT ![g] = new]
        /\ new.todo = lookup[g].todo \ {word}
        /\ new.stage = IF lookup[g].todo = {word} THEN "done" ELSE "load"
        /\ new.got[word] = current[word]
        /\ \A w \in Words \ {word} : new.got[w] = lookup[g].got[w]
  BY LoadMoves
<1>2. /\ lookup'[g] = new /\ UNCHANGED current
      /\ word \in lookup[g].todo /\ lookup[g].stage = "load"
  BY <1>1 DEF IInv, Types, Load, LookupFrame
<1>3. CASE lookup[g].todo = {word}
  <2>1. lookup'[g].got = current /\ current /= Nil
    BY <1>2, <1>3, LoadsLast DEF InStep
  <2> QED
    BY <1>1, <1>2, <1>3, <2>1 DEF InStep
<1>4. CASE lookup[g].todo /= {word}
  BY <1>1, <1>2, <1>4 DEF InStep
<1> QED
  BY <1>3, <1>4

LEMMA InStepStep ==
    ASSUME IInv, [Next]_vars, Settled, UNCHANGED <<binding, secret>>,
           NEW g \in Lookups, InStep(g)
    PROVE  InStep(g)'
<1>1. lookup \in [Lookups -> LookupRecord]
  BY DEF IInv, Types
<1>2. current' = current
  BY SettledStep
<1>3. CASE UNCHANGED <<lookup[g].stage, lookup[g].todo, lookup[g].got>>
  BY <1>2, <1>3 DEF InStep
<1>4. ASSUME NEW word \in Words, Store(word) PROVE InStep(g)'
  BY <1>3, <1>4 DEF Store
<1>5. CASE Use(g)
  <2>1. lookup'[g] = Absent /\ Absent.stage = "rest"
    BY <1>1, <1>5 DEF Use, Absent
  <2> QED
    BY <2>1 DEF InStep
<1>6. ASSUME NEW h \in Lookups \ {g}, Lookup(h) PROVE lookup'[g] = lookup[g]
  BY <1>1, <1>6 DEF Lookup, Test, Load, Use
<1>7. CASE GetBinding \/ BuildProvider \/ RefreshFails \/ UNCHANGED vars
  BY <1>3, <1>7 DEF GetBinding, BuildProvider, RefreshFails, RefreshFrame, vars
<1>8. CASE Change
  BY <1>3, <1>8, ChangeMoves
<1> QED
  BY <1>3, <1>4, <1>5, <1>6, <1>7, <1>8, TestInStep, LoadInStep DEF Next, Refresh, Lookup

-----------------------------------------------------------------------------
(* What lookups find was described                                         *)

Within(short, long) ==
    short.bindings \subseteq long.bindings /\ short.secrets \subseteq long.secrets

\* What is there now, and what a refresh read, is part of the histories; what it
\* is about to store was described.
RefreshDescribed ==
    /\ Within(Now, since)
    /\ refresh.stage /= "rest" => Within(Now, refresh.since) /\ Within(refresh.since, since)
    /\ refresh.stage = "build" => refresh.binding \in refresh.since.bindings \ {None}
    /\ refresh.stage = "store" => refresh.value \in Described(refresh.since)

\* Each word of current is that of something described, though perhaps not both
\* of the same.
WordsDescribed == \A w \in Words : \E v \in Described(since) : current[w] = v[w]

\* So is each word a lookup has loaded or is going to load, and one of what was
\* described is a provider, or the test would have failed.
LoadsDescribed(g) ==
    lookup[g].stage = "load" =>
        /\ Within(since, lookup[g].since)
        /\ \E v \in Described(lookup[g].since) : v.type /= None
        /\ \A w \in Words \ lookup[g].todo :
              \E v \in Described(lookup[g].since) : lookup[g].got[w] = v[w]

KeepsUp(g) ==
    LET may == Described(lookup[g].since)
    IN  lookup[g].stage = "done" /\ (\A v, w \in may : v.type = w.type) =>
          \E v \in may : lookup[g].got = IF v = Nil THEN Fallback ELSE v

DInv ==
    /\ RefreshDescribed
    /\ WordsDescribed
    /\ \A g \in Lookups : LoadsDescribed(g)
    /\ LookupsKeepUp

LEMMA DescribedTypes ==
    ASSUME NEW history \in History
    PROVE  /\ Described(history) \subseteq Interface
           /\ \A v \in Described(history) :
                 v = Nil \/ \E p \in ProviderData : v = Boxed(p)
<1>1. ASSUME NEW b \in history.bindings, b /= None, NEW p \in BuildFrom(b, history.secrets)
      PROVE  p \in ProviderData
  <2>1. b \in Bindings /\ history.secrets \in SUBSET (Keys \cup {None, NoSecret})
    BY <1>1 DEF History
  <2> QED
    BY <1>1, <2>1, BuildTypes
<1>2. \A v \in Described(history) : v = Nil \/ \E p \in ProviderData : v = Boxed(p)
  BY <1>1 DEF Described
<1> QED
  BY <1>2, WholeTypes

\* More was described in a longer time.
LEMMA BuildGrows ==
    ASSUME NEW b, NEW S, NEW T, S \subseteq T
    PROVE  BuildFrom(b, S) \subseteq BuildFrom(b, T)
<1>1. SecretKey(b, S) \subseteq SecretKey(b, T)
  BY DEF SecretKey
<1>2. CASE b.provider = "anthropic"
  BY <1>1, <1>2 DEF BuildFrom
<1>3. CASE b.provider = "openai-compatible"
  BY <1>1, <1>3 DEF BuildFrom
<1>4. CASE b.provider = "claude-cli"
  BY <1>4 DEF BuildFrom
<1>5. CASE b.provider \notin {"anthropic", "openai-compatible", "claude-cli"}
  BY <1>5 DEF BuildFrom
<1> QED
  BY <1>2, <1>3, <1>4, <1>5

LEMMA DescribedGrows ==
    ASSUME NEW h, NEW k, Within(h, k)
    PROVE  Described(h) \subseteq Described(k)
<1>1. ASSUME NEW v \in Described(h) PROVE v \in Described(k)
  <2>1. PICK b \in h.bindings :
          v \in IF b = None THEN {Nil} ELSE {Boxed(p) : p \in BuildFrom(b, h.secrets)}
    BY <1>1 DEF Described
  <2>2. b \in k.bindings /\ BuildFrom(b, h.secrets) \subseteq BuildFrom(b, k.secrets)
    BY BuildGrows DEF Within
  <2>3. v \in IF b = None THEN {Nil} ELSE {Boxed(p) : p \in BuildFrom(b, k.secrets)}
    BY <2>1, <2>2
  <2> QED
    BY <2>2, <2>3 DEF Described
<1> QED
  BY <1>1

LEMMA WithinTransitive ==
    ASSUME NEW h, NEW k, NEW l, Within(h, k), Within(k, l) PROVE Within(h, l)
BY DEF Within

LEMMA LongerWithin ==
    ASSUME NEW h \in History
    PROVE  /\ Within(h, Longer(h)) /\ Within(Now', Longer(h))
           /\ \A k \in History : Within(h, k) => Within(Longer(h), Longer(k))
BY DEF Within, Longer, Now

\* Where everything described is of one kind, two words that were described make
\* something that was.
LEMMA OneKindIsWhole ==
    ASSUME NEW history \in History, NEW x, x \in [type : Kinds \cup {None, "fallback"},
                                                data : ProviderData \cup {None, "fallback"}],
           \A v, w \in Described(history) : v.type = w.type,
           \A w \in Words : \E v \in Described(history) : x[w] = v[w]
    PROVE  x \in Described(history)
<1> DEFINE P == Kinds \cup {None, "fallback"}
           Q == ProviderData \cup {None, "fallback"}
           R == Kinds \cup {None}
           S == ProviderData \cup {None}
<1>1. PICK v \in Described(history) : x["data"] = v["data"]
  BY DEF Words
<1>2. PICK u \in Described(history) : x["type"] = u["type"]
  BY DEF Words
<1>3. u.type = v.type
  OBVIOUS
<1>4. \A w \in Words : x[w] = v[w]
  BY <1>1, <1>2, <1>3 DEF Words
<1>5. v \in [type : R, data : S] /\ x \in [type : P, data : Q]
  BY DescribedTypes DEF Interface
<1> HIDE DEF P, Q, R, S
<1>6. x = v
  BY <1>4, <1>5, BothWords
<1> QED
  BY <1>6

LEMMA InitDInv == Init => DInv
<1> SUFFICES ASSUME Init PROVE DInv
  OBVIOUS
<1>1. Nil \in Described(since)
  BY DEF Init, Now, Described
<1>2. RefreshDescribed
  BY DEF Init, Idle, RefreshDescribed, Within
<1>3. WordsDescribed
  BY <1>1 DEF Init, WordsDescribed
<1>4. (\A g \in Lookups : LoadsDescribed(g)) /\ LookupsKeepUp
  BY DEF Init, Absent, LoadsDescribed, LookupsKeepUp
<1> QED
  BY <1>2, <1>3, <1>4 DEF DInv

\* Whatever shortens the history of current, or nothing, leaves a lookup that
\* does not move as it is.
LEMMA LookupStays ==
    ASSUME DInv, NEW g \in Lookups, UNCHANGED lookup[g], Within(since', since)
    PROVE  LoadsDescribed(g)' /\ KeepsUp(g)'
<1>1. LoadsDescribed(g) /\ KeepsUp(g)
  BY DEF DInv, LookupsKeepUp, KeepsUp
<1>2. LoadsDescribed(g)'
  BY <1>1, WithinTransitive DEF LoadsDescribed
<1>3. KeepsUp(g)'
  BY <1>1 DEF KeepsUp
<1> QED
  BY <1>2, <1>3

LEMMA ChangeDInv == ASSUME IInv, DInv, Change PROVE DInv'
<1>0. /\ since \in History /\ refresh \in RefreshRecord /\ refresh.since \in History
      /\ lookup \in [Lookups -> LookupRecord]
  BY DEF IInv, Types, RefreshRecord
<1>1. since' = Longer(since) /\ Within(since, since') /\ Within(Now', since')
  BY <1>0, ChangeMoves, LongerWithin
<1>2. RefreshDescribed'
  <2>1. CASE refresh.stage = "rest"
    BY <1>1, <2>1, ChangeMoves DEF RefreshDescribed
  <2>2. CASE refresh.stage /= "rest"
    <3>1. refresh'.since = Longer(refresh.since) /\ UNCHANGED <<refresh.stage, refresh.binding, refresh.value>>
      BY <2>2, ChangeMoves
    <3>2. /\ Within(Now', refresh'.since) /\ Within(refresh'.since, since')
          /\ Within(refresh.since, refresh'.since)
      BY <1>0, <1>1, <2>2, <3>1, LongerWithin DEF DInv, RefreshDescribed
    <3>3. Described(refresh.since) \subseteq Described(refresh'.since)
      BY <3>2, DescribedGrows
    <3>4. refresh.stage = "build" => refresh'.binding \in refresh'.since.bindings \ {None}
      BY <3>1, <3>2 DEF DInv, RefreshDescribed, Within
    <3>5. refresh.stage = "store" => refresh'.value \in Described(refresh'.since)
      BY <3>1, <3>3 DEF DInv, RefreshDescribed
    <3>6. Described(refresh.since)' = Described(refresh'.since)
      BY DEF Described, BuildFrom, SecretKey
    <3> QED
      BY <1>1, <3>1, <3>2, <3>4, <3>5, <3>6 DEF RefreshDescribed
  <2> QED
    BY <2>1, <2>2
<1>3. WordsDescribed'
  <2>1. Described(since) \subseteq Described(since') /\ UNCHANGED current
    BY <1>1, ChangeMoves, DescribedGrows
  <2> QED
    BY <2>1 DEF DInv, WordsDescribed
<1>4. ASSUME NEW g \in Lookups PROVE LoadsDescribed(g)' /\ KeepsUp(g)'
  <2>1. CASE lookup[g].stage /= "load"
    <3>1. lookup'[g] = lookup[g]
      BY <2>1, ChangeMoves
    <3> QED
      BY <2>1, <3>1 DEF DInv, LookupsKeepUp, KeepsUp, LoadsDescribed
  <2>2. CASE lookup[g].stage = "load"
    <3>1. /\ lookup'[g].since = Longer(lookup[g].since)
          /\ UNCHANGED <<lookup[g].stage, lookup[g].todo, lookup[g].got>>
      BY <2>2, ChangeMoves
    <3>2. lookup[g].since \in History /\ Within(since, lookup[g].since)
      BY <1>0, <2>2 DEF LookupRecord, DInv, LoadsDescribed
    <3>3. Within(since', lookup'[g].since) /\ Within(lookup[g].since, lookup'[g].since)
      BY <1>0, <1>1, <3>1, <3>2, LongerWithin
    <3>4. Described(lookup[g].since) \subseteq Described(lookup'[g].since)
      BY <3>3, DescribedGrows
    <3> QED
      BY <2>2, <3>1, <3>3, <3>4 DEF DInv, LoadsDescribed, KeepsUp
  <2> QED
    BY <2>1, <2>2
<1> QED
  BY <1>2, <1>3, <1>4 DEF DInv, LookupsKeepUp, KeepsUp

\* A refresh that stores nothing yet.
LEMMA QuietDInv ==
    ASSUME DInv, UNCHANGED <<current, since, lookup>>, RefreshDescribed' PROVE DInv'
<1>1. Within(since', since)
  BY DEF Within
<1>2. WordsDescribed'
  BY DEF DInv, WordsDescribed
<1> QED
  BY <1>1, <1>2, LookupStays DEF DInv, LookupsKeepUp, KeepsUp

LEMMA GetBindingDInv == ASSUME IInv, DInv, GetBinding PROVE DInv'
<1>1. UNCHANGED <<binding, secret, current, since, lookup>> /\ UNCHANGED Now
  BY DEF GetBinding, RefreshFrame, Now
<1>2. Within(Now, since) /\ Within(Now, Now)
  BY DEF DInv, RefreshDescribed, Within
<1>3. CASE binding = None
  <2>1. refresh' = Storing(Nil, Now)
    BY <1>3 DEF GetBinding
  <2>2. refresh'.stage = "store" /\ refresh'.value = Nil /\ refresh'.since = Now
    BY <2>1 DEF Storing
  <2>3. Nil \in Described(Now)
    BY <1>3 DEF Described, Now
  <2>4. RefreshDescribed'
    BY <1>1, <1>2, <2>2, <2>3 DEF RefreshDescribed
  <2> QED
    BY <1>1, <2>4, QuietDInv
<1>4. CASE binding /= None
  <2>1. refresh' = [Idle EXCEPT !.stage = "build", !.binding = binding, !.since = Now]
    BY <1>4 DEF GetBinding
  <2>2. refresh'.stage = "build" /\ refresh'.binding = binding /\ refresh'.since = Now
    BY <2>1 DEF Idle
  <2>3. RefreshDescribed'
    BY <1>1, <1>2, <1>4, <2>2 DEF RefreshDescribed, Now
  <2> QED
    BY <1>1, <2>3, QuietDInv
<1> QED
  BY <1>3, <1>4

LEMMA IdleDInv ==
    ASSUME DInv, UNCHANGED <<binding, secret, current, since, lookup>>, refresh' = Idle
    PROVE  DInv'
<1>1. RefreshDescribed'
  BY IdleTypes DEF DInv, RefreshDescribed, Now, Within
<1> QED
  BY <1>1, QuietDInv

LEMMA BuildProviderDInv == ASSUME IInv, DInv, BuildProvider PROVE DInv'
<1>1. UNCHANGED <<binding, secret, current, since, lookup>> /\ UNCHANGED Now
  BY DEF BuildProvider, RefreshFrame, Now
<1>2. CASE refresh' = Idle
  BY <1>1, <1>2, IdleDInv
<1>3. CASE refresh' /= Idle
  <2>1. PICK p \in Build(refresh.binding) : refresh' = Storing(Boxed(p), refresh.since)
    BY <1>3 DEF BuildProvider
  <2>2. /\ refresh'.stage = "store" /\ refresh'.value = Boxed(p)
        /\ refresh'.since = refresh.since
    BY <2>1 DEF Storing
  <2>3. /\ refresh.stage = "build" /\ Within(Now, refresh.since) /\ Within(refresh.since, since)
        /\ Within(Now, since)
        /\ refresh.binding \in refresh.since.bindings /\ refresh.binding /= None
    BY DEF BuildProvider, DInv, RefreshDescribed, IInv, Types
  <2>4. {secret} \subseteq refresh.since.secrets
    BY <2>3 DEF Within, Now
  <2>5. Boxed(p) \in Described(refresh.since)
    BY <2>1, <2>3, <2>4, BuildGrows DEF Described, Build
  <2>6. RefreshDescribed'
    BY <1>1, <2>2, <2>3, <2>5 DEF RefreshDescribed
  <2> QED
    BY <1>1, <2>6, QuietDInv
<1> QED
  BY <1>2, <1>3

LEMMA StoreDInv == ASSUME IInv, DInv, NEW word \in Words, Store(word) PROVE DInv'
<1>1. /\ refresh.stage = "store" /\ refresh.value \in Described(refresh.since)
      /\ Within(Now, refresh.since) /\ Within(refresh.since, since) /\ Within(Now, since)
  BY DEF Store, IInv, Types, DInv, RefreshDescribed
<1>2. UNCHANGED <<binding, secret, lookup>> /\ UNCHANGED Now
  BY DEF Store, Now
<1>3. /\ current'[word] = refresh.value[word]
      /\ \A w \in Words \ {word} : current'[w] = current[w]
  <2> DEFINE P == Kinds \cup {None}
             Q == ProviderData \cup {None}
  <2>1. current \in [type : P, data : Q] /\ refresh.value \in [type : P, data : Q]
    BY DEF IInv, Types, RefreshRecord, Interface
  <2>2. current' = [current EXCEPT ![word] = refresh.value[word]]
    BY DEF Store
  <2> HIDE DEF P, Q
  <2> QED
    BY <2>1, <2>2, OneWord
<1>4. CASE refresh.todo = {word}
  <2>1. refresh' = Idle /\ since' = refresh.since
    BY <1>4 DEF Store
  <2>2. Within(since', since) /\ Within(Now', since')
    BY <1>1, <1>2, <2>1
  <2>3. RefreshDescribed'
    BY <2>1, <2>2, IdleTypes DEF RefreshDescribed
  <2>4. refresh.todo /= Words /\ \A w \in Words \ {word} : current[w] = refresh.value[w]
    <3>1. refresh.todo /= Words
      BY <1>4 DEF Words
    <3> QED
      BY <1>1, <1>4, <3>1 DEF IInv, StoredSoFar
  <2>5. WordsDescribed'
    BY <1>1, <1>3, <2>1, <2>4 DEF WordsDescribed
  <2> QED
    BY <1>2, <2>2, <2>3, <2>5, LookupStays DEF DInv, LookupsKeepUp, KeepsUp
<1>5. CASE refresh.todo /= {word}
  <2>1. refresh' = [refresh EXCEPT !.todo = @ \ {word}] /\ since' = since
    BY <1>5 DEF Store
  <2>2. UNCHANGED <<refresh.stage, refresh.binding, refresh.value, refresh.since>>
    BY <2>1 DEF IInv, Types, RefreshRecord
  <2>3. RefreshDescribed'
    BY <1>2, <2>1, <2>2 DEF DInv, RefreshDescribed
  <2>4. refresh.value \in Described(since)
    BY <1>1, DescribedGrows
  <2>5. WordsDescribed'
    BY <1>3, <2>1, <2>4 DEF DInv, WordsDescribed
  <2>6. Within(since', since)
    BY <2>1 DEF Within
  <2> QED
    BY <1>2, <2>3, <2>5, <2>6, LookupStays DEF DInv, LookupsKeepUp, KeepsUp
<1> QED
  BY <1>4, <1>5

\* One lookup moves.
LEMMA LookupDInv ==
    ASSUME IInv, DInv, NEW g \in Lookups, LookupFrame, NEW new,
           lookup' = [lookup EXCEPT ![g] = new], LoadsDescribed(g)', KeepsUp(g)'
    PROVE  DInv'
<1>1. RefreshDescribed' /\ WordsDescribed'
  BY DEF DInv, LookupFrame, RefreshDescribed, WordsDescribed, Now
<1>2. ASSUME NEW h \in Lookups \ {g} PROVE LoadsDescribed(h)' /\ KeepsUp(h)'
  <2>1. lookup'[h] = lookup[h]
    BY DEF IInv, Types
  <2>2. Within(since', since)
    BY DEF LookupFrame, Within
  <2> QED
    BY <2>1, <2>2, LookupStays
<1> QED
  BY <1>1, <1>2 DEF DInv, LookupsKeepUp, KeepsUp

LEMMA TestDInv == ASSUME IInv, DInv, NEW g \in Lookups, Test(g) PROVE DInv'
<1>1. /\ lookup \in [Lookups -> LookupRecord] /\ LookupFrame /\ UNCHANGED <<current, since>>
      /\ WordsDescribed /\ since \in History
  BY DEF IInv, Types, Test, LookupFrame, DInv
<1>2. PICK v \in Described(since) : current["type"] = v["type"]
  BY <1>1 DEF WordsDescribed, Words
<1>3. CASE current.type = None
  <2> DEFINE new == [stage |-> "done", todo |-> {}, got |-> Fallback, since |-> since]
  <2>1. lookup' = [lookup EXCEPT ![g] = new]
    BY <1>3, TestMoves
  <2>2. lookup'[g] = new
    BY <1>1, <2>1
  <2>3. v = Nil
    BY <1>1, <1>2, <1>3, DescribedTypes, WholeTypes
  <2>4. LoadsDescribed(g)' /\ KeepsUp(g)'
    BY <2>2, <2>3 DEF LoadsDescribed, KeepsUp
  <2> HIDE DEF new
  <2> QED
    BY <1>1, <2>1, <2>4, LookupDInv
<1>4. CASE current.type /= None
  <2>1. PICK new \in LookupRecord :
          /\ lookup' = [lookup EXCEPT ![g] = new]
          /\ new.stage = "load" /\ new.since = since
          /\ \A w \in Words \ new.todo : new.got[w] = current[w]
    BY <1>4, TestMoves
  <2>2. lookup'[g] = new
    BY <1>1, <2>1
  <2>3. LoadsDescribed(g)' /\ KeepsUp(g)'
    BY <1>1, <1>2, <1>4, <2>1, <2>2 DEF LoadsDescribed, KeepsUp, WordsDescribed, Within
  <2> QED
    BY <1>1, <2>1, <2>3, LookupDInv
<1> QED
  BY <1>3, <1>4

LEMMA LoadDInv ==
    ASSUME IInv, DInv, NEW g \in Lookups, NEW word \in Words, Load(g, word) PROVE DInv'
<1>1. PICK new \in LookupRecord :
        /\ lookup' = [lookup EXCEPT ![g] = new]
        /\ new.todo = lookup[g].todo \ {word}
        /\ new.stage = IF lookup[g].todo = {word} THEN "done" ELSE "load"
        /\ new.since = lookup[g].since
        /\ new.got[word] = current[word]
        /\ \A w \in Words \ {word} : new.got[w] = lookup[g].got[w]
  BY LoadMoves
<1>2. /\ lookup'[g] = new /\ LookupFrame /\ UNCHANGED since
      /\ word \in lookup[g].todo /\ lookup[g].stage = "load"
      /\ new.since \in History
  BY <1>1 DEF IInv, Types, Load, LookupFrame, LookupRecord
<1>3. /\ Within(since, new.since)
      /\ \E v \in Described(new.since) : v.type /= None
      /\ \A w \in Words \ lookup[g].todo :
            \E v \in Described(new.since) : lookup[g].got[w] = v[w]
  BY <1>1, <1>2 DEF DInv, LoadsDescribed
<1>4. \E v \in Described(new.since) : current[word] = v[word]
  BY <1>3, DescribedGrows DEF DInv, WordsDescribed
<1>5. \A w \in Words \ new.todo : \E v \in Described(new.since) : new.got[w] = v[w]
  BY <1>1, <1>3, <1>4
<1>6. LoadsDescribed(g)'
  BY <1>2, <1>3, <1>5 DEF LoadsDescribed
<1>7. KeepsUp(g)'
  <2> SUFFICES ASSUME new.stage = "done",
                      \A v, w \in Described(new.since) : v.type = w.type
               PROVE  \E v \in Described(new.since) :
                        new.got = IF v = Nil THEN Fallback ELSE v
    BY <1>2 DEF KeepsUp
  <2>1. new.todo = {}
    BY <1>1
  <2>2. new.got \in Described(new.since)
    BY <1>2, <1>5, <2>1, OneKindIsWhole DEF LookupRecord
  <2>3. new.got /= Nil
    BY <1>3, <2>2, WholeTypes
  <2> QED
    BY <2>2, <2>3
<1> QED
  BY <1>1, <1>2, <1>6, <1>7, LookupDInv

LEMMA UseDInv == ASSUME IInv, DInv, NEW g \in Lookups, Use(g) PROVE DInv'
<1>1. lookup'[g] = Absent /\ lookup' = [lookup EXCEPT ![g] = Absent] /\ LookupFrame
  BY DEF Use, IInv, Types
<1>2. LoadsDescribed(g)' /\ KeepsUp(g)'
  BY <1>1 DEF Absent, LoadsDescribed, KeepsUp
<1> QED
  BY <1>1, <1>2, LookupDInv

LEMMA NextDInv == IInv /\ DInv /\ [Next]_vars => DInv'
<1> SUFFICES ASSUME IInv, DInv, [Next]_vars PROVE DInv'
  OBVIOUS
<1>1. CASE Change
  BY <1>1, ChangeDInv
<1>2. CASE RefreshFails
  BY <1>2, IdleDInv DEF RefreshFails, RefreshFrame
<1>3. CASE Refresh
  BY <1>2, <1>3, GetBindingDInv, BuildProviderDInv, StoreDInv DEF Refresh
<1>4. ASSUME NEW g \in Lookups, Lookup(g) PROVE DInv'
  BY <1>4, TestDInv, LoadDInv, UseDInv DEF Lookup
<1>5. CASE UNCHANGED vars
  BY <1>5 DEF vars, DInv, RefreshDescribed, WordsDescribed, LoadsDescribed, LookupsKeepUp, Now
<1> QED
  BY <1>1, <1>3, <1>4, <1>5 DEF Next

LEMMA DescriptionHolds == Spec => []DInv
BY InvariantHolds, InitDInv, NextDInv, PTL DEF Spec

-----------------------------------------------------------------------------
(* Results                                                                 *)

\* Every reachable state of the resolver is well typed, and between two
\* refreshes what is served is a provider or nil, whole.
THEOREM TypeCorrect == Spec => []TypeOK
BY InvariantHolds, IInvTypes, PTL

\* A resolved provider is given up only after its binding was deleted, for any
\* number of edits and failing calls.
THEOREM GivenUpWhenDeleted == Spec => KeptUntilDeleted
<1> DEFINE Kept == current.type /= None /\ current'.type = None => gone
<1>1. ASSUME IInv, Next PROVE Kept
  <2>1. ASSUME NEW word \in Words, Store(word) PROVE Kept
    <3> SUFFICES ASSUME current.type /= None, current'.type = None PROVE gone
      OBVIOUS
    <3>1. /\ refresh.stage = "store" /\ refresh.value \in Interface /\ current \in Interface
          /\ Whole(refresh.value)
      BY <1>1, <2>1 DEF Store, IInv, Types, RefreshRecord
    <3>2. current'.type = IF word = "type" THEN refresh.value.type ELSE current.type
      BY <2>1, <3>1, OneWord DEF Store, Interface
    <3>3. refresh.value = Nil
      BY <3>1, <3>2, WholeTypes
    <3> QED
      BY <1>1, <3>1, <3>3 DEF IInv, GivesUpDeleted
  <2>2. CASE Change \/ GetBinding \/ BuildProvider \/ RefreshFails
    BY <2>2 DEF Change, GetBinding, BuildProvider, RefreshFails
  <2>3. CASE \E g \in Lookups : Lookup(g)
    BY <2>3 DEF Lookup, Test, Load, Use, LookupFrame
  <2> QED
    BY <1>1, <2>1, <2>2, <2>3 DEF Next, Refresh
<1>2. IInv /\ [Next]_vars => [Kept]_vars
  BY <1>1
<1> QED
  BY <1>2, InvariantHolds, PTL DEF Spec, KeptUntilDeleted

\* However refreshes and edits overlap a lookup, it returns what was described
\* since the last refresh that was over before it began; half a provider, or none,
\* only where the kind of provider changed meanwhile.  For any number of lookups,
\* keys, models, edits and failing calls.
THEOREM LookupsAlwaysKeepUp == Spec => []LookupsKeepUp
BY DescriptionHolds, PTL DEF DInv

\* Once what the binding asks for is served, nothing else is until somebody
\* edits the binding or its Secret: every refresh stores the same provider again,
\* a word at a time, and a failing one keeps it; so it is with what was served
\* when the binding became invalid (binding.go:62-94).
THEOREM SettledStaysSettled ==
    Spec => [][Settled /\ UNCHANGED <<binding, secret>>
                 => Settled' /\ current' = current]_vars
<1> DEFINE Stays == Settled /\ UNCHANGED <<binding, secret>> => Settled' /\ current' = current
<1>1. IInv /\ [Next]_vars => [Stays]_vars
  BY SettledStep
<1> QED
  BY <1>1, InvariantHolds, PTL DEF Spec

\* The race on the two words does no harm where it stores what is there: a lookup
\* that has loaded parts of the served value goes on to return it, or the fallback
\* where nothing is served, however many refreshes store it meanwhile
\* (binding.go:46-53).  A lookup at rest is in step.
THEOREM LookupsStayInStep ==
    Spec => [][\A g \in Lookups :
                 Settled /\ UNCHANGED <<binding, secret>> /\ InStep(g) => InStep(g)']_vars
<1> DEFINE Stays == \A g \in Lookups :
             Settled /\ UNCHANGED <<binding, secret>> /\ InStep(g) => InStep(g)'
<1>1. IInv /\ [Next]_vars => [Stays]_vars
  BY InStepStep
<1> QED
  BY <1>1, InvariantHolds, PTL DEF Spec
=============================================================================
