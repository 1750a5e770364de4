------------------------ MODULE ClientCaches_proofs ------------------------
(***************************************************************************)
(* What a long-running server keeps in module globals, for any number of   *)
(* threads, factories, namespaces and calls: its clients, and the function *)
(* of the SDK that fine_tune replaces for a while.                         *)
(*                                                                         *)
(* The namespace cache is sound because a client is made under the lock it *)
(* is stored under.  The caches of the factories are not, and the          *)
(* invariant says by how much: a factory that was idle when its cache was  *)
(* cleared can only have stored what was made since the reset began.       *)
(***************************************************************************)
EXTENDS ClientCaches, HfHomePatch, SequenceTheorems, TLAPS

Entry == [ns : Namespaces, client : Clients]

Types ==
    /\ TypeOK
    /\ nsCache \in Seq(Entry)
    /\ since <= kubeconfig /\ began <= kubeconfig

\* A thread that makes or stores a client of a namespace holds the lock, and
\* there is none yet.
Critical ==
    \A t \in Threads :
       calls[t].stage \in {"load", "store"} => lock = t /\ Entries(calls[t].wants) = {}

\* The dictionary has one entry for a key, and not too many.
Dictionary ==
    /\ Len(nsCache) <= CacheMax
    /\ \A i, j \in DOMAIN nsCache : nsCache[i].ns = nsCache[j].ns => i = j

\* What callers were given is still in the cache.
GivenAreCached ==
    \A n \in Namespaces : nsGiven[n] \subseteq {entry.client : entry \in Entries(n)}

\* No client of a namespace, stored or about to be, is from before the reset.
Fresh ==
    /\ \A i \in DOMAIN nsCache : nsCache[i].client.version >= since
    /\ \A t \in Threads : calls[t].stage = "store" => calls[t].client.version >= since

\* The oldest kubeconfig a client of the i-th factory may come from: the reset
\* under way has been there, or it has not.
Bound(i) == IF i <= reset THEN began ELSE since

\* A factory that was idle when it was cleared has, and is about to store, no
\* client from before that reset.
FactoriesFresh ==
    \A i \in DOMAIN Factories : Factories[i] \notin overlap =>
       /\ cached[Factories[i]] # <<>> => Head(cached[Factories[i]]).version >= Bound(i)
       /\ \A t \in Threads :
             calls[t].stage = "made" /\ calls[t].wants = Factories[i]
                => calls[t].client.version >= Bound(i)

IInv == Types /\ Critical /\ Dictionary /\ GivenAreCached /\ Fresh /\ FactoriesFresh

-----------------------------------------------------------------------------
(* What calls and caches look like. *)

\* What a thread may be at.
CallSet == {Idle} \cup [stage : {"miss"}, wants : Factory]
                  \cup [stage : {"made"}, wants : Factory, client : Clients]
                  \cup [stage : {"wait", "load"}, wants : Namespaces]
                  \cup [stage : {"store"}, wants : Namespaces, client : Clients]

\* A call at each stage has the fields that belong to it.
LEMMA CallShape ==
    ASSUME TypeOK, NEW t \in Threads
    PROVE  /\ calls[t] \in CallSet
           /\ calls[t].stage \in {"idle", "miss", "made", "wait", "load", "store"}
           /\ calls[t].stage \in {"miss", "made"} => calls[t].wants \in Factory
           /\ calls[t].stage \in {"wait", "load", "store"} => calls[t].wants \in Namespaces
           /\ calls[t].stage \in {"made", "store"} => calls[t].client \in Clients
  <1>1. calls[t] \in CallSet
    BY DEF TypeOK, CallSet
  <1>2. CASE calls[t] = Idle
    BY <1>1, <1>2 DEF Idle
  <1>3. CASE calls[t] \in [stage : {"miss"}, wants : Factory]
    BY <1>1, <1>3
  <1>4. CASE calls[t] \in [stage : {"made"}, wants : Factory, client : Clients]
    BY <1>1, <1>4
  <1>5. CASE calls[t] \in [stage : {"wait", "load"}, wants : Namespaces]
    BY <1>1, <1>5
  <1>6. CASE calls[t] \in [stage : {"store"}, wants : Namespaces, client : Clients]
    BY <1>1, <1>6
  <1>7. QED BY <1>1, <1>2, <1>3, <1>4, <1>5, <1>6 DEF CallSet

\* A call that becomes another leaves those of the other threads alone.
LEMMA SetCall ==
    ASSUME TypeOK, NEW t \in Threads, NEW call, Set(t, call)
    PROVE  /\ calls'[t] = call /\ \A u \in Threads \ {t} : calls'[u] = calls[u]
           /\ call \in CallSet => calls' \in [Threads -> CallSet]
  <1>1. calls \in [Threads -> CallSet]
    BY DEF TypeOK, CallSet
  <1>2. QED BY <1>1 DEF Set

\* A client is made from the kubeconfig of the moment.
LEMMA MadeClient ==
    ASSUME TypeOK, NEW t \in Threads
    PROVE  Made(t) \in Clients /\ Made(t).version = kubeconfig
  BY DEF TypeOK, Made, Clients

\* A full cache loses its first entry, and only that one.
LEMMA KeptEntries ==
    ASSUME Types, Dictionary
    PROVE  LET dropped == IF Len(nsCache) >= CacheMax THEN 1 ELSE 0 IN
           /\ Kept(nsCache) \in Seq(Entry)
           /\ Len(Kept(nsCache)) = Len(nsCache) - dropped
           /\ Len(Kept(nsCache)) < CacheMax
           /\ \A i \in 1..Len(Kept(nsCache)) :
                 /\ i + dropped \in DOMAIN nsCache
                 /\ Kept(nsCache)[i] = nsCache[i + dropped]
  <1>1. nsCache \in Seq(Entry) /\ Len(nsCache) \in Nat /\ DOMAIN nsCache = 1..Len(nsCache)
    BY DEF Types
  <1>2. Len(nsCache) <= CacheMax /\ CacheMax \in Nat \ {0}
    BY CachesAssumption DEF Dictionary
  <1>3. CASE Len(nsCache) >= CacheMax
    <2>1. nsCache # <<>>
      BY <1>1, <1>2, <1>3
    <2>2. /\ Tail(nsCache) \in Seq(Entry) /\ Len(Tail(nsCache)) = Len(nsCache) - 1
          /\ \A i \in 1..Len(Tail(nsCache)) : Tail(nsCache)[i] = nsCache[i + 1]
      BY <1>1, <2>1
    <2>3. QED BY <1>1, <1>2, <1>3, <2>2 DEF Kept
  <1>4. CASE ~(Len(nsCache) >= CacheMax)
    BY <1>1, <1>2, <1>4 DEF Kept
  <1>5. QED BY <1>3, <1>4

\* Evicting, then adding an entry for a namespace that has none, keeps the
\* dictionary one; what is left of the other namespaces is what was not evicted.
LEMMA StoredEntries ==
    ASSUME Types, Dictionary, NEW n \in Namespaces, NEW client \in Clients, Entries(n) = {},
           nsCache' = Append(Kept(nsCache), [ns |-> n, client |-> client])
    PROVE  /\ nsCache' \in Seq(Entry)
           /\ Dictionary'
           /\ \A i \in DOMAIN nsCache' :
                 nsCache'[i] = [ns |-> n, client |-> client] \/ nsCache'[i] \in Range(nsCache)
           /\ [ns |-> n, client |-> client] \in Entries(n)'
           /\ \A m \in Namespaces \ {n} : m \notin Evicted => Entries(m) \subseteq Entries(m)'
  <1> DEFINE dropped == IF Len(nsCache) >= CacheMax THEN 1 ELSE 0
             kept == Kept(nsCache)
             added == [ns |-> n, client |-> client]
  <1>1. /\ nsCache \in Seq(Entry) /\ Len(nsCache) \in Nat /\ DOMAIN nsCache = 1..Len(nsCache)
        /\ added \in Entry /\ added.ns = n
    BY DEF Types, Entry
  <1>2. /\ kept \in Seq(Entry) /\ Len(kept) \in Nat
        /\ Len(kept) = Len(nsCache) - dropped /\ Len(kept) < CacheMax
        /\ \A i \in 1..Len(kept) : i + dropped \in DOMAIN nsCache /\ kept[i] = nsCache[i + dropped]
    BY KeptEntries
  <1>3. dropped \in {0, 1}
    OBVIOUS
  <1> HIDE DEF kept, added
  <1>4. nsCache' = Append(kept, added)
    BY DEF kept, added
  <1>5. /\ nsCache' \in Seq(Entry) /\ Len(nsCache') = Len(kept) + 1
        /\ DOMAIN nsCache' = 1..(Len(kept) + 1)
        /\ \A i \in 1..Len(kept) : nsCache'[i] = kept[i]
        /\ nsCache'[Len(kept) + 1] = added
    <2>1. /\ Append(kept, added) \in Seq(Entry) /\ Len(Append(kept, added)) = Len(kept) + 1
          /\ \A i \in 1..Len(kept) : Append(kept, added)[i] = kept[i]
          /\ Append(kept, added)[Len(kept) + 1] = added
      <3>1. kept \in Seq(Entry) /\ added \in Entry
        BY <1>1, <1>2
      <3>2. QED BY <3>1, AppendProperties
    <2>2. DOMAIN nsCache' = 1..Len(nsCache')
      BY <1>4, <2>1
    <2>3. QED BY <1>4, <2>1, <2>2
  <1>6. \A i \in DOMAIN nsCache : nsCache[i].ns # n
    BY DEF Entries, Range
  <1> HIDE DEF dropped
  <1>7. Dictionary'
    <2>1. Len(nsCache') <= CacheMax
      BY <1>2, <1>5, CachesAssumption
    <2>2. ASSUME NEW i \in DOMAIN nsCache', NEW j \in DOMAIN nsCache',
                 nsCache'[i].ns = nsCache'[j].ns
          PROVE  i = j
      <3>1. CASE i \in 1..Len(kept) /\ j \in 1..Len(kept)
        <4>1. nsCache[i + dropped].ns = nsCache[j + dropped].ns
          BY <1>2, <1>5, <2>2, <3>1
        <4>2. i + dropped = j + dropped
          BY <1>2, <3>1, <4>1 DEF Dictionary
        <4>3. QED BY <1>3, <3>1, <4>2
      <3>2. ASSUME NEW k \in 1..Len(kept) PROVE nsCache'[k].ns # added.ns
        BY <1>1, <1>2, <1>5, <1>6
      <3>3. CASE i = Len(kept) + 1 /\ j \in 1..Len(kept)
        BY <1>5, <2>2, <3>2, <3>3
      <3>4. CASE i \in 1..Len(kept) /\ j = Len(kept) + 1
        BY <1>5, <2>2, <3>2, <3>4
      <3>5. QED BY <1>2, <1>5, <2>2, <3>1, <3>3, <3>4
    <2>3. QED BY <2>1, <2>2 DEF Dictionary
  <1>8. ASSUME NEW i \in DOMAIN nsCache'
        PROVE  nsCache'[i] = added \/ nsCache'[i] \in Range(nsCache)
    <2>1. i \in 1..Len(kept) \/ i = Len(kept) + 1
      BY <1>2, <1>5
    <2>2. CASE i \in 1..Len(kept)
      BY <1>2, <1>5, <2>2 DEF Range
    <2>3. QED BY <1>5, <2>1, <2>2
  <1>9. added \in Entries(n)'
    <2>1. Len(kept) + 1 \in DOMAIN nsCache'
      BY <1>2, <1>5
    <2>2. QED BY <1>1, <1>5, <2>1 DEF Entries, Range
  <1>10. ASSUME NEW m \in Namespaces \ {n}, m \notin Evicted, NEW entry \in Entries(m)
         PROVE  entry \in Entries(m)'
    <2>1. PICK i \in DOMAIN nsCache : entry = nsCache[i] /\ entry.ns = m
      BY <1>10 DEF Entries, Range
    <2>2. dropped < i
      <3>1. CASE Len(nsCache) >= CacheMax
        <4>1. nsCache # <<>> /\ Head(nsCache) = nsCache[1]
          BY <1>1, <2>1
        <4>2. i # 1
          BY <1>10, <2>1, <3>1, <4>1 DEF Evicted
        <4>3. QED BY <1>1, <2>1, <3>1, <4>2 DEF dropped
      <3>2. CASE ~(Len(nsCache) >= CacheMax)
        BY <1>1, <2>1, <3>2 DEF dropped
      <3>3. QED BY <3>1, <3>2
    <2>3. i - dropped \in 1..Len(kept) /\ (i - dropped) + dropped = i
      BY <1>1, <1>2, <1>3, <2>1, <2>2
    <2>4. nsCache'[i - dropped] = entry /\ i - dropped \in DOMAIN nsCache'
      BY <1>2, <1>5, <2>1, <2>3
    <2>5. QED BY <2>1, <2>4 DEF Entries, Range
  <1>11. QED BY <1>5, <1>7, <1>8, <1>9, <1>10 DEF added

-----------------------------------------------------------------------------
(* The invariant, step by step. *)

\* Nothing is cached, nobody calls.
LEMMA InitIInv == Init => IInv
  <1> SUFFICES ASSUME Init PROVE IInv
    OBVIOUS
  <1> USE CachesAssumption DEF Init
  <1>1. Len(Factories) \in Nat
    OBVIOUS
  <1>2. TypeOK
    BY <1>1 DEF TypeOK
  <1>3. /\ nsCache \in Seq(Entry) /\ Len(nsCache) = 0 /\ DOMAIN nsCache = {}
        /\ \A t \in Threads : calls[t].stage = "idle"
    BY DEF Idle
  <1>4. Factory = {Factories[i] : i \in DOMAIN Factories}
    BY DEF Factory, Range
  <1>5. QED
    BY <1>2, <1>3, <1>4
    DEF IInv, Types, Critical, Dictionary, GivenAreCached, Fresh, FactoriesFresh

\* A thread moves on and leaves the caches alone: what it holds is of the
\* moment, and if it is to fill the namespace cache it has the lock.
LEMMA ThreadMoves ==
    ASSUME IInv, NEW t \in Threads, NEW call \in CallSet, Set(t, call),
           UNCHANGED <<kubeconfig, cached, nsCache, reset, since, began, overlap>>,
           nsGiven' \in [Namespaces -> SUBSET Clients], GivenAreCached',
           lock' \in Threads \cup {Nobody},
           \A u \in Threads \ {t} : calls[u].stage \in {"load", "store"} => lock' = u,
           call.stage \in {"load", "store"} => lock' = t /\ Entries(call.wants) = {},
           call.stage \in {"made", "store"} => call.client.version = kubeconfig
    PROVE  IInv'
  <1>1. /\ calls'[t] = call /\ \A u \in Threads \ {t} : calls'[u] = calls[u]
        /\ calls' \in [Threads -> CallSet]
    BY SetCall DEF IInv, Types
  <1>2. Types'
    BY <1>1 DEF IInv, Types, TypeOK, CallSet
  <1>3. \A n : Entries(n)' = Entries(n)
    BY DEF Entries
  <1>4. Critical'
    BY <1>1, <1>3 DEF IInv, Critical
  <1>5. Dictionary'
    BY DEF IInv, Dictionary
  <1>6. Fresh'
    BY <1>1 DEF IInv, Types, Fresh
  <1>7. FactoriesFresh'
    <2>1. \A i \in DOMAIN Factories : Bound(i)' = Bound(i) /\ Bound(i) <= kubeconfig
      BY DEF IInv, Types, Bound
    <2>2. \A i \in DOMAIN Factories : Bound(i) \in Int /\ kubeconfig \in Int
      BY DEF IInv, Types, TypeOK, Bound
    <2>3. QED BY <1>1, <2>1, <2>2 DEF IInv, FactoriesFresh
  <1>8. QED BY <1>2, <1>4, <1>5, <1>6, <1>7 DEF IInv

\* While the namespaces' cache and what was given of it stand, so does the rest
\* of what is said of them.
LEMMA GivenStands ==
    ASSUME IInv, UNCHANGED <<nsCache, nsGiven>>
    PROVE  GivenAreCached' /\ nsGiven' \in [Namespaces -> SUBSET Clients]
  <1>1. \A n : Entries(n)' = Entries(n)
    BY DEF Entries
  <1>2. QED BY <1>1 DEF IInv, GivenAreCached, Types, TypeOK

\* Whoever is at the cache of the namespaces now has the lock.
LEMMA OthersHold ==
    ASSUME IInv, NEW t \in Threads
    PROVE  /\ lock \in Threads \cup {Nobody}
           /\ \A u \in Threads : calls[u].stage \in {"load", "store"} => lock = u
           /\ lock \in {t, Nobody} =>
                \A u \in Threads \ {t} : calls[u].stage \notin {"load", "store"}
  BY CachesAssumption DEF IInv, Types, TypeOK, Critical

\* A cached factory is called: the cache answers, or the factory runs.
LEMMA GetIInv == ASSUME IInv, NEW t \in Threads, NEW f \in Factory, Get(t, f) PROVE IInv'
  <1>1. UNCHANGED <<kubeconfig, cached, nsCache, lock, reset, since, began, nsGiven, overlap>>
    BY DEF Get
  <1>2. CASE Set(t, [stage |-> "miss", wants |-> f])
    <2>1. [stage |-> "miss", wants |-> f] \in CallSet
      BY DEF CallSet
    <2>2. QED BY <1>1, <1>2, <2>1, ThreadMoves, GivenStands, OthersHold
  <1>3. CASE Set(t, Idle)
    BY <1>1, <1>3, ThreadMoves, GivenStands, OthersHold DEF Idle, CallSet
  <1>4. CASE UNCHANGED calls
    <2>1. UNCHANGED vars
      BY <1>1, <1>4 DEF vars
    <2>2. calls[t] = Idle /\ Set(t, Idle)
      BY <1>4 DEF Get, Set, IInv, Types, TypeOK
    <2>3. QED BY <1>1, <2>2, <1>3
  <1>5. QED BY <1>2, <1>4 DEF Get

\* The factory made a client of the kubeconfig there is, or raised.
LEMMA MakeIInv == ASSUME IInv, NEW t \in Threads, Make(t) PROVE IInv'
  <1> DEFINE made == [stage |-> "made", wants |-> calls[t].wants, client |-> Made(t)]
  <1>1. UNCHANGED <<kubeconfig, cached, nsCache, lock, reset, since, began, nsGiven, overlap>>
    BY DEF Make
  <1>2. calls[t].wants \in Factory /\ Made(t) \in Clients /\ Made(t).version = kubeconfig
    BY CallShape, MadeClient DEF IInv, Types, Make
  <1>3. CASE Set(t, made)
    <2>1. made \in CallSet /\ made.stage = "made" /\ made.client.version = kubeconfig
      BY <1>2 DEF CallSet
    <2> HIDE DEF made
    <2>2. QED BY <1>1, <1>3, <2>1, ThreadMoves, GivenStands, OthersHold
  <1>4. CASE Set(t, Idle)
    BY <1>1, <1>4, ThreadMoves, GivenStands, OthersHold DEF Idle, CallSet
  <1>5. QED BY <1>3, <1>4 DEF Make

\* A client is kept if none was kept before: in both cases it is none from
\* before the reset, unless the factory ran while it was cleared.
LEMMA KeepIInv == ASSUME IInv, NEW t \in Threads, Keep(t) PROVE IInv'
  <1> DEFINE f == calls[t].wants
             k == calls[t].client
  <1>1. /\ UNCHANGED <<kubeconfig, nsCache, lock, reset, since, began, nsGiven, overlap>>
        /\ cached' = [cached EXCEPT ![f] = Stored(@, k)] /\ calls[t].stage = "made"
    BY DEF Keep
  <1>2. /\ calls'[t] = Idle /\ \A u \in Threads \ {t} : calls'[u] = calls[u]
        /\ calls' \in [Threads -> CallSet] /\ Idle.stage = "idle"
    BY SetCall DEF Keep, IInv, Types, Idle, CallSet
  <1>3. f \in Factory /\ k \in Clients
    BY <1>1, CallShape DEF IInv, Types
  <1>4. /\ cached \in [Factory -> {<<>>} \cup {<<client>> : client \in Clients}]
        /\ Stored(cached[f], k) \in {cached[f], <<k>>}
        /\ cached[f] # <<>> => Stored(cached[f], k) = cached[f]
    BY DEF IInv, Types, TypeOK, Stored
  <1>5. cached' \in [Factory -> {<<>>} \cup {<<client>> : client \in Clients}]
    <2>1. Stored(cached[f], k) \in {<<>>} \cup {<<client>> : client \in Clients}
      BY <1>3, <1>4
    <2>2. QED BY <1>1, <1>4, <2>1
  <1>6. Types'
    BY <1>1, <1>2, <1>5 DEF IInv, Types, TypeOK, CallSet
  <1>7. /\ \A n : Entries(n)' = Entries(n)
        /\ \A i : Bound(i)' = Bound(i)
    BY <1>1 DEF Entries, Bound
  <1>8. Critical' /\ Fresh' /\ Dictionary' /\ GivenAreCached'
    BY <1>1, <1>2, <1>7, GivenStands DEF IInv, Critical, Fresh, Dictionary
  <1>9. FactoriesFresh'
    <2> SUFFICES ASSUME NEW i \in DOMAIN Factories, Factories[i] \notin overlap
                 PROVE  /\ cached'[Factories[i]] # <<>>
                              => Head(cached'[Factories[i]]).version >= Bound(i)
                        /\ \A u \in Threads :
                              calls'[u].stage = "made" /\ calls'[u].wants = Factories[i]
                                 => calls'[u].client.version >= Bound(i)
      BY <1>1, <1>7 DEF FactoriesFresh
    <2>1. /\ cached[Factories[i]] # <<>> => Head(cached[Factories[i]]).version >= Bound(i)
          /\ f = Factories[i] => k.version >= Bound(i)
          /\ Factories[i] \in Factory
      BY <1>1 DEF IInv, FactoriesFresh, Factory, Range
    <2>2. cached'[Factories[i]] # <<>> => Head(cached'[Factories[i]]).version >= Bound(i)
      <3>1. CASE Factories[i] # f
        BY <1>1, <1>4, <2>1, <3>1
      <3>2. CASE Factories[i] = f /\ cached'[f] = cached[f]
        BY <2>1, <3>2
      <3>3. CASE Factories[i] = f /\ cached'[f] = <<k>>
        <4>1. Head(<<k>>) = k
          OBVIOUS
        <4>2. QED BY <2>1, <3>3, <4>1
      <3>4. cached'[f] \in {cached[f], <<k>>}
        BY <1>1, <1>3, <1>4
      <3>5. QED BY <3>1, <3>2, <3>3, <3>4
    <2>3. QED BY <1>2, <2>2 DEF IInv, FactoriesFresh
  <1>10. QED BY <1>6, <1>8, <1>9 DEF IInv

\* A client of a namespace is asked for.
LEMMA WantIInv == ASSUME IInv, NEW t \in Threads, NEW n \in Namespaces, Want(t, n) PROVE IInv'
  <1>1. UNCHANGED <<kubeconfig, cached, nsCache, lock, reset, since, began, nsGiven, overlap>>
    BY DEF Want
  <1>2. [stage |-> "wait", wants |-> n] \in CallSet
    BY DEF CallSet
  <1>3. QED BY <1>1, <1>2, ThreadMoves, GivenStands, OthersHold DEF Want

\* It is there, or the lock is kept to make one.
LEMMA LookupIInv == ASSUME IInv, NEW t \in Threads, Lookup(t) PROVE IInv'
  <1> DEFINE n == calls[t].wants
             load == [stage |-> "load", wants |-> n]
  <1>1. /\ UNCHANGED <<kubeconfig, cached, nsCache, reset, since, began, overlap>>
        /\ calls[t].stage = "wait" /\ lock = Nobody
    BY DEF Lookup
  <1>2. n \in Namespaces
    BY <1>1, CallShape DEF IInv, Types
  <1>3. CASE /\ \E entry \in Entries(n) : Give(n, entry.client)
             /\ Set(t, Idle) /\ UNCHANGED lock
    <2>1. PICK entry \in Entries(n) : nsGiven' = [nsGiven EXCEPT ![n] = @ \cup {entry.client}]
      BY <1>3 DEF Give
    <2>2. entry.client \in Clients
      <3>1. PICK i \in DOMAIN nsCache : entry = nsCache[i]
        BY <2>1 DEF Entries, Range
      <3>2. nsCache[i] \in Entry
        BY <3>1 DEF IInv, Types
      <3>3. QED BY <3>1, <3>2 DEF Entry
    <2>3. \A m : Entries(m)' = Entries(m)
      BY <1>1 DEF Entries
    <2>4. GivenAreCached' /\ nsGiven' \in [Namespaces -> SUBSET Clients]
      BY <2>1, <2>2, <2>3 DEF IInv, Types, TypeOK, GivenAreCached
    <2>5. QED BY <1>1, <1>3, <2>4, ThreadMoves, OthersHold DEF Idle, CallSet
  <1>4. CASE Entries(n) = {} /\ Set(t, load) /\ lock' = t /\ UNCHANGED nsGiven
    <2>1. load \in CallSet /\ load.stage = "load" /\ load.wants = n
      BY <1>2 DEF CallSet
    <2> HIDE DEF load
    <2>2. QED BY <1>1, <1>4, <2>1, ThreadMoves, GivenStands, OthersHold
  <1>5. QED BY <1>3, <1>4 DEF Lookup, Held

\* The client is made under the lock; if that fails the lock is released.
LEMMA LoadIInv == ASSUME IInv, NEW t \in Threads, Load(t) PROVE IInv'
  <1> DEFINE n == calls[t].wants
             store == [stage |-> "store", wants |-> n, client |-> Made(t)]
  <1>1. /\ UNCHANGED <<kubeconfig, cached, nsCache, reset, since, began, nsGiven, overlap>>
        /\ calls[t].stage = "load"
    BY DEF Load
  <1>2. /\ n \in Namespaces /\ Made(t) \in Clients /\ Made(t).version = kubeconfig
        /\ lock = t /\ Entries(n) = {}
    BY <1>1, CallShape, MadeClient DEF IInv, Types, Critical
  <1>3. CASE Set(t, store) /\ UNCHANGED lock
    <2>1. /\ store \in CallSet /\ store.stage = "store" /\ store.wants = n
          /\ store.client.version = kubeconfig
      BY <1>2 DEF CallSet
    <2> HIDE DEF store
    <2>2. QED BY <1>1, <1>2, <1>3, <2>1, ThreadMoves, GivenStands, OthersHold
  <1>4. CASE Set(t, Idle) /\ lock' = Nobody
    BY <1>1, <1>2, <1>4, ThreadMoves, GivenStands, OthersHold DEF Idle, CallSet
  <1>5. QED BY <1>3, <1>4 DEF Load, AfterError

\* It is stored under the same lock: the cache stays one entry per namespace,
\* and what was given of an evicted one no longer counts.
LEMMA StoreIInv == ASSUME IInv, NEW t \in Threads, Store(t) PROVE IInv'
  <1> PICK n, client : n = calls[t].wants /\ client = calls[t].client
    OBVIOUS
  <1> DEFINE added == [ns |-> n, client |-> client]
  <1>1. /\ UNCHANGED <<kubeconfig, cached, reset, since, began, overlap>>
        /\ calls[t].stage = "store" /\ lock' = Nobody /\ Set(t, Idle)
        /\ nsCache' = Append(Kept(nsCache), added)
        /\ nsGiven' = [m \in Namespaces |->
                         IF m = n THEN nsGiven[n] \cup {client}
                         ELSE IF m \in Evicted THEN {} ELSE nsGiven[m]]
    BY DEF Store
  <1>2. /\ n \in Namespaces /\ client \in Clients /\ lock = t /\ Entries(n) = {}
        /\ client.version >= since
    BY <1>1, CallShape DEF IInv, Types, Critical, Fresh
  <1>3. /\ calls'[t] = Idle /\ \A u \in Threads \ {t} : calls'[u] = calls[u]
        /\ calls' \in [Threads -> CallSet] /\ Idle.stage = "idle"
    BY <1>1, SetCall DEF IInv, Types, Idle, CallSet
  <1>4. /\ nsCache' \in Seq(Entry)
        /\ Dictionary'
        /\ \A i \in DOMAIN nsCache' : nsCache'[i] = added \/ nsCache'[i] \in Range(nsCache)
        /\ added \in Entries(n)'
        /\ \A m \in Namespaces \ {n} : m \notin Evicted => Entries(m) \subseteq Entries(m)'
    <2>1. Types /\ Dictionary
      BY DEF IInv
    <2>2. QED BY <1>1, <1>2, <2>1, StoredEntries
  <1>5. added.client = client
    OBVIOUS
  <1> HIDE DEF added
  <1>6. nsGiven[n] = {}
    BY <1>2 DEF IInv, GivenAreCached
  <1>7. nsGiven' \in [Namespaces -> SUBSET Clients]
    BY <1>1, <1>2 DEF IInv, Types, TypeOK
  <1>8. GivenAreCached'
    <2> SUFFICES ASSUME NEW m \in Namespaces, NEW c \in nsGiven'[m]
                 PROVE  \E entry \in Entries(m)' : c = entry.client
      BY DEF GivenAreCached
    <2>1. CASE m = n
      <3>1. c = client
        BY <1>1, <1>2, <1>6, <2>1
      <3>2. QED BY <1>4, <1>5, <2>1, <3>1
    <2>2. CASE m # n
      <3>1. m \notin Evicted /\ c \in nsGiven[m]
        BY <1>1, <2>2
      <3>2. PICK entry \in Entries(m) : c = entry.client
        BY <3>1 DEF IInv, GivenAreCached
      <3>3. QED BY <1>4, <2>2, <3>1, <3>2
    <2>3. QED BY <2>1, <2>2
  <1>9. Types'
    <2>1. \A i \in DOMAIN nsCache' : nsCache'[i] \in [ns : Namespaces, client : Clients]
      <3>1. nsCache' \in Seq(Entry)
        BY <1>4
      <3>2. \A i \in DOMAIN nsCache' : nsCache'[i] \in Entry
        BY <3>1
      <3>3. QED BY <3>2 DEF Entry
    <2>2. QED BY <1>1, <1>3, <1>4, <1>7, <2>1 DEF IInv, Types, TypeOK, CallSet
  <1>10. Critical'
    <2>1. \A u \in Threads : calls'[u].stage \notin {"load", "store"}
      BY <1>2, <1>3, OthersHold
    <2>2. QED BY <2>1 DEF Critical
  <1>11. Fresh'
    <2>1. ASSUME NEW i \in DOMAIN nsCache' PROVE nsCache'[i].client.version >= since
      <3>1. CASE nsCache'[i] = added BY <1>2, <1>5, <3>1
      <3>2. CASE nsCache'[i] \in Range(nsCache) BY <3>2 DEF IInv, Fresh, Range
      <3>3. QED BY <1>4, <3>1, <3>2
    <2>2. \A u \in Threads : calls'[u].stage # "store"
      BY <1>2, <1>3, OthersHold
    <2>3. QED BY <1>1, <2>1, <2>2 DEF Fresh
  <1>12. FactoriesFresh'
    <2>1. \A i : Bound(i)' = Bound(i)
      BY <1>1 DEF Bound
    <2>2. QED BY <1>1, <1>3, <2>1 DEF IInv, FactoriesFresh
  <1>13. QED BY <1>4, <1>8, <1>9, <1>10, <1>11, <1>12 DEF IInv

\* cache_clear() of a factory: what is stored next in its cache was made since
\* the reset began, unless the factory is running.
LEMMA ClearIInv == ASSUME IInv, Clear PROVE IInv'
  <1> DEFINE f == Factories[reset + 1]
  <1>1. /\ reset < Len(Factories) /\ reset' = reset + 1
        /\ UNCHANGED <<kubeconfig, nsCache, lock, calls, since, nsGiven>>
        /\ began' = IF reset = 0 THEN kubeconfig ELSE began
        /\ cached' = [cached EXCEPT ![f] = <<>>]
        /\ overlap' = IF \E t \in Threads :
                             calls[t].stage \in {"miss", "made"} /\ calls[t].wants = f
                      THEN overlap \cup {f} ELSE overlap \ {f}
    BY DEF Clear, Cleared
  <1>2. /\ reset \in Nat /\ Len(Factories) \in Nat /\ DOMAIN Factories = 1..Len(Factories)
        /\ reset + 1 \in DOMAIN Factories /\ f \in Factory
        /\ \A i, j \in DOMAIN Factories : Factories[i] = Factories[j] => i = j
    <2>1. reset \in Nat /\ Len(Factories) \in Nat /\ DOMAIN Factories = 1..Len(Factories)
      BY CachesAssumption DEF IInv, Types, TypeOK
    <2>2. reset + 1 \in DOMAIN Factories
      BY <1>1, <2>1
    <2>3. \A i, j \in DOMAIN Factories : Factories[i] = Factories[j] => i = j
      BY CachesAssumption DEF IsInjective
    <2>4. QED BY <2>1, <2>2, <2>3 DEF Factory, Range
  <1>3. Types'
    <2>1. /\ cached' \in [Factory -> {<<>>} \cup {<<client>> : client \in Clients}]
          /\ overlap' \subseteq Factory
          /\ began' \in 0..MaxVersion /\ began' <= kubeconfig
          /\ reset' \in 0..(Len(Factories) + 1)
      BY <1>1, <1>2 DEF IInv, Types, TypeOK
    <2>2. QED BY <1>1, <2>1 DEF IInv, Types, TypeOK
  <1>4. \A n : Entries(n)' = Entries(n)
    BY <1>1 DEF Entries
  <1>5. Critical' /\ Dictionary' /\ Fresh' /\ GivenAreCached'
    BY <1>1, <1>4, GivenStands DEF IInv, Critical, Dictionary, Fresh
  <1>6. FactoriesFresh'
    <2> SUFFICES ASSUME NEW i \in DOMAIN Factories, Factories[i] \notin overlap'
                 PROVE  /\ cached'[Factories[i]] # <<>>
                              => Head(cached'[Factories[i]]).version >= Bound(i)'
                        /\ \A t \in Threads :
                              calls[t].stage = "made" /\ calls[t].wants = Factories[i]
                                 => calls[t].client.version >= Bound(i)'
      BY <1>1 DEF FactoriesFresh
    <2>1. CASE i = reset + 1
      BY <1>1, <1>2, <2>1 DEF IInv, Types, TypeOK
    <2>2. CASE i # reset + 1
      <3>1. Factories[i] # f /\ Factories[i] \notin overlap
        BY <1>1, <1>2, <2>2
      <3>2. Bound(i)' = Bound(i)
        BY <1>1, <1>2, <2>2 DEF Bound
      <3>3. cached'[Factories[i]] = cached[Factories[i]]
        BY <1>1, <1>2, <3>1 DEF IInv, Types, TypeOK, Factory, Range
      <3>4. QED BY <3>1, <3>2, <3>3 DEF IInv, FactoriesFresh
    <2>3. QED BY <2>1, <2>2
  <1>7. QED BY <1>3, <1>5, <1>6 DEF IInv

\* The namespaces' cache is emptied under its lock, so nobody is about to store
\* a client from before.
LEMMA ClearNamespacesIInv == ASSUME IInv, ClearNamespaces PROVE IInv'
  <1>1. /\ reset = Len(Factories) /\ lock = Nobody /\ reset' = 0 /\ since' = began
        /\ nsCache' = <<>> /\ nsGiven' = [n \in Namespaces |-> {}]
        /\ UNCHANGED <<kubeconfig, cached, lock, calls, began, overlap>>
    BY DEF ClearNamespaces
  <1>2. \A t \in Threads : calls[t].stage \notin {"load", "store"}
    BY <1>1, CachesAssumption DEF IInv, Critical
  <1>3. nsCache' \in Seq(Entry) /\ Len(nsCache') = 0 /\ DOMAIN nsCache' = {}
    BY <1>1
  <1>4. Len(Factories) \in Nat /\ DOMAIN Factories = 1..Len(Factories)
    BY CachesAssumption
  <1>5. Types'
    BY <1>1, <1>3, <1>4 DEF IInv, Types, TypeOK
  <1>6. Critical' /\ Fresh' /\ Dictionary' /\ GivenAreCached'
    BY <1>1, <1>2, <1>3, CachesAssumption
    DEF Critical, Fresh, Dictionary, GivenAreCached
  <1>7. \A i \in DOMAIN Factories : Bound(i)' = Bound(i)
    BY <1>1, <1>4 DEF Bound
  <1>8. FactoriesFresh'
    BY <1>1, <1>7 DEF IInv, FactoriesFresh
  <1>9. QED BY <1>5, <1>6, <1>8 DEF IInv

\* A newer kubeconfig makes no client older than a reset.
LEMMA RotateIInv == ASSUME IInv, Rotate PROVE IInv'
  <1>1. /\ kubeconfig' = kubeconfig + 1 /\ kubeconfig < MaxVersion
        /\ UNCHANGED <<cached, nsCache, lock, calls, reset, since, began, nsGiven, overlap>>
    BY DEF Rotate
  <1>2. Types'
    BY <1>1, CachesAssumption DEF IInv, Types, TypeOK
  <1>3. \A n : Entries(n)' = Entries(n) /\ Bound(n)' = Bound(n)
    BY <1>1 DEF Entries, Bound
  <1>4. Critical' /\ Fresh' /\ Dictionary' /\ GivenAreCached' /\ FactoriesFresh'
    BY <1>1, <1>3, GivenStands DEF IInv, Critical, Fresh, Dictionary, FactoriesFresh
  <1>5. QED BY <1>2, <1>4 DEF IInv

\* Every step of every interleaving keeps the invariant.
LEMMA NextIInv == IInv /\ [Next]_vars => IInv'
  <1> SUFFICES ASSUME IInv, [Next]_vars PROVE IInv'
    OBVIOUS
  <1>1. ASSUME NEW t \in Threads, Step(t) \/ Lookup(t) PROVE IInv'
    BY <1>1, MakeIInv, KeepIInv, LoadIInv, StoreIInv, LookupIInv DEF Step
  <1>2. ASSUME NEW t \in Threads, NEW f \in Factory, Get(t, f) PROVE IInv'
    BY <1>2, GetIInv
  <1>3. ASSUME NEW t \in Threads, NEW n \in Namespaces, Want(t, n) PROVE IInv'
    BY <1>3, WantIInv
  <1>4. CASE Clear \/ ClearNamespaces \/ Rotate
    BY <1>4, ClearIInv, ClearNamespacesIInv, RotateIInv
  <1>5. CASE UNCHANGED vars
    <2>1. \A n : Entries(n)' = Entries(n) /\ Bound(n)' = Bound(n)
      BY <1>5 DEF Entries, Bound, vars
    <2>2. QED
      BY <1>5, <2>1, GivenStands
      DEF vars, IInv, Types, TypeOK, Critical, Fresh, Dictionary, FactoriesFresh
  <1>6. QED BY <1>1, <1>2, <1>3, <1>4, <1>5 DEF Next

\* The invariant holds for any threads, factories, namespaces and cache size.
THEOREM Inductive == Spec => []IInv
  BY InitIInv, NextIInv, PTL DEF Spec

\* Type correctness of calls and caches.
THEOREM TypeCorrect == Spec => []TypeOK
  <1>1. IInv => TypeOK BY DEF IInv, Types
  <1>2. QED BY Inductive, <1>1, PTL

\* The namespace cache is one dictionary of few entries, gives one client for a
\* namespace until it is evicted, and none from before a reset.
THEOREM NamespaceCacheSound == Spec => []NsCacheSound
  <1>1. ASSUME IInv PROVE NsCacheSound
    <2>1. ASSUME NEW n \in Namespaces, NEW k \in nsGiven[n], NEW l \in nsGiven[n]
          PROVE  k = l
      <3>1. PICK d \in Entries(n), e \in Entries(n) : k = d.client /\ l = e.client
        BY <1>1, <2>1 DEF IInv, GivenAreCached
      <3>2. PICK i \in DOMAIN nsCache : d = nsCache[i] /\ d.ns = n
        BY <3>1 DEF Entries, Range
      <3>3. PICK j \in DOMAIN nsCache : e = nsCache[j] /\ e.ns = n
        BY <3>1 DEF Entries, Range
      <3>4. i = j
        BY <1>1, <3>2, <3>3 DEF IInv, Dictionary
      <3>5. QED BY <3>1, <3>2, <3>3, <3>4
    <2>2. NsOneClient
      BY <2>1 DEF NsOneClient
    <2>3. QED BY <1>1, <2>2 DEF IInv, Dictionary, Fresh, NsCacheSound, NsFreshAfterReset
  <1>2. QED BY Inductive, <1>1, PTL

\* Only a factory that ran while it was cleared can hold a client from before.
THEOREM StaleOnlyByOverlap == Spec => []StaleNeedsOverlap
  <1>1. ASSUME IInv PROVE StaleNeedsOverlap
    <2> SUFFICES ASSUME NEW f \in Factory, f \notin overlap, reset = 0, cached[f] # <<>>
                 PROVE  Head(cached[f]).version >= since
      BY DEF StaleNeedsOverlap
    <2>1. PICK i \in DOMAIN Factories : Factories[i] = f
      BY DEF Factory, Range
    <2>2. i \in Nat \ {0}
      BY <2>1, CachesAssumption
    <2>3. QED BY <1>1, <2>1, <2>2 DEF IInv, FactoriesFresh, Bound
  <1>2. QED BY Inductive, <1>1, PTL

-----------------------------------------------------------------------------
(* The function of the SDK that fine_tune replaces (HfHomePatch).  Its lock *)
(* achieves this much: a call trains under its own wrapper, and what is     *)
(* under a wrapper was there before it, so that the wrappers lie on top of  *)
(* each other without a circle down to the SDK's function.                  *)

Holder == \A c \in Calls : pc[c] \in {"patched", "trained"} => holder = c

HolderPatched == holder # NoCall => slot = holder

\* Without an overlap nobody ever found anything but the SDK's function.
FoundOriginal ==
    ~overlapped => /\ holder = NoCall => slot = Original
                   /\ \A c \in Calls : original[c] = Original

\* A call that ended released the lock.
Released == holder # NoCall => pc[holder] \in {"patched", "trained"}

\* Nobody finds the wrapper of a call that has not begun.
NotYetFound ==
    \A c \in Calls : pc[c] = "start" => slot # c /\ \A d \in Calls : original[d] # c

\* Some wrapper of any of them lies on a function that is not one of them.
Stacked == \A stack \in SUBSET Calls : stack # {} => \E c \in stack : original[c] \notin stack

PatchInv ==
    /\ PatchTypeOK /\ Holder /\ HolderPatched /\ FoundOriginal /\ Released
    /\ NotYetFound /\ Stacked /\ HomeOnce

\* The functions that a call finds make an equation for the HF_HOME entries
\* that has a solution, and Homes is one.
LEMMA HomesSolve ==
    ASSUME PatchTypeOK
    PROVE  Homes = [f \in Functions |->
                      IF f = Original THEN 0 ELSE WithHome(Homes[original[f]])]
  <1> DEFINE Solves(h) == h = [f \in Functions |->
                                 IF f = Original THEN 0 ELSE WithHome(h[original[f]])]
             once == [f \in Functions |-> IF f = Original THEN 0 ELSE 1]
  <1>1. Solves(once)
    <2>1. ASSUME NEW f \in Functions, f # Original
          PROVE  WithHome(once[original[f]]) = 1
      <3>1. original[f] \in Functions
        BY <2>1 DEF PatchTypeOK, Functions
      <3>2. QED BY <3>1 DEF WithHome
    <2>2. QED BY <2>1
  <1>2. Homes = CHOOSE h : Solves(h)
    BY DEF Homes
  <1> HIDE DEF Solves, once
  <1>3. Solves(Homes)
    BY <1>1, <1>2
  <1>4. QED BY <1>3 DEF Solves

\* Through its own wrapper every call builds one entry: of the wrappers that
\* would build another number, one lies on a function that is none of them.
LEMMA HomesOnce == ASSUME PatchTypeOK, Stacked, NEW c \in Calls PROVE Homes[c] = 1
  <1> DEFINE others == {d \in Calls : Homes[d] # 1}
  <1> SUFFICES ASSUME others # {} PROVE FALSE
    OBVIOUS
  <1>1. PICK d \in others : original[d] \notin others
    BY DEF Stacked
  <1>2. d \in Calls /\ Homes[d] # 1 /\ original[d] \in Functions /\ d # Original
    BY <1>1, NamesAssumption DEF PatchTypeOK
  <1>3. Homes[d] = WithHome(Homes[original[d]])
    BY <1>2, HomesSolve DEF Functions
  <1>4. CASE original[d] = Original
    <2>1. Homes[original[d]] = 0
      BY <1>2, <1>4, HomesSolve
    <2>2. QED BY <1>2, <1>3, <2>1 DEF WithHome
  <1>5. CASE original[d] # Original
    <2>1. Homes[original[d]] = 1
      BY <1>1, <1>2, <1>5 DEF Functions
    <2>2. QED BY <1>2, <1>3, <2>1 DEF WithHome
  <1>6. QED BY <1>4, <1>5

\* The unpatched SDK satisfies the invariant.
LEMMA InitPatchInv == PatchInit => PatchInv
  <1> SUFFICES ASSUME PatchInit PROVE PatchInv
    OBVIOUS
  <1>1. /\ PatchTypeOK /\ Holder /\ HolderPatched /\ FoundOriginal /\ Released
        /\ NotYetFound /\ HomeOnce
    BY NamesAssumption DEF PatchInit, PatchTypeOK, Holder, HolderPatched, FoundOriginal,
       Released, NotYetFound, HomeOnce, Functions
  <1>2. Stacked
    BY NamesAssumption DEF PatchInit, Stacked
  <1>3. QED BY <1>1, <1>2 DEF PatchInv

\* A call that reads the slot puts itself on top: nobody lies on it yet.
LEMMA ReadOriginalPatchInv == ASSUME PatchInv, NEW c \in Calls, ReadOriginal(c) PROVE PatchInv'
  <1>1. /\ pc[c] = "start" /\ original' = [original EXCEPT ![c] = slot]
        /\ pc' = [pc EXCEPT ![c] = "waiting"] /\ overlapped' = (overlapped \/ holder # NoCall)
        /\ UNCHANGED <<slot, holder, env>>
    BY DEF ReadOriginal
  <1>2. /\ PatchTypeOK' /\ Holder' /\ HolderPatched' /\ FoundOriginal' /\ Released'
        /\ NotYetFound' /\ HomeOnce'
    BY <1>1, NamesAssumption DEF PatchInv, PatchTypeOK, Holder, HolderPatched, FoundOriginal,
       Released, NotYetFound, HomeOnce, Functions
  <1>3. Stacked'
    <2> SUFFICES ASSUME NEW stack \in SUBSET Calls, stack # {}
                 PROVE  \E d \in stack : original'[d] \notin stack
      BY DEF Stacked
    <2>1. /\ slot # c /\ \A d \in Calls : original[d] # c
          /\ original'[c] = slot /\ \A d \in Calls \ {c} : original'[d] = original[d]
      BY <1>1 DEF PatchInv, PatchTypeOK, NotYetFound
    <2>2. CASE stack = {c}
      BY <2>1, <2>2
    <2>3. CASE stack # {c}
      <3>1. stack \ {c} \in SUBSET Calls /\ stack \ {c} # {}
        BY <2>3
      <3>2. PICK d \in stack \ {c} : original[d] \notin stack \ {c}
        BY <3>1 DEF PatchInv, Stacked
      <3>3. QED BY <2>1, <3>2
    <2>4. QED BY <2>2, <2>3
  <1>4. QED BY <1>2, <1>3 DEF PatchInv

\* Its wrapper goes into the slot when nobody else's is there.
LEMMA PatchPatchInv == ASSUME PatchInv, NEW c \in Calls, Patch(c) PROVE PatchInv'
  BY NamesAssumption DEF Patch, PatchInv, PatchTypeOK, Holder, HolderPatched, FoundOriginal,
     Released, NotYetFound, Stacked, HomeOnce, Functions

\* It trains through its own wrapper, so that the job has one entry.
LEMMA TrainPatchInv == ASSUME PatchInv, NEW c \in Calls, Train(c) PROVE PatchInv'
  <1>1. /\ UNCHANGED <<slot, holder, original, overlapped>>
        /\ pc[c] = "patched" /\ pc' = [pc EXCEPT ![c] = "trained"]
        /\ env' \in {env, [env EXCEPT ![c] = Homes[slot]]}
    BY DEF Train
  <1>2. slot = c
    BY <1>1, NamesAssumption DEF PatchInv, Holder, HolderPatched
  <1>3. Homes[slot] = 1
    BY <1>2, HomesOnce DEF PatchInv
  <1>4. HomeOnce' /\ env' \in [Calls -> {NotBuilt, 0, 1}]
    BY <1>1, <1>3 DEF PatchInv, PatchTypeOK, HomeOnce
  <1>5. /\ PatchTypeOK' /\ Holder' /\ HolderPatched' /\ FoundOriginal' /\ Released'
        /\ NotYetFound'
    BY <1>1, <1>4, NamesAssumption DEF PatchInv, PatchTypeOK, Holder, HolderPatched,
       FoundOriginal, Released, NotYetFound
  <1>6. QED BY <1>1, <1>4, <1>5 DEF PatchInv, Stacked

\* What it found goes back: the wrapper of a call that has begun, or the SDK's.
LEMMA RestorePatchInv == ASSUME PatchInv, NEW c \in Calls, Restore(c) PROVE PatchInv'
  BY NamesAssumption DEF Restore, PatchInv, PatchTypeOK, Holder, HolderPatched, FoundOriginal,
     Released, NotYetFound, Stacked, HomeOnce, Functions

\* Every step of _inject_trainer_hf_home keeps the invariant.
LEMMA NextPatchInv == PatchInv /\ [PatchNext]_patchVars => PatchInv'
  <1> SUFFICES ASSUME PatchInv, [PatchNext]_patchVars PROVE PatchInv'
    OBVIOUS
  <1>1. CASE PatchNext
    BY <1>1, ReadOriginalPatchInv, PatchPatchInv, TrainPatchInv, RestorePatchInv
       DEF PatchNext, PatchStep
  <1>2. CASE UNCHANGED patchVars
    BY <1>2 DEF patchVars, PatchInv, PatchTypeOK, Holder, HolderPatched, FoundOriginal,
       Released, NotYetFound, Stacked, HomeOnce
  <1>3. QED BY <1>1, <1>2

\* The invariant holds for any number of fine_tune calls.
THEOREM PatchInductive == PatchSpec => []PatchInv
  BY InitPatchInv, NextPatchInv, PTL DEF PatchSpec

\* Every state of the patch and its callers is well typed, for any set of calls.
THEOREM PatchTypeCorrect == PatchSpec => []PatchTypeOK
  <1>1. PatchInv => PatchTypeOK
    BY DEF PatchInv
  <1>2. QED BY PatchInductive, <1>1, PTL

\* However wrappers of interrupted or overlapping calls pile up in the slot,
\* every trainer is built with one HF_HOME entry (training.py:108-134).
THEOREM HomesAreAddedOnce == PatchSpec => []HomeOnce
  <1>1. PatchInv => HomeOnce
    BY DEF PatchInv
  <1>2. QED BY PatchInductive, <1>1, PTL

\* A call trains under its own wrapper, whatever the other calls do.
THEOREM OwnWrapperHolds == PatchSpec => []OwnWrapper
  <1>1. PatchInv => OwnWrapper
    BY NamesAssumption DEF PatchInv, Holder, HolderPatched, OwnWrapper
  <1>2. QED BY PatchInductive, <1>1, PTL

\* Only an overlap of a read with another call's patch leaves a wrapper behind.
THEOREM LeakNeedsOverlap == PatchSpec => []RestoredUnlessOverlap
  <1>1. ASSUME PatchInv PROVE RestoredUnlessOverlap
    <2> SUFFICES ASSUME Quiescent, ~overlapped PROVE slot = Original
      BY DEF RestoredUnlessOverlap
    <2>1. holder = NoCall
      BY <1>1 DEF PatchInv, PatchTypeOK, Released, Quiescent
    <2>2. QED BY <1>1, <2>1 DEF PatchInv, FoundOriginal
  <1>2. QED BY PatchInductive, <1>1, PTL
=============================================================================
