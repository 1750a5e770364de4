---------------------------- MODULE ClientCaches ----------------------------
(***************************************************************************)
(* The client caches of common/utils.py: the factories _get_api_client and *)
(* get_trainer_client, each behind lru_cache(maxsize=1), and the TrainJob  *)
(* clients per namespace, in a dictionary behind _ns_client_lock.          *)
(*                                                                         *)
(* lru_cache runs the factory without holding anything: a caller that      *)
(* misses loads the kubeconfig, makes a client and stores it only if       *)
(* nobody stored one meanwhile, but returns its own in any case.  The      *)
(* namespace cache does the same work under its lock.                      *)
(*                                                                         *)
(* A client is known by the thread that made it and the kubeconfig it was  *)
(* made from.                                                              *)
(***************************************************************************)
EXTENDS Integers, Sequences, Functions

CONSTANTS Threads,     \* worker threads
          Factories,   \* the functions behind lru_cache, in reset order
          Namespaces,  \* namespaces that calls name
          CacheMax,    \* _NS_CLIENT_CACHE_MAX
          Nobody,      \* no thread
          MaxVersion   \* bound: how often the kubeconfig changes

ASSUME CachesAssumption ==
          /\ Factories \in Seq(STRING) /\ IsInjective(Factories)
          /\ CacheMax \in Nat \ {0}
          /\ Nobody \notin Threads
          /\ MaxVersion \in Nat

VARIABLES kubeconfig, \* the version on disk
          cached,     \* per factory: a sequence of at most one client
          nsCache,    \* _ns_client_cache: [ns, client] records, oldest first
          lock,       \* holder of _ns_client_lock
          calls,      \* per thread: what it wants and how far it is
          reset       \* reset_clients: steps done; 0 when it is not running

\* Observers.
VARIABLES since,      \* the kubeconfig when the last finished reset began
          began,      \* the same for the reset under way
          nsGiven,    \* per namespace: clients returned since it was last dropped
          overlap     \* factories that were building when they were cleared

vars == <<kubeconfig, cached, nsCache, lock, calls, reset, since, began, nsGiven, overlap>>

Factory == Range(Factories)
Clients == [by : Threads, version : 0..MaxVersion]
Idle == [stage |-> "idle"]

TypeOK ==
    /\ kubeconfig \in 0..MaxVersion
    /\ cached \in [Factory -> {<<>>} \cup {<<k>> : k \in Clients}]
    /\ \A i \in DOMAIN nsCache : nsCache[i] \in [ns : Namespaces, client : Clients]
    /\ lock \in Threads \cup {Nobody}
    /\ calls \in [Threads -> {Idle} \cup [stage : {"miss"}, wants : Factory]
                                \cup [stage : {"made"}, wants : Factory, client : Clients]
                                \cup [stage : {"wait", "load"}, wants : Namespaces]
                                \cup [stage : {"store"}, wants : Namespaces, client : Clients]]
    /\ reset \in 0..(Len(Factories) + 1)
    /\ since \in 0..MaxVersion /\ began \in 0..MaxVersion
    /\ nsGiven \in [Namespaces -> SUBSET Clients]
    /\ overlap \subseteq Factory

Init ==
    /\ kubeconfig = 0
    /\ cached = [f \in Factory |-> <<>>]
    /\ nsCache = <<>>
    /\ lock = Nobody
    /\ calls = [t \in Threads |-> Idle]
    /\ reset = 0
    /\ since = 0 /\ began = 0
    /\ nsGiven = [n \in Namespaces |-> {}]
    /\ overlap = {}

-----------------------------------------------------------------------------
\* The call of thread t becomes call.
Set(t, call) == calls' = [calls EXCEPT ![t] = call]

Made(t) == [by |-> t, version |-> kubeconfig]

\* A call of a cached factory: a hit returns what is stored.
Get(t, f) ==
    /\ calls[t] = Idle
    /\ IF cached[f] # <<>> THEN UNCHANGED calls ELSE Set(t, [stage |-> "miss", wants |-> f])
    /\ UNCHANGED <<kubeconfig, cached, nsCache, lock, reset, since, began, nsGiven, overlap>>

\* The factory loads the kubeconfig, or raises: then nothing is stored.
Make(t) ==
    /\ calls[t].stage = "miss"
    /\ \/ Set(t, [stage |-> "made", wants |-> calls[t].wants, client |-> Made(t)])
       \/ Set(t, Idle)
    /\ UNCHANGED <<kubeconfig, cached, nsCache, lock, reset, since, began, nsGiven, overlap>>

\* What a factory's cache holds after a client was made.
Stored(contents, client) == IF contents = <<>> THEN <<client>> ELSE contents

\* The result is stored unless one is stored already, and returned.
Keep(t) ==
    /\ calls[t].stage = "made"
    /\ cached' = [cached EXCEPT ![calls[t].wants] = Stored(@, calls[t].client)]
    /\ Set(t, Idle)
    /\ UNCHANGED <<kubeconfig, nsCache, lock, reset, since, began, nsGiven, overlap>>

-----------------------------------------------------------------------------
\* get_trainer_client_for_namespace(n) waits for the lock ...
Want(t, n) ==
    /\ calls[t] = Idle
    /\ Set(t, [stage |-> "wait", wants |-> n])
    /\ UNCHANGED <<kubeconfig, cached, nsCache, lock, reset, since, began, nsGiven, overlap>>

\* The entries of the dictionary for n.
Entries(n) == {entry \in Range(nsCache) : entry.ns = n}

Give(n, client) == nsGiven' = [nsGiven EXCEPT ![n] = @ \cup {client}]

\* Mutation of Held: the client is made after the lock was released.
HeldBriefly(t) == Nobody

\* Who holds the lock while thread t makes a client.
Held(t) == t

\* ... and returns what is there ...
Lookup(t) ==
    /\ calls[t].stage = "wait"
    /\ lock = Nobody
    /\ LET n == calls[t].wants IN
          IF Entries(n) # {}
          THEN /\ \E entry \in Entries(n) : Give(n, entry.client)
               /\ Set(t, Idle)
               /\ UNCHANGED lock
          ELSE /\ Set(t, [stage |-> "load", wants |-> n])
               /\ lock' = Held(t)
               /\ UNCHANGED nsGiven
    /\ UNCHANGED <<kubeconfig, cached, nsCache, reset, since, began, overlap>>

\* Mutation of AfterError: the lock is kept when the constructor raises.
AfterErrorHeld(t) == t

\* The holder after the constructor raised inside the with statement.
AfterError(t) == Nobody

\* ... or makes a client, which may raise ...
Load(t) ==
    /\ calls[t].stage = "load"
    /\ \/ /\ Set(t, [stage |-> "store", wants |-> calls[t].wants, client |-> Made(t)])
          /\ UNCHANGED lock
       \/ Set(t, Idle) /\ lock' = AfterError(t)
    /\ UNCHANGED <<kubeconfig, cached, nsCache, reset, since, began, nsGiven, overlap>>

\* What stays when an entry is to be added.
Kept(cache) == IF Len(cache) >= CacheMax THEN Tail(cache) ELSE cache

\* The namespace whose entry is dropped then.
Evicted == IF Len(nsCache) >= CacheMax THEN {Head(nsCache).ns} ELSE {}

\* ... and stores it, dropping the oldest entry of a full cache.
Store(t) ==
    /\ calls[t].stage = "store"
    /\ LET n == calls[t].wants
           client == calls[t].client
       IN  /\ nsCache' = Append(Kept(nsCache), [ns |-> n, client |-> client])
           /\ nsGiven' = [m \in Namespaces |->
                            IF m = n THEN nsGiven[n] \cup {client}
                            ELSE IF m \in Evicted THEN {} ELSE nsGiven[m]]
    /\ Set(t, Idle)
    /\ lock' = Nobody
    /\ UNCHANGED <<kubeconfig, cached, reset, since, began, overlap>>

-----------------------------------------------------------------------------
\* Mutation of Cleared: the factory is forgotten.
ClearedNot(contents) == contents

\* cache_clear()
Cleared(contents) == <<>>

\* reset_clients: cache_clear() of each factory in turn ...
Clear ==
    /\ reset < Len(Factories)
    /\ LET f == Factories[reset + 1] IN
          /\ cached' = [cached EXCEPT ![f] = Cleared(@)]
          /\ overlap' = IF \E t \in Threads : calls[t].stage \in {"miss", "made"} /\ calls[t].wants = f
                        THEN overlap \cup {f} ELSE overlap \ {f}
    /\ began' = IF reset = 0 THEN kubeconfig ELSE began
    /\ reset' = reset + 1
    /\ UNCHANGED <<kubeconfig, nsCache, lock, calls, since, nsGiven>>

\* ... then the namespace cache, under its lock.
ClearNamespaces ==
    /\ reset = Len(Factories)
    /\ lock = Nobody
    /\ nsCache' = <<>>
    /\ nsGiven' = [n \in Namespaces |-> {}]
    /\ since' = began
    /\ reset' = 0
    /\ UNCHANGED <<kubeconfig, cached, lock, calls, began, overlap>>

\* The kubeconfig is changed (rotated credentials, another cluster).
Rotate ==
    /\ kubeconfig < MaxVersion
    /\ kubeconfig' = kubeconfig + 1
    /\ UNCHANGED <<cached, nsCache, lock, calls, reset, since, began, nsGiven, overlap>>

Step(t) == Make(t) \/ Keep(t) \/ Load(t) \/ Store(t)

Next ==
    \/ \E t \in Threads : Step(t) \/ Lookup(t)
    \/ \E t \in Threads, f \in Factory : Get(t, f)
    \/ \E t \in Threads, n \in Namespaces : Want(t, n)
    \/ Clear \/ ClearNamespaces \/ Rotate

Spec == Init /\ [][Next]_vars

\* Clients are made in finite time, and who waits for the lock gets it at last,
\* though others take it again and again.
FairSpec == Spec /\ \A t \in Threads : WF_vars(Step(t)) /\ SF_vars(Lookup(t))

-----------------------------------------------------------------------------
\* Callers that name the same namespace get the same client until it is evicted
\* or the caches are reset.
NsOneClient == \A n \in Namespaces, k, l \in Clients : {k, l} \subseteq nsGiven[n] => k = l

\* After a reset the namespace cache holds no client made from a kubeconfig
\* older than the one the reset was meant for, even if one was being made.
NsFreshAfterReset ==
    reset = 0 => \A i \in DOMAIN nsCache : nsCache[i].client.version >= since

\* The namespace cache stays within its limit, has one client for each namespace
\* and none from before a reset, however lookups, constructions, evictions and
\* resets interleave (common/utils.py:119-138, 176-181).
NsCacheSound ==
    /\ Len(nsCache) <= CacheMax
    /\ \A i, j \in DOMAIN nsCache : nsCache[i].ns = nsCache[j].ns => i = j
    /\ NsOneClient
    /\ NsFreshAfterReset

\* A cached factory holds such an old client only if the factory was running
\* when it was cleared.
StaleNeedsOverlap ==
    \A f \in Factory \ overlap :
       reset = 0 /\ cached[f] # <<>> => Head(cached[f]).version >= since

\* Whoever asks for a client of a namespace is answered.
Answered == \A t \in Threads : calls[t].stage = "wait" ~> calls[t].stage = "idle"
=============================================================================
