------------------------ MODULE ServerStartup_proofs ------------------------
(***************************************************************************)
(* When the policy is loaded and what requests are judged by, for any      *)
(* policies, personas, clients and edits: nothing is read before the       *)
(* server serves, and then a tool that asks is admitted by the policy that *)
(* the tools were filtered with, and one that does not is among the tools. *)
(*                                                                         *)
(* That a server that calls itself ready is complete: as long as the flags *)
(* stand, every client is loaded or still to be imported, and every        *)
(* resource registered or still to be.                                     *)
(*                                                                         *)
(* That a server offers what the policy promises: the walk up the chain    *)
(* has seen personas of the chain only and, where it ends, all of them,    *)
(* however long the chain is.  With what requests are judged by: that      *)
(* tools and namespaces come from one version of the policy file.          *)
(***************************************************************************)
EXTENDS ServerStartup, SequenceTheorems, TLAPS

\* A stage in which the policy has been loaded.
PolicyLoaded == stage \in {"sections", "tools", "filter", "resources", "serving"}

AtMostOnePath == {{}} \cup {{q} : q \in 1..PathCount}

\* Tools that ask were admitted by the policy in force, and of those that do not
\* one is offered.
Judged ==
    stage = "serving" =>
      /\ \A list \in InForce.namespaces : admitted \subseteq list
      /\ unasked # {} => offered \cap SilentTools # {}

Inv ==
    /\ found \in AtMostOnePath
    /\ PolicyLoaded => \E c \in Contents \cup {NoPolicy} : cached = {c}
    /\ stage # "serving" => admitted = {} /\ unasked = {}
    /\ Judged

\* What a file yields is one policy.
LEMMA OneLoaded ==
  ASSUME NEW p \in AtMostOnePath
  PROVE  \E c \in Contents \cup {NoPolicy} : Loaded(p) = {c}
<1>1. CASE Held(p) \cap Contents # {}
  <2>1. PICK q \in 1..PathCount : p = {q}
    BY <1>1 DEF Held, AtMostOnePath
  <2>2. Held(p) = {files[q]}
    BY <2>1 DEF Held
  <2> QED
    BY <1>1, <2>2 DEF Loaded
<1>2. CASE Held(p) \cap Contents = {}
  BY <1>2 DEF Loaded
<1> QED
  BY <1>1, <1>2

\* Two paths cannot both be the first that exists.
LEMMA OneFirst == FirstFile \in AtMostOnePath
<1>1. ASSUME NEW p \in FirstFile, NEW q \in FirstFile
      PROVE  p = q
  <2>1. p \in Int /\ q \in Int /\ 1 <= p /\ 1 <= q
    BY StartupAssumption DEF FirstFile
  <2>2. ~(p < q)
    <3>1. p < q => p \in 1..(q - 1)
      BY <2>1
    <3> QED
      BY <3>1 DEF FirstFile
  <2>3. ~(q < p)
    <3>1. q < p => q \in 1..(p - 1)
      BY <2>1
    <3> QED
      BY <3>1 DEF FirstFile
  <2> QED
    BY <2>1, <2>2, <2>3
<1>2. CASE FirstFile = {}
  BY <1>2 DEF AtMostOnePath
<1>3. CASE FirstFile # {}
  <2>1. PICK p : p \in FirstFile
    BY <1>3
  <2>2. FirstFile = {p}
    BY <1>1, <2>1
  <2>3. p \in 1..PathCount
    BY <2>1 DEF FirstFile
  <2> QED
    BY <2>2, <2>3 DEF AtMostOnePath
<1> QED
  BY <1>2, <1>3

LEMMA InitInv == Init => Inv
  BY DEF Init, Inv, PolicyLoaded, AtMostOnePath, Judged

\* A request is judged by the policy in force, or is one of a tool that does not
\* ask.
LEMMA RequestInv ==
  ASSUME Inv, Request
  PROVE  Judged'
<1>1. PICK c \in Contents \cup {NoPolicy} : cached = {c}
  BY DEF Inv, Request, PolicyLoaded
<1>2. Policy = c /\ InForce = c /\ InForce' = c /\ offered' = offered
  BY <1>1 DEF Policy, InForce, Request, lookup
<1>3. /\ \A list \in c.namespaces : admitted \subseteq list
      /\ unasked # {} => offered \cap SilentTools # {}
  BY <1>2 DEF Inv, Judged, Request
<1>4. ASSUME NEW ns \in Namespaces, NEW resolved \in BOOLEAN, Permits(ns, resolved),
             admitted' = admitted \cup {ns}, unasked' = unasked
      PROVE  Judged'
  <2>1. ASSUME NEW list \in c.namespaces
        PROVE  admitted' \subseteq list
    <3>1. c \in Contents
      BY <2>1 DEF NoPolicy
    <3>2. \E l \in c.namespaces : ns \in l
      BY <1>2, <1>4, <2>1 DEF Permits, AllowedNamespaces
    <3>3. ns \in list
      BY <2>1, <3>1, <3>2, StartupAssumption
    <3> QED
      BY <1>3, <1>4, <2>1, <3>3
  <2> QED
    BY <1>2, <1>3, <1>4, <2>1 DEF Judged
<1>5. ASSUME offered \cap SilentTools # {}, admitted' = admitted
      PROVE  Judged'
  BY <1>2, <1>3, <1>5 DEF Judged
<1> QED
  BY <1>4, <1>5 DEF Request

\* Every step keeps the invariant.
THEOREM Inductive == Inv /\ [Next]_vars => Inv'
<1> SUFFICES ASSUME Inv, [Next]_vars
             PROVE  Inv'
  OBVIOUS
<1> USE DEF args, imported, lookup, results, requests
<1>1. CASE ImportClient
  BY <1>1 DEF ImportClient, Inv, PolicyLoaded, Judged
<1>2. CASE ImportsDone
  BY <1>2 DEF ImportsDone, Inv, PolicyLoaded, Judged
<1>3. CASE FindPolicyFile
  BY <1>3, OneFirst DEF FindPolicyFile, Inv, PolicyLoaded, Judged
<1>4. CASE OpenPolicyFile
  <2>1. \E c \in Contents \cup {NoPolicy} : cached' = {c}
    BY <1>4, OneLoaded DEF OpenPolicyFile, Inv
  <2> QED
    BY <1>4, <2>1 DEF OpenPolicyFile, Inv, PolicyLoaded, Judged
<1>5. CASE OpenScalarFile
  BY <1>5 DEF OpenScalarFile, Inv, PolicyLoaded, Judged
<1>6. CASE Climb
  BY <1>6 DEF Climb, Walking, Inv, PolicyLoaded, Judged
<1>7. CASE Top
  BY <1>7 DEF Top, Walking, Inv, PolicyLoaded, Judged
<1>8. CASE Refuse
  BY <1>8 DEF Refuse, Walking, Inv, PolicyLoaded, Judged
<1>9. CASE Filter
  BY <1>9 DEF Filter, Inv, PolicyLoaded, Judged
<1>10. CASE RegisterResource
  <2>1. PICK r \in pending :
           stage' = stage \/ stage' = "failed"
    BY <1>10 DEF RegisterResource
  <2> QED
    BY <1>10, <2>1 DEF RegisterResource, Inv, PolicyLoaded, Judged
<1>11. CASE Serve
  BY <1>11 DEF Serve, Inv, PolicyLoaded, Judged
<1>12. CASE Request
  BY <1>12, RequestInv DEF Request, Inv, PolicyLoaded
<1>13. CASE Edit
  BY <1>13 DEF Edit, Inv, PolicyLoaded, Judged, InForce
<1>14. CASE Restart
  BY <1>14 DEF Restart, Inv, PolicyLoaded, Judged, AtMostOnePath
<1>15. CASE UNCHANGED vars
  BY <1>15 DEF vars, Inv, PolicyLoaded, Judged, InForce
<1> QED
  BY <1>1, <1>2, <1>3, <1>4, <1>5, <1>6, <1>7, <1>8, <1>9, <1>10, <1>11,
     <1>12, <1>13, <1>14, <1>15 DEF Next, Startup

-----------------------------------------------------------------------------
\* A client that is loaded or still to be imported.
Accounted(c) == c \in loaded \/ \E j \in DOMAIN imports : imports[j] = c

\* What the two flags of readiness stand for at each stage.
Flags ==
    /\ clients \in Seq(STRING) /\ imports \in Seq(STRING) /\ clients_ready \in BOOLEAN
    /\ clients_ready => \A i \in DOMAIN clients : Accounted(clients[i])
    /\ stage # "import" => imports = <<>>
    /\ stage \in {"import", "find", "open", "sections", "tools", "filter"} => registered = {}
    /\ stage \in {"resources", "serving"} /\ complete => registered \cup pending = Resources
    /\ stage = "serving" => pending = {}

LEMMA InitFlags == Init => Flags
  BY StartupAssumption DEF Init, Flags, Accounted

\* A client that leaves the list was loaded, or the clients are not ready.
LEMMA ImportFlags ==
  ASSUME Flags, ImportClient
  PROVE  Flags'
<1>1. PICK ok \in BOOLEAN : Import(Head(imports), ok)
  BY DEF ImportClient
<1>2. /\ imports \in Seq(STRING) /\ imports # <<>> /\ imports' = Tail(imports)
      /\ clients \in Seq(STRING) /\ clients' = clients /\ stage = "import" /\ stage' = "import"
      /\ registered = {} /\ registered' = {}
  BY DEF Flags, ImportClient, args, results
<1>3. imports' \in Seq(STRING)
  BY <1>2
<1>4. (clients_ready' <=> clients_ready /\ ok) /\ clients_ready' \in BOOLEAN
  BY <1>1 DEF Import, Flags
<1>5. ASSUME clients_ready', NEW i \in DOMAIN clients
      PROVE  Accounted(clients[i])'
  <2>1. loaded' = loaded \cup {Head(imports)}
    BY <1>1, <1>4, <1>5 DEF Import
  <2>2. Accounted(clients[i])
    BY <1>4, <1>5 DEF Flags
  <2>3. CASE clients[i] \in loaded
    BY <1>2, <2>1, <2>3 DEF Accounted
  <2>4. ASSUME NEW j \in DOMAIN imports, imports[j] = clients[i]
        PROVE  Accounted(clients[i])'
    <3>1. CASE j = 1
      BY <1>2, <2>1, <2>4, <3>1 DEF Accounted
    <3>2. CASE j # 1
      <4>1. j - 1 \in DOMAIN Tail(imports) /\ Tail(imports)[j - 1] = imports[j]
        BY <1>2, <2>4, <3>2
      <4> QED
        BY <1>2, <2>4, <4>1 DEF Accounted
    <3> QED
      BY <3>1, <3>2
  <2> QED
    BY <2>2, <2>3, <2>4 DEF Accounted
<1> QED
  BY <1>2, <1>3, <1>4, <1>5 DEF Flags

\* Every step keeps the flags honest.
LEMMA NextFlags == Flags /\ [Next]_vars => Flags'
<1> SUFFICES ASSUME Flags, [Next]_vars
             PROVE  Flags'
  OBVIOUS
<1> USE DEF args, imported, lookup, results, requests, Flags, Accounted, Resources
<1>1. CASE ImportClient
  BY <1>1, ImportFlags
<1>2. CASE ImportsDone
  BY <1>2 DEF ImportsDone
<1>3. CASE FindPolicyFile
  BY <1>3 DEF FindPolicyFile
<1>4. CASE OpenPolicyFile
  BY <1>4 DEF OpenPolicyFile
<1>5. CASE OpenScalarFile
  BY <1>5 DEF OpenScalarFile
<1>6. CASE Climb
  BY <1>6 DEF Climb
<1>7. CASE Top
  BY <1>7 DEF Top, Walking
<1>8. CASE Refuse
  BY <1>8 DEF Refuse, Walking
<1>9. CASE Filter
  BY <1>9 DEF Filter
<1>10. CASE RegisterResource
  BY <1>10 DEF RegisterResource
<1>11. CASE Serve
  BY <1>11 DEF Serve
<1>12. CASE Request
  BY <1>12 DEF Request
<1>13. CASE Edit
  BY <1>13 DEF Edit
<1>14. CASE Restart
  <2>1. clients' \in Seq(STRING)
    BY <1>14, StartupAssumption DEF Restart
  <2> QED
    BY <1>14, <2>1 DEF Restart
<1>15. CASE UNCHANGED vars
  BY <1>15 DEF vars
<1> QED
  BY <1>1, <1>2, <1>3, <1>4, <1>5, <1>6, <1>7, <1>8, <1>9, <1>10, <1>11,
     <1>12, <1>13, <1>14, <1>15 DEF Next, Startup

\* A server that answers that it is ready has every client and every resource,
\* for any clients, modules and failures.
THEOREM ReadyMeansComplete == Spec => []ReadyIsComplete
<1>1. Flags => ReadyIsComplete
  BY DEF Flags, Accounted, ReadyIsComplete, Ready
<1> QED
  BY <1>1, InitFlags, NextFlags, PTL DEF Spec

-----------------------------------------------------------------------------
\* A walk up the chain: every persona behind it is defined, has no parent but
\* those visited or the one ahead, and is on the chain, and so is that one.
Underway ==
    /\ walk = [at |-> walk.at, seen |-> walk.seen, tools |-> walk.tools, all |-> walk.all]
    /\ walk.seen \subseteq Names /\ walk.at \in Names
    /\ walk.seen = {} => walk.at = persona
    /\ walk.seen # {} => persona \in walk.seen
    /\ \A p \in walk.seen : /\ Defined(p) /\ ~ConfigInForce(p).star
                            /\ ParentsOf(p) \subseteq walk.seen \cup {walk.at}
    /\ \A s \in SUBSET Names : Closed(s) => walk.seen \cup {walk.at} \subseteq s
    /\ walk.tools = UNION {ConfigInForce(p).tools : p \in walk.seen}
    /\ ~walk.all

\* What the walk found out when it reached the top.
Arrived ==
    /\ Resolvable
    /\ walk.all => Granted = LoadedTools
    /\ ~walk.all => walk.tools = Granted

Lookup ==
    /\ persona \in Personas
    /\ stage \in {"import", "find", "open"} => walk = NewWalk(persona)
    /\ stage \in {"sections", "tools"} => Underway
    /\ stage = "filter" => Arrived
    /\ stage \in {"resources", "serving"} => Resolvable /\ offered = Promised

\* A persona has one parent at most.
LEMMA OneParent ==
  ASSUME NEW c \in Contents \cup {NoPolicy}, cached = {c}, NEW p, Defined(p),
         NEW q \in ConfigInForce(p).inherit, NEW r \in ConfigInForce(p).inherit
  PROVE  q = r
<1>1. InForce = c
  BY DEF InForce
<1>2. CASE p \in DOMAIN c.personas
  <2>1. c \in Contents
    BY <1>2 DEF NoPolicy
  <2> QED
    BY <1>1, <1>2, <2>1, StartupAssumption DEF ConfigInForce
<1>3. CASE p \notin DOMAIN c.personas
  BY <1>1, <1>3, StartupAssumption DEF ConfigInForce, Defined
<1> QED
  BY <1>2, <1>3

\* Parents are names.
LEMMA ParentIsName ==
  ASSUME NEW p, Defined(p)
  PROVE  ConfigInForce(p).inherit \subseteq Names
  BY DEF Defined, Names

\* A walk begins at the persona.
LEMMA NewUnderway == persona \in Personas /\ walk = NewWalk(persona) => Underway
<1> SUFFICES ASSUME persona \in Personas, walk = NewWalk(persona)
             PROVE  Underway
  OBVIOUS
<1>1. /\ walk.at = persona /\ walk.seen = {} /\ walk.tools = {} /\ ~walk.all
      /\ walk = [at |-> walk.at, seen |-> walk.seen, tools |-> walk.tools, all |-> walk.all]
  BY DEF NewWalk
<1>2. walk.at \in Names
  BY <1>1 DEF Names
<1>3. UNION {ConfigInForce(p).tools : p \in walk.seen} = {}
  BY <1>1
<1> QED
  BY <1>1, <1>2, <1>3 DEF Underway, Closed

\* And so does one that the next state begins.
LEMMA NewUnderwayNext == (persona \in Personas /\ walk = NewWalk(persona) => Underway)'
  BY NewUnderway, PTL

\* While the policy and the persona stand, so does what is read off them.
LEMMA PolicyStands ==
  ASSUME NEW c, cached = {c}, cached' = cached, persona' = persona
  PROVE  /\ \A p : ConfigInForce(p)' = ConfigInForce(p)
         /\ \A p : Defined(p)' <=> Defined(p)
         /\ \A p : ParentsOf(p)' = ParentsOf(p)
         /\ InForce' = InForce /\ Names' = Names
         /\ \A s : Closed(s)' <=> Closed(s)
         /\ Chain' = Chain
         /\ Resolvable' <=> Resolvable
<1>1. InForce' = InForce
  BY DEF InForce
<1>2. \A p : ConfigInForce(p)' = ConfigInForce(p)
  BY <1>1 DEF ConfigInForce
<1>3. \A p : Defined(p)' <=> Defined(p)
  BY <1>1 DEF Defined
<1>4. \A p : ParentsOf(p)' = ParentsOf(p)
  BY <1>2, <1>3 DEF ParentsOf
<1>5. Names' = Names
  BY <1>1, <1>2 DEF Names
<1>6. \A s : Closed(s)' <=> Closed(s)
  BY <1>4 DEF Closed
<1>7. Chain' = Chain
  BY <1>5, <1>6 DEF Chain
<1>8. Resolvable' <=> Resolvable
  BY <1>3, <1>4, <1>7 DEF Resolvable
<1> QED
  BY <1>1, <1>2, <1>3, <1>4, <1>5, <1>6, <1>7, <1>8

\* And what is promised, once the clients are loaded.
LEMMA PromiseStands ==
  ASSUME NEW c, cached = {c}, cached' = cached, persona' = persona, loaded' = loaded
  PROVE  /\ LoadedTools' = LoadedTools /\ Granted' = Granted /\ Promised' = Promised
         /\ Resolvable' <=> Resolvable
<1>1. LoadedTools' = LoadedTools /\ ReadTools' = ReadTools
  BY DEF LoadedTools, ReadTools
<1>2. /\ \A p : ConfigInForce(p)' = ConfigInForce(p)
      /\ InForce' = InForce /\ Chain' = Chain
      /\ Resolvable' <=> Resolvable
  BY PolicyStands
<1>3. Granted' = Granted
  BY <1>1, <1>2 DEF Granted
<1> QED
  BY <1>1, <1>2, <1>3 DEF Promised

\* The policy that get_allowed_tools reads is the one in force.
LEMMA SamePolicy ==
  /\ Policy = InForce
  /\ \A p : Config(p) = ConfigInForce(p)
  /\ \A p : Exists(p) <=> Defined(p)
  BY DEF Policy, InForce, Config, ConfigInForce, Exists, Defined

\* One level up.
LEMMA ClimbUnderway ==
  ASSUME NEW c \in Contents \cup {NoPolicy}, cached = {c}, Underway, Climb
  PROVE  Underway'
<1> DEFINE at == walk.at
<1>1. /\ at \notin walk.seen /\ Defined(at) /\ ~ConfigInForce(at).star
      /\ cached' = cached /\ persona' = persona
  BY SamePolicy DEF Climb, Cyclic, lookup, args
<1>2. PICK parent \in ConfigInForce(at).inherit :
        walk' = [Visit(at) EXCEPT !.at = parent]
  BY SamePolicy DEF Climb
<1>3. /\ walk'.at = parent /\ walk'.seen = walk.seen \cup {at}
      /\ walk'.tools = walk.tools \cup ConfigInForce(at).tools
      /\ ~walk'.all
      /\ walk' = [at |-> walk'.at, seen |-> walk'.seen, tools |-> walk'.tools, all |-> walk'.all]
  BY <1>1, <1>2, SamePolicy DEF Visit, Underway
<1>4. /\ \A p : ConfigInForce(p)' = ConfigInForce(p)
      /\ \A p : Defined(p)' <=> Defined(p)
      /\ \A p : ParentsOf(p)' = ParentsOf(p)
      /\ Names' = Names
      /\ \A s : Closed(s)' <=> Closed(s)
  BY <1>1, PolicyStands
<1>5. ParentsOf(at) = {parent}
  <2>1. ParentsOf(at) = ConfigInForce(at).inherit
    BY <1>1 DEF ParentsOf
  <2> QED
    BY <1>1, <1>2, <2>1, OneParent
<1>6. at \in Names /\ parent \in Names
  BY <1>1, <1>2, ParentIsName DEF Underway
<1>7. persona \in walk'.seen
  BY <1>3 DEF Underway
<1>8. \A p \in walk'.seen : /\ Defined(p) /\ ~ConfigInForce(p).star
                            /\ ParentsOf(p) \subseteq walk'.seen \cup {parent}
  BY <1>1, <1>3, <1>5 DEF Underway
<1>9. ASSUME NEW s \in SUBSET Names, Closed(s)
      PROVE  walk'.seen \cup {parent} \subseteq s
  <2>1. walk.seen \cup {at} \subseteq s
    BY <1>9 DEF Underway
  <2>2. parent \in s
    BY <1>5, <1>9, <2>1 DEF Closed
  <2> QED
    BY <1>3, <2>1, <2>2
<1>10. walk'.tools = UNION {ConfigInForce(p).tools : p \in walk'.seen}
  BY <1>3 DEF Underway
<1>11. walk'.seen \subseteq Names
  BY <1>3, <1>6 DEF Underway
<1> HIDE DEF at
<1> QED
  BY <1>1, <1>3, <1>4, <1>6, <1>7, <1>8, <1>9, <1>10, <1>11 DEF Underway

\* At the top the personas visited are the chain.
LEMMA TopArrives ==
  ASSUME NEW c, cached = {c}, cached' = cached, persona' = persona, loaded' = loaded,
         Underway, NEW at, at = walk.at, at \notin walk.seen, Defined(at), ParentsOf(at) = {},
         walk' = Visit(at)
  PROVE  Arrived'
<1> DEFINE seen == walk.seen \cup {at}
<1>1. Chain = seen
  <2>1. seen \subseteq Names /\ persona \in seen
    BY DEF Underway
  <2>2. \A p \in seen : ParentsOf(p) \subseteq seen
    BY DEF Underway
  <2>3. Closed(seen)
    BY <2>1, <2>2 DEF Closed
  <2>4. Chain \subseteq seen
    BY <2>1, <2>3 DEF Chain
  <2>5. seen \subseteq Chain
    BY <2>1 DEF Chain, Underway
  <2> QED
    BY <2>4, <2>5
<1>2. Resolvable
  BY <1>1 DEF Resolvable, Underway
<1>3. /\ walk'.all <=> ConfigInForce(at).star /\ walk.seen = {}
      /\ walk'.tools = IF ConfigInForce(at).star THEN walk.tools
                       ELSE walk.tools \cup ConfigInForce(at).tools
  BY SamePolicy DEF Visit, Underway
<1>4. ASSUME walk'.all
      PROVE  Granted = LoadedTools
  <2>1. at = persona
    BY <1>3, <1>4 DEF Underway
  <2> QED
    BY <1>3, <1>4, <2>1 DEF Granted
<1>5. ASSUME ~walk'.all
      PROVE  walk'.tools = Granted
  <2>1. ~ConfigInForce(persona).star
    BY <1>3, <1>5 DEF Underway
  <2>2. Granted = UNION {ConfigInForce(p).tools : p \in {q \in seen : ~ConfigInForce(q).star}}
    BY <1>1, <2>1 DEF Granted
  <2>3. walk.tools = UNION {ConfigInForce(p).tools : p \in walk.seen}
    BY DEF Underway
  <2>4. \A p \in walk.seen : ~ConfigInForce(p).star
    BY DEF Underway
  <2> QED
    BY <1>3, <2>2, <2>3, <2>4
<1>6. Granted' = Granted /\ LoadedTools' = LoadedTools /\ (Resolvable' <=> Resolvable)
  BY PromiseStands
<1> QED
  BY <1>2, <1>4, <1>5, <1>6 DEF Arrived

\* What is filtered is what was promised.
LEMMA FilterPromised ==
  ASSUME Arrived, Filter
  PROVE  offered' = Promised
<1> DEFINE names == IF walk.all THEN LoadedTools ELSE walk.tools
<1>1. offered' = Select(Writable(Allowed(names) \ Denied))
  BY DEF Filter
<1>2. names \cap LoadedTools = Granted \cap LoadedTools
  BY DEF Arrived
<1>3. Policy = InForce
  BY SamePolicy
<1> HIDE DEF names
<1>4. ASSUME NEW tool
      PROVE  tool \in offered' <=> tool \in Promised
  <2>1. tool \in offered' <=>
          /\ tool \in LoadedTools /\ tool \in Writable(Allowed(names) \ Denied)
    BY <1>1 DEF Select
  <2>2. tool \in Writable(Allowed(names) \ Denied) <=>
          /\ tool \in Allowed(names) /\ tool \notin Denied
          /\ InForce.read_only => tool \in ReadTools
    BY <1>3 DEF Writable
  <2>3. tool \in Allowed(names) <=>
          tool \in names /\ (InForce.allow = {} \/ \E pattern \in InForce.allow : tool \in pattern)
    BY <1>3 DEF Allowed
  <2>4. tool \notin Denied <=> \A pattern \in InForce.deny : tool \notin pattern
    BY <1>3 DEF Denied
  <2> QED
    BY <1>2, <2>1, <2>2, <2>3, <2>4 DEF Promised
<1>5. Promised \subseteq LoadedTools
  BY DEF Promised
<1> QED
  BY <1>4, <1>5

LEMMA InitLookup == Init => Lookup
  BY DEF Init, Lookup

\* What was found out stands as long as nobody else has a say.
LEMMA FoundStands ==
  ASSUME NEW c, cached = {c}, cached' = cached, persona' = persona, loaded' = loaded,
         walk' = walk
  PROVE  /\ Underway => Underway'
         /\ Arrived => Arrived'
<1>1. /\ \A p : ConfigInForce(p)' = ConfigInForce(p)
      /\ \A p : Defined(p)' <=> Defined(p)
      /\ \A p : ParentsOf(p)' = ParentsOf(p)
      /\ Names' = Names
      /\ \A s : Closed(s)' <=> Closed(s)
  BY PolicyStands
<1>2. Granted' = Granted /\ LoadedTools' = LoadedTools /\ (Resolvable' <=> Resolvable)
  BY PromiseStands
<1>3. Underway => Underway'
  BY <1>1 DEF Underway
<1>4. Arrived => Arrived'
  BY <1>2 DEF Arrived
<1> QED
  BY <1>3, <1>4

\* Every step keeps what is offered to what was promised.
LEMMA NextLookup == Inv /\ Lookup /\ [Next]_vars => Lookup'
<1> SUFFICES ASSUME Inv, Lookup, [Next]_vars
             PROVE  Lookup'
  OBVIOUS
<1> USE DEF args, imported, lookup, results, requests
<1>1. ASSUME ImportClient \/ ImportsDone \/ FindPolicyFile \/ OpenScalarFile \/ Refuse
      PROVE  Lookup'
  <2>1. persona' = persona /\ walk' = walk
    BY <1>1 DEF ImportClient, ImportsDone, FindPolicyFile, OpenScalarFile, Refuse
  <2>2. /\ stage' \in {"import", "find", "open", "failed"}
        /\ stage' # "failed" => stage \in {"import", "find", "open"}
    BY <1>1 DEF ImportClient, ImportsDone, FindPolicyFile, OpenScalarFile, Refuse
  <2> QED
    BY <2>1, <2>2 DEF Lookup, NewWalk
<1>2. CASE OpenPolicyFile
  <2>1. /\ persona \in Personas /\ walk = NewWalk(persona)
        /\ persona' = persona /\ walk' = walk /\ stage' = "sections"
    BY <1>2 DEF OpenPolicyFile, Lookup
  <2>2. Underway'
    BY <2>1, NewUnderwayNext DEF NewWalk
  <2> QED
    BY <2>1, <2>2 DEF Lookup
<1>3. CASE Restart
  BY <1>3 DEF Restart, Lookup
<1>4. ASSUME PolicyLoaded, persona' = persona, cached' = cached, loaded' = loaded,
             \/ Climb \/ Top \/ Filter \/ Serve
             \/ /\ stage' = stage \/ stage' = "failed"
                /\ walk' = walk /\ offered' = offered
      PROVE  Lookup'
  <2>1. PICK c \in Contents \cup {NoPolicy} : cached = {c}
    BY <1>4 DEF Inv
  <2>2. Promised' = Promised /\ (Resolvable' <=> Resolvable)
    BY <1>4, <2>1, PromiseStands
  <2>3. persona' \in Personas
    BY <1>4 DEF Lookup
  <2>4. CASE Climb
    <3>1. Underway /\ stage \in {"sections", "tools"} /\ stage' = stage
      BY <2>4 DEF Climb, Walking, Lookup
    <3>2. Underway'
      BY <2>1, <2>4, <3>1, ClimbUnderway
    <3> QED
      BY <2>3, <3>1, <3>2 DEF Lookup
  <2>5. CASE Top
    <3>1. CASE stage = "sections"
      <4>1. walk' = NewWalk(persona) /\ stage' = "tools"
        BY <2>5, <3>1 DEF Top
      <4>2. Underway'
        BY <1>4, <2>3, <4>1, NewUnderwayNext DEF NewWalk
      <4> QED
        BY <2>3, <4>1, <4>2 DEF Lookup
    <3>2. CASE stage = "tools"
      <4>1. walk' = Visit(walk.at) /\ stage' = "filter" /\ Underway
        BY <2>5, <3>2 DEF Top, Lookup
      <4>2. /\ walk.at \notin walk.seen /\ Defined(walk.at)
            /\ ConfigInForce(walk.at).star \/ ConfigInForce(walk.at).inherit = {}
        BY <2>5, SamePolicy DEF Top, Cyclic
      <4>3. ParentsOf(walk.at) = {}
        BY <4>2 DEF ParentsOf
      <4>4. Arrived'
        BY <1>4, <2>1, <4>1, <4>2, <4>3, TopArrives
      <4> QED
        BY <2>3, <4>1, <4>4 DEF Lookup
    <3> QED
      BY <2>5, <3>1, <3>2 DEF Top
  <2>6. CASE Filter
    <3>1. stage' = "resources" /\ Arrived
      BY <2>6 DEF Filter, Lookup
    <3>2. offered' = Promised /\ Resolvable
      BY <2>6, <3>1, FilterPromised DEF Arrived
    <3> QED
      BY <2>2, <2>3, <3>1, <3>2 DEF Lookup
  <2>7. CASE Serve
    BY <2>2, <2>3, <2>7 DEF Serve, Lookup
  <2>8. CASE /\ stage' = stage \/ stage' = "failed"
             /\ walk' = walk /\ offered' = offered
    <3>1. /\ Underway => Underway'
          /\ Arrived => Arrived'
      BY <1>4, <2>1, <2>8, FoundStands
    <3> QED
      BY <1>4, <2>2, <2>3, <2>8, <3>1 DEF Lookup, PolicyLoaded
  <2> QED
    BY <1>4, <2>4, <2>5, <2>6, <2>7, <2>8
<1>5. ASSUME ~PolicyLoaded,
             persona' = persona, walk' = walk, stage' = stage
      PROVE  Lookup'
  BY <1>5 DEF Lookup, PolicyLoaded, NewWalk
<1>6. CASE Climb \/ Top \/ Filter \/ Serve
  BY <1>4, <1>6 DEF Climb, Top, Walking, Filter, Serve, PolicyLoaded
<1>7. CASE RegisterResource \/ Request
  BY <1>4, <1>7 DEF RegisterResource, Request, PolicyLoaded
<1>8. CASE Edit \/ UNCHANGED vars
  BY <1>4, <1>5, <1>8 DEF Edit, vars
<1> QED
  BY <1>1, <1>2, <1>3, <1>6, <1>7, <1>8 DEF Next, Startup

\* For any policies, personas, clients and edits: a server serves exactly the
\* tools that the policy in force promises, along a chain that has an end.
THEOREM OfferedAsPromised == Spec => []OfferedByPolicy
<1>1. Lookup => OfferedByPolicy
  BY DEF Lookup, OfferedByPolicy
<1> QED
  BY <1>1, InitInv, Inductive, InitLookup, NextLookup, PTL DEF Spec

\* For any policies, personas, clients, paths and edits: the tools that ask are
\* admitted only to namespaces of the policy that the offered tools were filtered
\* with, and a tool that does not ask reads a namespace only if it is among the
\* tools that this same version of the policy promises.
THEOREM OneSnapshot == Spec => []NamespacesOfOnePolicy
<1>1. Inv /\ Lookup => NamespacesOfOnePolicy
  BY DEF Inv, Judged, Lookup, NamespacesOfOnePolicy
<1> QED
  BY <1>1, InitInv, Inductive, InitLookup, NextLookup, PTL DEF Spec

-----------------------------------------------------------------------------
(* The variables keep to their types: what is offered and registered was    *)
(* loaded, and the clients still to import are the last of --clients.       *)

\* Nothing is offered or registered before the filters ran.
Unfiltered ==
    stage \in {"import", "find", "open", "sections", "tools", "filter"}
       => offered = {} /\ pending = {} /\ registered = {}

\* The first of the clients that are left is taken off.
LEMMA SuffixTail ==
  ASSUME NEW list \in Seq(STRING), NEW n \in 1..(Len(list) + 1), SubSeq(list, n, Len(list)) # <<>>
  PROVE  /\ n + 1 \in 1..(Len(list) + 1)
         /\ Tail(SubSeq(list, n, Len(list))) = SubSeq(list, n + 1, Len(list))
<1>1. Len(list) \in Nat /\ n \in Int
  OBVIOUS
<1>2. n <= Len(list)
  BY <1>1, SubSeqEmpty
<1>3. n \in 1..Len(list) /\ Len(list) \in n..Len(list)
  BY <1>1, <1>2
<1>4. Tail(SubSeq(list, n, Len(list))) = SubSeq(list, n + 1, Len(list))
  BY <1>3, HeadTailOfSubSeq
<1> QED
  BY <1>1, <1>3, <1>4

\* A new process is well typed.
LEMMA InitTyped == Init => TypeOK /\ Unfiltered
<1> SUFFICES ASSUME Init PROVE TypeOK /\ Unfiltered
  OBVIOUS
<1>1. imports \in {SubSeq(clients, n, Len(clients)) : n \in 1..(Len(clients) + 1)}
  <2>1. clients \in Seq(STRING)
    BY StartupAssumption DEF Init
  <2>2. 1 \in 1..(Len(clients) + 1) /\ SubSeq(clients, 1, Len(clients)) = clients
    BY <2>1
  <2> QED
    BY <2>2 DEF Init
<1> QED
  BY <1>1 DEF Init, TypeOK, Unfiltered, Starting

\* And so is one that takes the place of a process that ended.
LEMMA NextInitTyped == (Init => TypeOK /\ Unfiltered)'
  BY InitTyped, PTL

\* Importing a client shortens the list by one and may load its tools.
LEMMA ImportTyped ==
  ASSUME TypeOK, Unfiltered, ImportClient
  PROVE  TypeOK' /\ Unfiltered'
<1>1. /\ stage = "import" /\ imports # <<>> /\ imports' = Tail(imports)
      /\ UNCHANGED <<files, persona, clients, stage, cached, found, walk, offered, pending,
                     registered, complete, admitted, unasked>>
  BY DEF ImportClient, args, lookup, results, requests
<1>2. PICK ok \in BOOLEAN : (ok => Known(Head(imports))) /\ Import(Head(imports), ok)
  BY DEF ImportClient
<1>3. clients_ready' \in BOOLEAN
  BY <1>2, Zenon DEF Import
<1>4. loaded \subseteq loaded' /\ loaded' \subseteq DOMAIN Modules
  BY <1>2 DEF Import, Known, TypeOK
<1>5. imports' \in {SubSeq(clients', n, Len(clients')) : n \in 1..(Len(clients') + 1)}
  <2>1. clients \in Seq(STRING)
    BY StartupAssumption DEF TypeOK
  <2>2. PICK n \in 1..(Len(clients) + 1) : imports = SubSeq(clients, n, Len(clients))
    BY DEF TypeOK
  <2>3. n + 1 \in 1..(Len(clients) + 1) /\ imports' = SubSeq(clients, n + 1, Len(clients))
    BY <1>1, <2>1, <2>2, SuffixTail
  <2> QED
    BY <1>1, <2>3
<1>6. offered = {} /\ pending = {} /\ registered = {}
  BY <1>1 DEF Unfiltered
<1> QED
  BY <1>1, <1>3, <1>4, <1>5, <1>6 DEF TypeOK, Unfiltered

\* A level of the walk visits --persona, or it was visited before.
LEMMA WalkTyped ==
  ASSUME Underway
  PROVE  /\ persona \in Visit(walk.at).seen
         /\ \A parent : persona \in [Visit(walk.at) EXCEPT !.at = parent].seen
<1>1. /\ walk = [at |-> walk.at, seen |-> walk.seen, tools |-> walk.tools, all |-> walk.all]
      /\ persona \in walk.seen \cup {walk.at}
  BY DEF Underway
<1>2. /\ Visit(walk.at).seen = walk.seen \cup {walk.at}
      /\ \A parent : [Visit(walk.at) EXCEPT !.at = parent].seen = walk.seen \cup {walk.at}
  BY <1>1 DEF Visit
<1> QED
  BY <1>1, <1>2

\* A resource is taken from those pending and then readable or not.
LEMMA RegisterTyped ==
  ASSUME TypeOK, RegisterResource
  PROVE  TypeOK' /\ Unfiltered'
<1>1. PICK r \in pending :
        /\ pending' = pending \ {r}
        /\ \/ registered' = registered \cup {r} /\ UNCHANGED <<stage, complete>>
           \/ complete' = FALSE /\ UNCHANGED <<stage, registered>>
           \/ stage' = "failed" /\ UNCHANGED <<registered, complete>>
  BY DEF RegisterResource
<1>2. /\ stage = "resources"
      /\ UNCHANGED <<files, persona, clients, imports, loaded, clients_ready, cached, found,
                     walk, offered, admitted, unasked>>
  BY DEF RegisterResource, args, imported, lookup, requests
<1>3. pending' \subseteq Resources /\ registered' \subseteq Resources \ pending'
  BY <1>1 DEF TypeOK
<1>4. stage' \in {"resources", "failed"}
  BY <1>1, <1>2
<1>5. complete' \in BOOLEAN
  BY <1>1, Zenon DEF TypeOK
<1>6. Resources' = Resources /\ LoadedTools' = LoadedTools
  BY <1>2 DEF Resources, LoadedTools
<1> QED
  BY <1>2, <1>3, <1>4, <1>5, <1>6 DEF TypeOK, Unfiltered, Starting, Done

\* Every step keeps the types; of the walk and the cached policy the invariants
\* above know what they are.
LEMMA NextTyped == Inv /\ Lookup /\ TypeOK /\ Unfiltered /\ [Next]_vars => TypeOK' /\ Unfiltered'
<1> SUFFICES ASSUME Inv, Lookup, TypeOK, Unfiltered, [Next]_vars
             PROVE  TypeOK' /\ Unfiltered'
  OBVIOUS
<1> USE DEF args, imported, lookup, results, requests, LoadedTools, Resources
<1>1. CASE ImportClient
  BY <1>1, ImportTyped
<1>2. CASE ImportsDone
  BY <1>2 DEF ImportsDone, TypeOK, Unfiltered, Starting
<1>3. CASE FindPolicyFile
  BY <1>3, OneFirst DEF FindPolicyFile, TypeOK, Unfiltered, Starting, AtMostOnePath
<1>4. CASE OpenPolicyFile
  <2>1. cached' \in {{}, {NoPolicy}} \cup {{c} : c \in Contents}
    <3>1. \E c \in Contents \cup {NoPolicy} : Loaded(found) = {c}
      BY OneLoaded DEF Inv
    <3> QED
      BY <1>4, <3>1 DEF OpenPolicyFile
  <2> QED
    BY <1>4, <2>1 DEF OpenPolicyFile, TypeOK, Unfiltered, Starting
<1>5. CASE OpenScalarFile
  BY <1>5 DEF OpenScalarFile, TypeOK, Unfiltered, Done
<1>6. CASE Climb
  <2>1. persona \in walk'.seen
    BY <1>6, WalkTyped DEF Climb, Walking, Lookup
  <2> QED
    BY <1>6, <2>1 DEF Climb, TypeOK, Unfiltered
<1>7. CASE Top
  <2>1. walk' = NewWalk(persona) \/ persona \in walk'.seen
    BY <1>7, WalkTyped DEF Top, Walking, Lookup
  <2>2. stage \in {"sections", "tools"} /\ stage' \in {"tools", "filter"}
    BY <1>7 DEF Top
  <2>3. UNCHANGED <<args, imported, lookup, results>>
    BY <1>7 DEF Top
  <2> QED
    BY <2>1, <2>2, <2>3 DEF TypeOK, Unfiltered, Starting
<1>8. CASE Refuse
  BY <1>8 DEF Refuse, TypeOK, Unfiltered, Done
<1>9. CASE Filter
  <2>1. offered' \subseteq LoadedTools /\ pending' = Resources /\ registered = {}
    BY <1>9 DEF Filter, Select, Unfiltered
  <2>2. /\ stage' = "resources"
        /\ UNCHANGED <<args, imported, lookup, walk, registered, complete, requests>>
    BY <1>9 DEF Filter
  <2> QED
    BY <2>1, <2>2 DEF TypeOK, Unfiltered, Starting
<1>10. CASE RegisterResource
  BY <1>10, RegisterTyped
<1>11. CASE Serve
  BY <1>11 DEF Serve, TypeOK, Unfiltered, Done
<1>12. CASE Request
  BY <1>12 DEF Request, TypeOK, Unfiltered
<1>13. CASE Edit
  BY <1>13 DEF Edit, TypeOK, Unfiltered
<1>14. CASE Restart
  <2>1. Init'
    BY <1>14 DEF Restart, Init, TypeOK
  <2> QED
    BY <2>1, NextInitTyped
<1>15. CASE UNCHANGED vars
  BY <1>15 DEF vars, TypeOK, Unfiltered
<1> QED
  BY <1>1, <1>2, <1>3, <1>4, <1>5, <1>6, <1>7, <1>8, <1>9, <1>10, <1>11, <1>12, <1>13,
     <1>14, <1>15 DEF Next, Startup

\* Type correctness, for any policies, personas, clients, failures and restarts.
THEOREM TypeCorrect == Spec => []TypeOK
<1>1. Inv /\ Lookup /\ TypeOK /\ Unfiltered /\ [Next]_vars
        => Inv' /\ Lookup' /\ TypeOK' /\ Unfiltered'
  BY Inductive, NextLookup, NextTyped
<1> QED
  BY <1>1, InitInv, InitLookup, InitTyped, PTL DEF Spec
=============================================================================
