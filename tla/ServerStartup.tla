---------------------------- MODULE ServerStartup ----------------------------
(***************************************************************************)
(* create_server of core/server.py, from the import of the client modules  *)
(* to the requests it then serves, with core/policy.py: the policy file,   *)
(* which administrators may change at any time, and which is read once, at *)
(* the first persona lookup, and cached for the life of the process.       *)
(*                                                                         *)
(* get_allowed_tools is a walk up the inheritance chain, one lookup a      *)
(* step, and is run twice: for the instructions and for the tools.  A      *)
(* pattern of the policy is the set of the tools it matches, and a value   *)
(* that may be missing is a set of at most one element.                    *)
(***************************************************************************)
EXTENDS Integers, Sequences, FiniteSets

CONSTANTS PathCount,    \* how many places _get_policy_paths names, in order
          Contents,     \* the policies a file may hold
          BuiltIn,      \* PERSONAS
          Personas,     \* values of --persona
          ClientLists,  \* values of --clients, split
          Modules,      \* CLIENT_MODULES: the tools and resources of each
          HealthTools,  \* HEALTH_TOOLS, all annotated as read-only
          AskingTools,  \* tools that call check_namespace_allowed
          SilentTools,  \* tools that read namespaces without: inspect_controller
                        \* and delete_runtime
          Namespaces    \* namespaces that requests are for

\* A policy names at most one list of namespaces, and a persona one parent.
ASSUME StartupAssumption ==
          /\ PathCount \in Nat
          /\ ClientLists \subseteq Seq(STRING)
          /\ \A c \in Contents :
               /\ c.kind = "policy"
               /\ \A l, m \in c.namespaces : l = m
               /\ \A p \in DOMAIN c.personas : \A q, r \in c.personas[p].inherit : q = r
          /\ AskingTools \cap SilentTools = {}
          /\ \A p \in DOMAIN BuiltIn : \A q, r \in BuiltIn[p].inherit : q = r

VARIABLES files,         \* per path: what is there
          cached,        \* _get_cached_policy, once it was called
          persona,       \* --persona
          clients,       \* --clients
          stage,         \* how far create_server is
          imports,       \* clients still to be imported
          loaded,        \* loaded_modules
          clients_ready,
          found,         \* what _find_policy_file returned
          walk,          \* get_allowed_tools under way
          offered,       \* tools the server offers
          pending,       \* resources still to be registered
          registered,    \* resources that can be read
          complete       \* register_resources: none was missing so far

\* Observers: the namespaces that requests were for ...
VARIABLES admitted,      \* ... of tools that ask the policy, and were admitted
          unasked        \* ... of tools that do not

args     == <<files, persona, clients>>
imported == <<imports, loaded, clients_ready>>
lookup   == <<cached, found>>
requests == <<admitted, unasked>>
results  == <<offered, pending, registered, complete, requests>>
vars     == <<args, stage, imported, lookup, walk, results>>

-----------------------------------------------------------------------------
\* A policy file may be absent, no YAML, or YAML but no mapping.
File == [kind : {"absent", "malformed", "scalar"}] \cup Contents

NoPolicy == [kind |-> "policy", personas |-> <<>>, allow |-> {}, deny |-> {},
             read_only |-> FALSE, namespaces |-> {}]

Starting == {"import", "find", "open", "sections", "tools", "filter", "resources"}
Done     == {"serving", "failed"}

Known(c)    == c \in DOMAIN Modules
LoadedTools == HealthTools \cup UNION {Modules[c].tools : c \in loaded}
ReadTools   == HealthTools \cup UNION {Modules[c].reads : c \in loaded}
Resources   == UNION {Modules[c].resources : c \in loaded}

\* all: the answer None, every tool.
NewWalk(p) == [at |-> p, seen |-> {}, tools |-> {}, all |-> FALSE]

\* The type invariant; with it: only tools that were loaded are offered.
TypeOK ==
    /\ files \in [1..PathCount -> File]
    /\ cached \in {{}, {NoPolicy}} \cup {{c} : c \in Contents}
    /\ persona \in Personas /\ clients \in ClientLists
    /\ stage \in Starting \cup Done
    /\ imports \in {SubSeq(clients, n, Len(clients)) : n \in 1..(Len(clients) + 1)}
    /\ loaded \subseteq DOMAIN Modules
    /\ clients_ready \in BOOLEAN /\ complete \in BOOLEAN
    /\ found \in {{}} \cup {{p} : p \in 1..PathCount}
    /\ walk = NewWalk(persona) \/ persona \in walk.seen
    /\ offered \subseteq LoadedTools
    /\ pending \subseteq Resources /\ registered \subseteq Resources \ pending
    /\ admitted \subseteq Namespaces /\ unasked \subseteq Namespaces

\* A process has just called create_server.
Init ==
    /\ files \in [1..PathCount -> File]
    /\ persona \in Personas
    /\ clients \in ClientLists
    /\ stage = "import"
    /\ imports = clients /\ loaded = {} /\ clients_ready = TRUE
    /\ cached = {} /\ found = {}
    /\ walk = NewWalk(persona)
    /\ offered = {} /\ pending = {} /\ registered = {} /\ complete = TRUE
    /\ admitted = {} /\ unasked = {}

-----------------------------------------------------------------------------
\* An import can fail, and so does that of an unknown client.
\* Mutation of Import: the last client decides whether the clients are ready.
ImportLastWins(c, ok) ==
    /\ clients_ready' = ok
    /\ loaded' = IF ok THEN loaded \cup {c} ELSE loaded

Import(c, ok) ==
    /\ clients_ready' = (clients_ready /\ ok)
    /\ loaded' = IF ok THEN loaded \cup {c} ELSE loaded

ImportClient ==
    /\ stage = "import" /\ imports # <<>>
    /\ \E ok \in BOOLEAN : (ok => Known(Head(imports))) /\ Import(Head(imports), ok)
    /\ imports' = Tail(imports)
    /\ UNCHANGED <<args, stage, lookup, walk, results>>

ImportsDone ==
    /\ stage = "import" /\ imports = <<>>
    /\ stage' = "find"
    /\ UNCHANGED <<args, imported, lookup, walk, results>>

-----------------------------------------------------------------------------
\* _load_policy_file, in the first _get_cached_policy: the first path that
\* exists, and then what it holds.  A file that vanished or is no YAML counts
\* as {}; what is no mapping raises in the .get() of the caller.
FirstFile == {p \in 1..PathCount : /\ files[p].kind # "absent"
                                   /\ \A q \in 1..(p - 1) : files[q].kind = "absent"}

Held(paths) == {files[p] : p \in paths}

Loaded(paths) == IF Held(paths) \cap Contents # {} THEN Held(paths) ELSE {NoPolicy}

FindPolicyFile ==
    /\ stage = "find"
    /\ found' = FirstFile
    /\ stage' = "open"
    /\ UNCHANGED <<args, imported, cached, walk, results>>

OpenPolicyFile ==
    /\ stage = "open"
    /\ \A f \in Held(found) : f.kind # "scalar"
    /\ cached' = Loaded(found)
    /\ stage' = "sections"
    /\ UNCHANGED <<args, imported, found, walk, results>>

OpenScalarFile ==
    /\ stage = "open"
    /\ \E f \in Held(found) : f.kind = "scalar"
    /\ stage' = "failed"
    /\ UNCHANGED <<args, imported, lookup, walk, results>>

\* Mutation of Policy: the file is read whenever it is asked for.
PolicyUncached == CHOOSE c \in Loaded(FirstFile) : TRUE

Policy == CHOOSE c \in cached : TRUE

-----------------------------------------------------------------------------
\* get_allowed_tools: the personas of the policy file shadow the built-in.
Exists(p) == p \in DOMAIN Policy.personas \cup DOMAIN BuiltIn

Config(p) == IF p \in DOMAIN Policy.personas THEN Policy.personas[p] ELSE BuiltIn[p]

\* Mutation of Cyclic: personas already visited are not remembered.
CyclicNever(p) == FALSE

Cyclic(p) == p \in walk.seen

\* One level: what it adds to the walk.  None from above adds nothing.
\* Mutation of Visit: tools "*" of an ancestor mean all tools.
VisitInheritAll(p) ==
    [walk EXCEPT !.seen = @ \cup {p}, !.tools = @ \cup Config(p).tools, !.all = Config(p).star]

Visit(p) ==
    [walk EXCEPT !.seen = @ \cup {p},
                 !.tools = IF Config(p).star THEN @ ELSE @ \cup Config(p).tools,
                 !.all = Config(p).star /\ walk.seen = {}]

Walking == stage \in {"sections", "tools"}

Climb ==
    /\ Walking /\ ~Cyclic(walk.at) /\ Exists(walk.at)
    /\ ~Config(walk.at).star
    /\ \E parent \in Config(walk.at).inherit : walk' = [Visit(walk.at) EXCEPT !.at = parent]
    /\ UNCHANGED <<args, stage, imported, lookup, results>>

\* The top of the chain.  The first walk, for the instructions, is forgotten.
Top ==
    /\ Walking /\ ~Cyclic(walk.at) /\ Exists(walk.at)
    /\ Config(walk.at).star \/ Config(walk.at).inherit = {}
    /\ \/ stage = "sections" /\ stage' = "tools" /\ walk' = NewWalk(persona)
       \/ stage = "tools" /\ stage' = "filter" /\ walk' = Visit(walk.at)
    /\ UNCHANGED <<args, imported, lookup, results>>

\* ValueError: a cycle or an unknown persona.
Refuse ==
    /\ Walking /\ (Cyclic(walk.at) \/ ~Exists(walk.at))
    /\ stage' = "failed"
    /\ UNCHANGED <<args, imported, lookup, walk, results>>

-----------------------------------------------------------------------------
\* apply_policy_filters and the read_only stage, on the names of the persona;
\* what is offered are the loaded tools among them.
Allowed(names) ==
    IF Policy.allow = {} THEN names ELSE names \cap UNION Policy.allow

Denied == UNION Policy.deny

Writable(names) == IF Policy.read_only THEN names \cap ReadTools ELSE names

Select(names) == names \cap LoadedTools

Filter ==
    /\ stage = "filter"
    /\ LET names == IF walk.all THEN LoadedTools ELSE walk.tools
       IN  offered' = Select(Writable(Allowed(names) \ Denied))
    /\ pending' = Resources
    /\ stage' = "resources"
    /\ UNCHANGED <<args, imported, lookup, walk, registered, complete, requests>>

\* register_resources, one file a step: there, missing or unreadable.
RegisterResource ==
    /\ stage = "resources"
    /\ \E r \in pending :
         /\ pending' = pending \ {r}
         /\ \/ registered' = registered \cup {r} /\ UNCHANGED <<stage, complete>>
            \/ complete' = FALSE /\ UNCHANGED <<stage, registered>>
            \/ stage' = "failed" /\ UNCHANGED <<registered, complete>>
    /\ UNCHANGED <<args, imported, lookup, walk, offered, requests>>

Serve ==
    /\ stage = "resources" /\ pending = {}
    /\ stage' = "serving"
    /\ UNCHANGED <<args, imported, lookup, walk, results>>

\* register_probe_routes: what GET /ready answers from now on.
Ready == stage = "serving" /\ clients_ready /\ complete

-----------------------------------------------------------------------------
\* get_allowed_namespaces
AllowedNamespaces == Policy.namespaces

\* check_namespace_allowed, for a request to the effective namespace ns;
\* resolved: it was named, or the default could be found out.
Permits(ns, resolved) ==
    \/ AllowedNamespaces = {}
    \/ resolved /\ \E list \in AllowedNamespaces : ns \in list

\* A call of a tool that is offered.  The tools that work on jobs ask first;
\* inspect_controller reads the logs and events of a pod that is labelled as the
\* controller, in any namespace, and delete_runtime lists the jobs of all of them,
\* which is taken one by one here.
Request ==
    /\ stage = "serving"
    /\ \E ns \in Namespaces, resolved \in BOOLEAN :
         \/ /\ offered \cap AskingTools # {} /\ Permits(ns, resolved)
            /\ admitted' = admitted \cup {ns} /\ UNCHANGED unasked
         \/ /\ offered \cap SilentTools # {}
            /\ unasked' = unasked \cup {ns} /\ UNCHANGED admitted
    /\ UNCHANGED <<args, stage, imported, lookup, walk, offered, pending, registered, complete>>

-----------------------------------------------------------------------------
\* Administrators edit one policy file at a time.
Edit ==
    /\ \E p \in 1..PathCount, f \in File : files' = [files EXCEPT ![p] = f]
    /\ UNCHANGED <<persona, clients, stage, imported, lookup, walk, results>>

\* A new process, perhaps with other arguments.
Restart ==
    /\ stage \in Done
    /\ persona' \in Personas /\ clients' \in ClientLists
    /\ stage' = "import"
    /\ imports' = clients' /\ loaded' = {} /\ clients_ready' = TRUE
    /\ cached' = {} /\ found' = {}
    /\ walk' = NewWalk(persona')
    /\ offered' = {} /\ pending' = {} /\ registered' = {} /\ complete' = TRUE
    /\ admitted' = {} /\ unasked' = {}
    /\ UNCHANGED files

Startup ==
    \/ ImportClient \/ ImportsDone
    \/ FindPolicyFile \/ OpenPolicyFile \/ OpenScalarFile
    \/ Climb \/ Top \/ Refuse
    \/ Filter \/ RegisterResource \/ Serve

Next == Startup \/ Request \/ Edit \/ Restart

Spec == Init /\ [][Next]_vars

\* create_server runs on the main thread and nothing in it waits.
FairSpec == Spec /\ WF_vars(Startup)

-----------------------------------------------------------------------------
\* The policy that the tools were filtered with.
InForce == CHOOSE c \in cached : TRUE

ConfigInForce(p) ==
    IF p \in DOMAIN InForce.personas THEN InForce.personas[p] ELSE BuiltIn[p]

Names == Personas \cup DOMAIN BuiltIn \cup DOMAIN InForce.personas
           \cup UNION {ConfigInForce(p).inherit : p \in DOMAIN BuiltIn \cup DOMAIN InForce.personas}

Defined(p) == p \in DOMAIN BuiltIn \cup DOMAIN InForce.personas

\* p leads to its parent, unless p has all tools.
ParentsOf(p) == IF Defined(p) /\ ~ConfigInForce(p).star THEN ConfigInForce(p).inherit ELSE {}

\* The personas on the chain of --persona: the least set that is closed.
Closed(s) == persona \in s /\ \A p \in s : ParentsOf(p) \subseteq s

Chain == {p \in Names : \A s \in SUBSET Names : Closed(s) => p \in s}

\* The chain leads to an end, and each persona on it is defined.
Resolvable ==
    /\ \A p \in Chain : Defined(p)
    /\ \E p \in Chain : ParentsOf(p) = {}

Granted ==
    IF ConfigInForce(persona).star
      THEN LoadedTools
      ELSE UNION {ConfigInForce(p).tools : p \in {q \in Chain : ~ConfigInForce(q).star}}

\* The loaded tools that the persona grants, that a pattern of a non-empty allow
\* list and no pattern of the deny list matches, and that read_only leaves.
Promised ==
    {t \in LoadedTools \cap Granted :
        /\ InForce.allow = {} \/ \E pattern \in InForce.allow : t \in pattern
        /\ \A pattern \in InForce.deny : t \notin pattern
        /\ InForce.read_only => t \in ReadTools}

\* A server serves exactly the tools that the policy promises, and a persona
\* whose chain is cyclic or leaves the defined personas is never served:
\* get_allowed_tools computes it level by level, apply_policy_filters list by
\* list, while the files change (core/policy.py:188-256).
OfferedByPolicy == stage = "serving" => Resolvable /\ offered = Promised

\* Whatever administrators save meanwhile, the tools that ask are admitted only
\* to the namespaces of the policy that the offered tools were filtered with:
\* tools and namespaces never come from two versions of the file.  Not all tools
\* ask: inspect_controller takes a namespace and reads the logs and events of the
\* controller's pod there, on the list or not, and delete_runtime names the jobs
\* of every namespace (trainer/api/platform.py:172-244, 448-462).  So a namespace
\* that the policy's list does not have is read only by a server whose policy, the
\* same version of it, grants one of these tools: an administrator who denies
\* them, or takes them from the persona, closes this way.
NamespacesOfOnePolicy ==
    stage = "serving" =>
      /\ \A list \in InForce.namespaces : admitted \subseteq list
      /\ unasked # {} => Promised \cap SilentTools # {}

\* GET /ready answers 200 only if every client of --clients was imported and
\* every resource of theirs registered (README, "Container and Kubernetes
\* probes"), wherever in the loops of create_server and register_resources
\* the failure was.
ReadyIsComplete ==
    Ready => /\ \A i \in DOMAIN clients : clients[i] \in loaded
             /\ registered = Resources

\* Every start ends: the server serves or the process exits, also when
\* personas of the policy file inherit from each other in a circle.
StartupEnds == stage \in Starting ~> stage \in Done
=============================================================================
