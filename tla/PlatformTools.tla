---------------------------- MODULE PlatformTools ----------------------------
(***************************************************************************)
(* The platform tools (trainer/api/platform.py) against the cluster they   *)
(* administer, which other people change too: patch_runtime,               *)
(* create_runtime, delete_runtime, inspect_crd and inspect_controller.     *)
(*                                                                         *)
(* Every request to the Kubernetes API is a step of its own.               *)
(* delete_runtime makes two, the listing of the jobs that refer to the     *)
(* runtime and the deletion; inspect_controller tries up to four places    *)
(* and then reads the pod it found.  The connection pool repeats a GET or  *)
(* DELETE once when its answer is lost (common/utils.py, retries = 1), a   *)
(* POST or PATCH never.                                                    *)
(***************************************************************************)
EXTENDS Integers, Sequences

CONSTANTS Runtimes,    \* names of ClusterTrainingRuntimes
          Jobs,        \* names of TrainJobs, of all namespaces
          Namespaces,  \* where the controller is looked for, in this order
          Callers      \* worker threads

ASSUME RuntimesAssumption == Runtimes # {}
ASSUME NamespacesAssumption == Namespaces \in Seq(STRING)

VARIABLES runtimes,    \* the cluster: the state of each runtime
          refers,      \* the cluster: the runtimeRef of each TrainJob
          crd,         \* the cluster: is the CRD that is asked for installed?
          controllers, \* the cluster: the places where a listing finds the pod
          calls        \* per thread: its call, how far it is and what was answered

\* Observers: what happened in the cluster since a call began.
VARIABLES steady,  \* jobs that referred to its runtime all the time
          ever,    \* jobs that referred to its runtime at some time
          namesakes, \* jobs that referred to another of its name at some time
          present, \* calls whose runtime was there at some time
          absent,  \* calls whose runtime was not there at some time
          staying, \* places where the controller was all the time
          trouble, \* calls with a request that failed without an answer to it
          removed  \* calls that removed their runtime: was the request repeated?

cluster   == <<runtimes, refers, crd, controllers>>
observers == <<steady, ever, namesakes, present, absent, staying, trouble, removed>>
vars == <<runtimes, refers, crd, controllers, calls,
          steady, ever, namesakes, present, absent, staying, trouble, removed>>

Tools == {"patch_runtime", "create_runtime", "delete_runtime",
          "inspect_crd", "inspect_controller"}

\* What a caller passes for patch, spec, or view and tail_lines: refused by the
\* tool itself, refused only by the API server, or fine.
Inputs == {"refused", "malformed", "fine"}

RuntimeStates == {"absent", "created", "patched"}

Labels == {"component=manager", "part-of=kubeflow"}

\* Namespaces and label selectors of a listing.
Places == {Namespaces[i] : i \in DOMAIN Namespaces} \X Labels

\* A TrainingRuntime, of the job's namespace, may have the name of a
\* ClusterTrainingRuntime.
Kinds == {"ClusterTrainingRuntime", "TrainingRuntime"}

Ref(kind, r) == [kind |-> kind, name |-> r]

\* There is no job of that name, or its runtime has none of these names.
Nowhere == Ref("none", "none")

Refs == [kind : Kinds, name : Runtimes] \cup {Nowhere}

Replies == {"none", "preview", "done", "validation_error", "not_found", "kubernetes_error"}

Stages == {"idle", "request", "list", "delete", "repeat",
           "list_crds", "read_crd", "scan", "read_pod"}

Call == [stage : Stages,
         tool : Tools,
         runtime : Runtimes,
         confirmed : BOOLEAN,
         input : Inputs,
         namespaces : Seq({Namespaces[i] : i \in DOMAIN Namespaces}),
         at : Nat,                \* the place tried next, or where the pod was found
         vanished : BOOLEAN,      \* the pod that was found is gone
         listed : BOOLEAN,        \* the listing of the jobs was answered
         dependents : SUBSET Jobs,
         reply : Replies]

TypeOK ==
    /\ runtimes \in [Runtimes -> RuntimeStates]
    /\ refers \in [Jobs -> Refs]
    /\ crd \in BOOLEAN
    /\ controllers \subseteq Places
    /\ calls \in [Callers -> Call]
    /\ steady \in [Callers -> SUBSET Jobs]
    /\ ever \in [Callers -> SUBSET Jobs]
    /\ namesakes \in [Callers -> SUBSET Jobs]
    /\ present \subseteq Callers
    /\ absent \subseteq Callers
    /\ staying \in [Callers -> SUBSET Places]
    /\ trouble \subseteq Callers
    /\ removed \subseteq Callers \X BOOLEAN

\* A call at its start.
NewCall(tool, r, confirmed, input) ==
    [stage |-> "idle", tool |-> tool, runtime |-> r, confirmed |-> confirmed,
     input |-> input, namespaces |-> <<>>, at |-> 1, vanished |-> FALSE, listed |-> FALSE,
     dependents |-> {}, reply |-> "none"]

\* The jobs that refer to the ClusterTrainingRuntime, and those of whose runtime
\* only the name is the same.
Referring(r) == {j \in Jobs : refers[j] = Ref("ClusterTrainingRuntime", r)}

Naming(r) == {j \in Jobs : refers[j].name = r}

Misnamed(r) == Naming(r) \ Referring(r)

Init ==
    /\ runtimes \in [Runtimes -> {"absent", "created"}]
    /\ refers \in [Jobs -> Refs]
    /\ crd \in BOOLEAN
    /\ controllers \in SUBSET Places
    /\ LET r == CHOOSE r \in Runtimes : TRUE
       IN  calls = [c \in Callers |-> NewCall("inspect_crd", r, FALSE, "fine")]
    /\ steady = [c \in Callers |-> {}]
    /\ ever = [c \in Callers |-> {}]
    /\ namesakes = [c \in Callers |-> {}]
    /\ present = {}
    /\ absent = {}
    /\ staying = [c \in Callers |-> {}]
    /\ trouble = {}
    /\ removed = {}

-----------------------------------------------------------------------------
RuntimeTools == {"patch_runtime", "create_runtime", "delete_runtime"}

Idle(c) == calls[c].stage = "idle"

\* The thread takes up a call; the observers that its tool is about begin with
\* the cluster as it is.
Start(c, call) ==
    LET jobs == IF call.tool = "delete_runtime" THEN Referring(call.runtime) ELSE {}
        others == IF call.tool = "delete_runtime" THEN Misnamed(call.runtime) ELSE {}
        about == IF call.tool \in RuntimeTools THEN {c} ELSE {}
    IN
    /\ calls' = [calls EXCEPT ![c] = call]
    /\ steady' = [steady EXCEPT ![c] = jobs]
    /\ ever' = [ever EXCEPT ![c] = jobs]
    /\ namesakes' = [namesakes EXCEPT ![c] = others]
    /\ present' = (present \ {c}) \cup (IF runtimes[call.runtime] # "absent" THEN about ELSE {})
    /\ absent' = (absent \ {c}) \cup (IF runtimes[call.runtime] = "absent" THEN about ELSE {})
    /\ staying' = [staying EXCEPT ![c] = IF call.tool = "inspect_controller" THEN controllers ELSE {}]
    /\ trouble' = trouble \ {c}
    /\ removed' = {x \in removed : x[1] # c}
    /\ UNCHANGED cluster

\* A tool that validates its input, then previews, then makes its one request.
Requesting(tool, r, confirmed, input) ==
    LET call == NewCall(tool, r, confirmed, input) IN
    CASE input = "refused" -> [call EXCEPT !.reply = "validation_error"]
      [] input # "refused" /\ ~confirmed -> [call EXCEPT !.reply = "preview"]
      [] OTHER -> [call EXCEPT !.stage = "request"]

PatchRuntime(c, r, confirmed, input) ==
    Idle(c) /\ Start(c, Requesting("patch_runtime", r, confirmed, input))

CreateRuntime(c, r, confirmed, input) ==
    Idle(c) /\ Start(c, Requesting("create_runtime", r, confirmed, input))

\* The jobs are listed for previews and for deletions.
DeleteRuntime(c, r, confirmed) ==
    Idle(c) /\ Start(c, [NewCall("delete_runtime", r, confirmed, "fine") EXCEPT !.stage = "list"])

\* One CRD by its name, or all of them.
InspectCrd(c, named) ==
    /\ Idle(c)
    /\ Start(c, [NewCall("inspect_crd", CHOOSE r \in Runtimes : TRUE, FALSE, "fine")
                 EXCEPT !.stage = IF named THEN "read_crd" ELSE "list_crds"])

\* Mutation of Search: only the first of the default namespaces is searched.
SearchFirst(namespaces) ==
    [i \in 1..(IF namespaces = <<>> THEN 0 ELSE 2) |->
        <<namespaces[1], IF i = 1 THEN "component=manager" ELSE "part-of=kubeflow">>]

\* The places that _find_controller_pod tries: both labels in each namespace.
Search(namespaces) ==
    [i \in 1..(2 * Len(namespaces)) |->
        <<namespaces[(i + 1) \div 2],
          IF i % 2 = 1 THEN "component=manager" ELSE "part-of=kubeflow">>]

\* The namespace is the one passed or configured, or else all defaults are tried.
InspectController(c, input, namespaces) ==
    LET call == NewCall("inspect_controller", CHOOSE r \in Runtimes : TRUE, FALSE, input) IN
    /\ Idle(c)
    /\ Start(c, IF input = "refused" THEN [call EXCEPT !.reply = "validation_error"]
                ELSE [call EXCEPT !.stage = "scan", !.namespaces = namespaces])

-----------------------------------------------------------------------------
Answer(c, reply) == calls' = [calls EXCEPT ![c].stage = "idle", ![c].reply = reply]

Keep == UNCHANGED <<steady, ever, namesakes, staying>>

\* The runtime r changes its state: whoever has a call about it under way may
\* have seen both.
Becomes(r, state) ==
    LET about == {c \in Callers : /\ calls[c].stage # "idle"
                                  /\ calls[c].tool \in RuntimeTools
                                  /\ calls[c].runtime = r}
    IN
    /\ runtimes' = [runtimes EXCEPT ![r] = state]
    /\ present' = IF state # "absent" THEN present \cup about ELSE present
    /\ absent' = IF state = "absent" THEN absent \cup about ELSE absent

\* A POST or PATCH takes effect; its answer arrives or is lost.
Took(c) ==
    \/ Answer(c, "done") /\ UNCHANGED trouble
    \/ Answer(c, "kubernetes_error") /\ trouble' = trouble \cup {c}

\* A request that reaches nobody, or is refused for reasons of the cluster.
Lost(c) ==
    /\ Answer(c, "kubernetes_error")
    /\ trouble' = trouble \cup {c}
    /\ UNCHANGED <<runtimes, present, absent>>

\* A request that the API server refuses.
Refused(c, reply) ==
    /\ Answer(c, reply)
    /\ UNCHANGED <<runtimes, present, absent, trouble>>

\* Mutation of Patch: not-found errors are not told from others.
PatchUntold(c) ==
    LET r == calls[c].runtime IN
    /\ calls[c].stage = "request" /\ calls[c].tool = "patch_runtime"
    /\ \/ /\ runtimes[r] # "absent" /\ calls[c].input = "fine"
          /\ Becomes(r, "patched")
          /\ Took(c)
       \/ runtimes[r] # "absent" /\ calls[c].input = "malformed" /\ Refused(c, "kubernetes_error")
       \/ runtimes[r] = "absent" /\ Refused(c, "kubernetes_error")
       \/ Lost(c)
    /\ Keep /\ UNCHANGED <<refers, crd, controllers, removed>>

Patch(c) ==
    LET r == calls[c].runtime IN
    /\ calls[c].stage = "request" /\ calls[c].tool = "patch_runtime"
    /\ \/ /\ runtimes[r] # "absent" /\ calls[c].input = "fine"
          /\ Becomes(r, "patched")
          /\ Took(c)
       \/ runtimes[r] # "absent" /\ calls[c].input = "malformed" /\ Refused(c, "kubernetes_error")
       \/ runtimes[r] = "absent" /\ Refused(c, "not_found")
       \/ Lost(c)
    /\ Keep /\ UNCHANGED <<refers, crd, controllers, removed>>

\* A name that is taken is an error like any other.
Create(c) ==
    LET r == calls[c].runtime IN
    /\ calls[c].stage = "request" /\ calls[c].tool = "create_runtime"
    /\ \/ /\ runtimes[r] = "absent" /\ calls[c].input = "fine"
          /\ Becomes(r, "created")
          /\ Took(c)
       \/ /\ runtimes[r] # "absent" \/ calls[c].input = "malformed"
          /\ Refused(c, "kubernetes_error")
       \/ Lost(c)
    /\ Keep /\ UNCHANGED <<refers, crd, controllers, removed>>

-----------------------------------------------------------------------------
\* Mutation of Dependents: the search ends with the first job that is found.
DependentsFirst(r) == IF Naming(r) = {} THEN {} ELSE {CHOOSE j \in Naming(r) : TRUE}

\* The jobs of the listing whose runtimeRef has the name, of whatever kind it is.
Dependents(r) == Naming(r)

\* delete_runtime lists the jobs; a listing that fails is only logged.  Without a
\* client for the API there is none.
ListDependents(c) ==
    LET call == calls[c] IN
    /\ call.stage = "list"
    /\ \/ /\ \E answered \in BOOLEAN :
                /\ calls' = [calls EXCEPT
                     ![c].listed = answered,
                     ![c].dependents = IF answered THEN Dependents(call.runtime) ELSE {},
                     ![c].stage = IF call.confirmed THEN "delete" ELSE "idle",
                     ![c].reply = IF call.confirmed THEN "none" ELSE "preview"]
                /\ trouble' = IF answered THEN trouble ELSE trouble \cup {c}
          /\ UNCHANGED <<runtimes, present, absent>>
       \/ Lost(c)
    /\ Keep /\ UNCHANGED <<refers, crd, controllers, removed>>

\* A request whose answer is lost, with or without effect: the connection pool
\* makes it once more, and gives up after that.
NoAnswer(c) ==
    /\ IF calls[c].stage = "delete" THEN calls' = [calls EXCEPT ![c].stage = "repeat"]
                                    ELSE Answer(c, "kubernetes_error")
    /\ trouble' = trouble \cup {c}

\* Mutation of Delete: the request is made again after a lost answer until one
\* arrives, and the calls that are answered 404 count as done.
DeleteAgain(c) ==
    LET r == calls[c].runtime IN
    /\ calls[c].stage \in {"delete", "repeat"}
    /\ \/ /\ runtimes[r] # "absent"
          /\ Becomes(r, "absent")
          /\ removed' = removed \cup {<<c, calls[c].stage = "repeat">>}
          /\ (Answer(c, "done") /\ UNCHANGED trouble) \/ NoAnswer(c)
       \/ runtimes[r] = "absent" /\ Refused(c, "done") /\ UNCHANGED removed
       \/ NoAnswer(c) /\ UNCHANGED <<runtimes, present, absent, removed>>
    /\ Keep /\ UNCHANGED <<refers, crd, controllers>>

\* The deletion, at first or repeated.
Delete(c) ==
    LET r == calls[c].runtime IN
    /\ calls[c].stage \in {"delete", "repeat"}
    /\ \/ /\ runtimes[r] # "absent"
          /\ Becomes(r, "absent")
          /\ removed' = removed \cup {<<c, calls[c].stage = "repeat">>}
          /\ (Answer(c, "done") /\ UNCHANGED trouble) \/ NoAnswer(c)
       \/ runtimes[r] = "absent" /\ Refused(c, "not_found") /\ UNCHANGED removed
       \/ Lost(c) /\ UNCHANGED removed
       \/ NoAnswer(c) /\ UNCHANGED <<runtimes, present, absent, removed>>
    /\ Keep /\ UNCHANGED <<refers, crd, controllers>>

-----------------------------------------------------------------------------
ReadCrd(c) ==
    /\ \/ calls[c].stage = "list_crds" /\ Refused(c, "done")
       \/ calls[c].stage = "read_crd" /\ crd /\ Refused(c, "done")
       \/ calls[c].stage = "read_crd" /\ ~crd /\ Refused(c, "not_found")
       \/ calls[c].stage \in {"list_crds", "read_crd"} /\ Lost(c)
    /\ Keep /\ UNCHANGED <<refers, crd, controllers, removed>>

\* _find_controller_pod tries the next place, or is at its end; a listing that
\* fails counts as one without pods.  Before the first, the client may not be had.
Scan(c) ==
    LET call == calls[c]
        places == Search(call.namespaces)
        GoOn == calls' = [calls EXCEPT ![c].at = @ + 1]
    IN
    /\ call.stage = "scan"
    /\ \/ call.at = 1 /\ Lost(c)
       \/ call.at \notin DOMAIN places /\ Refused(c, "not_found")
       \/ /\ call.at \in DOMAIN places
          /\ \/ /\ places[call.at] \in controllers
                /\ calls' = [calls EXCEPT ![c].stage = "read_pod"]
                /\ UNCHANGED trouble
             \/ places[call.at] \notin controllers /\ GoOn /\ UNCHANGED trouble
             \/ GoOn /\ trouble' = trouble \cup {c}
          /\ UNCHANGED <<runtimes, present, absent>>
    /\ Keep /\ UNCHANGED <<refers, crd, controllers, removed>>

\* The log or the events of the pod: of a pod that is gone there is no log.
ReadPod(c) ==
    /\ calls[c].stage = "read_pod"
    /\ \/ Refused(c, "done")
       \/ calls[c].vanished /\ Refused(c, "kubernetes_error")
       \/ Lost(c)
    /\ Keep /\ UNCHANGED <<refers, crd, controllers, removed>>

-----------------------------------------------------------------------------
Deleting(c) == calls[c].stage # "idle" /\ calls[c].tool = "delete_runtime"

\* A job is submitted, or is deleted.
JobChanges(j) ==
    /\ \E ref \in Refs :
          /\ (ref = Nowhere) # (refers[j] = Nowhere)
          /\ refers' = [refers EXCEPT ![j] = ref]
    /\ steady' = [c \in Callers |->
                    IF calls[c].stage = "idle" THEN steady[c] ELSE steady[c] \ {j}]
    /\ ever' = [c \in Callers |->
                  IF /\ Deleting(c)
                     /\ refers'[j] = Ref("ClusterTrainingRuntime", calls[c].runtime)
                  THEN ever[c] \cup {j} ELSE ever[c]]
    /\ namesakes' = [c \in Callers |->
                       IF /\ Deleting(c) /\ refers'[j].name = calls[c].runtime
                          /\ refers'[j].kind # "ClusterTrainingRuntime"
                       THEN namesakes[c] \cup {j} ELSE namesakes[c]]
    /\ UNCHANGED <<runtimes, crd, controllers, calls, present, absent, staying, trouble, removed>>

\* Somebody with other means creates, patches or deletes a runtime.
RuntimeChanges(r) ==
    /\ \E state \in RuntimeStates \ {runtimes[r]} :
          /\ state = "patched" => runtimes[r] # "absent"
          /\ Becomes(r, state)
    /\ UNCHANGED <<refers, crd, controllers, calls, steady, ever, namesakes, staying, trouble, removed>>

\* The CRD is installed or removed.
CrdChanges ==
    /\ crd' = ~crd
    /\ UNCHANGED <<runtimes, refers, controllers, calls>>
    /\ UNCHANGED observers

\* A controller pod starts at a place, or goes away.
ControllerChanges(p) ==
    /\ controllers' = IF p \in controllers THEN controllers \ {p} ELSE controllers \cup {p}
    /\ calls' = [c \in Callers |->
                   IF calls[c].stage = "read_pod" /\ Search(calls[c].namespaces)[calls[c].at] = p
                   THEN [calls[c] EXCEPT !.vanished = TRUE] ELSE calls[c]]
    /\ staying' = [c \in Callers |->
                     IF calls[c].stage = "idle" THEN staying[c] ELSE staying[c] \ {p}]
    /\ UNCHANGED <<runtimes, refers, crd, steady, ever, namesakes, present, absent, trouble, removed>>

Next ==
    \/ \E c \in Callers, r \in Runtimes, confirmed \in BOOLEAN :
          \/ DeleteRuntime(c, r, confirmed)
          \/ \E input \in Inputs :
                \/ PatchRuntime(c, r, confirmed, input)
                \/ CreateRuntime(c, r, confirmed, input)
    \/ \E c \in Callers, input \in {"refused", "fine"} :
          \E namespaces \in {Namespaces} \cup {<<Namespaces[i]>> : i \in DOMAIN Namespaces} :
             InspectController(c, input, namespaces)
    \/ \E c \in Callers :
          \/ \E named \in BOOLEAN : InspectCrd(c, named)
          \/ ReadCrd(c) \/ Scan(c) \/ ReadPod(c)
          \/ Patch(c) \/ Create(c) \/ ListDependents(c) \/ Delete(c)
    \/ \E r \in Runtimes : RuntimeChanges(r)
    \/ \E j \in Jobs : JobChanges(j)
    \/ \E p \in Places : ControllerChanges(p)
    \/ CrdChanges

Spec == Init /\ [][Next]_vars

-----------------------------------------------------------------------------
Over(c, tool) == calls[c].stage = "idle" /\ calls[c].tool = tool

\* The jobs that delete_runtime reports, before or after a deletion, referred to
\* the runtime during the call, and a job that did so from its start to its end
\* is among them.  There are two exceptions.  Of a runtimeRef only the name is
\* compared, so jobs are reported too that referred to a TrainingRuntime of their
\* namespace with that name, and do not depend on the ClusterTrainingRuntime.  And
\* if the listing failed, none are reported, as if there were none
\* (trainer/api/platform.py:446-464).
DependentsBetween ==
    \A c \in Callers :
       \/ calls[c].stage \in {"delete", "repeat"}
       \/ Over(c, "delete_runtime") /\ calls[c].reply \in {"preview", "done"}
       => /\ calls[c].dependents \subseteq ever[c] \cup namesakes[c]
          /\ IF calls[c].listed THEN steady[c] \subseteq calls[c].dependents
             ELSE calls[c].dependents = {} /\ c \in trouble

\* delete_runtime says that it deleted the runtime only when it did, and a call
\* that deleted it says otherwise only after a request whose answer was lost:
\* the connection pool repeats it, and the repetition finds nothing
\* (trainer/api/platform.py:483-511, common/utils.py:45).
RemovalTold ==
    \A c \in Callers : Over(c, "delete_runtime") =>
       /\ calls[c].reply = "done" => \E repeated \in BOOLEAN : <<c, repeated>> \in removed
       /\ calls[c].reply = "not_found" => c \in absent
       /\ calls[c].reply # "done" /\ (\E repeated \in BOOLEAN : <<c, repeated>> \in removed)
             => c \in trouble

\* A platform tool answers KUBERNETES_ERROR, which counts against the circuit
\* breaker, only when a request failed, or the API server refused the body, or
\* the new runtime's name was taken, or the controller's pod was gone before it
\* was read: a missing runtime or CRD is never taken for a fault of the cluster
\* (trainer/api/platform.py:160, 338, 502, common/constants.py:41-50).
BlameNeedsTrouble ==
    \A c \in Callers :
       /\ Idle(c) /\ calls[c].reply = "kubernetes_error"
       => \/ c \in trouble
          \/ calls[c].input = "malformed"
          \/ calls[c].tool = "create_runtime" /\ c \in present
          \/ calls[c].tool = "inspect_controller" /\ calls[c].vanished

\* inspect_controller finds no controller only when a listing failed, or when
\* none of the namespaces it was to search had one from the start of the call
\* to its end (trainer/api/platform.py:75-91).
ControllerMissNeedsLoss ==
    \A c \in Callers :
       /\ Over(c, "inspect_controller") /\ calls[c].reply = "not_found"
       /\ c \notin trouble
       => staying[c] \cap ({calls[c].namespaces[i] : i \in DOMAIN calls[c].namespaces} \X Labels) = {}
=============================================================================
