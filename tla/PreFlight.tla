------------------------------ MODULE PreFlight ------------------------------
(***************************************************************************)
(* The planning tools (trainer/api/planning.py) and list_runtimes against  *)
(* a cluster that changes while they read it, and fine_tune's own checks,  *)
(* which decide whether pre_flight's advice is worth anything.             *)
(*                                                                         *)
(* Every request is a step of its own, which may fail.  check_compatibility *)
(* reads the version, the CRD and the nodes' labels; pre_flight goes on    *)
(* with the nodes' GPUs, the model's size and the runtimes, unless there   *)
(* are blockers, and recommends a tool from what it read or, where a read  *)
(* failed, from a default.                                                 *)
(***************************************************************************)
EXTENDS Integers, Sequences

CONSTANTS Callers,   \* worker threads, each with one agent
          Versions,  \* versions of the API server, <<major, minor>>
          MaxGpus,   \* GPUs that the cluster can have
          MaxChanges, \* changes of the cluster during one call, a bound for TLC
          Models,    \* what pre_flight and estimate_resources are asked about
          NoModel    \* pre_flight without a model

ASSUME VersionsAssumption == Versions \subseteq Nat \X Nat
ASSUME MaxGpusAssumption == MaxGpus \in Nat \ {0}
ASSUME MaxChangesAssumption == MaxChanges \in Nat

Quantizations == {"fp32", "bf16", "fp16", "int8", "int4"}

\* The model's parameters in millions and the arguments of the estimate.
ASSUME ModelsAssumption ==
    /\ \A m \in Models : /\ m.params \in Nat \ {0}
                         /\ m.workers \in Int
                         /\ m.batch \in Int
                         /\ m.quantization \in STRING
    /\ NoModel \notin Models

\* Runtime names, one for each way in which the two checks of a name come out:
\* torch-tune itself is as good as every name that starts with torchtune.
Names == {"torchtune", "torch-tune-llama", "torch-distributed"}

Odd == <<>>  \* a version string in which no numbers are found

VARIABLES version,   \* the cluster: version of its API server
          crd,       \* the cluster: the TrainJob CRD
          gpus,      \* the cluster: allocatable GPUs of its nodes
          runtimes,  \* the cluster: names of its runtimes
          sdk,       \* the server: the installed training package
          changes,   \* changes of the cluster since the last call began
          calls      \* per agent: the call, the reads still to make and its results

\* Observers: what was so at some time since the call, or the pre_flight that
\* it follows, began.
VARIABLES held,      \* conditions that held
          failed,    \* conditions that did not hold
          counts,    \* numbers of GPUs
          ever,      \* runtimes that were there
          steady,    \* runtimes that were there all the time
          lost       \* reads that failed

cluster   == <<version, crd, gpus, runtimes, sdk>>
observers == <<held, failed, counts, ever, steady, lost>>
vars == <<version, crd, gpus, runtimes, sdk, changes, calls,
          held, failed, counts, ever, steady, lost>>

Minimum == <<1, 27>>

Conditions == {"version", "crd", "api"}

\* Mutation of AtLeast: major and minor version are compared each by itself.
AtLeastEach(v, minimum) == v[1] >= minimum[1] /\ v[2] >= minimum[2]

\* Versions are compared as tuples.
AtLeast(v, minimum) ==
    v[1] > minimum[1] \/ (v[1] = minimum[1] /\ v[2] >= minimum[2])

NewEnough(v) == v[1] > 1 \/ (v[1] = 1 /\ v[2] >= 27)

\* What a compatible cluster has; a version that cannot be parsed passes.
Met == {x \in Conditions :
          \/ x = "version" /\ (version = Odd \/ NewEnough(version))
          \/ x = "crd" /\ crd # "absent"
          \/ x = "api" /\ crd = "served"}

Reads == {"version", "crd", "sdk", "platform", "gpus", "model", "runtimes", "name"}

Blockers == {"old version", "unreachable", "no crd", "api not served", "sdk"}

Advices == {"none", "fine_tune", "custom without gpus", "custom with gpus",
            "custom on cpus", "no runtimes"}

Replies == {"none", "answered", "refused", "failed", "needs gpus", "wrong runtime", "accepted"}

NoEstimate == [memory |-> 0, count |-> 0, each |-> 0, total |-> 0]

-----------------------------------------------------------------------------
\* Half bytes per weight.
Bits(quantization) ==
    CASE quantization = "fp32" -> 8
      [] quantization \in {"bf16", "fp16"} -> 4
      [] quantization = "int8" -> 2
      [] quantization = "int4" -> 1
      [] OTHER -> 4

\* Sizes are in hundredths of a GB, as the code rounds them (halves upwards here).
Weights(m) == (m.params * Bits(m.quantization) + 10) \div 20
Adapters(m) == (Weights(m) * 5 + 50) \div 100
Activations(m) == (Weights(m) * 3 * (9 + m.batch) + 50) \div 100
Overhead == 200

Needed(m) == Weights(m) + Adapters(m) + Activations(m) + Overhead

\* Whole GBs, the fraction cut off.
Memory(m) == IF Needed(m) \div 100 < 1 THEN 1 ELSE Needed(m) \div 100

\* Mutation of Count: the number of 80 GB GPUs is rounded down.
CountDown(memory) == IF memory <= 80 THEN 1 ELSE IF memory < 160 THEN 2 ELSE memory \div 80

Count(memory) ==
    IF memory <= 80 THEN 1 ELSE IF (memory + 79) \div 80 < 2 THEN 2 ELSE (memory + 79) \div 80

\* The memory of the recommended type of GPU.
Each(memory) ==
    CASE memory <= 8 -> 8
      [] memory > 8 /\ memory <= 16 -> 16
      [] memory > 16 /\ memory <= 24 -> 24
      [] memory > 24 /\ memory <= 40 -> 40
      [] OTHER -> 80

Estimate(m) == [memory |-> Memory(m),
                count  |-> Count(Memory(m)),
                each   |-> Each(Memory(m)),
                total  |-> Count(Memory(m)) * m.workers]

Valid(m) == /\ m.workers >= 1 /\ m.workers <= 100
            /\ m.batch >= 1 /\ m.batch <= 1024
            /\ m.quantization \in Quantizations

-----------------------------------------------------------------------------
\* pre_flight takes every name that starts with torchtune or torch-tune.
Tuned == {"torchtune", "torch-tune-llama"}

HasTorchtune(names) == names \cap Tuned # {}

\* fine_tune takes every name that starts with torchtune, and torch-tune itself.
Accepts(name) == name = "torchtune"

Advice(names, count) ==
    CASE HasTorchtune(names) /\ count > 0 -> "fine_tune"
      [] HasTorchtune(names) /\ count = 0 -> "custom without gpus"
      [] ~HasTorchtune(names) /\ names # {} /\ count > 0 -> "custom with gpus"
      [] ~HasTorchtune(names) /\ names # {} /\ count = 0 -> "custom on cpus"
      [] OTHER -> "no runtimes"

-----------------------------------------------------------------------------
\* A call: the reads still to be made, what was read and what was answered.
NewCall(tool, todo, model) ==
    [tool |-> tool, todo |-> todo, model |-> model, confirmed |-> FALSE,
     runtime |-> "torchtune", follows |-> FALSE, blockers |-> {}, count |-> 0,
     estimate |-> NoEstimate, names |-> {}, advice |-> "none", reply |-> "none"]

Call == [tool : {"check_compatibility", "get_cluster_resources", "estimate_resources",
                 "list_runtimes", "pre_flight", "fine_tune"},
         todo : Seq(Reads),
         model : Models \cup {NoModel},
         confirmed : BOOLEAN,
         runtime : Names,
         follows : BOOLEAN,      \* fine_tune as the last pre_flight advised
         blockers : SUBSET Blockers,
         count : Nat,
         estimate : [memory : Nat, count : Nat, each : Nat, total : Int],
         names : SUBSET Names,
         advice : Advices,
         reply : Replies]

TypeOK ==
    /\ version \in Versions \cup {Odd}
    /\ crd \in {"absent", "unserved", "served"}
    /\ gpus \in 0..MaxGpus
    /\ runtimes \subseteq Names
    /\ sdk \in {"passes", "old", "missing"}
    /\ changes \in 0..MaxChanges
    /\ calls \in [Callers -> Call]
    /\ held \in [Callers -> SUBSET Conditions]
    /\ failed \in [Callers -> SUBSET Conditions]
    /\ counts \in [Callers -> SUBSET (0..MaxGpus)]
    /\ ever \in [Callers -> SUBSET Names]
    /\ steady \in [Callers -> SUBSET Names]
    /\ lost \in [Callers -> SUBSET Reads]

Init ==
    /\ version \in Versions \cup {Odd}
    /\ crd \in {"absent", "unserved", "served"}
    /\ gpus \in 0..MaxGpus
    /\ runtimes \in SUBSET Names
    /\ sdk \in {"passes", "old", "missing"}
    /\ changes = 0
    /\ calls = [c \in Callers |-> NewCall("list_runtimes", <<>>, NoModel)]
    /\ held = [c \in Callers |-> {}]
    /\ failed = [c \in Callers |-> {}]
    /\ counts = [c \in Callers |-> {}]
    /\ ever = [c \in Callers |-> {}]
    /\ steady = [c \in Callers |-> {}]
    /\ lost = [c \in Callers |-> {}]

Idle(c) == calls[c].todo = <<>>

Looks(call, reads) == \E i \in DOMAIN call.todo : call.todo[i] \in reads

\* A new call; the observers of what it reads begin with the cluster as it is.
Start(c, call) ==
    LET checks == Looks(call, {"version"})
        lists  == Looks(call, {"runtimes"})
    IN
    /\ calls' = [calls EXCEPT ![c] = call]
    /\ held' = [held EXCEPT ![c] = IF checks THEN Met ELSE {}]
    /\ failed' = [failed EXCEPT ![c] = IF checks THEN Conditions \ Met ELSE {}]
    /\ counts' = [counts EXCEPT ![c] = IF Looks(call, {"gpus", "name"}) THEN {gpus} ELSE {}]
    /\ ever' = [ever EXCEPT ![c] = IF lists THEN runtimes ELSE {}]
    /\ steady' = [steady EXCEPT ![c] = IF lists THEN runtimes ELSE {}]
    /\ lost' = [lost EXCEPT ![c] = {}]
    /\ changes' = 0
    /\ UNCHANGED cluster

CheckCompatibility(c) ==
    /\ Idle(c)
    /\ Start(c, NewCall("check_compatibility", <<"version", "crd", "sdk", "platform">>, NoModel))

GetClusterResources(c) ==
    Idle(c) /\ Start(c, NewCall("get_cluster_resources", <<"gpus">>, NoModel))

ListRuntimes(c) == Idle(c) /\ Start(c, NewCall("list_runtimes", <<"runtimes">>, NoModel))

\* The arguments are checked before the hub is asked.
EstimateResources(c, m) ==
    LET call == NewCall("estimate_resources", <<"model">>, m) IN
    /\ Idle(c)
    /\ Start(c, IF Valid(m) THEN call ELSE [call EXCEPT !.todo = <<>>, !.reply = "refused"])

PreFlight(c, m) ==
    /\ Idle(c)
    /\ Start(c, NewCall("pre_flight",
                        <<"version", "crd", "sdk", "platform", "gpus">>
                           \o (IF m = NoModel THEN <<>> ELSE <<"model">>) \o <<"runtimes">>, m))

\* Previews look for GPUs, a confirmed call does not.
FineTuning(r, confirmed, follows) ==
    [NewCall("fine_tune", IF confirmed THEN <<"name">> ELSE <<"gpus", "name">>, NoModel)
       EXCEPT !.runtime = r, !.confirmed = confirmed, !.follows = follows]

FineTune(c, r, confirmed) == Idle(c) /\ Start(c, FineTuning(r, confirmed, FALSE))

\* The agent does what pre_flight recommended, with a runtime it listed.
FollowAdvice(c, r, confirmed) ==
    /\ Idle(c) /\ calls[c].tool = "pre_flight" /\ calls[c].advice = "fine_tune"
    /\ r \in calls[c].names /\ HasTorchtune({r})
    /\ calls' = [calls EXCEPT ![c] = FineTuning(r, confirmed, TRUE)]
    /\ lost' = [lost EXCEPT ![c] = {}]
    /\ UNCHANGED cluster /\ UNCHANGED <<changes, held, failed, counts, ever, steady>>

-----------------------------------------------------------------------------
\* The next read of c is x; it leaves the call as given, with one read less.
Step(c, x, call) ==
    /\ ~Idle(c) /\ Head(calls[c].todo) = x
    /\ calls' = [calls EXCEPT ![c] = [call EXCEPT !.todo = Tail(@)]]
    /\ UNCHANGED cluster /\ UNCHANGED <<changes, held, failed, counts, ever, steady>>

Came(c, x, call) == Step(c, x, call) /\ UNCHANGED lost

Failed(c, x, call) == Step(c, x, call) /\ lost' = [lost EXCEPT ![c] = @ \cup {x}]

\* The call is over with read x, whatever was still to be read.
End(c, x, reply) ==
    /\ ~Idle(c) /\ Head(calls[c].todo) = x
    /\ calls' = [calls EXCEPT ![c] = [@ EXCEPT !.todo = <<>>, !.reply = reply]]
    /\ UNCHANGED cluster /\ UNCHANGED <<changes, held, failed, counts, ever, steady>>

Blocked(c, blockers) == [calls[c] EXCEPT !.blockers = @ \cup blockers]

ReadVersion(c) ==
    \/ Came(c, "version", Blocked(c, IF version = Odd \/ AtLeast(version, Minimum)
                                     THEN {} ELSE {"old version"}))
    \/ Failed(c, "version", Blocked(c, {"unreachable"}))

\* Whatever prevents the read counts as the CRD not being installed.
ReadCrd(c) ==
    \/ Came(c, "crd", Blocked(c, CASE crd = "absent" -> {"no crd"}
                                   [] crd = "unserved" -> {"api not served"}
                                   [] OTHER -> {}))
    \/ Failed(c, "crd", Blocked(c, {"no crd"}))

\* Another package of the SDK, or one whose version cannot be compared, passes.
CheckSdk(c) ==
    Came(c, "sdk", Blocked(c, IF sdk \in {"old", "missing"} THEN {"sdk"} ELSE {}))

\* The nodes' labels, which only the wording depends on, whether they can be
\* read or not.  check_compatibility ends here, and pre_flight with blockers.
DetectPlatform(c) ==
    LET call == calls[c] IN
    \/ /\ call.tool = "pre_flight" /\ call.blockers = {}
       /\ Came(c, "platform", call)
    \/ /\ call.tool = "check_compatibility" \/ call.blockers # {}
       /\ End(c, "platform", "answered") /\ UNCHANGED lost

\* Mutation of WithoutCount: pre_flight, too, goes on as if there were GPUs.
WithoutCountHopeful(tool) == IF tool = "pre_flight" THEN 1 ELSE -1

\* Mutation of WithoutCount: no answer about GPUs always stands for none.
WithoutCountNone(tool) == 0

\* What a tool takes the number of GPUs for when it could not read it.
WithoutCount(tool) == IF tool = "pre_flight" THEN 0 ELSE -1

ReadGpus(c) ==
    LET call == calls[c]
        tool == call.tool
    IN
    \/ /\ tool = "pre_flight"
       /\ \/ Came(c, "gpus", [call EXCEPT !.count = gpus])
          \/ Failed(c, "gpus", [call EXCEPT !.count = WithoutCount(tool)])
    \/ /\ tool = "get_cluster_resources"
       /\ \/ Came(c, "gpus", [call EXCEPT !.count = gpus, !.reply = "answered"])
          \/ Failed(c, "gpus", [call EXCEPT !.reply = "failed"])
    \/ /\ tool = "fine_tune"
       /\ \/ gpus # 0 /\ Came(c, "gpus", call)
          \/ gpus = 0 /\ End(c, "gpus", "needs gpus") /\ UNCHANGED lost
          \/ WithoutCount(tool) # 0 /\ Failed(c, "gpus", call)
          \/ /\ WithoutCount(tool) = 0
             /\ End(c, "gpus", "needs gpus")
             /\ lost' = [lost EXCEPT ![c] = @ \cup {"gpus"}]

\* The hub is asked for the model's size, unless the arguments are refused; it
\* may not answer, know the model or tell the size.
AskHub(c) ==
    LET call == calls[c]
        Told(reply) == [call EXCEPT !.reply = IF call.tool = "pre_flight" THEN "none" ELSE reply]
    IN
    /\ ~Idle(c) /\ Head(call.todo) = "model"
    /\ \/ /\ Valid(call.model)
          /\ Came(c, "model", [Told("answered") EXCEPT !.estimate = Estimate(call.model)])
       \/ Valid(call.model) /\ Came(c, "model", Told("failed"))
       \/ ~Valid(call.model) /\ Came(c, "model", Told("refused"))

\* The last read of pre_flight, which then recommends a tool.
ReadRuntimes(c) ==
    LET call == calls[c]
        Advised(names) == [call EXCEPT !.names = names, !.reply = "answered",
                                       !.advice = Advice(names, call.count)]
    IN
    \/ /\ call.tool = "pre_flight"
       /\ \/ Came(c, "runtimes", Advised(runtimes))
          \/ Failed(c, "runtimes", Advised({}))
    \/ /\ call.tool = "list_runtimes"
       /\ \/ Came(c, "runtimes", [call EXCEPT !.names = runtimes, !.reply = "answered"])
          \/ Failed(c, "runtimes", [call EXCEPT !.reply = "failed"])

\* fine_tune's check of the runtime's name, a local one.
CheckName(c) ==
    Came(c, "name", [calls[c] EXCEPT !.reply = IF Accepts(calls[c].runtime) THEN "accepted"
                                                ELSE "wrong runtime"])

-----------------------------------------------------------------------------
\* A call is under way, or the agent may still do what it was advised.
Watching(c) == ~Idle(c) \/ calls[c].advice = "fine_tune"

\* The cluster changes between two reads: the observers take note, each
\* as long as there is something left to read that it is about.  A change
\* that no call can notice is left to the initial states, which have them all.
Observed ==
    /\ \E c \in Callers : Watching(c)
    /\ changes < MaxChanges /\ changes' = changes + 1
    /\ held' = [c \in Callers |-> IF Looks(calls[c], {"version", "crd"})
                                  THEN held[c] \cup Met' ELSE held[c]]
    /\ failed' = [c \in Callers |-> IF Looks(calls[c], {"version", "crd"})
                                    THEN failed[c] \cup (Conditions \ Met') ELSE failed[c]]
    /\ counts' = [c \in Callers |-> IF Watching(c) /\ counts[c] # {} THEN counts[c] \cup {gpus'} ELSE counts[c]]
    /\ ever' = [c \in Callers |-> IF Looks(calls[c], {"runtimes"})
                                  THEN ever[c] \cup runtimes' ELSE ever[c]]
    /\ steady' = [c \in Callers |-> IF Looks(calls[c], {"runtimes"})
                                    THEN steady[c] \cap runtimes' ELSE steady[c]]
    /\ UNCHANGED <<calls, lost>>

\* The API server is upgraded or replaced.
Upgrade ==
    /\ version' \in (Versions \cup {Odd}) \ {version}
    /\ UNCHANGED <<crd, gpus, runtimes, sdk>>
    /\ Observed

\* The Trainer operator is installed, changed or removed.
Operate ==
    /\ crd' \in {"absent", "unserved", "served"} \ {crd}
    /\ UNCHANGED <<version, gpus, runtimes, sdk>>
    /\ Observed

\* Nodes with GPUs join or leave.
Scale ==
    /\ gpus' \in (0..MaxGpus) \ {gpus}
    /\ UNCHANGED <<version, crd, runtimes, sdk>>
    /\ Observed

\* A runtime is created or deleted.
Install(r) ==
    /\ runtimes' = IF r \in runtimes THEN runtimes \ {r} ELSE runtimes \cup {r}
    /\ UNCHANGED <<version, crd, gpus, sdk>>
    /\ Observed

Work(c) ==
    \/ ReadVersion(c) \/ ReadCrd(c) \/ CheckSdk(c) \/ DetectPlatform(c)
    \/ ReadGpus(c) \/ AskHub(c) \/ ReadRuntimes(c) \/ CheckName(c)

Next ==
    \/ \E c \in Callers :
          \/ Work(c)
          \/ CheckCompatibility(c) \/ GetClusterResources(c) \/ ListRuntimes(c)
          \/ \E m \in Models : EstimateResources(c, m)
          \/ \E m \in Models \cup {NoModel} : PreFlight(c, m)
          \/ \E r \in Names, confirmed \in BOOLEAN :
                FineTune(c, r, confirmed) \/ FollowAdvice(c, r, confirmed)
    \/ Upgrade \/ Operate \/ Scale
    \/ \E r \in Names : Install(r)

Spec == Init /\ [][Next]_vars

-----------------------------------------------------------------------------
\* A blocker has its cause in what the cluster was at some time of the check, or
\* in a read that failed; and an environment is called compatible only when
\* every condition held at some time of it (trainer/api/planning.py:164-280).
BlockersNeedCause ==
    \A c \in Callers :
       LET call == calls[c] IN
       /\ "old version" \in call.blockers => "version" \in failed[c]
       /\ "unreachable" \in call.blockers => "version" \in lost[c]
       /\ "no crd" \in call.blockers => "crd" \in failed[c] \cup lost[c]
       /\ "api not served" \in call.blockers => "api" \in failed[c]
       /\ /\ call.tool \in {"check_compatibility", "pre_flight"}
          /\ call.reply = "answered" /\ call.blockers = {}
          => held[c] = Conditions /\ sdk \notin {"old", "missing"}

\* The tool that pre_flight recommends fits what the cluster was while it
\* looked: fine_tune is recommended only if there were GPUs and a runtime of
\* torchtune, and it is advised against only if at some time there were none or
\* the read that should have told failed (trainer/api/planning.py:615-675).
AdviceGrounded ==
    \A c \in Callers :
       LET advice == calls[c].advice
           NoGpus == 0 \in counts[c] \/ "gpus" \in lost[c]
           SomeGpus == counts[c] # {0}
       IN  calls[c].tool = "pre_flight" =>
             /\ advice = "fine_tune" => SomeGpus /\ ever[c] \cap Tuned # {}
             /\ advice = "custom without gpus" => NoGpus /\ ever[c] \cap Tuned # {}
             /\ advice = "custom with gpus" => SomeGpus /\ ever[c] # {} /\ steady[c] \cap Tuned = {}
             /\ advice = "custom on cpus" => NoGpus /\ ever[c] # {} /\ steady[c] \cap Tuned = {}
             /\ advice = "no runtimes" => steady[c] = {} \/ "runtimes" \in lost[c]

\* An agent that does what pre_flight advised is not refused by fine_tune,
\* except that fine_tune knows only one runtime of the spelling torch-tune, and
\* except when the GPUs were gone at some time since; nothing is accepted on a
\* cluster that never had GPUs unless it was confirmed at once or the read
\* failed (trainer/api/planning.py:640-650, training.py:550-593, 894).
AdviceTaken ==
    \A c \in Callers :
       LET call == calls[c] IN
       call.tool = "fine_tune" =>
         /\ call.follows /\ call.reply = "wrong runtime" => call.runtime = "torch-tune-llama"
         /\ call.reply = "needs gpus" => 0 \in counts[c]
         /\ call.reply = "accepted" /\ counts[c] = {0} => call.confirmed \/ "gpus" \in lost[c]

\* The GPUs of an estimate hold what the model was reckoned to need, but for the
\* fraction of a GB that is cut off; no GPU of several is superfluous; and an
\* estimate is made only of arguments that were accepted
\* (trainer/api/planning.py:98-138, 478-494).
EstimateFits ==
    \A c \in Callers :
       LET e == calls[c].estimate
           m == calls[c].model
       IN  e # NoEstimate =>
             /\ m # NoModel /\ Valid(m)
             /\ Needed(m) < 100 * (e.count * e.each + 1)
             /\ e.count > 1 => e.each = 80 /\ (e.count - 1) * e.each < e.memory
             /\ e.total >= e.count
=============================================================================
