----------------------------- MODULE PipListPod -----------------------------
(***************************************************************************)
(* get_runtime(name, include_packages=True) of trainer/api/discovery.py:   *)
(* it reads the runtime, creates a pod from the runtime's image, polls the *)
(* pod until it ended or the time is up, reads its log and, in a finally   *)
(* block, deletes it.                                                      *)
(*                                                                         *)
(* Every request to the Kubernetes API is a step.  It may fail, and a      *)
(* request that changes something may have done so although it failed (the *)
(* answer is lost, or comes too late).  The server may stop at any moment. *)
(***************************************************************************)
EXTENDS Integers

CONSTANTS Calls,     \* calls of get_runtime, each made once; each has its own pod
          PollLimit  \* poll intervals that fit in _PACKAGES_POD_TIMEOUT

ASSUME PollAssumption == PollLimit \in Nat \ {0}

VARIABLES pc,       \* where each call is
          waited,   \* poll intervals since its pod was created
          phase,    \* the phase it read last
          reply,    \* what it answered, or will answer after the finally block
          pod,      \* the cluster: its pod
          runtime   \* the cluster: is the ClusterTrainingRuntime there?

\* Observers.
VARIABLES hidden,    \* calls with a create or delete that failed for the client
          succeeded, \* calls whose pod ended well
          missing    \* calls during which their runtime or pod was not there

podVars == <<pc, waited, phase, reply, pod, runtime, hidden, succeeded, missing>>

Ended == {"Succeeded", "Failed"}
Phases == {"Pending", "Running"} \cup Ended

PodTypeOK ==
    /\ pc \in [Calls -> {"start", "runtime", "image", "create", "poll", "logs", "cleanup",
                         "over", "lost"}]
    /\ waited \in [Calls -> 0..PollLimit]
    /\ phase \in [Calls -> {"None"} \cup Phases]
    /\ reply \in [Calls -> {"none", "packages", "packages_error", "not_found", "sdk_error"}]
    /\ pod \in [Calls -> {"gone"} \cup Phases]
    /\ runtime \in BOOLEAN
    /\ hidden \subseteq Calls /\ succeeded \subseteq Calls /\ missing \subseteq Calls

PodInit ==
    /\ pc = [c \in Calls |-> "start"]
    /\ waited = [c \in Calls |-> 0]
    /\ phase = [c \in Calls |-> "None"]
    /\ reply = [c \in Calls |-> "none"]
    /\ pod = [c \in Calls |-> "gone"]
    /\ runtime \in BOOLEAN
    /\ hidden = {} /\ succeeded = {} /\ missing = {}

-----------------------------------------------------------------------------
GoTo(c, where) == pc' = [pc EXCEPT ![c] = where]

\* The call ends with an answer; before the pod exists there is no cleanup.
Conclude(c, where, answer) == GoTo(c, where) /\ reply' = [reply EXCEPT ![c] = answer]

\* Mutation of Raise: an error is taken for a 404 by its wording.
RaiseByWording(c, where, is404) == Conclude(c, where, "not_found")

\* An exception of a request, as get_runtime answers it: any 404 is taken for
\* the runtime's.
Raise(c, where, is404) == Conclude(c, where, IF is404 THEN "not_found" ELSE "sdk_error")

Begin(c) ==
    /\ pc[c] = "start"
    /\ GoTo(c, "runtime")
    /\ missing' = IF runtime THEN missing ELSE missing \cup {c}
    /\ UNCHANGED <<waited, phase, reply, pod, runtime, hidden, succeeded>>

\* client.get_runtime(), then the read of _get_runtime_image(), which may find
\* no image in what it got; the policy may also not allow the pod's namespace.
ReadRuntime(c) ==
    /\ pc[c] \in {"runtime", "image"}
    /\ \/ /\ runtime
          /\ \/ GoTo(c, IF pc[c] = "runtime" THEN "image" ELSE "create") /\ UNCHANGED reply
             \/ pc[c] = "image" /\ Conclude(c, "over", "packages_error")
       \/ ~runtime /\ Raise(c, "over", TRUE)
       \/ Raise(c, "over", FALSE)
    /\ UNCHANGED <<waited, phase, pod, runtime, hidden, succeeded, missing>>

\* create_namespaced_pod(); its failure is answered before the try block.
Create(c) ==
    /\ pc[c] = "create"
    /\ \/ /\ pod' = [pod EXCEPT ![c] = "Pending"]
          /\ GoTo(c, "poll")
          /\ UNCHANGED <<reply, hidden>>
       \/ /\ pod' \in {pod, [pod EXCEPT ![c] = "Pending"]}
          /\ Conclude(c, "over", "packages_error")
          /\ hidden' = hidden \cup {c}
    /\ UNCHANGED <<waited, phase, runtime, succeeded, missing>>

\* Mutation of AfterTurn: the deadline moves on with every other turn.
AfterTurnExtended(w) == {IF w = 0 THEN 1 ELSE 0}

\* A turn of the polling loop takes an interval or, when the API is slow, more;
\* all that counts is whether the deadline was reached.
AfterTurn(w) == (w + 1)..PollLimit

\* Mutation of Interrupted: an exception leaves without the finally block.
InterruptedAtOnce == "over"

\* Where an exception in the try block leads.
Interrupted == "cleanup"

\* The polling loop: a read, and a sleep unless the pod ended.
Poll(c) ==
    /\ pc[c] = "poll"
    /\ \/ /\ waited[c] < PollLimit /\ pod[c] # "gone"
          /\ phase' = [phase EXCEPT ![c] = pod[c]]
          /\ IF pod[c] \in Ended
             THEN GoTo(c, "logs") /\ UNCHANGED waited
             ELSE /\ \E w \in AfterTurn(waited[c]) : waited' = [waited EXCEPT ![c] = w]
                  /\ UNCHANGED pc
          /\ UNCHANGED reply
       \/ /\ waited[c] < PollLimit
          /\ \E is404 \in {FALSE, pod[c] = "gone"} : Raise(c, Interrupted, is404)
          /\ UNCHANGED <<waited, phase>>
       \/ /\ waited[c] >= PollLimit
          /\ Conclude(c, "cleanup", "packages_error")
          /\ UNCHANGED <<waited, phase>>
    /\ UNCHANGED <<pod, runtime, hidden, succeeded, missing>>

\* Mutation of LogAnswer: a log lists packages however the pod ended.
LogAnswerOfAny(ended) == "packages"

LogAnswer(ended) == IF ended = "Failed" THEN "packages_error" ELSE "packages"

\* read_namespaced_pod_log()
ReadLogs(c) ==
    /\ pc[c] = "logs"
    /\ \/ pod[c] # "gone" /\ Conclude(c, "cleanup", LogAnswer(phase[c]))
       \/ pod[c] = "gone" /\ Raise(c, Interrupted, TRUE)
       \/ Raise(c, Interrupted, FALSE)
    /\ UNCHANGED <<waited, phase, pod, runtime, hidden, succeeded, missing>>

\* finally: delete_namespaced_pod(), whose failure is only logged.
Cleanup(c) ==
    /\ pc[c] = "cleanup"
    /\ \/ pod' = [pod EXCEPT ![c] = "gone"] /\ UNCHANGED hidden
       \/ UNCHANGED pod /\ hidden' = hidden \cup {c}
    /\ GoTo(c, "over")
    /\ UNCHANGED <<waited, phase, reply, runtime, succeeded, missing>>

Step(c) == Begin(c) \/ ReadRuntime(c) \/ Create(c) \/ Poll(c) \/ ReadLogs(c) \/ Cleanup(c)

-----------------------------------------------------------------------------
\* The kubelet runs the pod; somebody may remove it (eviction, an admin).
PodChanges(c) ==
    /\ \/ pod[c] = "Pending" /\ pod' = [pod EXCEPT ![c] = "Running"]
       \/ pod[c] = "Running" /\ pod' \in {[pod EXCEPT ![c] = p] : p \in Ended}
       \/ pod[c] # "gone" /\ pod' = [pod EXCEPT ![c] = "gone"]
    /\ succeeded' = IF pod'[c] = "Succeeded" THEN succeeded \cup {c} ELSE succeeded
    /\ missing' = IF pod'[c] = "gone" THEN missing \cup {c} ELSE missing
    /\ UNCHANGED <<pc, waited, phase, reply, runtime, hidden>>

\* An admin deletes or creates the runtime.
RuntimeChanges ==
    /\ runtime' = ~runtime
    /\ missing' = IF runtime' THEN missing
                  ELSE missing \cup {c \in Calls : pc[c] \notin {"start", "over", "lost"}}
    /\ UNCHANGED <<pc, waited, phase, reply, pod, hidden, succeeded>>

\* The server stops; what is under way is lost, finally blocks included.
Crash ==
    /\ pc' = [c \in Calls |-> IF pc[c] \in {"start", "over"} THEN pc[c] ELSE "lost"]
    /\ pc' # pc
    /\ UNCHANGED <<waited, phase, reply, pod, runtime, hidden, succeeded, missing>>

PodNext == Crash \/ RuntimeChanges \/ \E c \in Calls : Step(c) \/ PodChanges(c)

PodSpec == PodInit /\ [][PodNext]_podVars

\* Requests return and the clock of the polling loop advances.
FairPodSpec == PodSpec /\ \A c \in Calls : WF_podVars(Step(c))

-----------------------------------------------------------------------------
\* A call that is over leaves its pod behind only if its create or its delete
\* failed: no phase, exception or timeout skips the cleanup.
LeakNeedsFailure == \A c \in Calls : pc[c] = "over" /\ pod[c] # "gone" => c \in hidden

\* Packages are reported only from a pod that ended well.
PackagesFromSuccess == \A c \in Calls : reply[c] = "packages" => c \in succeeded

\* A call answers RESOURCE_NOT_FOUND only if what it needs went away: not for
\* any error that merely looks like it.  What is gone may be the pod, though the
\* docstring (discovery.py:367) and the message speak of the runtime.
NotFoundNeedsLoss == \A c \in Calls : reply[c] = "not_found" => c \in missing

\* Every call is answered, or lost with the server, though the pod may never
\* start.
AllAnswered == \A c \in Calls : <>(pc[c] \in {"over", "lost"})
=============================================================================
