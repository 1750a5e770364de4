------------------------------ MODULE JobWatch ------------------------------
(***************************************************************************)
(* The tools that look at training jobs (trainer/api/monitoring.py, and    *)
(* list_training_jobs and get_training_job of trainer/api/discovery.py)    *)
(* while the job goes on: it starts, ends, is suspended, deleted and made  *)
(* anew, and its pods write, crash, restart and vanish.                    *)
(*                                                                         *)
(* One job stands for all, each request is a step and may fail.            *)
(* get_training_logs reads the pod of a step and, when that has written    *)
(* nothing, lists the pods and reads what their previous containers wrote, *)
(* passing over whatever fails.  wait_for_training polls in the SDK.       *)
(***************************************************************************)
EXTENDS Integers, FiniteSets

CONSTANTS Callers,     \* worker threads
          Wanted,      \* sets of statuses that callers wait or ask for
          MaxPolls,    \* polls that a timeout leaves room for
          MaxChanges   \* changes of the job during one call, a bound for TLC

Statuses == {"Created", "Running", "Complete", "Failed", "Suspended"}

ASSUME WantedAssumption == Wanted \subseteq SUBSET (Statuses \cup {"Succeeded"})
ASSUME MaxPollsAssumption == MaxPolls \in Nat
ASSUME MaxChangesAssumption == MaxChanges \in Nat

Pods == {"node-0", "node-1"}  \* replicated job "node", job indexes 0 and 1

Steps == Pods \cup {"node"}

\* What a container wrote: nothing, something, or a known sign of failure too.
Outputs == {"silent", "plain", "error"}

VARIABLES job,      \* the cluster: the job's status, or absent
          now,      \* the cluster: what each pod's container wrote
          before,   \* the cluster: what the container before it wrote
          changes,  \* changes of the cluster since the last call began
          calls     \* per thread: its call, how far it is and what was answered

\* Observers: what was so at some time since the call began.
VARIABLES seen,     \* the job's statuses
          mute,     \* containers that had written nothing, or were not there
          faulty,   \* containers with a sign of failure
          lost      \* calls with a request that failed

cluster   == <<job, now, before>>
observers == <<seen, mute, faulty, lost>>
vars == <<job, now, before, changes, calls, seen, mute, faulty, lost>>

Containers == Pods \X {"now", "before"}

Tools == {"get_training_logs", "get_training_events", "wait_for_training",
          "list_training_jobs", "get_training_job"}

\* Arguments that the tool refuses at once (a namespace, a limit, a timeout), that
\* are refused only later (by the SDK a status it does not know or a runtime that
\* is not there; by the fallback to previous logs a name that is too long or has a
\* dot in it, which the name of a job may all the same), or none.
Inputs == {"refused", "rejected", "fine"}

Replies == {"none", "refused", "done", "no streaming", "timeout", "not_found", "sdk_error"}

Call == [stage : {"idle", "read", "pods", "previous", "poll"},
         tool : Tools,
         input : Inputs,
         wanted : SUBSET (Statuses \cup {"Succeeded"}),
         polls : 0..MaxPolls,
         left : 0..MaxPolls,
         step : Steps,
         pods : SUBSET Pods,          \* pods whose previous log is still to be read
         lines : SUBSET Containers,   \* containers whose output was gathered
         hint : BOOLEAN,              \* a sign of failure was found in it
         status : Statuses \cup {"absent"},
         reply : Replies]

TypeOK ==
    /\ job \in Statuses \cup {"absent"}
    /\ now \in [Pods -> Outputs]
    /\ before \in [Pods -> Outputs]
    /\ changes \in 0..MaxChanges
    /\ calls \in [Callers -> Call]
    /\ seen \in [Callers -> SUBSET (Statuses \cup {"absent"})]
    /\ mute \in [Callers -> SUBSET Containers]
    /\ faulty \in [Callers -> SUBSET Containers]
    /\ lost \subseteq Callers

NewCall(tool, input) ==
    [stage |-> "idle", tool |-> tool, input |-> input, wanted |-> {}, polls |-> 0,
     left |-> 0, step |-> "node-0", pods |-> {}, lines |-> {}, hint |-> FALSE,
     status |-> "absent", reply |-> "none"]

Wrote(container) == IF container[2] = "now" THEN now[container[1]] ELSE before[container[1]]

Mute == {x \in Containers : Wrote(x) = "silent"}
Faulty == {x \in Containers : Wrote(x) = "error"}

\* Pods are there, and have written, only of a job that was started.
Started == {"Running", "Complete", "Failed"}

Silence == [p \in Pods |-> "silent"]

Init ==
    /\ job \in Statuses \cup {"absent"}
    /\ now \in [Pods -> Outputs]
    /\ before \in [Pods -> Outputs]
    /\ job \notin Started => now = Silence /\ before = Silence
    /\ changes = 0
    /\ calls = [c \in Callers |-> NewCall("get_training_job", "fine")]
    /\ seen = [c \in Callers |-> {}]
    /\ mute = [c \in Callers |-> {}]
    /\ faulty = [c \in Callers |-> {}]
    /\ lost = {}

-----------------------------------------------------------------------------
Idle(c) == calls[c].stage = "idle"

\* A new call; the observers that its tool is about begin with what is so now.
Start(c, call) ==
    LET logs == call.tool = "get_training_logs" IN
    /\ calls' = [calls EXCEPT ![c] = IF call.input = "refused" THEN [call EXCEPT !.reply = "refused"]
                                                                ELSE call]
    /\ seen' = [seen EXCEPT ![c] = {job}]
    /\ mute' = [mute EXCEPT ![c] = IF logs THEN Mute ELSE {}]
    /\ faulty' = [faulty EXCEPT ![c] = IF logs THEN Faulty ELSE {}]
    /\ lost' = lost \ {c}
    /\ changes' = 0
    /\ UNCHANGED cluster

\* The stage in which a call with this input begins.
First(input, stage) == IF input = "refused" THEN "idle" ELSE stage

GetTrainingLogs(c, input, step, follow) ==
    LET call == [NewCall("get_training_logs", input) EXCEPT !.step = step] IN
    /\ Idle(c)
    /\ Start(c, IF follow THEN [call EXCEPT !.reply = "no streaming"]
                ELSE [call EXCEPT !.stage = First(input, "read")])

\* The job is read with its events, or alone.
GetTrainingEvents(c, input) ==
    /\ Idle(c)
    /\ input # "rejected"
    /\ Start(c, [NewCall("get_training_events", input) EXCEPT !.stage = First(input, "read")])

GetTrainingJob(c, input) ==
    /\ Idle(c)
    /\ input # "rejected"
    /\ Start(c, [NewCall("get_training_job", input) EXCEPT !.stage = First(input, "read")])

\* Without a status all jobs are listed.
ListTrainingJobs(c, input, wanted) ==
    /\ Idle(c)
    /\ Cardinality(wanted) <= 1
    /\ Start(c, [NewCall("list_training_jobs", input) EXCEPT !.stage = First(input, "read"),
                                                             !.wanted = wanted])

WaitForTraining(c, input, wanted, polls) ==
    /\ Idle(c)
    /\ wanted # {}
    /\ Start(c, [NewCall("wait_for_training", input) EXCEPT
                   !.stage = First(input, "poll"), !.wanted = wanted,
                   !.polls = polls, !.left = polls])

-----------------------------------------------------------------------------
Set(c, call) ==
    /\ calls' = [calls EXCEPT ![c] = call]
    /\ UNCHANGED cluster /\ UNCHANGED <<changes, seen, mute, faulty>>

Answered(call, reply) == [call EXCEPT !.stage = "idle", !.reply = reply]

\* A request that is answered, or whose answer does not come.
Came(c, call) == Set(c, call) /\ UNCHANGED lost
Failed(c) == Set(c, Answered(calls[c], "sdk_error")) /\ lost' = lost \cup {c}

\* Mutation of Missing: a missing job is an error of the SDK like any other.
MissingUntold(tool) == "sdk_error"

\* What a tool answers when there is no such job.
Missing(tool) ==
    IF tool \in {"get_training_job", "get_training_logs"} THEN "not_found" ELSE "sdk_error"

\* Mutation of Meant: the statuses are taken as they are given.
MeantLiterally(wanted) == wanted

\* Succeeded is another name of Complete.
Meant(wanted) == {IF s = "Succeeded" THEN "Complete" ELSE s : s \in wanted}

\* get_training_job and get_training_events, of which only the first tells the status.
ReadJob(c) ==
    LET call == calls[c] IN
    /\ call.stage = "read" /\ call.tool \in {"get_training_job", "get_training_events"}
    /\ \/ job # "absent" /\ Came(c, [Answered(call, "done") EXCEPT !.status = job])
       \/ job = "absent" /\ Came(c, Answered(call, Missing(call.tool)))
       \/ Failed(c)

\* The runtime that the caller named, if any, and then the jobs, by status.
ReadList(c) ==
    LET call == calls[c] IN
    /\ call.stage = "read" /\ call.tool = "list_training_jobs"
    /\ \/ /\ call.input = "fine"
          /\ Came(c, [Answered(call, "done") EXCEPT
                        !.status = IF call.wanted = {} \/ job \in Meant(call.wanted)
                                   THEN job ELSE "absent"])
       \/ call.input = "rejected" /\ Came(c, Answered(call, "sdk_error"))
       \/ Failed(c)

\* wait_for_job_status of the SDK, one poll after another; whatever it raises
\* but its TimeoutError is an error of the SDK.
Poll(c) ==
    LET call == calls[c]
        Raised == Came(c, Answered(call, "sdk_error"))
    IN
    /\ call.stage = "poll"
    /\ \/ call.input = "rejected" /\ Raised
       \/ /\ call.input = "fine" /\ call.left = 0
          /\ Came(c, Answered(call, "timeout"))
       \/ /\ call.input = "fine" /\ call.left > 0
          /\ \/ /\ job \in Meant(call.wanted)
                /\ Came(c, [Answered(call, "done") EXCEPT !.status = job])
             \/ /\ job = "absent" \/ (job = "Failed" /\ job \notin Meant(call.wanted))
                /\ Raised
             \/ /\ job \notin Meant(call.wanted) \cup {"absent", "Failed"}
                /\ Came(c, [call EXCEPT !.left = @ - 1])
             \/ Failed(c)

-----------------------------------------------------------------------------
\* The logs are together, and searched for signs of failure.
Gathered(call, lines, faults) ==
    [Answered(call, "done") EXCEPT !.lines = lines, !.hint = lines \cap faults # {}]

\* The SDK reads the pod of the step, which it knows by its index; a job without
\* such a pod, or with one that waits or writes nothing, has no lines.
ReadLogs(c) ==
    LET call == calls[c]
        lines == {x \in Containers \ Mute : x = <<call.step, "now">>}
    IN
    /\ call.stage = "read" /\ call.tool = "get_training_logs"
    /\ \/ job = "absent" /\ Came(c, Answered(call, Missing(call.tool)))
       \/ job # "absent" /\ lines # {} /\ Came(c, Gathered(call, lines, Faulty))
       \/ job # "absent" /\ lines = {} /\ Came(c, [call EXCEPT !.stage = "pods"])
       \/ Failed(c)

\* Mutation of IsPodForStep: the pod's index is not looked at.
IsPodForStepJob(p, step) == step = "node"

\* A pod belongs to the step named by its replicated job, with its index or without.
IsPodForStep(p, step) == step = "node" \/ step = p

\* The pods of the job are listed, unless its name is refused; if anything fails
\* there is nothing more to gather.
ListPods(c) ==
    LET call == calls[c] IN
    /\ call.stage = "pods"
    /\ \/ call.input = "rejected" /\ Came(c, Answered(call, "refused"))
       \/ /\ call.input = "fine"
          /\ Came(c, [call EXCEPT !.stage = "previous",
                                  !.pods = {p \in Pods : IsPodForStep(p, call.step)}])
       \/ Set(c, Gathered(call, {}, Faulty)) /\ lost' = lost \cup {c}

\* What the previous container of one pod wrote is added, unless it cannot be
\* read; signs of failure are marked as they are read.
ReadPrevious(c) ==
    LET call == calls[c] IN
    /\ call.stage = "previous"
    /\ \/ /\ call.pods = {}
          /\ Came(c, Answered(call, "done"))
       \/ \E p \in call.pods :
             \/ Came(c, [call EXCEPT !.pods = @ \ {p},
                           !.lines = IF before[p] = "silent" THEN @ ELSE @ \cup {<<p, "before">>},
                           !.hint = @ \/ before[p] = "error"])
             \/ /\ Set(c, [call EXCEPT !.pods = @ \ {p}])
                /\ lost' = lost \cup {c}

-----------------------------------------------------------------------------
\* The job changes while a call is under way: the observers take note.  Changes
\* that no call can notice are left to the initial states, which have them all.
Observed ==
    /\ \E c \in Callers : ~Idle(c)
    /\ changes < MaxChanges /\ changes' = changes + 1
    /\ seen' = [c \in Callers |-> IF Idle(c) THEN seen[c] ELSE seen[c] \cup {job'}]
    /\ mute' = [c \in Callers |->
                  IF Idle(c) \/ calls[c].tool # "get_training_logs" THEN mute[c]
                  ELSE mute[c] \cup Mute']
    /\ faulty' = [c \in Callers |->
                    IF Idle(c) \/ calls[c].tool # "get_training_logs" THEN faulty[c]
                    ELSE faulty[c] \cup Faulty']
    /\ UNCHANGED <<calls, lost>>

\* The job is created, or goes on; its pods stay.
Progress ==
    /\ \/ job = "absent" /\ job' = "Created"
       \/ job \in {"Created", "Suspended"} /\ job' = "Running"
       \/ job = "Running" /\ job' \in {"Complete", "Failed"}
    /\ UNCHANGED <<now, before>>
    /\ Observed

\* The job is suspended or deleted, and its pods with it.
Halt ==
    /\ job # "absent"
    /\ job' \in {"Suspended", "absent"} \ {job}
    /\ now' = Silence /\ before' = Silence
    /\ Observed

\* A pod writes a line.
Write(p) ==
    /\ job = "Running" /\ now[p] # "error"
    /\ \E output \in {"plain", "error"} \ {now[p]} : now' = [now EXCEPT ![p] = output]
    /\ UNCHANGED <<job, before>>
    /\ Observed

\* A pod's container ends and is started again.
Restart(p) ==
    /\ job = "Running"
    /\ before' = [before EXCEPT ![p] = now[p]]
    /\ now' = [now EXCEPT ![p] = "silent"]
    /\ UNCHANGED job
    /\ Observed

\* A pod is replaced or cleaned up, with all its logs.
Vanish(p) ==
    /\ job \in Started
    /\ now' = [now EXCEPT ![p] = "silent"]
    /\ before' = [before EXCEPT ![p] = "silent"]
    /\ UNCHANGED job
    /\ Observed

Next ==
    \/ \E c \in Callers, input \in Inputs :
          \/ GetTrainingEvents(c, input) \/ GetTrainingJob(c, input)
          \/ \E step \in Steps, follow \in BOOLEAN : GetTrainingLogs(c, input, step, follow)
          \/ \E wanted \in Wanted :
                \/ ListTrainingJobs(c, input, wanted)
                \/ \E polls \in 0..MaxPolls : WaitForTraining(c, input, wanted, polls)
    \/ \E c \in Callers :
          \/ ReadJob(c) \/ ReadList(c) \/ Poll(c)
          \/ ReadLogs(c) \/ ListPods(c) \/ ReadPrevious(c)
    \/ Progress \/ Halt
    \/ \E p \in Pods : Write(p) \/ Restart(p) \/ Vanish(p)

Spec == Init /\ [][Next]_vars

-----------------------------------------------------------------------------
\* A tool answers SDK_ERROR, which counts against the circuit breaker, only when
\* a request failed, or for what is the caller's or the job's own fault in these
\* cases: wait_for_training of a job that is missing or failed, or with
\* arguments that the SDK rejects; get_training_events of a missing job; a
\* listing by a runtime that is not there (trainer/api/monitoring.py:306, 394,
\* trainer/api/discovery.py:116, common/constants.py:41-50).
CountedNeedsCause ==
    \A c \in Callers :
       LET call == calls[c] IN
       Idle(c) /\ call.reply = "sdk_error" =>
         \/ c \in lost
         \/ /\ call.tool = "wait_for_training"
            /\ \/ call.input = "rejected"
               \/ "absent" \in seen[c]
               \/ "Failed" \in seen[c] \ call.wanted
         \/ call.tool = "get_training_events" /\ "absent" \in seen[c]
         \/ call.tool = "list_training_jobs" /\ call.input = "rejected"

\* A status that is answered is one that the job had during the call, and one
\* that was asked for under either name; a wait that times out, like a listing
\* without the job, saw the job in a status that was not asked for, unless the
\* timeout left no room for a poll (trainer/api/monitoring.py:363-392,
\* trainer/api/discovery.py:110-114, 143-146).
StatusTold ==
    \A c \in Callers :
       LET call == calls[c]
           goal == IF call.wanted = {} THEN Statuses
                   ELSE (call.wanted \ {"Succeeded"})
                          \cup (IF "Succeeded" \in call.wanted THEN {"Complete"} ELSE {})
       IN
       /\ Idle(c) /\ call.reply = "done" /\ call.status # "absent" =>
            call.status \in seen[c] \cap goal
       /\ Idle(c) /\ call.reply = "timeout" => ~(seen[c] \subseteq goal) \/ call.polls = 0
       /\ /\ Idle(c) /\ call.tool = "list_training_jobs"
          /\ call.reply = "done" /\ call.status = "absent"
          => ~(seen[c] \subseteq goal)

\* The logs are those of the step: of its pods only; of a previous container only
\* if the current one had written nothing, or the step names no pod in
\* particular; none at all only if there were none or a request of the fallback
\* failed, which is not told.  A hint at a failure stands on a sign of it in
\* the lines (trainer/api/monitoring.py:116-127, 171-208, 223).
LogsOfStep ==
    \A c \in Callers :
       LET call == calls[c]
           pods == IF call.step = "node" THEN Pods ELSE {call.step}
       IN
       Idle(c) /\ call.tool = "get_training_logs" /\ call.reply = "done" =>
         /\ call.lines \subseteq pods \X {"now", "before"}
         /\ \A p \in Pods : <<p, "before">> \in call.lines =>
              call.step = "node" \/ <<p, "now">> \in mute[c]
         /\ call.lines = {} /\ c \notin lost =>
              \A p \in pods : /\ <<p, "before">> \in mute[c]
                              /\ call.step = p => <<p, "now">> \in mute[c]
         /\ call.hint => call.lines \cap faulty[c] # {}
=============================================================================
