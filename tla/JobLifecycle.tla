---------------------------- MODULE JobLifecycle ----------------------------
(***************************************************************************)
(* The tools that change training jobs (trainer/api/training.py and        *)
(* trainer/api/lifecycle.py), called concurrently, against the jobs in the *)
(* cluster, which other people change too.                                 *)
(*                                                                         *)
(* Every request to the Kubernetes API is a step of its own.  delete and   *)
(* update make two: is_mcp_managed() reads the job's ownership label, and  *)
(* only then comes the request that changes the job, by name.              *)
(*                                                                         *)
(* Local validation and the namespace check come first and have no effect: *)
(* a call they refuse is over at once and is not a step here.              *)
(***************************************************************************)
EXTENDS Integers, FiniteSets

CONSTANTS Jobs,    \* names of training jobs, in the namespaces the policy allows
          Callers  \* worker threads

ASSUME JobsAssumption == Jobs # {}

VARIABLES persona,  \* the persona resolved at startup
          jobs,     \* the cluster: what is there under each name
          calls     \* per thread: its call, how far it is and what was answered

\* Observers.
VARIABLES stale,       \* calls whose job others changed after its label was read
          strays,      \* changes by non-admins to a job without the label: was
                       \* the answer of the ownership check stale?
          unconfirmed, \* tools that changed something without confirmed=True
          made         \* jobs a tool created and only tools touched since

vars == <<persona, jobs, calls, stale, strays, unconfirmed, made>>

SubmitTools == {"fine_tune", "run_custom_training", "run_container_training"}

Tools == SubmitTools \cup {"delete_training_job", "update_training_job"}

\* PERSONAS: the mutating job tools that each persona is offered.
Offered ==
    [p \in {"readonly", "data-scientist", "ml-engineer", "platform-admin"} |->
        CASE p = "readonly" -> {}
          [] p = "data-scientist" -> Tools \ {"run_container_training", "update_training_job"}
          [] OTHER -> Tools]

Labels == {"none", "mcp", "other"}  \* values of the label kubeflow-mcp/managed-by

NoJob == [present |-> FALSE, label |-> "none", suspended |-> FALSE]

Job(label, suspended) == [present |-> TRUE, label |-> label, suspended |-> suspended]

\* What may be in the cluster under a name.
JobStates == [present : BOOLEAN, label : Labels, suspended : BOOLEAN]

Replies == {"none", "preview", "done", "not_found", "not_managed", "sdk_error"}

\* label is the value the caller passes for the ownership label in labels=,
\* suspend the action of an update.
Call == [stage : {"idle", "check", "act"},
         tool : Tools,
         job : Jobs,
         confirmed : BOOLEAN,
         label : Labels,
         suspend : BOOLEAN,
         reply : Replies]

TypeOK ==
    /\ persona \in DOMAIN Offered
    /\ jobs \in [Jobs -> JobStates]
    /\ \A n \in Jobs : ~jobs[n].present => jobs[n] = NoJob
    /\ calls \in [Callers -> Call]
    /\ stale \subseteq Callers
    /\ strays \subseteq BOOLEAN
    /\ unconfirmed \subseteq Tools
    /\ made \subseteq Jobs

\* A call at its start; confirmed is ignored by update, which has no such
\* parameter, and so are label and suspend by the tools that have none.
NewCall(tool, n, confirmed, label, suspend) ==
    [stage |-> "idle", tool |-> tool, job |-> n, confirmed |-> confirmed,
     label |-> label, suspend |-> suspend, reply |-> "none"]

\* The call at another stage, with another answer.
At(call, stage, reply) ==
    [stage |-> stage, tool |-> call.tool, job |-> call.job, confirmed |-> call.confirmed,
     label |-> call.label, suspend |-> call.suspend, reply |-> reply]

Init ==
    /\ persona \in DOMAIN Offered
    /\ jobs = [n \in Jobs |-> NoJob]
    /\ calls \in [Callers -> {NewCall("fine_tune", n, FALSE, "none", FALSE) :
                                n \in {CHOOSE m \in Jobs : TRUE}}]
    /\ stale = {}
    /\ strays = {}
    /\ unconfirmed = {}
    /\ made = {}

-----------------------------------------------------------------------------
Admin == persona = "platform-admin"

\* The calls about job n that are past the check.
Checked(n) == {c \in Callers : calls[c].stage = "act" /\ calls[c].job = n}

\* Mutation of InjectOwnershipLabel: a value the caller passed is kept.
InjectOwnershipLabelUnlessSet(label) == IF label = "none" THEN "mcp" ELSE label

\* The ownership label goes into the caller's labels, over any value there.
InjectOwnershipLabel(label) == "mcp"

\* The thread takes up a call, which is at stage with the given answer so far.
Start(c, call, stage, reply) ==
    /\ calls[c].stage = "idle"
    /\ call.tool \in Offered[persona]
    /\ calls' = [calls EXCEPT ![c] = At(call, stage, reply)]
    /\ stale' = stale \ {c}
    /\ UNCHANGED <<persona, jobs, strays, unconfirmed, made>>

Answer(c, reply) == calls' = [calls EXCEPT ![c] = At(@, "idle", reply)]

Proceed(c) == calls' = [calls EXCEPT ![c] = At(@, "act", "none")]

\* The job under name n becomes job; by is who changes it.
Change(n, job, by) ==
    /\ jobs' = [jobs EXCEPT ![n] = job]
    /\ stale' = stale \cup (Checked(n) \ by)

-----------------------------------------------------------------------------
\* A submitting tool, up to client.train(): a preview, or the submission.
Submit(c, tool, n, confirmed, label) ==
    LET call == NewCall(tool, n, confirmed, label, FALSE) IN
    IF confirmed THEN Start(c, call, "act", "none") ELSE Start(c, call, "idle", "preview")

FineTune(c, n, confirmed, label) == Submit(c, "fine_tune", n, confirmed, label)

\* A script with unsafe patterns is previewed all the same, with a warning; the
\* confirmed call is refused.
RunCustomTraining(c, n, confirmed, label) ==
    Submit(c, "run_custom_training", n, confirmed, label)

RunContainerTraining(c, n, confirmed, label) ==
    Submit(c, "run_container_training", n, confirmed, label)

\* delete_training_job up to its first request; admins' deletions skip the check.
Delete(c, n, confirmed) ==
    LET call == NewCall("delete_training_job", n, confirmed, "none", FALSE) IN
    CASE ~Admin             -> Start(c, call, "check", "none")
      [] Admin /\ confirmed -> Start(c, call, "act", "none")
      [] OTHER              -> Start(c, call, "idle", "preview")

\* update_training_job up to its first request.
Update(c, n, suspend) ==
    Start(c, NewCall("update_training_job", n, FALSE, "none", suspend),
          IF Admin THEN "act" ELSE "check", "none")

\* Mutation of CheckOwnership: an API error lets the call through.
CheckOwnershipFailOpen(c) ==
    LET call == calls[c] IN
    /\ call.stage = "check"
    /\ \/ Proceed(c)
       \/ jobs[call.job].label # "mcp" /\ Answer(c, "not_managed")
    /\ UNCHANGED <<persona, jobs, stale, strays, unconfirmed, made>>

\* Mutation of CheckOwnership: the deletion is not held back for a preview.
CheckOwnershipUngated(c) ==
    LET call == calls[c] IN
    /\ call.stage = "check"
    /\ \/ jobs[call.job].label = "mcp" /\ Proceed(c)
       \/ jobs[call.job].label # "mcp" /\ Answer(c, "not_managed")
       \/ Answer(c, "sdk_error")
    /\ UNCHANGED <<persona, jobs, stale, strays, unconfirmed, made>>

\* is_mcp_managed(): a job that is not there counts as one without the label; a
\* request that fails (None) ends the call.
CheckOwnership(c) ==
    LET call == calls[c] IN
    /\ call.stage = "check"
    /\ \/ /\ jobs[call.job].label = "mcp"
          /\ IF call.tool = "delete_training_job" /\ ~call.confirmed
             THEN Answer(c, "preview")
             ELSE Proceed(c)
       \/ jobs[call.job].label # "mcp" /\ Answer(c, "not_managed")
       \/ Answer(c, "sdk_error")
    /\ UNCHANGED <<persona, jobs, stale, strays, unconfirmed, made>>

\* What the request of a call makes of the job that is there.
Wanted(call) ==
    CASE call.tool \in SubmitTools           -> Job(InjectOwnershipLabel(call.label), FALSE)
      [] call.tool = "delete_training_job"   -> NoJob
      [] OTHER                               -> [jobs[call.job] EXCEPT !.suspended = call.suspend]

\* The API can do it: a name is free for a submission, taken for the others.
Possible(call) == jobs[call.job].present <=> call.tool \notin SubmitTools

\* The request takes effect; whether its answer arrives or not is open.
Act(c) ==
    LET call == calls[c] IN
    /\ call.stage = "act"
    /\ Possible(call)
    /\ Change(call.job, Wanted(call), {c})
    /\ Answer(c, "done") \/ Answer(c, "sdk_error")
    /\ strays' = IF call.tool \notin SubmitTools /\ ~Admin /\ jobs[call.job].label # "mcp"
                 THEN strays \cup {(c \in stale)} ELSE strays
    /\ unconfirmed' = IF call.confirmed THEN unconfirmed ELSE unconfirmed \cup {call.tool}
    /\ made' = CASE call.tool \in SubmitTools         -> made \cup {call.job}
                 [] call.tool = "delete_training_job" -> made \ {call.job}
                 [] OTHER                             -> made
    /\ UNCHANGED persona

\* The request fails: an API error (a name that is taken is one too), or 404.
Fail(c) ==
    LET call == calls[c] IN
    /\ call.stage = "act"
    /\ \/ Answer(c, "sdk_error")
       \/ call.tool \notin SubmitTools /\ ~Possible(call) /\ Answer(c, "not_found")
    /\ UNCHANGED <<persona, jobs, stale, strays, unconfirmed, made>>

\* Somebody with other means (kubectl, a controller, another server) creates,
\* deletes or relabels a job.
Others(n) ==
    /\ \E job \in {NoJob} \cup {Job(label, FALSE) : label \in {"none", "mcp"}} :
          job # jobs[n] /\ Change(n, job, {})
    /\ made' = made \ {n}
    /\ UNCHANGED <<persona, calls, strays, unconfirmed>>

Next ==
    \/ \E c \in Callers, n \in Jobs, confirmed \in BOOLEAN :
          \/ Delete(c, n, confirmed)
          \/ \E label \in Labels :
                \/ FineTune(c, n, confirmed, label)
                \/ RunCustomTraining(c, n, confirmed, label)
                \/ RunContainerTraining(c, n, confirmed, label)
    \/ \E c \in Callers, n \in Jobs, suspend \in BOOLEAN : Update(c, n, suspend)
    \/ \E c \in Callers : CheckOwnership(c) \/ Act(c) \/ Fail(c)
    \/ \E n \in Jobs : Others(n)

Spec == Init /\ [][Next]_vars

-----------------------------------------------------------------------------
\* A non-admin's delete or update changes a job without the ownership label
\* only if somebody changed the job between the check and the request: an API
\* error never lets a call through, nor does a label read for another job.
StrayNeedsStaleCheck == FALSE \notin strays

\* Only update_training_job changes the cluster without confirmed=True.
OnlyUpdatesUnconfirmed == unconfirmed \subseteq {"update_training_job"}

\* A job that a tool created stays open to the tools of every persona, whatever
\* ownership label its caller asked for, until somebody else touches it.
OursStaysOurs == \A n \in made : jobs[n].present /\ jobs[n].label = "mcp"
=============================================================================
