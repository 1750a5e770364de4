------------------------- MODULE JobLifecycle_proofs -------------------------
(***************************************************************************)
(* What the ownership check is worth, for any number of jobs and threads:  *)
(* the label a call acts on is the label it read, or is known to be stale. *)
(* After it, what the cleanup of the pods of get_runtime is worth.         *)
(***************************************************************************)
EXTENDS JobLifecycle, PipListPod, TLAPS

Shapes ==
    /\ jobs \in [Jobs -> JobStates]
    /\ calls \in [Callers -> Call]
    /\ stale \subseteq Callers
    /\ made \subseteq Jobs

\* A non-admin's call that is past the check acts on a job that has the label,
\* unless the job was changed by others since.
CheckedIsLabelled ==
    \A c \in Callers :
       /\ calls[c].stage = "act"
       /\ calls[c].tool \notin SubmitTools
       /\ ~Admin
       => jobs[calls[c].job].label = "mcp" \/ c \in stale

IInv == Shapes /\ CheckedIsLabelled /\ StrayNeedsStaleCheck /\ OursStaysOurs

\* An idle server satisfies the inductive invariant.
LEMMA InitIInv == Init => IInv
  <1> SUFFICES ASSUME Init PROVE IInv
    OBVIOUS
  <1>1. (CHOOSE m \in Jobs : TRUE) \in Jobs BY JobsAssumption
  <1>2. calls \in [Callers -> Call] /\ \A c \in Callers : calls[c].stage = "idle"
    <2>1. NewCall("fine_tune", CHOOSE m \in Jobs : TRUE, FALSE, "none", FALSE) \in Call
      BY <1>1 DEF NewCall, Call, Tools, SubmitTools, Labels, Replies
    <2>2. \A n : NewCall("fine_tune", n, FALSE, "none", FALSE).stage = "idle"
      BY DEF NewCall
    <2>3. QED BY <2>1, <2>2 DEF Init
  <1>3. QED
    BY <1>2 DEF Init, NoJob, JobStates, Labels, IInv, Shapes, CheckedIsLabelled, StrayNeedsStaleCheck, OursStaysOurs

\* A call that moves on stays the call it is, and the other threads keep theirs.
LEMMA AtMoves ==
    ASSUME Shapes, NEW c \in Callers, NEW call \in Call,
           NEW stage \in {"idle", "check", "act"}, NEW answer \in Replies,
           calls' = [calls EXCEPT ![c] = At(call, stage, answer)]
    PROVE  /\ calls' \in [Callers -> Call]
           /\ calls'[c].stage = stage /\ calls'[c].tool = call.tool
           /\ calls'[c].job = call.job
           /\ \A d \in Callers \ {c} : calls'[d] = calls[d]
  <1>1. At(call, stage, answer) \in Call
    BY DEF At, Call, Replies
  <1>2. QED BY <1>1 DEF Shapes, At

\* An answer ends the call.
LEMMA AnswerMoves ==
    ASSUME Shapes, NEW c \in Callers, \E answer \in Replies : Answer(c, answer)
    PROVE  /\ calls' \in [Callers -> Call] /\ calls'[c].stage = "idle"
           /\ \A d \in Callers \ {c} : calls'[d] = calls[d]
  <1>1. PICK answer \in Replies : calls' = [calls EXCEPT ![c] = At(calls[c], "idle", answer)]
    BY DEF Answer
  <1>2. calls[c] \in Call
    BY DEF Shapes
  <1>3. QED BY <1>1, <1>2, AtMoves

\* Taking up a call leaves the cluster alone; only admins' calls and submissions
\* begin past the check.
LEMMA StartIInv ==
    ASSUME IInv, NEW c \in Callers, NEW tool \in Tools, NEW n \in Jobs,
           NEW confirmed \in BOOLEAN, NEW label \in Labels, NEW suspend \in BOOLEAN,
           NEW stage \in {"idle", "check", "act"}, NEW answer \in Replies,
           Start(c, NewCall(tool, n, confirmed, label, suspend), stage, answer),
           stage = "act" => Admin \/ tool \in SubmitTools
    PROVE  IInv'
  <1> DEFINE call == NewCall(tool, n, confirmed, label, suspend)
  <1>1. /\ calls' = [calls EXCEPT ![c] = At(call, stage, answer)] /\ stale' = stale \ {c}
        /\ UNCHANGED <<persona, jobs, strays, made>>
    BY DEF Start
  <1>2. call \in Call /\ call.tool = tool
    BY DEF NewCall, Call, Replies
  <1> HIDE DEF call
  <1>3. /\ calls' \in [Callers -> Call] /\ calls'[c].stage = stage /\ calls'[c].tool = tool
        /\ \A d \in Callers \ {c} : calls'[d] = calls[d] /\ (d \in stale' <=> d \in stale)
    BY <1>1, <1>2, AtMoves DEF IInv
  <1>4. CheckedIsLabelled'
    BY <1>1, <1>3 DEF IInv, CheckedIsLabelled, Admin
  <1>5. QED
    BY <1>1, <1>3, <1>4 DEF IInv, Shapes, StrayNeedsStaleCheck, OursStaysOurs

\* is_mcp_managed lets a call pass only on the label it read.
LEMMA CheckIInv ==
    ASSUME IInv, NEW c \in Callers, CheckOwnership(c) PROVE IInv'
  <1>1. calls[c] \in Call /\ UNCHANGED <<persona, jobs, stale, strays, made>>
    BY DEF CheckOwnership, IInv, Shapes
  <1>2. CASE \E answer \in Replies : Answer(c, answer)
    <2>1. /\ calls' \in [Callers -> Call] /\ calls'[c].stage = "idle"
          /\ \A d \in Callers \ {c} : calls'[d] = calls[d]
      BY <1>2, AnswerMoves DEF IInv
    <2>2. QED
      BY <1>1, <2>1
      DEF IInv, Shapes, CheckedIsLabelled, StrayNeedsStaleCheck, OursStaysOurs, Admin
  <1>3. CASE jobs[calls[c].job].label = "mcp" /\ Proceed(c)
    <2>1. "none" \in Replies BY DEF Replies
    <2>2. /\ calls' \in [Callers -> Call] /\ calls'[c].job = calls[c].job
          /\ \A d \in Callers \ {c} : calls'[d] = calls[d]
      <3>1. calls' = [calls EXCEPT ![c] = At(calls[c], "act", "none")]
        BY <1>3 DEF Proceed
      <3>2. QED BY <1>1, <2>1, <3>1, AtMoves DEF IInv
    <2>3. QED
      BY <1>1, <1>3, <2>2
      DEF IInv, Shapes, CheckedIsLabelled, StrayNeedsStaleCheck, OursStaysOurs, Admin
  <1>4. QED BY <1>2, <1>3 DEF CheckOwnership, Replies

\* A request that fails ends the call and leaves the jobs alone.
LEMMA FailIInv ==
    ASSUME IInv, NEW c \in Callers, Fail(c) PROVE IInv'
  <1>1. calls[c] \in Call /\ UNCHANGED <<persona, jobs, stale, strays, made>>
    BY DEF Fail, IInv, Shapes
  <1>2. \E answer \in Replies : Answer(c, answer)
    BY DEF Fail, Replies
  <1>3. /\ calls' \in [Callers -> Call] /\ calls'[c].stage = "idle"
        /\ \A d \in Callers \ {c} : calls'[d] = calls[d]
    BY <1>2, AnswerMoves DEF IInv
  <1>4. QED
    BY <1>1, <1>3
    DEF IInv, Shapes, CheckedIsLabelled, StrayNeedsStaleCheck, OursStaysOurs, Admin

\* A change of job n makes the label of every other call past its check stale.
LEMMA ChangeMarksStale ==
    ASSUME IInv, NEW n \in Jobs, NEW by,
           NEW job \in JobStates,
           Change(n, job, by)
    PROVE  /\ jobs' \in [Jobs -> JobStates]
           /\ jobs'[n] = job /\ \A m \in Jobs \ {n} : jobs'[m] = jobs[m]
           /\ stale \subseteq stale' /\ stale' \subseteq Callers
           /\ \A d \in Callers \ by :
                 calls[d].stage = "act" /\ calls[d].job = n => d \in stale'
  BY DEF Change, Checked, IInv, Shapes

\* Changes by other people keep the invariant: they mark the check stale.
LEMMA OthersIInv ==
    ASSUME IInv, NEW n \in Jobs, Others(n) PROVE IInv'
  <1>1. PICK job \in {NoJob} \cup {Job(label, FALSE) : label \in {"none", "mcp"}} :
             Change(n, job, {})
    BY DEF Others
  <1>2. job \in JobStates
    <2>1. NoJob \in JobStates BY DEF Labels, JobStates, NoJob
    <2>2. \A label \in {"none", "mcp"} : Job(label, FALSE) \in JobStates
      BY DEF Labels, JobStates, Job
    <2>3. QED BY <2>1, <2>2
  <1>3. made' = made \ {n} /\ UNCHANGED <<persona, calls, strays>>
    BY DEF Others
  <1>4. Shapes'
    BY <1>1, <1>2, <1>3, ChangeMarksStale DEF IInv, Shapes
  <1>5. CheckedIsLabelled'
    <2>1. \A d \in Callers : calls[d].job \in Jobs
      BY DEF IInv, Shapes, Call
    <2>2. /\ \A m \in Jobs \ {n} : jobs'[m] = jobs[m]
          /\ stale \subseteq stale'
          /\ \A d \in Callers : calls[d].stage = "act" /\ calls[d].job = n => d \in stale'
      BY <1>1, <1>2, ChangeMarksStale
    <2>3. QED BY <1>3, <2>1, <2>2 DEF IInv, CheckedIsLabelled, Admin
  <1>6. OursStaysOurs'
    BY <1>1, <1>2, <1>3, ChangeMarksStale DEF IInv, Shapes, OursStaysOurs
  <1>7. QED BY <1>3, <1>4, <1>5, <1>6 DEF IInv, StrayNeedsStaleCheck

\* The request of a call keeps it, and strays only on a stale check.
LEMMA ActIInv ==
    ASSUME IInv, NEW c \in Callers, Act(c) PROVE IInv'
  <1> DEFINE n == calls[c].job
             tool == calls[c].tool
  <1>1. /\ calls[c] \in Call /\ n \in Jobs /\ calls[c].stage = "act"
        /\ Change(n, Wanted(calls[c]), {c}) /\ UNCHANGED persona
    BY DEF Act, IInv, Shapes, Call
  <1>2. \E answer \in Replies : Answer(c, answer)
    BY DEF Act, Replies
  <1>3. /\ \A d \in Callers \ {c} : calls'[d] = calls[d]
        /\ calls'[c].stage = "idle" /\ calls' \in [Callers -> Call]
    BY <1>2, AnswerMoves DEF IInv
  <1>4. Wanted(calls[c]) \in JobStates
    <2>1. jobs[n] \in JobStates BY <1>1 DEF IInv, Shapes
    <2>2. calls[c].suspend \in BOOLEAN BY <1>1 DEF Call
    <2>3. [jobs[n] EXCEPT !.suspended = calls[c].suspend] \in JobStates
      BY <2>1, <2>2 DEF JobStates
    <2>4. NoJob \in JobStates /\ Job("mcp", FALSE) \in JobStates
      BY DEF NoJob, Job, JobStates, Labels
    <2>5. CASE tool \in SubmitTools
      BY <2>4, <2>5 DEF Wanted, InjectOwnershipLabel, SubmitTools
    <2>6. CASE tool \notin SubmitTools /\ tool = "delete_training_job"
      BY <2>4, <2>6 DEF Wanted
    <2>7. CASE tool \notin SubmitTools /\ tool # "delete_training_job"
      BY <2>3, <2>7 DEF Wanted
    <2>8. QED BY <2>5, <2>6, <2>7
  <1>5. made' \subseteq Jobs
    BY <1>1 DEF Act, IInv, Shapes
  <1>6. Shapes'
    BY <1>1, <1>3, <1>4, <1>5, ChangeMarksStale DEF IInv, Shapes
  <1>7. CheckedIsLabelled'
    <2>1. \A d \in Callers : calls[d].job \in Jobs
      BY DEF IInv, Shapes, Call
    <2>2. /\ \A m \in Jobs \ {n} : jobs'[m] = jobs[m]
          /\ stale \subseteq stale'
          /\ \A d \in Callers \ {c} : calls[d].stage = "act" /\ calls[d].job = n => d \in stale'
      BY <1>1, <1>4, ChangeMarksStale
    <2>3. QED BY <1>1, <1>3, <2>1, <2>2 DEF IInv, CheckedIsLabelled, Admin
  <1>8. StrayNeedsStaleCheck'
    BY <1>1 DEF Act, IInv, StrayNeedsStaleCheck, CheckedIsLabelled
  <1>9. OursStaysOurs'
    <2>1. \A m \in Jobs \ {n} : jobs'[m] = jobs[m] /\ (m \in made' <=> m \in made)
      BY <1>1, <1>4, ChangeMarksStale DEF Act
    <2>2. jobs'[n] = Wanted(calls[c])
      BY <1>1, <1>4, ChangeMarksStale
    <2>3. n \in made' => jobs'[n].present /\ jobs'[n].label = "mcp"
      <3>1. CASE tool \in SubmitTools
        BY <2>2, <3>1 DEF Wanted, Job, InjectOwnershipLabel, SubmitTools
      <3>2. CASE tool = "delete_training_job"
        BY <3>2 DEF Act, SubmitTools
      <3>3. CASE tool # "delete_training_job" /\ tool \notin SubmitTools
        <4>1. Wanted(calls[c]) = [jobs[n] EXCEPT !.suspended = calls[c].suspend]
              /\ made' = made
          BY <3>3 DEF Wanted, Act
        <4>2. jobs'[n].present = jobs[n].present /\ jobs'[n].label = jobs[n].label
          BY <2>2, <4>1
        <4>3. QED BY <4>1, <4>2 DEF IInv, OursStaysOurs
      <3>4. QED BY <3>1, <3>2, <3>3
    <2>4. QED BY <1>5, <2>1, <2>3 DEF IInv, OursStaysOurs
  <1>10. QED BY <1>6, <1>7, <1>8, <1>9 DEF IInv

\* Every step of the server and of others keeps the inductive invariant.
LEMMA NextIInv == IInv /\ [Next]_vars => IInv'
  <1> SUFFICES ASSUME IInv, [Next]_vars PROVE IInv'
    OBVIOUS
  <1>1. ASSUME NEW c \in Callers, NEW n \in Jobs, NEW confirmed \in BOOLEAN,
               Delete(c, n, confirmed)
        PROVE  IInv'
    BY <1>1, StartIInv DEF Delete, Tools, Labels, Replies
  <1>2. ASSUME NEW c \in Callers, NEW n \in Jobs, NEW confirmed \in BOOLEAN,
               NEW label \in Labels, NEW tool \in SubmitTools,
               Submit(c, tool, n, confirmed, label)
        PROVE  IInv'
    BY <1>2, StartIInv DEF Submit, Tools, Replies
  <1>3. ASSUME NEW c \in Callers, NEW n \in Jobs, NEW suspend \in BOOLEAN,
               Update(c, n, suspend)
        PROVE  IInv'
    BY <1>3, StartIInv DEF Update, Tools, Labels, Replies
  <1>4. CASE UNCHANGED vars
    BY <1>4 DEF vars, IInv, Shapes, CheckedIsLabelled, StrayNeedsStaleCheck, OursStaysOurs, Admin
  <1>5. QED
    BY <1>1, <1>2, <1>3, <1>4, CheckIInv, ActIInv, FailIInv, OthersIInv
    DEF Next, FineTune, RunCustomTraining, RunContainerTraining, SubmitTools

\* The invariant holds for any number of jobs and worker threads.
THEOREM Inductive == Spec => []IInv
  BY InitIInv, NextIInv, PTL DEF Spec

\* What TypeOK says beyond Shapes.
Rest ==
    /\ persona \in DOMAIN Offered
    /\ \A n \in Jobs : ~jobs[n].present => jobs[n] = NoJob
    /\ strays \subseteq BOOLEAN
    /\ unconfirmed \subseteq Tools

\* The remaining types hold of an idle server.
LEMMA InitRest == Init => Rest
  BY DEF Init, Rest, NoJob

\* A change of a job keeps them as far as they are about jobs.
LEMMA ChangeRest ==
    ASSUME IInv, Rest, NEW n \in Jobs, NEW by, NEW job \in JobStates, Change(n, job, by),
           ~job.present => job = NoJob
    PROVE  \A m \in Jobs : ~jobs'[m].present => jobs'[m] = NoJob
  BY DEF Change, IInv, Shapes, Rest

\* Every step keeps them.
LEMMA NextRest == IInv /\ Rest /\ [Next]_vars => Rest'
  <1> SUFFICES ASSUME IInv, Rest, [Next]_vars PROVE Rest'
    OBVIOUS
  <1>1. ASSUME NEW c \in Callers, NEW call, NEW stage, NEW answer, Start(c, call, stage, answer)
        PROVE  Rest'
    BY <1>1 DEF Start, Rest
  <1>2. ASSUME NEW c \in Callers, CheckOwnership(c) \/ Fail(c) PROVE Rest'
    BY <1>2 DEF CheckOwnership, Fail, Rest
  <1>3. ASSUME NEW c \in Callers, Act(c) PROVE Rest'
    <2> DEFINE n == calls[c].job
    <2>1. calls[c] \in Call /\ n \in Jobs /\ jobs[n] \in JobStates /\ calls[c].tool \in Tools
      BY DEF IInv, Shapes, Call
    <2>2. Change(n, Wanted(calls[c]), {c}) /\ Possible(calls[c]) /\ UNCHANGED persona
      BY <1>3 DEF Act
    <2>3. /\ Wanted(calls[c]) \in JobStates
          /\ ~Wanted(calls[c]).present => Wanted(calls[c]) = NoJob
      <3>1. NoJob \in JobStates BY DEF NoJob, JobStates, Labels
      <3>2. CASE calls[c].tool \in SubmitTools
        <4>1. Job("mcp", FALSE) \in JobStates /\ Job("mcp", FALSE).present
          BY DEF Job, JobStates, Labels
        <4>2. QED BY <3>2, <4>1 DEF Wanted, InjectOwnershipLabel, SubmitTools
      <3>3. CASE calls[c].tool = "delete_training_job"
        BY <3>1, <3>3 DEF Wanted, SubmitTools
      <3>4. CASE calls[c].tool \notin SubmitTools /\ calls[c].tool # "delete_training_job"
        <4>1. Wanted(calls[c]) = [jobs[n] EXCEPT !.suspended = calls[c].suspend]
          BY <3>4 DEF Wanted
        <4>2. jobs[n].present /\ calls[c].suspend \in BOOLEAN
          BY <2>1, <2>2, <3>4 DEF Possible, Call
        <4>3. QED BY <2>1, <4>1, <4>2 DEF JobStates
      <3>5. QED BY <3>2, <3>3, <3>4
    <2>4. strays' \subseteq BOOLEAN
      <3>1. (c \in stale) \in BOOLEAN OBVIOUS
      <3>2. QED BY <1>3, <3>1, Zenon DEF Act, Rest
    <2>5. unconfirmed' \subseteq Tools
      BY <1>3, <2>1 DEF Act, Rest
    <2>6. QED BY <2>1, <2>2, <2>3, <2>4, <2>5, ChangeRest DEF Rest
  <1>4. ASSUME NEW n \in Jobs, Others(n) PROVE Rest'
    <2>1. PICK job \in {NoJob} \cup {Job(label, FALSE) : label \in {"none", "mcp"}} :
               Change(n, job, {})
      BY <1>4 DEF Others
    <2>2. NoJob \in JobStates BY DEF NoJob, JobStates, Labels
    <2>3. \A label \in {"none", "mcp"} :
             Job(label, FALSE) \in JobStates /\ Job(label, FALSE).present
      BY DEF Job, JobStates, Labels
    <2>4. job \in JobStates /\ (~job.present => job = NoJob)
      BY <2>2, <2>3
    <2>5. UNCHANGED <<persona, strays, unconfirmed>>
      BY <1>4 DEF Others
    <2>6. QED BY <2>1, <2>4, <2>5, ChangeRest DEF Rest
  <1>5. CASE UNCHANGED vars
    BY <1>5 DEF vars, Rest
  <1>6. QED
    BY <1>1, <1>2, <1>3, <1>4, <1>5
    DEF Next, FineTune, RunCustomTraining, RunContainerTraining, Submit, Delete, Update

\* Type correctness.
THEOREM TypeCorrect == Spec => []TypeOK
  <1>1. IInv /\ Rest => TypeOK BY DEF IInv, Rest, Shapes, TypeOK
  <1>2. QED BY Inductive, InitRest, NextRest, <1>1, PTL DEF Spec

\* A non-admin changes a job without the ownership label only on a stale check.
THEOREM StraysNeedStaleChecks == Spec => []StrayNeedsStaleCheck
  <1>1. IInv => StrayNeedsStaleCheck BY DEF IInv
  <1>2. QED BY Inductive, <1>1, PTL

\* A job a tool created keeps the ownership label until others touch it.
THEOREM OursStayOurs == Spec => []OursStaysOurs
  <1>1. IInv => OursStaysOurs BY DEF IInv
  <1>2. QED BY Inductive, <1>1, PTL

-----------------------------------------------------------------------------
\* A call that is about to change the cluster was confirmed, unless it is an update.
Gated ==
    /\ OnlyUpdatesUnconfirmed
    /\ \A c \in Callers :
          /\ calls[c].stage = "act" => calls[c].tool = "update_training_job" \/ calls[c].confirmed
          /\ calls[c].stage = "check" => calls[c].tool \notin SubmitTools

\* A call that moves on stays as confirmed as it was.
LEMMA AtKeeps ==
    ASSUME NEW call \in Call, NEW stage, NEW answer
    PROVE  /\ At(call, stage, answer).stage = stage /\ At(call, stage, answer).tool = call.tool
           /\ (At(call, stage, answer).confirmed <=> call.confirmed)
  BY DEF At

\* It is enough to look at the call that is made or moves on.
LEMMA MoveGated ==
    ASSUME Shapes, Gated, NEW c \in Callers, NEW call \in Call, NEW stage, NEW answer,
           calls' = [calls EXCEPT ![c] = At(call, stage, answer)], unconfirmed' = unconfirmed,
           stage = "act" => call.tool = "update_training_job" \/ call.confirmed,
           stage = "check" => call.tool \notin SubmitTools
    PROVE  Gated'
  <1>1. /\ calls'[c].stage = stage /\ calls'[c].tool = call.tool
        /\ (calls'[c].confirmed <=> call.confirmed)
        /\ \A d \in Callers \ {c} : calls'[d] = calls[d]
    BY AtKeeps DEF Shapes
  <1>2. QED BY <1>1 DEF Gated, OnlyUpdatesUnconfirmed

\* Every step keeps changes behind the confirmation.
LEMMA NextGated == Shapes /\ Gated /\ [Next]_vars => Gated'
  <1> SUFFICES ASSUME Shapes, Gated, [Next]_vars PROVE Gated'
    OBVIOUS
  <1>1. ASSUME NEW c \in Callers, NEW n \in Jobs, NEW confirmed \in BOOLEAN,
               Delete(c, n, confirmed)
        PROVE  Gated'
    <2> DEFINE call == NewCall("delete_training_job", n, confirmed, "none", FALSE)
    <2>1. call \in Call /\ call.tool = "delete_training_job" /\ (call.confirmed <=> confirmed)
      BY DEF NewCall, Call, Tools, Labels, Replies
    <2>2. \/ ~Admin /\ Start(c, call, "check", "none")
          \/ Admin /\ confirmed /\ Start(c, call, "act", "none")
          \/ Admin /\ ~confirmed /\ Start(c, call, "idle", "preview")
      BY <1>1 DEF Delete
    <2> HIDE DEF call
    <2>3. "delete_training_job" \notin SubmitTools BY DEF SubmitTools
    <2>4. ASSUME NEW stage, NEW answer, Start(c, call, stage, answer), stage = "act" => confirmed
          PROVE  Gated'
      <3>1. calls' = [calls EXCEPT ![c] = At(call, stage, answer)] /\ unconfirmed' = unconfirmed
        BY <2>4 DEF Start
      <3>2. QED BY <2>1, <2>3, <2>4, <3>1, MoveGated
    <2>5. QED BY <2>2, <2>4
  <1>2. ASSUME NEW c \in Callers, NEW n \in Jobs, NEW confirmed \in BOOLEAN,
               NEW label \in Labels, NEW tool \in SubmitTools,
               Submit(c, tool, n, confirmed, label)
        PROVE  Gated'
    <2> DEFINE call == NewCall(tool, n, confirmed, label, FALSE)
    <2>1. call \in Call /\ (call.confirmed <=> confirmed)
      BY DEF NewCall, Call, Tools, Replies
    <2>2. PICK stage \in {"act", "idle"}, answer \in Replies :
             Start(c, call, stage, answer) /\ (stage = "act" => confirmed)
      BY <1>2 DEF Submit, Replies
    <2> HIDE DEF call
    <2>3. calls' = [calls EXCEPT ![c] = At(call, stage, answer)] /\ unconfirmed' = unconfirmed
      BY <2>2 DEF Start
    <2>4. stage # "check" BY <2>2
    <2>5. QED BY <2>1, <2>2, <2>3, <2>4, MoveGated
  <1>3. ASSUME NEW c \in Callers, NEW n \in Jobs, NEW suspend \in BOOLEAN, Update(c, n, suspend)
        PROVE  Gated'
    <2> DEFINE call == NewCall("update_training_job", n, FALSE, "none", suspend)
               stage == IF Admin THEN "act" ELSE "check"
    <2>1. call \in Call /\ call.tool = "update_training_job"
      BY DEF NewCall, Call, Tools, Labels, Replies
    <2>2. calls' = [calls EXCEPT ![c] = At(call, stage, "none")] /\ unconfirmed' = unconfirmed
      BY <1>3 DEF Update, Start
    <2> HIDE DEF call, stage
    <2>3. "update_training_job" \notin SubmitTools BY DEF SubmitTools
    <2>4. QED BY <2>1, <2>2, <2>3, MoveGated
  <1>4. ASSUME NEW c \in Callers, CheckOwnership(c) PROVE Gated'
    <2>1. calls[c] \in Call /\ unconfirmed' = unconfirmed /\ calls[c].tool \notin SubmitTools
      BY <1>4 DEF CheckOwnership, Shapes, Gated
    <2>2. calls[c].tool \in Tools BY <2>1 DEF Call
    <2>3. CASE \E answer : Answer(c, answer)
      BY <2>1, <2>3, MoveGated DEF Answer
    <2>4. CASE Proceed(c) /\ ~(calls[c].tool = "delete_training_job" /\ ~calls[c].confirmed)
      <3>1. calls[c].tool = "update_training_job" \/ calls[c].confirmed
        BY <2>1, <2>2, <2>4 DEF Tools
      <3>2. QED BY <2>1, <2>4, <3>1, MoveGated DEF Proceed
    <2>5. QED BY <1>4, <2>3, <2>4 DEF CheckOwnership
  <1>5. ASSUME NEW c \in Callers, Act(c) PROVE Gated'
    <2>1. PICK answer : calls' = [calls EXCEPT ![c] = At(calls[c], "idle", answer)]
      BY <1>5 DEF Act, Answer
    <2>2. calls[c] \in Call BY DEF Shapes
    <2>3. calls'[c].stage = "idle" /\ \A d \in Callers \ {c} : calls'[d] = calls[d]
      BY <2>1, <2>2, AtKeeps DEF Shapes
    <2>4. OnlyUpdatesUnconfirmed'
      BY <1>5 DEF Act, Gated, OnlyUpdatesUnconfirmed
    <2>5. QED BY <2>3, <2>4 DEF Gated
  <1>6. ASSUME NEW c \in Callers, Fail(c) PROVE Gated'
    <2>1. PICK answer : calls' = [calls EXCEPT ![c] = At(calls[c], "idle", answer)]
      BY <1>6 DEF Fail, Answer
    <2>2. calls[c] \in Call /\ unconfirmed' = unconfirmed BY <1>6 DEF Fail, Shapes
    <2>3. QED BY <2>1, <2>2, MoveGated
  <1>7. ASSUME NEW n \in Jobs, Others(n) PROVE Gated'
    BY <1>7 DEF Others, Gated, OnlyUpdatesUnconfirmed
  <1>8. CASE UNCHANGED vars
    BY <1>8 DEF vars, Gated, OnlyUpdatesUnconfirmed
  <1>9. QED
    BY <1>1, <1>2, <1>3, <1>4, <1>5, <1>6, <1>7, <1>8
    DEF Next, FineTune, RunCustomTraining, RunContainerTraining, SubmitTools

\* Nothing but an update changes the cluster unless it was confirmed.
THEOREM UpdatesOnlyUnconfirmed == Spec => []OnlyUpdatesUnconfirmed
  <1>1. Init => Gated
    BY DEF Init, Gated, OnlyUpdatesUnconfirmed, NewCall
  <1>2. IInv => Shapes BY DEF IInv
  <1>3. Gated => OnlyUpdatesUnconfirmed BY DEF Gated
  <1>4. QED BY <1>1, <1>2, <1>3, Inductive, NextGated, PTL DEF Spec

-----------------------------------------------------------------------------
(* The other thing that tools leave in the cluster: the pod in which        *)
(* get_runtime lists packages (PipListPod), for any number of calls and any *)
(* deadline.                                                                *)

\* A pod is there only as long as its call has the finally block before it, or
\* after a request that failed.
PodsAreOwed ==
    \A c \in Calls :
       pod[c] # "gone" => pc[c] \in {"poll", "logs", "cleanup", "lost"} \/ c \in hidden

\* What was read of a pod that ended well, or would be read now, was so; a log
\* is read only after the pod ended.
SuccessesNoted ==
    \A c \in Calls :
       /\ "Succeeded" \in {pod[c], phase[c]} => c \in succeeded
       /\ pc[c] = "logs" => phase[c] \in Ended

\* A call under way notes that the runtime or its pod is not there.
LossesNoted ==
    \A c \in Calls :
       /\ ~runtime /\ pc[c] \notin {"start", "over", "lost"} => c \in missing
       /\ pc[c] \in {"poll", "logs"} /\ pod[c] = "gone" => c \in missing

PodInv ==
    /\ PodTypeOK
    /\ PodsAreOwed
    /\ SuccessesNoted
    /\ LossesNoted
    /\ PackagesFromSuccess
    /\ NotFoundNeedsLoss

\* Calls not yet made satisfy the inductive invariant.
LEMMA InitPodInv == PodInit => PodInv
  BY PollAssumption
  DEF PodInit, PodInv, PodTypeOK, PodsAreOwed, SuccessesNoted, LossesNoted,
      PackagesFromSuccess, NotFoundNeedsLoss

\* Every request, answered or not, keeps it.
LEMMA StepPodInv == ASSUME PodInv, NEW c \in Calls, Step(c) PROVE PodInv'
  <1> USE PollAssumption
      DEF PodInv, PodTypeOK, PodsAreOwed, SuccessesNoted, LossesNoted, PackagesFromSuccess,
          NotFoundNeedsLoss, Ended, Phases, GoTo, Conclude, Raise
  <1>1. CASE Begin(c)
    BY <1>1 DEF Begin
  <1>2. CASE ReadRuntime(c)
    BY <1>2 DEF ReadRuntime
  <1>3. CASE Create(c)
    BY <1>3 DEF Create
  <1>4. CASE Poll(c)
    <2>1. /\ pc[c] = "poll"
          /\ UNCHANGED <<pod, runtime, hidden, succeeded, missing>>
      BY <1>4 DEF Poll
    <2>2. CASE /\ pod[c] # "gone" /\ phase' = [phase EXCEPT ![c] = pod[c]]
               /\ UNCHANGED reply
               /\ \/ pod[c] \in Ended /\ GoTo(c, "logs") /\ UNCHANGED waited
                  \/ UNCHANGED pc /\ \E w \in (waited[c] + 1)..PollLimit :
                                       waited' = [waited EXCEPT ![c] = w]
      <3>1. waited' \in [Calls -> 0..PollLimit]
        BY <2>2
      <3>2. /\ \/ pc' = pc
               \/ pc' = [pc EXCEPT ![c] = "logs"] /\ pod[c] \in Ended
            /\ phase' \in [Calls -> {"None"} \cup Phases]
        BY <2>2
      <3>3. QED BY <2>1, <2>2, <3>1, <3>2
    <2>3. CASE /\ UNCHANGED <<waited, phase>>
               /\ \/ \E is404 \in {FALSE, pod[c] = "gone"} : Raise(c, "cleanup", is404)
                  \/ Conclude(c, "cleanup", "packages_error")
      <3>1. /\ pc' = [pc EXCEPT ![c] = "cleanup"]
            /\ \E answer \in {"not_found", "sdk_error", "packages_error"} :
                  /\ reply' = [reply EXCEPT ![c] = answer]
                  /\ answer = "not_found" => pod[c] = "gone"
        <4>1. CASE Conclude(c, "cleanup", "packages_error")
          BY <4>1
        <4>2. ASSUME NEW is404 \in {FALSE, pod[c] = "gone"}, Raise(c, "cleanup", is404)
              PROVE  /\ pc' = [pc EXCEPT ![c] = "cleanup"]
                     /\ \E answer \in {"not_found", "sdk_error", "packages_error"} :
                           /\ reply' = [reply EXCEPT ![c] = answer]
                           /\ answer = "not_found" => pod[c] = "gone"
          <5>1. is404 => pod[c] = "gone"
            BY <4>2, Zenon
          <5>2. CASE is404 BY <4>2, <5>1, <5>2
          <5>3. CASE ~is404 BY <4>2, <5>3
          <5>4. QED BY <5>2, <5>3
        <4>3. QED BY <2>3, <4>1, <4>2
      <3>2. QED BY <2>1, <2>3, <3>1
    <2>4. QED BY <1>4, <2>2, <2>3 DEF Poll, AfterTurn, Interrupted
  <1>5. CASE ReadLogs(c)
    BY <1>5 DEF ReadLogs, LogAnswer, Interrupted
  <1>6. CASE Cleanup(c)
    BY <1>6 DEF Cleanup
  <1>7. QED BY <1>1, <1>2, <1>3, <1>4, <1>5, <1>6 DEF Step

\* So does whatever happens to the pods, to the runtime and to the server.
LEMMA NextPodInv == PodInv /\ [PodNext]_podVars => PodInv'
  <1> SUFFICES ASSUME PodInv, [PodNext]_podVars PROVE PodInv'
    OBVIOUS
  <1>1. ASSUME NEW c \in Calls, Step(c) PROVE PodInv'
    BY <1>1, StepPodInv
  <1> USE PollAssumption
      DEF PodInv, PodTypeOK, PodsAreOwed, SuccessesNoted, LossesNoted, PackagesFromSuccess,
          NotFoundNeedsLoss, Ended, Phases
  <1>2. ASSUME NEW c \in Calls, PodChanges(c) PROVE PodInv'
    BY <1>2 DEF PodChanges
  <1>3. CASE RuntimeChanges
    BY <1>3 DEF RuntimeChanges
  <1>4. CASE Crash
    BY <1>4 DEF Crash
  <1>5. CASE UNCHANGED podVars
    BY <1>5 DEF podVars
  <1>6. QED BY <1>1, <1>2, <1>3, <1>4, <1>5 DEF PodNext

\* The invariant holds for any number of calls and any deadline.
THEOREM PodInductive == PodSpec => []PodInv
  BY InitPodInv, NextPodInv, PTL DEF PodSpec

\* Type correctness of the calls and their pods.
THEOREM PodTypeCorrect == PodSpec => []PodTypeOK
  <1>1. PodInv => PodTypeOK BY DEF PodInv
  <1>2. QED BY PodInductive, <1>1, PTL

\* No phase, exception or timeout skips the cleanup: only a request that failed
\* leaves a pod behind.
THEOREM LeaksNeedFailures == PodSpec => []LeakNeedsFailure
  <1>1. PodInv => LeakNeedsFailure BY DEF PodInv, PodsAreOwed, LeakNeedsFailure
  <1>2. QED BY PodInductive, <1>1, PTL

\* Packages are those of a pod that ended well.
THEOREM PackagesAreOfSuccesses == PodSpec => []PackagesFromSuccess
  <1>1. PodInv => PackagesFromSuccess BY DEF PodInv
  <1>2. QED BY PodInductive, <1>1, PTL

\* RESOURCE_NOT_FOUND is answered only when the runtime or the pod was missing
\* during the call.
THEOREM NotFoundIsLost == PodSpec => []NotFoundNeedsLoss
  <1>1. PodInv => NotFoundNeedsLoss BY DEF PodInv
  <1>2. QED BY PodInductive, <1>1, PTL
=============================================================================
