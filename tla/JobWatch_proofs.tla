--------------------------- MODULE JobWatch_proofs ---------------------------
(***************************************************************************)
(* What the watching tools answer is true of the job, for any number of    *)
(* threads, polls and changes: the errors that are counted have a cause,   *)
(* the statuses were seen, and the lines are those of the step.            *)
(*                                                                         *)
(* The parts of the invariant are stated of a call and of what its         *)
(* observers saw, so that a step has to be looked at for one call only;    *)
(* failed stands for the calls with a request that failed, before the step *)
(* or after it.                                                            *)
(***************************************************************************)
EXTENDS JobWatch, TLAPS

\* The pods of a step.
Of(step) == IF step = "node" THEN Pods ELSE {step}

\* What a call is to find, if it asks for statuses.
Goal(wanted) ==
    IF wanted = {} THEN Statuses
    ELSE (wanted \ {"Succeeded"}) \cup (IF "Succeeded" \in wanted THEN {"Complete"} ELSE {})

\* The stages belong to their tools, and arguments that are refused to none.
Staged(call) ==
    call.stage # "idle" =>
      /\ (call.stage = "poll") <=> (call.tool = "wait_for_training")
      /\ call.stage \in {"pods", "previous"} => call.tool = "get_training_logs"
      /\ call.input \in {"rejected", "fine"}
      /\ call.status = "absent"
      /\ call.tool \in {"get_training_job", "get_training_events"} => call.wanted = {}

\* The errors that were answered have a cause.
Counting(c, call, failed) ==
    call.stage = "idle" /\ call.reply = "sdk_error" =>
      \/ c \in failed
      \/ /\ call.tool = "wait_for_training"
         /\ \/ call.input = "rejected"
            \/ "absent" \in seen[c]
            \/ "Failed" \in seen[c] \ call.wanted
      \/ call.tool = "get_training_events" /\ "absent" \in seen[c]
      \/ call.tool = "list_training_jobs" /\ call.input = "rejected"

\* The statuses that were answered were seen.
Telling(c, call) ==
    /\ call.stage = "idle" /\ call.reply = "done" /\ call.status # "absent" =>
         call.status \in seen[c] \cap Goal(call.wanted)
    /\ call.stage = "idle" /\ call.reply = "timeout" =>
         ~(seen[c] \subseteq Goal(call.wanted)) \/ call.polls = 0
    /\ /\ call.stage = "idle" /\ call.tool = "list_training_jobs"
       /\ call.reply = "done" /\ call.status = "absent"
       => ~(seen[c] \subseteq Goal(call.wanted))

\* A wait asks for some status, and has seen another once a poll is used up.
Waiting(c, call) ==
    call.stage = "poll" =>
      /\ call.wanted # {}
      /\ call.left # call.polls => ~(seen[c] \subseteq Goal(call.wanted))

\* The lines gathered so far are the step's, and the pods of the step that are
\* not among them and no longer to be read wrote nothing or could not be read.
Gathering(c, call, failed) ==
    /\ call.stage = "read" => call.lines = {} /\ ~call.hint
    /\ call.stage = "pods" => call.lines = {} /\ ~call.hint
    /\ call.stage \in {"pods", "previous"} =>
         \A p \in Pods : call.step = p => <<p, "now">> \in mute[c]
    /\ call.stage = "previous" =>
         /\ call.lines \subseteq Of(call.step) \X {"before"}
         /\ call.pods \subseteq Of(call.step)
         /\ c \notin failed =>
              \A p \in Of(call.step) \ call.pods :
                 <<p, "before">> \in call.lines \/ <<p, "before">> \in mute[c]
         /\ call.hint => call.lines \cap faulty[c] # {}

\* The lines that were answered are the step's.
Together(c, call, failed) ==
    call.stage = "idle" /\ call.tool = "get_training_logs" /\ call.reply = "done" =>
      /\ call.lines \subseteq Of(call.step) \X {"now", "before"}
      /\ \A p \in Pods : <<p, "before">> \in call.lines =>
           call.step = "node" \/ <<p, "now">> \in mute[c]
      /\ call.lines = {} /\ c \notin failed =>
           \A p \in Of(call.step) : /\ <<p, "before">> \in mute[c]
                                    /\ call.step = p => <<p, "now">> \in mute[c]
      /\ call.hint => call.lines \cap faulty[c] # {}

Sound(c, call, failed) ==
    /\ Staged(call) /\ Counting(c, call, failed) /\ Telling(c, call)
    /\ Waiting(c, call) /\ Gathering(c, call, failed) /\ Together(c, call, failed)

\* The observers of a call under way have noted what is so now.
Watched(c, call) ==
    call.stage # "idle" =>
      /\ job \in seen[c]
      /\ call.tool = "get_training_logs" => Mute \subseteq mute[c] /\ Faulty \subseteq faulty[c]

IInv ==
    /\ TypeOK
    /\ \A c \in Callers : Sound(c, calls[c], lost) /\ Watched(c, calls[c])

-----------------------------------------------------------------------------
\* New calls and answers are calls.
LEMMA NewCallIsCall ==
    ASSUME NEW tool \in Tools, NEW input \in Inputs
    PROVE  NewCall(tool, input) \in Call
  BY MaxPollsAssumption DEF NewCall, Call, Steps, Replies, Pods

LEMMA AnsweredIsCall ==
    ASSUME NEW call \in Call, NEW reply \in Replies
    PROVE  LET answer == Answered(call, reply) IN
           /\ answer \in Call /\ answer.stage = "idle" /\ answer.reply = reply
           /\ answer.tool = call.tool /\ answer.input = call.input
           /\ answer.wanted = call.wanted /\ answer.polls = call.polls
           /\ answer.step = call.step /\ answer.lines = call.lines
           /\ (answer.hint <=> call.hint) /\ answer.status = call.status
  BY DEF Answered, Call

\* An answer that tells a status.
Told(call, reply, status) == [Answered(call, reply) EXCEPT !.status = status]

LEMMA ToldIsCall ==
    ASSUME NEW call \in Call, NEW reply \in Replies, NEW status \in Statuses \cup {"absent"}
    PROVE  LET answer == Told(call, reply, status) IN
           /\ answer \in Call /\ answer.stage = "idle" /\ answer.reply = reply
           /\ answer.tool = call.tool /\ answer.input = call.input
           /\ answer.wanted = call.wanted /\ answer.polls = call.polls
           /\ answer.status = status
  <1> DEFINE first == Answered(call, reply)
  <1>1. /\ first \in Call /\ first.stage = "idle" /\ first.reply = reply
        /\ first.tool = call.tool /\ first.input = call.input
        /\ first.wanted = call.wanted /\ first.polls = call.polls
    BY AnsweredIsCall
  <1> HIDE DEF first
  <1>2. LET answer == [first EXCEPT !.status = status] IN
        /\ answer \in Call /\ answer.stage = "idle" /\ answer.reply = reply
        /\ answer.tool = call.tool /\ answer.input = call.input
        /\ answer.wanted = call.wanted /\ answer.polls = call.polls
        /\ answer.status = status
    BY <1>1 DEF Call
  <1>3. QED BY <1>2 DEF first, Told

\* What the caller asked for, under the cluster's names.
LEMMA MeantIsGoal ==
    ASSUME NEW wanted \in SUBSET (Statuses \cup {"Succeeded"}), wanted # {}
    PROVE  /\ Meant(wanted) = Goal(wanted)
           /\ \A s \in Statuses : s \in wanted => s \in Meant(wanted)
           /\ "absent" \notin Meant(wanted)
  BY DEF Meant, Goal, Statuses

\* A new call or a step of one thread leaves the other threads' calls sound.
LEMMA OthersStaySound ==
    ASSUME IInv, NEW c \in Callers, NEW d \in Callers \ {c},
           UNCHANGED cluster, calls'[d] = calls[d], seen'[d] = seen[d],
           mute'[d] = mute[d], faulty'[d] = faulty[d], (d \in lost') <=> (d \in lost)
    PROVE  (Sound(d, calls[d], lost) /\ Watched(d, calls[d]))'
  <1>1. Sound(d, calls[d], lost) /\ Watched(d, calls[d]) BY DEF IInv
  <1>2. Staged(calls[d])' /\ Counting(d, calls[d], lost)' BY <1>1 DEF Sound, Staged, Counting
  <1>3. Telling(d, calls[d])' /\ Waiting(d, calls[d])' BY <1>1 DEF Sound, Telling, Waiting
  <1>4. Gathering(d, calls[d], lost)' BY <1>1 DEF Sound, Gathering
  <1>5. Together(d, calls[d], lost)' BY <1>1 DEF Sound, Together
  <1>6. Watched(d, calls[d])'
    BY <1>1 DEF Watched, cluster, Mute, Faulty, Wrote
  <1>7. QED BY <1>2, <1>3, <1>4, <1>5, <1>6 DEF Sound

\* A step of one thread's call: only that call is to be looked at.
LEMMA StepIInv ==
    ASSUME IInv, NEW c \in Callers, NEW call \in Call, Set(c, call),
           lost' = lost \/ lost' = lost \cup {c},
           Sound(c, call, lost'),
           call.stage # "idle" => calls[c].stage # "idle" /\ call.tool = calls[c].tool
    PROVE  IInv'
  <1>1. /\ calls' = [calls EXCEPT ![c] = call]
        /\ UNCHANGED cluster /\ UNCHANGED <<changes, seen, mute, faulty>>
    BY DEF Set
  <1>2. calls'[c] = call /\ \A d \in Callers \ {c} : calls'[d] = calls[d]
    BY <1>1 DEF IInv, TypeOK
  <1>3. TypeOK'
    BY <1>1 DEF IInv, TypeOK, cluster
  <1>4. ASSUME NEW d \in Callers \ {c} PROVE (Sound(d, calls[d], lost) /\ Watched(d, calls[d]))'
    BY <1>1, <1>2, <1>4, OthersStaySound
  <1>5. Sound(c, calls[c], lost)'
    BY <1>1, <1>2 DEF Sound, Staged, Counting, Telling, Waiting, Gathering, Together
  <1>6. Watched(c, calls[c])'
    <2>1. Watched(c, calls[c]) BY DEF IInv
    <2>2. Mute' = Mute /\ Faulty' = Faulty /\ job' = job
      BY <1>1 DEF cluster, Mute, Faulty, Wrote
    <2>3. QED BY <1>1, <1>2, <2>1, <2>2 DEF Watched
  <1>7. QED BY <1>3, <1>4, <1>5, <1>6 DEF IInv

LEMMA NoChangesYet == 0 \in 0..MaxChanges
  BY MaxChangesAssumption

\* A new call has answered nothing yet that would have to be true.
LEMMA StartIInv ==
    ASSUME IInv, NEW c \in Callers, NEW call \in Call, Start(c, call),
           call.stage \in {"idle", "read", "poll"},
           call.reply \in {"none", "no streaming"},
           call.lines = {}, call.hint = FALSE, call.status = "absent", call.left = call.polls,
           call.stage # "idle" =>
             /\ (call.stage = "poll") <=> (call.tool = "wait_for_training")
             /\ call.input \in {"rejected", "fine"}
             /\ call.tool \in {"get_training_job", "get_training_events"} => call.wanted = {},
           call.stage = "poll" => call.wanted # {}
    PROVE  IInv'
  <1> DEFINE begun == IF call.input = "refused" THEN [call EXCEPT !.reply = "refused"] ELSE call
  <1>1. /\ begun \in Call
        /\ begun.stage = call.stage /\ begun.tool = call.tool /\ begun.input = call.input
        /\ begun.wanted = call.wanted /\ begun.lines = {} /\ begun.hint = FALSE
        /\ begun.status = "absent" /\ begun.left = begun.polls
        /\ begun.reply \in {"none", "refused", "no streaming"}
    BY DEF Call, Replies
  <1>2. /\ calls' = [calls EXCEPT ![c] = begun]
        /\ lost' = lost \ {c} /\ changes' = 0 /\ UNCHANGED cluster
        /\ seen' = [seen EXCEPT ![c] = {job}]
        /\ mute' = [mute EXCEPT ![c] = IF call.tool = "get_training_logs" THEN Mute ELSE {}]
        /\ faulty' = [faulty EXCEPT ![c] = IF call.tool = "get_training_logs" THEN Faulty ELSE {}]
    BY DEF Start
  <1> HIDE DEF begun
  <1>3. TypeOK'
    <2>1. {job} \in SUBSET (Statuses \cup {"absent"}) BY DEF IInv, TypeOK
    <2>2. Mute \in SUBSET Containers /\ Faulty \in SUBSET Containers BY DEF Mute, Faulty
    <2>3. changes' \in 0..MaxChanges BY <1>2, NoChangesYet
    <2>4. QED BY <1>1, <1>2, <2>1, <2>2, <2>3 DEF IInv, TypeOK, cluster
  <1>4. /\ calls'[c] = begun /\ seen'[c] = {job}
        /\ call.tool = "get_training_logs" => mute'[c] = Mute /\ faulty'[c] = Faulty
        /\ \A d \in Callers \ {c} :
              /\ calls'[d] = calls[d] /\ seen'[d] = seen[d]
              /\ mute'[d] = mute[d] /\ faulty'[d] = faulty[d]
              /\ (d \in lost') <=> (d \in lost)
    BY <1>2 DEF IInv, TypeOK
  <1>5. ASSUME NEW d \in Callers \ {c} PROVE (Sound(d, calls[d], lost) /\ Watched(d, calls[d]))'
    BY <1>2, <1>4, <1>5, OthersStaySound
  <1>6. Sound(c, calls[c], lost)'
    BY <1>1, <1>4 DEF Sound, Staged, Counting, Telling, Waiting, Gathering, Together
  <1>7. Watched(c, calls[c])'
    <2>1. Mute' = Mute /\ Faulty' = Faulty /\ job' = job
      BY <1>2 DEF cluster, Mute, Faulty, Wrote
    <2>2. QED BY <1>1, <1>4, <2>1 DEF Watched
  <1>8. QED BY <1>3, <1>5, <1>6, <1>7 DEF IInv

\* The cluster changes: finished calls keep what they saw, the others see more.
LEMMA ObservedIInv ==
    ASSUME IInv, Observed, job' \in Statuses \cup {"absent"},
           now' \in [Pods -> Outputs], before' \in [Pods -> Outputs]
    PROVE  IInv'
  <1>1. calls' = calls /\ lost' = lost /\ changes' \in 0..MaxChanges
    <2>1. changes < MaxChanges /\ changes' = changes + 1 /\ UNCHANGED <<calls, lost>>
      BY DEF Observed
    <2>2. changes \in 0..MaxChanges BY DEF IInv, TypeOK
    <2>3. QED BY <2>1, <2>2, MaxChangesAssumption
  <1>2. Mute' \in SUBSET Containers /\ Faulty' \in SUBSET Containers
    BY DEF Mute, Faulty
  <1>3. TypeOK'
    BY <1>1, <1>2 DEF Observed, IInv, TypeOK
  <1>4. ASSUME NEW d \in Callers PROVE (Sound(d, calls[d], lost) /\ Watched(d, calls[d]))'
    <2>1. Sound(d, calls[d], lost) BY DEF IInv
    <2>2. CASE Idle(d)
      <3>1. seen'[d] = seen[d] /\ mute'[d] = mute[d] /\ faulty'[d] = faulty[d]
        BY <2>2 DEF Observed
      <3>2. calls'[d].stage = "idle" BY <1>1, <2>2 DEF Idle
      <3>3. QED
        BY <1>1, <2>1, <3>1, <3>2
        DEF Sound, Staged, Counting, Telling, Waiting, Gathering, Together, Watched
    <2>3. CASE ~Idle(d)
      <3>1. /\ seen'[d] = seen[d] \cup {job'}
            /\ calls[d].tool = "get_training_logs" =>
                 /\ mute'[d] = mute[d] \cup Mute' /\ faulty'[d] = faulty[d] \cup Faulty'
            /\ mute[d] \subseteq mute'[d] /\ faulty[d] \subseteq faulty'[d]
        BY <2>3 DEF Observed
      <3>2. calls'[d].stage # "idle" BY <1>1, <2>3 DEF Idle
      <3>3. Staged(calls[d])' /\ Counting(d, calls[d], lost)' /\ Telling(d, calls[d])'
            /\ Together(d, calls[d], lost)'
        BY <1>1, <2>1, <3>2 DEF Sound, Staged, Counting, Telling, Together
      <3>4. Waiting(d, calls[d])'
        BY <1>1, <2>1, <3>1 DEF Sound, Waiting
      <3>5. Gathering(d, calls[d], lost)'
        BY <1>1, <2>1, <3>1 DEF Sound, Gathering
      <3>6. Watched(d, calls[d])'
        BY <1>1, <3>1 DEF Watched
      <3>7. QED BY <3>3, <3>4, <3>5, <3>6 DEF Sound
    <2>4. QED BY <2>2, <2>3
  <1>5. QED BY <1>3, <1>4 DEF IInv

-----------------------------------------------------------------------------
\* A request that fails ends the call: the error has its cause.
LEMMA FailedIInv ==
    ASSUME IInv, NEW c \in Callers, calls[c].stage # "idle", Failed(c)
    PROVE  IInv'
  <1> DEFINE call == Answered(calls[c], "sdk_error")
  <1>1. calls[c] \in Call /\ "sdk_error" \in Replies BY DEF IInv, TypeOK, Replies
  <1>2. call \in Call /\ call.stage = "idle" /\ call.reply = "sdk_error"
    BY <1>1, AnsweredIsCall
  <1>3. Set(c, call) /\ lost' = lost \cup {c} BY DEF Failed
  <1> HIDE DEF call
  <1>4. Sound(c, call, lost')
    BY <1>2, <1>3 DEF Sound, Staged, Counting, Telling, Waiting, Gathering, Together
  <1>5. QED BY <1>2, <1>3, <1>4, StepIInv

\* An answer other than one of the logs: it is to be true, or have a cause.
LEMMA AnswerIInv ==
    ASSUME IInv, NEW c \in Callers, NEW reply \in Replies,
           NEW status \in Statuses \cup {"absent"}, calls[c].stage # "idle",
           Came(c, Told(calls[c], reply, status)),
           calls[c].tool = "get_training_logs" => reply # "done",
           reply = "sdk_error" => Counting(c, Told(calls[c], reply, status), lost),
           reply \in {"done", "timeout"} =>
              Telling(c, Told(calls[c], reply, status))
    PROVE  IInv'
  <1> DEFINE call == Told(calls[c], reply, status)
  <1>1. calls[c] \in Call BY DEF IInv, TypeOK
  <1>2. call \in Call /\ call.stage = "idle" /\ call.reply = reply /\ call.tool = calls[c].tool
    BY <1>1, ToldIsCall
  <1>3. Set(c, call) /\ lost' = lost BY DEF Came
  <1>4. reply = "sdk_error" => Counting(c, call, lost') BY <1>3
  <1>5. reply \in {"done", "timeout"} => Telling(c, call) OBVIOUS
  <1>6. calls[c].tool = "get_training_logs" => reply # "done" OBVIOUS
  <1> HIDE DEF call
  <1>7. Counting(c, call, lost') /\ Telling(c, call) BY <1>2, <1>4, <1>5 DEF Counting, Telling
  <1>8. Sound(c, call, lost')
    BY <1>2, <1>6, <1>7 DEF Sound, Staged, Waiting, Gathering, Together
  <1>9. QED BY <1>2, <1>3, <1>8, StepIInv

\* The same, of an answer without a status.
LEMMA BareAnswerIInv ==
    ASSUME IInv, NEW c \in Callers, NEW reply \in Replies, calls[c].stage # "idle",
           Came(c, Answered(calls[c], reply)),
           calls[c].tool = "get_training_logs" => reply # "done",
           reply = "sdk_error" => Counting(c, Answered(calls[c], reply), lost),
           reply \in {"done", "timeout"} => Telling(c, Answered(calls[c], reply))
    PROVE  IInv'
  <1> DEFINE call == Answered(calls[c], reply)
  <1>1. calls[c] \in Call BY DEF IInv, TypeOK
  <1>2. call \in Call /\ call.stage = "idle" /\ call.reply = reply /\ call.tool = calls[c].tool
    BY <1>1, AnsweredIsCall
  <1>3. Set(c, call) /\ lost' = lost BY DEF Came
  <1>4. reply = "sdk_error" => Counting(c, call, lost') BY <1>3
  <1>5. reply \in {"done", "timeout"} => Telling(c, call) OBVIOUS
  <1>6. calls[c].tool = "get_training_logs" => reply # "done" OBVIOUS
  <1> HIDE DEF call
  <1>7. Counting(c, call, lost') /\ Telling(c, call) BY <1>2, <1>4, <1>5 DEF Counting, Telling
  <1>8. Sound(c, call, lost')
    BY <1>2, <1>6, <1>7 DEF Sound, Staged, Waiting, Gathering, Together
  <1>9. QED BY <1>2, <1>3, <1>8, StepIInv

\* get_training_job and get_training_events: the status is the job's.
LEMMA ReadJobIInv ==
    ASSUME IInv, NEW c \in Callers, ReadJob(c) PROVE IInv'
  <1> DEFINE call == calls[c]
  <1>1. call \in Call /\ job \in Statuses \cup {"absent"}
    BY DEF IInv, TypeOK
  <1>2. call.stage = "read" /\ call.tool \in {"get_training_job", "get_training_events"}
    BY DEF ReadJob
  <1>3. job \in seen[c] /\ call.wanted = {}
    BY <1>2 DEF IInv, Watched, Sound, Staged
  <1>4. "done" \in Replies /\ "sdk_error" \in Replies /\ "not_found" \in Replies BY DEF Replies
  <1>5. CASE job # "absent" /\ Came(c, Told(call, "done", job))
    <2> DEFINE answer == Told(call, "done", job)
    <2>1. /\ answer.tool = call.tool /\ answer.reply = "done"
          /\ answer.wanted = call.wanted /\ answer.status = job
      BY <1>1, <1>4, ToldIsCall
    <2>2. Telling(c, answer)
      <3> HIDE DEF answer
      <3>1. QED BY <1>1, <1>2, <1>3, <1>5, <2>1 DEF Telling, Goal
    <2>3. QED BY <1>1, <1>2, <1>4, <1>5, <2>2, AnswerIInv
  <1>6. CASE job = "absent" /\ Came(c, Answered(call, Missing(call.tool)))
    <2>1. Missing(call.tool) \in {"not_found", "sdk_error"}
      BY DEF Missing
    <2>2. Missing(call.tool) = "sdk_error" => Counting(c, Answered(call, "sdk_error"), lost)
      <3> DEFINE answer == Answered(call, "sdk_error")
      <3>1. answer.tool = call.tool
        BY <1>1, <1>4, AnsweredIsCall
      <3> HIDE DEF answer
      <3>2. Missing(call.tool) = "sdk_error" => Counting(c, answer, lost)
        BY <1>2, <1>3, <1>6, <3>1 DEF Counting, Missing
      <3>3. QED BY <3>2 DEF answer
    <2>3. QED BY <1>2, <1>4, <1>6, <2>1, <2>2, BareAnswerIInv
  <1>7. CASE Failed(c) BY <1>2, <1>7, FailedIInv
  <1>8. QED BY <1>5, <1>6, <1>7 DEF ReadJob, Told

\* list_training_jobs: the job is in the list if it has a status that is asked for.
LEMMA ReadListIInv ==
    ASSUME IInv, NEW c \in Callers, ReadList(c) PROVE IInv'
  <1> DEFINE call == calls[c]
  <1>1. call \in Call /\ job \in Statuses \cup {"absent"}
    BY DEF IInv, TypeOK
  <1>2. call.stage = "read" /\ call.tool = "list_training_jobs"
    BY DEF ReadList
  <1>3. job \in seen[c]
    BY <1>2 DEF IInv, Watched
  <1>4. "done" \in Replies /\ "sdk_error" \in Replies BY DEF Replies
  <1>5. ASSUME Came(c, [Answered(call, "done") EXCEPT
                          !.status = IF call.wanted = {} \/ job \in Meant(call.wanted)
                                     THEN job ELSE "absent"])
        PROVE  IInv'
    <2> DEFINE status == IF call.wanted = {} \/ job \in Meant(call.wanted) THEN job ELSE "absent"
    <2>1. status \in Statuses \cup {"absent"} BY <1>1
    <2>2. /\ status # "absent" => status = job /\ (call.wanted = {} \/ job \in Meant(call.wanted))
          /\ status = "absent" => job = "absent" \/ (call.wanted # {} /\ job \notin Meant(call.wanted))
      OBVIOUS
    <2>3. Came(c, Told(call, "done", status)) BY <1>5 DEF Told
    <2> HIDE DEF status
    <2> DEFINE answer == Told(call, "done", status)
    <2>4. /\ answer.tool = call.tool /\ answer.reply = "done"
          /\ answer.wanted = call.wanted /\ answer.status = status
      BY <1>1, <1>4, <2>1, ToldIsCall
    <2>5. call.wanted \in SUBSET (Statuses \cup {"Succeeded"}) BY <1>1 DEF Call
    <2>6. call.wanted = {} => Goal(call.wanted) = Statuses BY DEF Goal
    <2>7. call.wanted # {} => Meant(call.wanted) = Goal(call.wanted) /\ "absent" \notin Meant(call.wanted)
      BY <2>5, MeantIsGoal
    <2>8. "absent" \notin Statuses BY DEF Statuses
    <2>9. /\ status # "absent" => status \in seen[c] \cap Goal(call.wanted)
          /\ status = "absent" => ~(seen[c] \subseteq Goal(call.wanted))
      BY <1>1, <1>3, <2>2, <2>6, <2>7, <2>8
    <2>10. Telling(c, answer)
      <3> HIDE DEF answer
      <3>1. QED BY <2>4, <2>9 DEF Telling
    <2>11. QED BY <1>2, <1>4, <2>1, <2>3, <2>10, AnswerIInv
  <1>6. CASE call.input = "rejected" /\ Came(c, Answered(call, "sdk_error"))
    <2> DEFINE answer == Answered(call, "sdk_error")
    <2>1. answer.tool = call.tool /\ answer.input = call.input
      BY <1>1, <1>4, AnsweredIsCall
    <2>2. Counting(c, answer, lost)
      <3> HIDE DEF answer
      <3>1. QED BY <1>2, <1>6, <2>1 DEF Counting
    <2>3. QED BY <1>2, <1>4, <1>6, <2>2, BareAnswerIInv
  <1>7. CASE Failed(c) BY <1>2, <1>7, FailedIInv
  <1>8. QED BY <1>5, <1>6, <1>7 DEF ReadList

\* wait_for_training: a status that is asked for ends the wait, and a poll that
\* finds another is used up.
LEMMA PollIInv ==
    ASSUME IInv, NEW c \in Callers, Poll(c) PROVE IInv'
  <1> DEFINE call == calls[c]
  <1>1. call \in Call /\ job \in Statuses \cup {"absent"}
    BY DEF IInv, TypeOK
  <1>2. call.stage = "poll"
    BY DEF Poll
  <1>3. job \in seen[c] /\ Waiting(c, call) /\ call.tool = "wait_for_training" /\ Staged(call)
    BY <1>2 DEF IInv, Watched, Sound, Staged
  <1>4. "done" \in Replies /\ "sdk_error" \in Replies /\ "timeout" \in Replies BY DEF Replies
  <1>5. /\ Meant(call.wanted) = Goal(call.wanted)
        /\ "Failed" \in call.wanted => "Failed" \in Meant(call.wanted)
        /\ "absent" \notin Meant(call.wanted)
    <2>1. call.wanted # {} BY <1>2, <1>3 DEF Waiting
    <2>2. call.wanted \in SUBSET (Statuses \cup {"Succeeded"}) BY <1>1 DEF Call
    <2>3. "Failed" \in Statuses BY DEF Statuses
    <2>4. QED BY <2>1, <2>2, <2>3, MeantIsGoal
  <1>6. ASSUME Came(c, Answered(call, "sdk_error")),
               \/ call.input = "rejected"
               \/ job = "absent" \/ (job = "Failed" /\ job \notin Meant(call.wanted))
        PROVE  IInv'
    <2> DEFINE answer == Answered(call, "sdk_error")
    <2>1. answer.tool = call.tool /\ answer.input = call.input /\ answer.wanted = call.wanted
      BY <1>1, <1>4, AnsweredIsCall
    <2>2. Counting(c, answer, lost)
      <3> HIDE DEF answer
      <3>1. QED BY <1>3, <1>5, <1>6, <2>1 DEF Counting
    <2>3. QED BY <1>2, <1>3, <1>4, <1>6, <2>2, BareAnswerIInv
  <1>7. CASE call.left = 0 /\ Came(c, Answered(call, "timeout"))
    <2> DEFINE answer == Answered(call, "timeout")
    <2>1. answer.tool = call.tool /\ answer.polls = call.polls /\ answer.wanted = call.wanted
          /\ answer.reply = "timeout"
      BY <1>1, <1>4, AnsweredIsCall
    <2>2. call.left = call.polls \/ ~(seen[c] \subseteq Goal(call.wanted))
      BY <1>2, <1>3 DEF Waiting
    <2>3. Telling(c, answer)
      <3> HIDE DEF answer
      <3>1. QED BY <1>7, <2>1, <2>2 DEF Telling
    <2>4. QED BY <1>2, <1>3, <1>4, <1>7, <2>3, BareAnswerIInv
  <1>8. CASE job \in Meant(call.wanted) /\ Came(c, Told(call, "done", job))
    <2> DEFINE answer == Told(call, "done", job)
    <2>1. /\ answer.tool = call.tool /\ answer.reply = "done"
          /\ answer.wanted = call.wanted /\ answer.status = job
      BY <1>1, <1>4, ToldIsCall
    <2>2. job # "absent" BY <1>5, <1>8
    <2>3. Telling(c, answer)
      <3> HIDE DEF answer
      <3>1. QED BY <1>3, <1>5, <1>8, <2>1, <2>2 DEF Telling
    <2>4. QED BY <1>1, <1>2, <1>3, <1>4, <1>8, <2>3, AnswerIInv
  <1>9. CASE /\ call.left > 0 /\ job \notin Meant(call.wanted)
             /\ Came(c, [call EXCEPT !.left = @ - 1])
    <2> DEFINE next == [call EXCEPT !.left = call.left - 1]
    <2>1. call.left - 1 \in 0..MaxPolls
      <3>1. call.left \in 0..MaxPolls BY <1>1 DEF Call
      <3>2. QED BY <1>9, <3>1, MaxPollsAssumption
    <2>2. /\ next \in Call /\ next.stage = "poll" /\ next.tool = "wait_for_training"
          /\ next.input = call.input /\ next.status = call.status /\ next.wanted = call.wanted
      BY <1>1, <1>2, <1>3, <2>1 DEF Call
    <2>3. Set(c, next) /\ lost' = lost BY <1>9 DEF Came
    <2> HIDE DEF next
    <2>4. Sound(c, next, lost')
      BY <1>2, <1>3, <1>5, <1>9, <2>2
      DEF Sound, Staged, Counting, Telling, Waiting, Gathering, Together
    <2>5. QED BY <1>2, <1>3, <2>2, <2>3, <2>4, StepIInv
  <1>10. CASE Failed(c) BY <1>2, <1>10, FailedIInv
  <1>11. QED BY <1>6, <1>7, <1>8, <1>9, <1>10 DEF Poll, Told

-----------------------------------------------------------------------------
\* Logs that are put together are a call's.
LEMMA GatheredIsCall ==
    ASSUME NEW call \in Call, NEW lines \in SUBSET Containers, NEW faults
    PROVE  LET answer == Gathered(call, lines, faults) IN
           /\ answer \in Call /\ answer.stage = "idle" /\ answer.reply = "done"
           /\ answer.tool = call.tool /\ answer.step = call.step
           /\ answer.lines = lines /\ answer.status = call.status
           /\ answer.hint = (lines \cap faults # {})
  <1> DEFINE first == Answered(call, "done")
  <1>1. "done" \in Replies BY DEF Replies
  <1>2. /\ first \in Call /\ first.stage = "idle" /\ first.reply = "done"
        /\ first.tool = call.tool /\ first.step = call.step /\ first.status = call.status
    BY <1>1, AnsweredIsCall
  <1> HIDE DEF first
  <1>3. \A hint \in BOOLEAN :
          LET answer == [first EXCEPT !.lines = lines, !.hint = hint] IN
          /\ answer \in Call /\ answer.stage = "idle" /\ answer.reply = "done"
          /\ answer.tool = call.tool /\ answer.step = call.step
          /\ answer.lines = lines /\ answer.status = call.status
          /\ answer.hint = hint
    BY <1>2 DEF Call
  <1>4. (lines \cap faults # {}) \in BOOLEAN OBVIOUS
  <1>5. Gathered(call, lines, faults) =
          [first EXCEPT !.lines = lines, !.hint = lines \cap faults # {}]
    BY DEF Gathered, first
  <1>6. QED BY <1>3, <1>4, <1>5

\* The pod of the step is read: its lines, or none, and then the pods are listed.
LEMMA ReadLogsIInv ==
    ASSUME IInv, NEW c \in Callers, ReadLogs(c) PROVE IInv'
  <1> DEFINE call == calls[c]
             lines == {x \in Containers \ Mute : x = <<call.step, "now">>}
  <1>1. call \in Call BY DEF IInv, TypeOK
  <1>2. call.stage = "read" /\ call.tool = "get_training_logs" BY DEF ReadLogs
  <1>3. Mute \subseteq mute[c] /\ Faulty \subseteq faulty[c] /\ Sound(c, call, lost)
    BY <1>2 DEF IInv, Watched
  <1>4. call.status = "absent" /\ call.lines = {} /\ ~call.hint /\ Staged(call)
    BY <1>2, <1>3 DEF Sound, Staged, Gathering
  <1>5. "not_found" \in Replies BY DEF Replies
  <1>6. CASE Came(c, Answered(call, Missing(call.tool)))
    <2>1. Missing(call.tool) = "not_found" BY <1>2 DEF Missing
    <2>2. QED BY <1>2, <1>5, <1>6, <2>1, BareAnswerIInv
  <1>7. CASE lines # {} /\ Came(c, Gathered(call, lines, Faulty))
    <2>1. /\ lines \in SUBSET Containers /\ call.step \in Pods
          /\ lines = {<<call.step, "now">>}
      BY <1>7 DEF Containers
    <2> HIDE DEF lines
    <2> DEFINE answer == Gathered(call, lines, Faulty)
    <2>2. /\ answer \in Call /\ answer.stage = "idle" /\ answer.reply = "done"
          /\ answer.tool = call.tool /\ answer.step = call.step
          /\ answer.lines = lines /\ answer.status = call.status
          /\ answer.hint = (lines \cap Faulty # {})
      BY <1>1, <2>1, GatheredIsCall
    <2>3. Set(c, answer) /\ lost' = lost BY <1>7 DEF Came
    <2> HIDE DEF answer
    <2>4. call.step \in Of(call.step) BY <2>1 DEF Of
    <2>5. /\ \A p \in Pods : <<p, "before">> \notin answer.lines
          /\ answer.lines # {}
          /\ answer.lines \subseteq Of(call.step) \X {"now", "before"}
      BY <2>1, <2>2, <2>4
    <2>6. Together(c, answer, lost')
      BY <1>3, <2>2, <2>5 DEF Together
    <2>7. Telling(c, answer) BY <1>2, <1>4, <2>2 DEF Telling
    <2>8. Sound(c, answer, lost')
      BY <2>2, <2>6, <2>7 DEF Sound, Staged, Counting, Waiting, Gathering
    <2>9. QED BY <2>2, <2>3, <2>8, StepIInv
  <1>8. CASE lines = {} /\ Came(c, [call EXCEPT !.stage = "pods"])
    <2> DEFINE next == [call EXCEPT !.stage = "pods"]
    <2>1. \A p \in Pods : call.step = p => <<p, "now">> \in Mute
      BY <1>8 DEF Containers
    <2> HIDE DEF lines
    <2>2. /\ next \in Call /\ next.stage = "pods" /\ next.tool = call.tool
          /\ next.input = call.input /\ next.step = call.step /\ next.lines = call.lines
          /\ next.status = call.status /\ (next.hint <=> call.hint)
      BY <1>1 DEF Call
    <2>3. Set(c, next) /\ lost' = lost BY <1>8 DEF Came
    <2> HIDE DEF next
    <2>4. Gathering(c, next, lost')
      BY <1>3, <1>4, <2>1, <2>2 DEF Gathering
    <2>5. Staged(next)
      BY <1>2, <1>4, <2>2 DEF Staged
    <2>6. Sound(c, next, lost')
      BY <2>2, <2>4, <2>5 DEF Sound, Counting, Telling, Waiting, Together
    <2>7. QED BY <1>2, <2>2, <2>3, <2>6, StepIInv
  <1>9. CASE Failed(c) BY <1>2, <1>9, FailedIInv
  <1>10. QED BY <1>6, <1>7, <1>8, <1>9 DEF ReadLogs

\* The pods of the job are listed: those of the step are to be read.
LEMMA ListPodsIInv ==
    ASSUME IInv, NEW c \in Callers, ListPods(c) PROVE IInv'
  <1> DEFINE call == calls[c]
  <1>1. call \in Call BY DEF IInv, TypeOK
  <1>2. call.stage = "pods" BY DEF ListPods
  <1>3. Sound(c, call, lost) BY DEF IInv
  <1>4. /\ call.tool = "get_training_logs" /\ call.status = "absent" /\ call.lines = {}
        /\ ~call.hint /\ Staged(call)
    BY <1>2, <1>3 DEF Sound, Staged, Gathering
  <1>5. CASE Came(c, [call EXCEPT !.stage = "previous",
                                  !.pods = {p \in Pods : IsPodForStep(p, call.step)}])
    <2> DEFINE pods == {p \in Pods : IsPodForStep(p, call.step)}
               next == [call EXCEPT !.stage = "previous", !.pods = pods]
    <2>1. pods \in SUBSET Pods /\ pods \subseteq Of(call.step) /\ Of(call.step) \subseteq pods
      <3>1. call.step \in Pods \cup {"node"} BY <1>1 DEF Call, Steps
      <3>2. QED BY <3>1 DEF IsPodForStep, Of
    <2> HIDE DEF pods
    <2>2. /\ next \in Call /\ next.stage = "previous" /\ next.tool = call.tool
          /\ next.input = call.input /\ next.step = call.step /\ next.lines = call.lines
          /\ next.status = call.status /\ (next.hint <=> call.hint) /\ next.pods = pods
      BY <1>1, <2>1 DEF Call
    <2>3. Set(c, next) /\ lost' = lost BY <1>5 DEF Came, pods
    <2> HIDE DEF next
    <2>4. Gathering(c, next, lost')
      BY <1>2, <1>3, <1>4, <2>1, <2>2 DEF Sound, Gathering
    <2>5. Staged(next)
      BY <1>2, <1>4, <2>2 DEF Staged
    <2>6. Sound(c, next, lost')
      BY <2>2, <2>4, <2>5 DEF Sound, Counting, Telling, Waiting, Together
    <2>7. QED BY <1>2, <2>2, <2>3, <2>6, StepIInv
  <1>6. CASE Set(c, Gathered(call, {}, Faulty)) /\ lost' = lost \cup {c}
    <2> DEFINE answer == Gathered(call, {}, Faulty)
    <2>1. {} \in SUBSET Containers OBVIOUS
    <2>2. /\ answer \in Call /\ answer.stage = "idle" /\ answer.reply = "done"
          /\ answer.tool = call.tool /\ answer.step = call.step
          /\ answer.lines = {} /\ answer.status = call.status
          /\ answer.hint = ({} \cap Faulty # {})
      BY <1>1, <2>1, GatheredIsCall
    <2> HIDE DEF answer
    <2>3. Together(c, answer, lost') BY <1>6, <2>2 DEF Together
    <2>4. Telling(c, answer) BY <1>4, <2>2 DEF Telling
    <2>5. Sound(c, answer, lost')
      BY <2>2, <2>3, <2>4 DEF Sound, Staged, Counting, Waiting, Gathering
    <2>6. QED BY <1>6, <2>2, <2>5, StepIInv DEF answer
  <1>7. CASE Came(c, Answered(call, "refused"))
    BY <1>2, <1>7, BareAnswerIInv DEF Replies
  <1>8. QED BY <1>5, <1>6, <1>7 DEF ListPods

\* The previous container of one pod is read, or cannot be read; with the last
\* of them the logs are together.
LEMMA ReadPreviousIInv ==
    ASSUME IInv, NEW c \in Callers, ReadPrevious(c) PROVE IInv'
  <1> DEFINE call == calls[c]
  <1>1. call \in Call BY DEF IInv, TypeOK
  <1>2. call.stage = "previous" BY DEF ReadPrevious
  <1>3. Sound(c, call, lost) /\ Watched(c, call) BY DEF IInv
  <1>4. call.tool = "get_training_logs" /\ call.status = "absent" /\ Staged(call)
    BY <1>2, <1>3 DEF Sound, Staged
  <1>5. /\ call.lines \subseteq Of(call.step) \X {"before"}
        /\ call.pods \subseteq Of(call.step)
        /\ c \notin lost =>
             \A p \in Of(call.step) \ call.pods :
                <<p, "before">> \in call.lines \/ <<p, "before">> \in mute[c]
        /\ call.hint => call.lines \cap faulty[c] # {}
        /\ \A p \in Pods : call.step = p => <<p, "now">> \in mute[c]
        /\ Mute \subseteq mute[c] /\ Faulty \subseteq faulty[c]
    BY <1>2, <1>3, <1>4 DEF Sound, Gathering, Watched
  <1>6. CASE call.pods = {} /\ Came(c, Answered(call, "done"))
    <2> DEFINE answer == Answered(call, "done")
    <2>1. "done" \in Replies BY DEF Replies
    <2>2. /\ answer \in Call /\ answer.stage = "idle" /\ answer.reply = "done"
          /\ answer.tool = call.tool /\ answer.step = call.step
          /\ answer.lines = call.lines /\ answer.status = call.status
          /\ (answer.hint <=> call.hint)
      BY <1>1, <2>1, AnsweredIsCall
    <2>3. Set(c, answer) /\ lost' = lost BY <1>6 DEF Came
    <2> HIDE DEF answer
    <2>4. \A p \in Pods : <<p, "before">> \in call.lines =>
             call.step = "node" \/ <<p, "now">> \in mute[c]
      BY <1>5 DEF Of
    <2>5. call.lines = {} /\ c \notin lost =>
             \A p \in Of(call.step) : /\ <<p, "before">> \in mute[c]
                                      /\ call.step = p => <<p, "now">> \in mute[c]
      <3>1. \A p \in Of(call.step) : call.step = p => p \in Pods
        BY <1>1 DEF Of, Call, Steps, Pods
      <3>2. QED BY <1>5, <1>6, <3>1
    <2>6. call.lines \subseteq Of(call.step) \X {"now", "before"} BY <1>5
    <2>7. Together(c, answer, lost')
      BY <1>5, <2>2, <2>3, <2>4, <2>5, <2>6 DEF Together
    <2>8. Telling(c, answer) BY <1>4, <2>2 DEF Telling
    <2>9. Sound(c, answer, lost')
      BY <2>2, <2>7, <2>8 DEF Sound, Staged, Counting, Waiting, Gathering
    <2>10. QED BY <2>2, <2>3, <2>9, StepIInv
  <1>7. ASSUME NEW p \in call.pods, NEW more \in SUBSET {<<p, "before">>}, NEW hint \in BOOLEAN,
               Set(c, [call EXCEPT !.pods = call.pods \ {p}, !.lines = call.lines \cup more,
                                   !.hint = hint]),
               lost' = lost \/ lost' = lost \cup {c},
               c \notin lost' => more # {} \/ <<p, "before">> \in mute[c],
               hint => call.hint \/ more \cap faulty[c] # {}
        PROVE  IInv'
    <2> DEFINE next == [call EXCEPT !.pods = call.pods \ {p}, !.lines = call.lines \cup more,
                                    !.hint = hint]
    <2>1. p \in Pods /\ p \in Of(call.step) /\ call.pods \in SUBSET Pods
          /\ call.lines \in SUBSET Containers
      BY <1>1, <1>5 DEF Call
    <2>2. more \in SUBSET Containers BY <2>1 DEF Containers
    <2>3. /\ next \in Call /\ next.stage = "previous" /\ next.tool = call.tool
          /\ next.input = call.input /\ next.step = call.step
          /\ next.lines = call.lines \cup more /\ next.status = call.status
          /\ next.hint = hint /\ next.pods = call.pods \ {p}
      BY <1>1, <1>2, <2>1, <2>2 DEF Call
    <2>4. Set(c, next) BY <1>7
    <2> HIDE DEF next
    <2>5. next.lines \subseteq Of(next.step) \X {"before"} /\ next.pods \subseteq Of(next.step)
      BY <1>5, <2>1, <2>3
    <2>6. c \notin lost' => \A q \in Of(next.step) \ next.pods :
             <<q, "before">> \in next.lines \/ <<q, "before">> \in mute[c]
      <3>1. SUFFICES ASSUME c \notin lost', NEW q \in Of(call.step), q \notin call.pods \/ q = p
                     PROVE  <<q, "before">> \in next.lines \/ <<q, "before">> \in mute[c]
        BY <2>3
      <3>2. c \notin lost BY <1>7, <3>1
      <3>3. CASE q \notin call.pods BY <1>5, <2>3, <3>2, <3>3
      <3>4. CASE q = p
        <4>1. more # {} => <<p, "before">> \in next.lines BY <2>3
        <4>2. QED BY <1>7, <3>1, <3>4, <4>1
      <3>5. QED BY <3>1, <3>3, <3>4
    <2>7. next.hint => next.lines \cap faulty[c] # {}
      BY <1>5, <1>7, <2>3
    <2>8. Gathering(c, next, lost')
      BY <1>5, <2>3, <2>5, <2>6, <2>7 DEF Gathering
    <2>9. Staged(next) BY <1>2, <1>4, <2>3 DEF Staged
    <2>10. Sound(c, next, lost')
      BY <2>3, <2>8, <2>9 DEF Sound, Counting, Telling, Waiting, Together
    <2>11. QED BY <1>2, <1>7, <2>3, <2>4, <2>10, StepIInv
  <1>8. ASSUME NEW p \in call.pods,
               Came(c, [call EXCEPT !.pods = @ \ {p},
                          !.lines = IF before[p] = "silent" THEN @ ELSE @ \cup {<<p, "before">>},
                          !.hint = @ \/ before[p] = "error"])
        PROVE  IInv'
    <2> DEFINE more == IF before[p] = "silent" THEN {} ELSE {<<p, "before">>}
               hint == call.hint \/ before[p] = "error"
    <2>1. <<p, "before">> \in Containers /\ Wrote(<<p, "before">>) = before[p]
      BY <1>1 DEF Call, Containers, Wrote
    <2>2. before[p] = "silent" => <<p, "before">> \in mute[c]
      BY <1>5, <2>1 DEF Mute
    <2>3. before[p] = "error" => <<p, "before">> \in faulty[c] /\ before[p] # "silent"
      BY <1>5, <2>1 DEF Faulty
    <2>4. [call EXCEPT !.pods = call.pods \ {p},
             !.lines = IF before[p] = "silent" THEN call.lines ELSE call.lines \cup {<<p, "before">>},
             !.hint = hint]
          = [call EXCEPT !.pods = call.pods \ {p}, !.lines = call.lines \cup more, !.hint = hint]
      <3>1. (IF before[p] = "silent" THEN call.lines ELSE call.lines \cup {<<p, "before">>})
             = call.lines \cup more
        OBVIOUS
      <3>2. QED BY <3>1
    <2>5. /\ Set(c, [call EXCEPT !.pods = call.pods \ {p}, !.lines = call.lines \cup more,
                                 !.hint = hint])
          /\ lost' = lost
      BY <1>8, <2>4 DEF Came
    <2>6. more \in SUBSET {<<p, "before">>} OBVIOUS
    <2>7. more # {} \/ <<p, "before">> \in mute[c] BY <2>2
    <2>8. hint => call.hint \/ more \cap faulty[c] # {} BY <2>3
    <2>9. hint \in BOOLEAN BY <1>1 DEF Call
    <2> HIDE DEF more, hint
    <2>10. QED BY <1>7, <2>5, <2>6, <2>7, <2>8, <2>9
  <1>9. ASSUME NEW p \in call.pods,
               Set(c, [call EXCEPT !.pods = @ \ {p}]), lost' = lost \cup {c}
        PROVE  IInv'
    <2>1. call.hint \in BOOLEAN BY <1>1 DEF Call
    <2>2. [call EXCEPT !.pods = call.pods \ {p}]
          = [call EXCEPT !.pods = call.pods \ {p}, !.lines = call.lines \cup {}, !.hint = call.hint]
      BY <1>1 DEF Call
    <2>3. Set(c, [call EXCEPT !.pods = call.pods \ {p}, !.lines = call.lines \cup {},
                              !.hint = call.hint])
      BY <1>9, <2>2
    <2>4. {} \in SUBSET {<<p, "before">>} OBVIOUS
    <2>5. QED BY <1>7, <1>9, <2>1, <2>3, <2>4
  <1>10. QED BY <1>6, <1>8, <1>9 DEF ReadPrevious

-----------------------------------------------------------------------------
\* A call that is taken up.
LEMMA NewCallStarts ==
    ASSUME IInv, NEW c \in Callers, NEW call \in Call, Start(c, call),
           NEW tool \in Tools, NEW input \in Inputs,
           call.tool = tool, call.input = input,
           call.stage \in {First(input, IF tool = "wait_for_training" THEN "poll" ELSE "read"), "idle"},
           call.reply \in {"none", "no streaming"},
           call.lines = {}, call.hint = FALSE, call.status = "absent", call.left = call.polls,
           tool \in {"get_training_job", "get_training_events"} => call.wanted = {},
           tool = "wait_for_training" => call.wanted # {}
    PROVE  IInv'
  <1>1. call.stage # "idle" => input # "refused" /\ call.stage \in {"read", "poll"}
                               /\ (call.stage = "poll" <=> tool = "wait_for_training")
    BY DEF First
  <1>2. call.stage \in {"idle", "read", "poll"}
    BY <1>1
  <1>3. input \in {"refused", "rejected", "fine"}
    BY DEF Inputs
  <1>4. QED BY <1>1, <1>2, <1>3, StartIInv

LEMMA StartsIInv ==
    ASSUME IInv, NEW c \in Callers, NEW input \in Inputs,
           \/ GetTrainingEvents(c, input) \/ GetTrainingJob(c, input)
           \/ \E step \in Steps, follow \in BOOLEAN : GetTrainingLogs(c, input, step, follow)
           \/ \E wanted \in Wanted :
                 \/ ListTrainingJobs(c, input, wanted)
                 \/ \E polls \in 0..MaxPolls : WaitForTraining(c, input, wanted, polls)
    PROVE  IInv'
  <1>1. \A tool \in Tools : LET new == NewCall(tool, input) IN
          /\ new \in Call /\ new.tool = tool /\ new.input = input /\ new.stage = "idle"
          /\ new.wanted = {} /\ new.lines = {} /\ new.hint = FALSE /\ new.status = "absent"
          /\ new.left = new.polls /\ new.reply = "none"
    BY NewCallIsCall DEF NewCall
  <1>2. First(input, "read") \in {"idle", "read"} /\ First(input, "poll") \in {"idle", "poll"}
    BY DEF First
  <1>3. ASSUME NEW tool \in {"get_training_events", "get_training_job"},
               Start(c, [NewCall(tool, input) EXCEPT !.stage = First(input, "read")])
        PROVE  IInv'
    <2> DEFINE new == NewCall(tool, input)
               call == [new EXCEPT !.stage = First(input, "read")]
    <2>1. tool \in Tools BY DEF Tools
    <2>2. /\ new \in Call /\ new.tool = tool /\ new.input = input /\ new.stage = "idle"
          /\ new.wanted = {} /\ new.lines = {} /\ new.hint = FALSE /\ new.status = "absent"
          /\ new.left = new.polls /\ new.reply = "none"
      BY <1>1, <2>1
    <2> HIDE DEF new
    <2>3. /\ call \in Call /\ call.tool = tool /\ call.input = input
          /\ call.stage = First(input, "read")
          /\ call.wanted = {} /\ call.lines = {} /\ call.hint = FALSE /\ call.status = "absent"
          /\ call.left = call.polls /\ call.reply = "none"
      BY <1>2, <2>2 DEF Call
    <2>4. Start(c, call) BY <1>3 DEF new
    <2> HIDE DEF call
    <2>5. QED BY <2>1, <2>3, <2>4, NewCallStarts
  <1>4. ASSUME NEW step \in Steps, NEW follow \in BOOLEAN, GetTrainingLogs(c, input, step, follow)
        PROVE  IInv'
    <2> DEFINE new == NewCall("get_training_logs", input)
               reply == IF follow THEN "no streaming" ELSE "none"
               stage == IF follow THEN "idle" ELSE First(input, "read")
               call == [new EXCEPT !.step = step, !.stage = stage, !.reply = reply]
    <2>1. "get_training_logs" \in Tools BY DEF Tools
    <2>2. /\ new \in Call /\ new.tool = "get_training_logs" /\ new.input = input
          /\ new.stage = "idle" /\ new.wanted = {} /\ new.lines = {} /\ new.hint = FALSE
          /\ new.status = "absent" /\ new.left = new.polls /\ new.reply = "none"
      BY <1>1, <2>1
    <2>3. Start(c, IF follow THEN [[new EXCEPT !.step = step] EXCEPT !.reply = "no streaming"]
                   ELSE [[new EXCEPT !.step = step] EXCEPT !.stage = First(input, "read")])
      BY <1>4 DEF GetTrainingLogs
    <2> HIDE DEF new
    <2>4. (IF follow THEN [[new EXCEPT !.step = step] EXCEPT !.reply = "no streaming"]
           ELSE [[new EXCEPT !.step = step] EXCEPT !.stage = First(input, "read")]) = call
      <3> DEFINE first == [new EXCEPT !.step = step]
      <3>1. first \in Call /\ first.stage = "idle" /\ first.reply = "none"
        BY <2>2 DEF Call
      <3>2. call = [first EXCEPT !.stage = stage, !.reply = reply]
        BY <2>2 DEF Call
      <3> HIDE DEF first
      <3>3. QED BY <3>1, <3>2 DEF Call, first
    <2>5. stage \in {"idle", "read"} /\ reply \in Replies BY <1>2 DEF Replies
    <2>6. /\ call \in Call /\ call.tool = "get_training_logs" /\ call.input = input
          /\ call.stage = stage
          /\ call.wanted = {} /\ call.lines = {} /\ call.hint = FALSE /\ call.status = "absent"
          /\ call.left = call.polls /\ call.reply \in {"none", "no streaming"}
      BY <2>2, <2>5 DEF Call
    <2>7. Start(c, call) BY <2>3, <2>4
    <2> HIDE DEF call
    <2>8. QED BY <2>1, <2>6, <2>7, NewCallStarts
  <1>5. CASE GetTrainingEvents(c, input) BY <1>3, <1>5 DEF GetTrainingEvents
  <1>6. CASE GetTrainingJob(c, input) BY <1>3, <1>6 DEF GetTrainingJob
  <1>7. ASSUME NEW wanted \in Wanted, ListTrainingJobs(c, input, wanted) PROVE IInv'
    <2> DEFINE new == NewCall("list_training_jobs", input)
               call == [new EXCEPT !.stage = First(input, "read"), !.wanted = wanted]
    <2>1. "list_training_jobs" \in Tools BY DEF Tools
    <2>2. /\ new \in Call /\ new.tool = "list_training_jobs" /\ new.input = input
          /\ new.lines = {} /\ new.hint = FALSE /\ new.left = new.polls
          /\ new.status = "absent" /\ new.reply = "none"
      BY <1>1, <2>1
    <2>3. wanted \in SUBSET (Statuses \cup {"Succeeded"}) BY WantedAssumption
    <2>4. Start(c, call) BY <1>7 DEF ListTrainingJobs
    <2> HIDE DEF new
    <2>5. /\ call \in Call /\ call.tool = "list_training_jobs" /\ call.input = input
          /\ call.stage = First(input, "read")
          /\ call.lines = {} /\ call.hint = FALSE /\ call.status = "absent"
          /\ call.left = call.polls /\ call.reply = "none"
      BY <1>2, <2>2, <2>3 DEF Call
    <2> HIDE DEF call
    <2>6. QED BY <2>1, <2>4, <2>5, NewCallStarts
  <1>8. ASSUME NEW wanted \in Wanted, NEW polls \in 0..MaxPolls,
               WaitForTraining(c, input, wanted, polls)
        PROVE  IInv'
    <2> DEFINE new == NewCall("wait_for_training", input)
               call == [new EXCEPT !.stage = First(input, "poll"), !.wanted = wanted,
                                   !.polls = polls, !.left = polls]
    <2>1. "wait_for_training" \in Tools BY DEF Tools
    <2>2. /\ new \in Call /\ new.tool = "wait_for_training" /\ new.input = input
          /\ new.lines = {} /\ new.hint = FALSE
          /\ new.status = "absent" /\ new.reply = "none"
      BY <1>1, <2>1
    <2>3. wanted \in SUBSET (Statuses \cup {"Succeeded"}) BY WantedAssumption
    <2>4. Start(c, call) /\ wanted # {} BY <1>8 DEF WaitForTraining
    <2> HIDE DEF new
    <2>5. /\ call \in Call /\ call.tool = "wait_for_training" /\ call.input = input
          /\ call.stage = First(input, "poll") /\ call.wanted = wanted
          /\ call.lines = {} /\ call.hint = FALSE /\ call.status = "absent"
          /\ call.left = call.polls /\ call.reply = "none"
      BY <1>2, <2>2, <2>3 DEF Call
    <2> HIDE DEF call
    <2>6. QED BY <2>1, <2>4, <2>5, NewCallStarts
  <1>9. QED BY <1>4, <1>5, <1>6, <1>7, <1>8

\* Changes of the cluster leave it one that the model has.
LEMMA ChangesIInv ==
    ASSUME IInv,
           \/ Progress \/ Halt
           \/ \E p \in Pods : Write(p) \/ Restart(p) \/ Vanish(p)
    PROVE  IInv'
  <1>1. /\ job \in Statuses \cup {"absent"}
        /\ now \in [Pods -> Outputs] /\ before \in [Pods -> Outputs]
    BY DEF IInv, TypeOK
  <1>2. CASE Progress
    <2>1. job' \in Statuses \cup {"absent"} /\ now' = now /\ before' = before /\ Observed
      BY <1>2 DEF Progress, Statuses
    <2>2. QED BY <1>1, <2>1, ObservedIInv
  <1>3. CASE Halt
    <2>1. job' \in Statuses \cup {"absent"} BY <1>3 DEF Halt, Statuses
    <2>2. Silence \in [Pods -> Outputs] BY DEF Silence, Outputs
    <2>3. QED BY <1>3, <2>1, <2>2, ObservedIInv DEF Halt
  <1>4. ASSUME NEW p \in Pods, Write(p) PROVE IInv'
    <2>1. now' \in [Pods -> Outputs] BY <1>1, <1>4 DEF Write, Outputs
    <2>2. QED BY <1>1, <1>4, <2>1, ObservedIInv DEF Write
  <1>5. ASSUME NEW p \in Pods, Restart(p) PROVE IInv'
    <2>1. now' \in [Pods -> Outputs] /\ before' \in [Pods -> Outputs]
      BY <1>1, <1>5 DEF Restart, Outputs
    <2>2. QED BY <1>1, <1>5, <2>1, ObservedIInv DEF Restart
  <1>6. ASSUME NEW p \in Pods, Vanish(p) PROVE IInv'
    <2>1. now' \in [Pods -> Outputs] /\ before' \in [Pods -> Outputs]
      BY <1>1, <1>6 DEF Vanish, Outputs
    <2>2. QED BY <1>1, <1>6, <2>1, ObservedIInv DEF Vanish
  <1>7. QED BY <1>2, <1>3, <1>4, <1>5, <1>6

\* Nothing is under way or answered in the beginning.
LEMMA InitIInv == Init => IInv
  <1> SUFFICES ASSUME Init PROVE IInv
    OBVIOUS
  <1>1. LET new == NewCall("get_training_job", "fine") IN
          /\ new \in Call /\ new.stage = "idle" /\ new.reply = "none"
    BY NewCallIsCall DEF NewCall, Tools, Inputs
  <1>2. /\ calls \in [Callers -> Call]
        /\ \A c \in Callers : calls[c].stage = "idle" /\ calls[c].reply = "none"
    BY <1>1 DEF Init
  <1>3. TypeOK BY <1>2, NoChangesYet DEF Init, TypeOK
  <1>4. ASSUME NEW c \in Callers PROVE Sound(c, calls[c], lost) /\ Watched(c, calls[c])
    BY <1>2 DEF Sound, Staged, Counting, Telling, Waiting, Gathering, Together, Watched
  <1>5. QED BY <1>3, <1>4 DEF IInv

\* Every step keeps the invariant.
LEMMA NextIInv == IInv /\ [Next]_vars => IInv'
  <1> SUFFICES ASSUME IInv, [Next]_vars PROVE IInv'
    OBVIOUS
  <1>1. CASE \E c \in Callers, input \in Inputs :
              \/ GetTrainingEvents(c, input) \/ GetTrainingJob(c, input)
              \/ \E step \in Steps, follow \in BOOLEAN : GetTrainingLogs(c, input, step, follow)
              \/ \E wanted \in Wanted :
                    \/ ListTrainingJobs(c, input, wanted)
                    \/ \E polls \in 0..MaxPolls : WaitForTraining(c, input, wanted, polls)
    BY <1>1, StartsIInv
  <1>2. CASE \E c \in Callers : ReadJob(c) \/ ReadList(c) \/ Poll(c)
    BY <1>2, ReadJobIInv, ReadListIInv, PollIInv
  <1>3. CASE \E c \in Callers : ReadLogs(c) \/ ListPods(c) \/ ReadPrevious(c)
    BY <1>3, ReadLogsIInv, ListPodsIInv, ReadPreviousIInv
  <1>4. CASE Progress \/ Halt \/ \E p \in Pods : Write(p) \/ Restart(p) \/ Vanish(p)
    BY <1>4, ChangesIInv
  <1>5. CASE UNCHANGED vars
    <2>1. Mute' = Mute /\ Faulty' = Faulty BY <1>5 DEF vars, Mute, Faulty, Wrote
    <2>2. TypeOK' BY <1>5 DEF vars, IInv, TypeOK
    <2>3. ASSUME NEW c \in Callers PROVE (Sound(c, calls[c], lost) /\ Watched(c, calls[c]))'
      BY <1>5, <2>1
      DEF vars, IInv, Sound, Staged, Counting, Telling, Waiting, Gathering, Together, Watched
    <2>4. QED BY <2>2, <2>3 DEF IInv
  <1>6. QED BY <1>1, <1>2, <1>3, <1>4, <1>5 DEF Next

\* The inductive invariant holds in every behaviour of the watching tools.
THEOREM Invariant == Spec => []IInv
  <1>1. QED BY InitIInv, NextIInv, PTL DEF Spec

\* The threads' calls, the cluster and the observers stay of their types.
THEOREM TypeCorrect == Spec => []TypeOK
  <1>1. IInv => TypeOK BY DEF IInv
  <1>2. QED BY <1>1, Invariant, PTL

\* An error that counts against the circuit breaker has a cause
\* (trainer/api/monitoring.py:306, 394, trainer/api/discovery.py:116).
THEOREM ErrorsHaveCauses == Spec => []CountedNeedsCause
  <1>1. IInv => CountedNeedsCause BY DEF IInv, Sound, Counting, CountedNeedsCause, Idle
  <1>2. QED BY <1>1, Invariant, PTL

\* The statuses that are answered were the job's
\* (trainer/api/monitoring.py:363-392, trainer/api/discovery.py:110-114).
THEOREM StatusesSeen == Spec => []StatusTold
  <1>1. IInv => StatusTold BY DEF IInv, Sound, Telling, StatusTold, Goal, Idle
  <1>2. QED BY <1>1, Invariant, PTL

\* The logs are those of the step that was asked for
\* (trainer/api/monitoring.py:116-127, 171-208, 223).
THEOREM LinesAreTheSteps == Spec => []LogsOfStep
  <1>1. IInv => LogsOfStep BY DEF IInv, Sound, Together, LogsOfStep, Of, Idle
  <1>2. QED BY <1>1, Invariant, PTL
=============================================================================
