------------------------- MODULE PlatformTools_proofs -------------------------
(***************************************************************************)
(* What the platform tools answer is true of the cluster, for any number   *)
(* of threads, runtimes, jobs and namespaces: deletions are told, the jobs *)
(* reported are those that name the runtime, faults have a cause, and the  *)
(* search for the controller leaves out no place.                          *)
(***************************************************************************)
EXTENDS PlatformTools, TLAPS

\* The stages belong to their tools.
Staged(c) ==
    /\ calls[c].stage = "request" => calls[c].tool \in {"patch_runtime", "create_runtime"}
    /\ calls[c].stage \in {"list", "delete", "repeat"} => calls[c].tool = "delete_runtime"
    /\ calls[c].stage \in {"list_crds", "read_crd"} => calls[c].tool = "inspect_crd"
    /\ calls[c].stage \in {"scan", "read_pod"} => calls[c].tool = "inspect_controller"

\* A call about a runtime has noted whether that is there.
Traced(c) ==
    calls[c].stage # "idle" /\ calls[c].tool \in RuntimeTools =>
       /\ runtimes[calls[c].runtime] # "absent" => c \in present
       /\ runtimes[calls[c].runtime] = "absent" => c \in absent

HasRemoved(c) == \E repeated \in BOOLEAN : <<c, repeated>> \in removed

\* A deletion that goes on after it took effect has lost an answer.
Removing(c) == calls[c].stage # "idle" /\ HasRemoved(c) => c \in trouble

Removal(c) ==
    Over(c, "delete_runtime") =>
       /\ calls[c].reply = "done" => HasRemoved(c)
       /\ calls[c].reply = "not_found" => c \in absent
       /\ calls[c].reply # "done" /\ HasRemoved(c) => c \in trouble

\* Until the jobs are listed, those that stay refer to the runtime, and those
\* that refer to it, or to another of its name, are known.
Listing(c) ==
    calls[c].stage = "list" => /\ steady[c] \subseteq Referring(calls[c].runtime)
                               /\ Referring(calls[c].runtime) \subseteq ever[c]
                               /\ Misnamed(calls[c].runtime) \subseteq namesakes[c]

Between(c) ==
    \/ calls[c].stage \in {"delete", "repeat"}
    \/ Over(c, "delete_runtime") /\ calls[c].reply \in {"preview", "done"}
    => /\ calls[c].dependents \subseteq ever[c] \cup namesakes[c]
       /\ IF calls[c].listed THEN steady[c] \subseteq calls[c].dependents
          ELSE calls[c].dependents = {} /\ c \in trouble

Blamed(c) ==
    /\ Idle(c) /\ calls[c].reply = "kubernetes_error"
    => \/ c \in trouble
       \/ calls[c].input = "malformed"
       \/ calls[c].tool = "create_runtime" /\ c \in present
       \/ calls[c].tool = "inspect_controller" /\ calls[c].vanished

\* No place that was passed by had the controller all the time.
Passed(c) ==
    calls[c].stage = "scan" =>
       /\ calls[c].at >= 1 /\ staying[c] \subseteq controllers
       /\ c \notin trouble =>
            \A i \in DOMAIN Search(calls[c].namespaces) :
               i < calls[c].at => Search(calls[c].namespaces)[i] \notin staying[c]

Missed(c) ==
    /\ Over(c, "inspect_controller") /\ calls[c].reply = "not_found"
    /\ c \notin trouble
    => staying[c] \cap ({calls[c].namespaces[i] : i \in DOMAIN calls[c].namespaces} \X Labels) = {}

Sound(c) ==
    /\ Staged(c) /\ Traced(c) /\ Removing(c) /\ Removal(c) /\ Listing(c)
    /\ Between(c) /\ Blamed(c) /\ Passed(c) /\ Missed(c)

IInv == TypeOK /\ \A c \in Callers : Sound(c)

-----------------------------------------------------------------------------
\* _find_controller_pod tries both labels in every namespace.
LEMMA SearchIsComplete ==
    ASSUME NEW namespaces, Len(namespaces) \in Nat, DOMAIN namespaces = 1..Len(namespaces),
           NEW i \in DOMAIN namespaces, NEW label \in Labels
    PROVE  \E k \in DOMAIN Search(namespaces) : Search(namespaces)[k] = <<namespaces[i], label>>
  <1>1. i \in Nat /\ i >= 1 /\ i <= Len(namespaces)
    OBVIOUS
  <1>2. /\ 2 * i - 1 \in 1..(2 * Len(namespaces)) /\ (2 * i - 1 + 1) \div 2 = i
        /\ (2 * i - 1) % 2 = 1
    BY <1>1
  <1>3. 2 * i \in 1..(2 * Len(namespaces)) /\ (2 * i + 1) \div 2 = i /\ (2 * i) % 2 # 1
    BY <1>1
  <1>4. CASE label = "component=manager"
    <2>1. Search(namespaces)[2 * i - 1] = <<namespaces[i], label>>
      BY <1>2, <1>4 DEF Search
    <2>2. QED BY <1>2, <2>1 DEF Search
  <1>5. CASE label = "part-of=kubeflow"
    <2>1. Search(namespaces)[2 * i] = <<namespaces[i], label>>
      BY <1>3, <1>5 DEF Search
    <2>2. QED BY <1>3, <2>1 DEF Search
  <1>6. QED BY <1>4, <1>5 DEF Labels

\* A step leaves the calls of the other threads sound, if it takes note of what
\* it does to their runtimes.
LEMMA OthersStaySound ==
    ASSUME IInv, NEW d \in Callers, calls'[d] = calls[d],
           steady'[d] = steady[d], ever'[d] = ever[d], namesakes'[d] = namesakes[d],
           staying'[d] = staying[d],
           refers' = refers, controllers' = controllers,
           present \subseteq present', absent \subseteq absent', Traced(d)',
           (d \in trouble') <=> (d \in trouble),
           \A repeated \in BOOLEAN : (<<d, repeated>> \in removed') <=> (<<d, repeated>> \in removed)
    PROVE  Sound(d)'
  <1>1. Sound(d) BY DEF IInv
  <1>2. HasRemoved(d)' <=> HasRemoved(d) BY DEF HasRemoved
  <1>3. Staged(d)' BY <1>1 DEF Sound, Staged
  <1>4. Removing(d)' /\ Removal(d)' BY <1>1, <1>2 DEF Sound, Removing, Removal, Over
  <1>5. Listing(d)' BY <1>1 DEF Sound, Listing, Referring, Misnamed, Naming
  <1>6. Between(d)' BY <1>1 DEF Sound, Between, Over
  <1>7. Blamed(d)' BY <1>1 DEF Sound, Blamed, Idle
  <1>8. Passed(d)' BY <1>1 DEF Sound, Passed
  <1>9. Missed(d)' BY <1>1 DEF Sound, Missed, Over
  <1>10. QED BY <1>3, <1>4, <1>5, <1>6, <1>7, <1>8, <1>9 DEF Sound

\* Of those that name a runtime, some refer to the ClusterTrainingRuntime and the
\* others to a namesake.
LEMMA NamedOnes ==
    ASSUME NEW r
    PROVE  /\ Naming(r) = Referring(r) \cup Misnamed(r)
           /\ Naming(r) \subseteq Jobs /\ Misnamed(r) \subseteq Jobs
  BY DEF Naming, Referring, Misnamed, Ref

\* Whoever has a call under way about a runtime that changes takes note.
LEMMA BecomesTraces ==
    ASSUME IInv, NEW r \in Runtimes, NEW state \in RuntimeStates, Becomes(r, state),
           NEW d \in Callers,
           calls'[d].stage = "idle" \/ (/\ calls[d].stage # "idle"
                                       /\ calls'[d].tool = calls[d].tool
                                       /\ calls'[d].runtime = calls[d].runtime)
    PROVE  /\ Traced(d)' /\ runtimes' \in [Runtimes -> RuntimeStates]
           /\ present \subseteq present' /\ present' \subseteq Callers
           /\ absent \subseteq absent' /\ absent' \subseteq Callers
  <1>1. runtimes \in [Runtimes -> RuntimeStates] /\ present \subseteq Callers /\ absent \subseteq Callers
    BY DEF IInv, TypeOK
  <1>2. /\ runtimes' = [runtimes EXCEPT ![r] = state]
        /\ present \subseteq present' /\ present' \subseteq Callers
        /\ absent \subseteq absent' /\ absent' \subseteq Callers
        /\ calls[d].stage # "idle" /\ calls[d].tool \in RuntimeTools /\ calls[d].runtime = r
             => /\ state # "absent" => d \in present'
                /\ state = "absent" => d \in absent'
    BY <1>1 DEF Becomes
  <1>3. CASE calls'[d].stage = "idle"
    BY <1>1, <1>2, <1>3 DEF Traced
  <1>4. CASE /\ calls[d].stage # "idle" /\ calls'[d].tool = calls[d].tool
             /\ calls'[d].runtime = calls[d].runtime
    <2>1. Traced(d) /\ calls[d].runtime \in Runtimes BY DEF IInv, Sound, TypeOK, Call
    <2>2. QED BY <1>1, <1>2, <1>4, <2>1 DEF Traced
  <1>5. QED BY <1>3, <1>4

\* An answer ends a call and changes nothing else of it.
LEMMA Answers ==
    ASSUME TypeOK, NEW c \in Callers, NEW reply \in Replies, Answer(c, reply)
    PROVE  /\ calls' \in [Callers -> Call]
           /\ \A d \in Callers \ {c} : calls'[d] = calls[d]
           /\ calls'[c].stage = "idle" /\ calls'[c].reply = reply
           /\ calls'[c].tool = calls[c].tool /\ calls'[c].runtime = calls[c].runtime
           /\ calls'[c].input = calls[c].input /\ calls'[c].namespaces = calls[c].namespaces
           /\ calls'[c].vanished = calls[c].vanished
           /\ calls'[c].listed = calls[c].listed /\ calls'[c].dependents = calls[c].dependents
  <1>1. calls \in [Callers -> Call] BY DEF TypeOK
  <1>2. calls' = [calls EXCEPT ![c] = [calls[c] EXCEPT !.stage = "idle", !.reply = reply]]
    BY <1>1 DEF Answer, Call
  <1>3. [calls[c] EXCEPT !.stage = "idle", !.reply = reply] \in Call
    BY <1>1 DEF Call, Stages
  <1>4. QED BY <1>1, <1>2, <1>3 DEF Call

-----------------------------------------------------------------------------
\* The end of a call: only that call is to be looked at.
LEMMA EndIInv ==
    ASSUME IInv, NEW c \in Callers, NEW reply \in Replies, Answer(c, reply),
           Keep, UNCHANGED <<refers, crd, controllers>>,
           runtimes' \in [Runtimes -> RuntimeStates], \A d \in Callers : Traced(d)',
           present \subseteq present', present' \subseteq Callers,
           absent \subseteq absent', absent' \subseteq Callers,
           trouble' = trouble \/ trouble' = trouble \cup {c},
           removed' \subseteq Callers \X BOOLEAN,
           \A d \in Callers \ {c}, repeated \in BOOLEAN :
              (<<d, repeated>> \in removed') <=> (<<d, repeated>> \in removed),
           Removal(c)', Between(c)', Blamed(c)', Missed(c)'
    PROVE  IInv'
  <1>1. /\ calls' \in [Callers -> Call] /\ calls'[c].stage = "idle"
        /\ \A d \in Callers \ {c} : calls'[d] = calls[d]
    BY Answers DEF IInv
  <1>2. TypeOK'
    BY <1>1 DEF IInv, TypeOK, Keep
  <1>3. Sound(c)'
    BY <1>1 DEF Sound, Staged, Traced, Removing, Listing, Passed
  <1>4. ASSUME NEW d \in Callers \ {c} PROVE Sound(d)'
    <2>1. Traced(d)' /\ d \in Callers /\ calls'[d] = calls[d] BY <1>1
    <2>2. (d \in trouble') <=> (d \in trouble) OBVIOUS
    <2>3. /\ steady'[d] = steady[d] /\ ever'[d] = ever[d] /\ namesakes'[d] = namesakes[d] /\ staying'[d] = staying[d]
          /\ refers' = refers /\ controllers' = controllers
      BY DEF Keep
    <2>4. QED BY <2>1, <2>2, <2>3, OthersStaySound
  <1>5. QED BY <1>2, <1>3, <1>4 DEF IInv

\* A request that reaches nobody ends the call with an error that has a cause.
LEMMA LostIInv ==
    ASSUME IInv, NEW c \in Callers, calls[c].stage # "idle", Lost(c), Keep,
           UNCHANGED <<refers, crd, controllers, removed>>
    PROVE  IInv'
  <1>1. /\ Answer(c, "kubernetes_error") /\ trouble' = trouble \cup {c}
        /\ UNCHANGED <<runtimes, present, absent>>
    BY DEF Lost
  <1>2. "kubernetes_error" \in Replies BY DEF Replies
  <1>3. /\ \A d \in Callers \ {c} : calls'[d] = calls[d]
        /\ calls'[c].stage = "idle" /\ calls'[c].reply = "kubernetes_error"
    BY <1>1, <1>2, Answers DEF IInv
  <1>4. \A d \in Callers : Traced(d)'
    <2>1. ASSUME NEW d \in Callers PROVE Traced(d)'
      <3>1. Traced(d) BY DEF IInv, Sound
      <3>2. QED BY <1>1, <1>3, <3>1 DEF Traced
    <2>2. QED BY <2>1
  <1>5. Removal(c)' /\ Between(c)' /\ Blamed(c)' /\ Missed(c)'
    BY <1>1, <1>3 DEF Removal, Between, Blamed, Missed, Over, Idle
  <1>6. runtimes \in [Runtimes -> RuntimeStates] /\ present \subseteq Callers
        /\ absent \subseteq Callers /\ removed \subseteq Callers \X BOOLEAN
    BY DEF IInv, TypeOK
  <1>7. QED BY <1>1, <1>2, <1>4, <1>5, <1>6, EndIInv

\* An answer of the API server that changes nothing is to be a true one.
LEMMA RefusedIInv ==
    ASSUME IInv, NEW c \in Callers, NEW reply \in Replies, calls[c].stage # "idle",
           Refused(c, reply), Keep, UNCHANGED <<refers, crd, controllers, removed>>,
           Removal(c)', Between(c)', Blamed(c)', Missed(c)'
    PROVE  IInv'
  <1>1. Answer(c, reply) /\ UNCHANGED <<runtimes, present, absent, trouble>>
    BY DEF Refused
  <1>2. /\ \A d \in Callers \ {c} : calls'[d] = calls[d]
        /\ calls'[c].stage = "idle"
    BY <1>1, Answers DEF IInv
  <1>3. \A d \in Callers : Traced(d)'
    <2>1. ASSUME NEW d \in Callers PROVE Traced(d)'
      <3>1. Traced(d) BY DEF IInv, Sound
      <3>2. QED BY <1>1, <1>2, <3>1 DEF Traced
    <2>2. QED BY <2>1
  <1>4. runtimes \in [Runtimes -> RuntimeStates] /\ present \subseteq Callers
        /\ absent \subseteq Callers /\ removed \subseteq Callers \X BOOLEAN
    BY DEF IInv, TypeOK
  <1>5. QED BY <1>1, <1>3, <1>4, EndIInv

\* patch_runtime and create_runtime: an error is blamed on what was seen.
LEMMA RequestIInv ==
    ASSUME IInv, NEW c \in Callers, Patch(c) \/ Create(c) PROVE IInv'
  <1> DEFINE r == calls[c].runtime
  <1>1. /\ calls[c].stage = "request" /\ calls[c].tool \in {"patch_runtime", "create_runtime"}
        /\ Keep /\ UNCHANGED <<refers, crd, controllers, removed>>
    BY DEF Patch, Create
  <1>2. r \in Runtimes /\ Traced(c) /\ removed \subseteq Callers \X BOOLEAN
    BY DEF IInv, TypeOK, Call, Sound
  <1>3. {"done", "not_found", "kubernetes_error"} \subseteq Replies BY DEF Replies
  <1>4. ASSUME NEW state \in {"created", "patched"}, Becomes(r, state), Took(c)
        PROVE  IInv'
    <2>1. PICK reply \in {"done", "kubernetes_error"} :
             /\ Answer(c, reply) /\ (trouble' = trouble \/ trouble' = trouble \cup {c})
             /\ reply = "kubernetes_error" => c \in trouble'
      BY <1>4 DEF Took
    <2>2. reply \in Replies BY <1>3
    <2>3. /\ \A d \in Callers \ {c} : calls'[d] = calls[d]
          /\ calls'[c].stage = "idle" /\ calls'[c].reply = reply
          /\ calls'[c].tool = calls[c].tool /\ calls'[c].runtime = calls[c].runtime
      BY <2>1, <2>2, Answers DEF IInv
    <2>4. state \in RuntimeStates BY DEF RuntimeStates
    <2>5. \A d \in Callers :
             /\ Traced(d)' /\ runtimes' \in [Runtimes -> RuntimeStates]
             /\ present \subseteq present' /\ present' \subseteq Callers
             /\ absent \subseteq absent' /\ absent' \subseteq Callers
      <3>1. ASSUME NEW d \in Callers, d # c, calls[d].stage = "idle"
            PROVE  calls'[d].stage = "idle"
        BY <2>3, <3>1
      <3>2. QED BY <1>2, <1>4, <2>3, <2>4, <3>1, BecomesTraces
    <2>6. Removal(c)' /\ Between(c)' /\ Blamed(c)' /\ Missed(c)'
      BY <1>1, <2>1, <2>3 DEF Removal, Between, Blamed, Missed, Over, Idle
    <2>7. QED BY <1>1, <1>2, <2>1, <2>2, <2>5, <2>6, EndIInv
  <1>5. CASE Refused(c, "kubernetes_error") /\
             (calls[c].input = "malformed" \/ (calls[c].tool = "create_runtime" /\ runtimes[r] # "absent"))
    <2>1. Answer(c, "kubernetes_error") /\ present' = present BY <1>5 DEF Refused
    <2>2. /\ calls'[c].stage = "idle" /\ calls'[c].reply = "kubernetes_error"
          /\ calls'[c].tool = calls[c].tool /\ calls'[c].input = calls[c].input
      BY <1>3, <2>1, Answers DEF IInv
    <2>3. Removal(c)' /\ Between(c)' /\ Missed(c)'
      BY <1>1, <2>2 DEF Removal, Between, Missed, Over
    <2>4. Blamed(c)'
      <3>1. runtimes[r] # "absent" => c \in present BY <1>1, <1>2 DEF Traced, RuntimeTools
      <3>2. QED BY <1>5, <2>1, <2>2, <3>1 DEF Blamed, Idle
    <2>5. QED BY <1>1, <1>3, <1>5, <2>3, <2>4, RefusedIInv
  <1>6. CASE Refused(c, "not_found")
    <2>1. Answer(c, "not_found") BY <1>6 DEF Refused
    <2>2. /\ calls'[c].stage = "idle" /\ calls'[c].reply = "not_found"
          /\ calls'[c].tool = calls[c].tool
      BY <1>3, <2>1, Answers DEF IInv
    <2>3. Removal(c)' /\ Between(c)' /\ Missed(c)' /\ Blamed(c)'
      BY <1>1, <2>2 DEF Removal, Between, Missed, Blamed, Over, Idle
    <2>4. QED BY <1>1, <1>3, <1>6, <2>3, RefusedIInv
  <1>7. CASE Lost(c) BY <1>1, <1>7, LostIInv
  <1>8. CASE Patch(c) BY <1>4, <1>5, <1>6, <1>7, <1>8 DEF Patch
  <1>9. CASE Create(c)
    <2>1. calls[c].tool = "create_runtime" BY <1>9 DEF Create
    <2>2. QED BY <1>4, <1>5, <1>7, <1>9, <2>1 DEF Create
  <1>10. QED BY <1>8, <1>9

\* A call that goes on: only that call is to be looked at.
LEMMA GoesOnIInv ==
    ASSUME IInv, NEW c \in Callers, calls' \in [Callers -> Call],
           \A d \in Callers \ {c} : calls'[d] = calls[d],
           Keep, UNCHANGED <<runtimes, refers, crd, controllers, present, absent, removed>>,
           trouble' = trouble \/ trouble' = trouble \cup {c},
           Sound(c)'
    PROVE  IInv'
  <1>1. TypeOK' BY DEF IInv, TypeOK, Keep
  <1>2. ASSUME NEW d \in Callers \ {c} PROVE Sound(d)'
    <2>1. d \in Callers /\ calls'[d] = calls[d] OBVIOUS
    <2>2. Traced(d)'
      <3>1. Traced(d) BY DEF IInv, Sound
      <3>2. QED BY <2>1, <3>1 DEF Traced
    <2>3. (d \in trouble') <=> (d \in trouble) OBVIOUS
    <2>4. /\ steady'[d] = steady[d] /\ ever'[d] = ever[d] /\ namesakes'[d] = namesakes[d] /\ staying'[d] = staying[d]
          /\ refers' = refers /\ controllers' = controllers
          /\ present \subseteq present' /\ absent \subseteq absent'
      BY DEF Keep
    <2>5. \A repeated \in BOOLEAN : (<<d, repeated>> \in removed') <=> (<<d, repeated>> \in removed)
      OBVIOUS
    <2>6. QED BY <2>1, <2>2, <2>3, <2>4, <2>5, OthersStaySound
  <1>3. QED BY <1>1, <1>2 DEF IInv

\* The listing of the jobs, if it comes to that: they name the runtime at this
\* moment.
LEMMA ListDependentsIInv ==
    ASSUME IInv, NEW c \in Callers, ListDependents(c) PROVE IInv'
  <1> DEFINE call == calls[c]
  <1>1. call \in Call /\ Sound(c) /\ call.stage = "list" /\ call.tool = "delete_runtime"
    BY DEF IInv, TypeOK, Sound, Staged, ListDependents
  <1>2. Keep /\ UNCHANGED <<refers, crd, controllers, removed>>
    BY DEF ListDependents
  <1>3. CASE Lost(c)
    BY <1>1, <1>2, <1>3, LostIInv
  <1>4. ASSUME NEW answered \in BOOLEAN,
               calls' = [calls EXCEPT
                           ![c].listed = answered,
                           ![c].dependents = IF answered THEN Dependents(call.runtime) ELSE {},
                           ![c].stage = IF call.confirmed THEN "delete" ELSE "idle",
                           ![c].reply = IF call.confirmed THEN "none" ELSE "preview"],
               trouble' = IF answered THEN trouble ELSE trouble \cup {c},
               UNCHANGED <<runtimes, present, absent>>
        PROVE  IInv'
    <2> DEFINE jobs == IF answered THEN Naming(call.runtime) ELSE {}
               stage == IF call.confirmed THEN "delete" ELSE "idle"
               reply == IF call.confirmed THEN "none" ELSE "preview"
               next == [call EXCEPT !.listed = answered, !.dependents = jobs,
                                    !.stage = stage, !.reply = reply]
    <2>1. calls' = [calls EXCEPT ![c] = next]
      BY <1>4 DEF Dependents, IInv, TypeOK, Call
    <2>2. /\ jobs \in SUBSET Jobs /\ stage \in {"delete", "idle"} /\ reply \in {"none", "preview"}
          /\ stage = "idle" => reply = "preview"
      BY NamedOnes
    <2>3. answered => jobs = Naming(call.runtime)
      OBVIOUS
    <2>4. ~answered => jobs = {} /\ c \in trouble'
      BY <1>4
    <2> HIDE DEF jobs, stage, reply
    <2>5. /\ next \in Call /\ next.stage = stage /\ next.reply = reply /\ next.tool = call.tool
          /\ next.runtime = call.runtime /\ next.listed = answered /\ next.dependents = jobs
      BY <1>1, <2>2 DEF Call, Stages, Replies
    <2> HIDE DEF next
    <2>6. /\ calls' \in [Callers -> Call] /\ \A d \in Callers \ {c} : calls'[d] = calls[d]
          /\ calls'[c].stage = stage /\ calls'[c].reply = reply /\ calls'[c].tool = call.tool
          /\ calls'[c].runtime = call.runtime /\ calls'[c].listed = answered
          /\ calls'[c].dependents = jobs
      BY <2>1, <2>5 DEF IInv, TypeOK
    <2>7. trouble' = trouble \/ trouble' = trouble \cup {c}
      BY <1>4
    <2>8. /\ steady' = steady /\ ever' = ever /\ namesakes' = namesakes
          /\ HasRemoved(c)' = HasRemoved(c) /\ trouble \subseteq trouble'
      BY <1>2, <2>7 DEF Keep, HasRemoved
    <2>9. Between(c)'
      <3>1. /\ steady[c] \subseteq Naming(call.runtime)
            /\ Naming(call.runtime) \subseteq ever[c] \cup namesakes[c]
        BY <1>1, NamedOnes DEF Sound, Listing
      <3>2. QED BY <2>3, <2>4, <2>6, <2>8, <3>1 DEF Between
    <2>10. Removing(c)' /\ Removal(c)'
      <3>1. HasRemoved(c) => c \in trouble BY <1>1 DEF Sound, Removing
      <3>2. QED BY <2>2, <2>6, <2>8, <3>1 DEF Removing, Removal, Over
    <2>11. Traced(c)'
      BY <1>1, <1>4, <2>6 DEF Sound, Traced
    <2>12. Staged(c)' /\ Listing(c)' /\ Blamed(c)' /\ Passed(c)' /\ Missed(c)'
      BY <1>1, <2>2, <2>6 DEF Staged, Listing, Blamed, Passed, Missed, Over, Idle
    <2>13. Sound(c)' BY <2>9, <2>10, <2>11, <2>12 DEF Sound
    <2>14. QED BY <1>2, <1>4, <2>6, <2>7, <2>13, GoesOnIInv
  <1>5. QED BY <1>3, <1>4 DEF ListDependents

\* A lost answer to the first deletion: the call goes on with the repetition.
LEMMA RepeatIInv ==
    ASSUME IInv, NEW c \in Callers, calls[c].stage = "delete",
           calls' = [calls EXCEPT ![c].stage = "repeat"], trouble' = trouble \cup {c},
           Keep, UNCHANGED <<refers, crd, controllers>>,
           runtimes' \in [Runtimes -> RuntimeStates], \A d \in Callers : Traced(d)',
           present \subseteq present', present' \subseteq Callers,
           absent \subseteq absent', absent' \subseteq Callers,
           removed' \subseteq Callers \X BOOLEAN,
           \A d \in Callers \ {c}, repeated \in BOOLEAN :
              (<<d, repeated>> \in removed') <=> (<<d, repeated>> \in removed)
    PROVE  IInv'
  <1> DEFINE next == [calls[c] EXCEPT !.stage = "repeat"]
  <1>1. calls[c] \in Call /\ Sound(c) /\ calls[c].tool = "delete_runtime"
    BY DEF IInv, TypeOK, Sound, Staged
  <1>2. calls' = [calls EXCEPT ![c] = next] BY DEF IInv, TypeOK
  <1>3. /\ next \in Call /\ next.stage = "repeat" /\ next.tool = "delete_runtime"
        /\ next.dependents = calls[c].dependents /\ next.listed = calls[c].listed
    BY <1>1 DEF Call, Stages
  <1> HIDE DEF next
  <1>4. /\ calls' \in [Callers -> Call] /\ \A d \in Callers \ {c} : calls'[d] = calls[d]
        /\ calls'[c].stage = "repeat" /\ calls'[c].tool = "delete_runtime"
        /\ calls'[c].dependents = calls[c].dependents /\ calls'[c].listed = calls[c].listed
    BY <1>2, <1>3 DEF IInv, TypeOK
  <1>5. TypeOK' BY <1>4 DEF IInv, TypeOK, Keep
  <1>6. steady' = steady /\ ever' = ever /\ namesakes' = namesakes BY DEF Keep
  <1>7. Between(c)' BY <1>1, <1>4, <1>6 DEF Sound, Between
  <1>8. Sound(c)'
    BY <1>4, <1>7 DEF Sound, Staged, Removing, Removal, Listing, Blamed, Passed, Missed, Over, Idle
  <1>9. ASSUME NEW d \in Callers \ {c} PROVE Sound(d)'
    <2>1. Traced(d)' /\ d \in Callers /\ calls'[d] = calls[d] BY <1>4
    <2>2. (d \in trouble') <=> (d \in trouble) OBVIOUS
    <2>3. /\ steady'[d] = steady[d] /\ ever'[d] = ever[d] /\ namesakes'[d] = namesakes[d] /\ staying'[d] = staying[d]
          /\ refers' = refers /\ controllers' = controllers
      BY DEF Keep
    <2>4. QED BY <2>1, <2>2, <2>3, OthersStaySound
  <1>10. QED BY <1>5, <1>8, <1>9 DEF IInv

\* The deletion: it takes effect or finds nothing, and its answer may be lost.
LEMMA DeleteIInv ==
    ASSUME IInv, NEW c \in Callers, Delete(c) PROVE IInv'
  <1> DEFINE r == calls[c].runtime
  <1>1. /\ calls[c].stage \in {"delete", "repeat"} /\ calls[c].tool = "delete_runtime"
        /\ Keep /\ UNCHANGED <<refers, crd, controllers>> /\ Sound(c)
    BY DEF Delete, IInv, Sound, Staged
  <1>2. r \in Runtimes /\ removed \subseteq Callers \X BOOLEAN /\ "absent" \in RuntimeStates
        /\ calls \in [Callers -> Call]
    BY DEF IInv, TypeOK, Call, RuntimeStates
  <1>3. {"done", "not_found", "kubernetes_error"} \subseteq Replies BY DEF Replies
  <1>4. ASSUME \A d \in Callers \ {c} : calls'[d] = calls[d],
               calls'[c].stage = "idle" \/ (/\ calls'[c].tool = calls[c].tool
                                            /\ calls'[c].runtime = calls[c].runtime),
               Becomes(r, "absent") \/ UNCHANGED <<runtimes, present, absent>>
        PROVE  \A d \in Callers :
                 /\ Traced(d)' /\ runtimes' \in [Runtimes -> RuntimeStates]
                 /\ present \subseteq present' /\ present' \subseteq Callers
                 /\ absent \subseteq absent' /\ absent' \subseteq Callers
    <2>1. SUFFICES ASSUME NEW d \in Callers
                   PROVE  /\ Traced(d)' /\ runtimes' \in [Runtimes -> RuntimeStates]
                          /\ present \subseteq present' /\ present' \subseteq Callers
                          /\ absent \subseteq absent' /\ absent' \subseteq Callers
      OBVIOUS
    <2>2. calls'[d].stage = "idle" \/ (/\ calls[d].stage # "idle"
                                       /\ calls'[d].tool = calls[d].tool
                                       /\ calls'[d].runtime = calls[d].runtime)
      BY <1>1, <1>4
    <2>3. CASE Becomes(r, "absent") BY <1>2, <2>2, <2>3, BecomesTraces
    <2>4. CASE UNCHANGED <<runtimes, present, absent>>
      <3>1. Traced(d) BY DEF IInv, Sound
      <3>2. QED BY <2>2, <2>4, <3>1 DEF Traced, IInv, TypeOK
    <2>5. QED BY <1>4, <2>3, <2>4
  <1>5. ASSUME removed' = removed \cup {<<c, calls[c].stage = "repeat">>} \/ removed' = removed
        PROVE  /\ removed' \subseteq Callers \X BOOLEAN
               /\ \A d \in Callers \ {c}, repeated \in BOOLEAN :
                    (<<d, repeated>> \in removed') <=> (<<d, repeated>> \in removed)
    <2> DEFINE again == calls[c].stage = "repeat"
    <2>1. again \in BOOLEAN OBVIOUS
    <2>2. removed' = removed \cup {<<c, again>>} \/ removed' = removed BY <1>5
    <2> HIDE DEF again
    <2>3. QED BY <1>2, <2>1, <2>2
  <1>6. ASSUME NEW reply \in {"done", "not_found", "kubernetes_error"}, Answer(c, reply),
               Becomes(r, "absent") \/ UNCHANGED <<runtimes, present, absent>>,
               removed' = removed \cup {<<c, calls[c].stage = "repeat">>} \/ removed' = removed,
               trouble' = trouble \/ trouble' = trouble \cup {c},
               reply = "done" => HasRemoved(c)',
               reply = "not_found" => c \in absent',
               reply = "not_found" => removed' = removed,
               reply = "kubernetes_error" => c \in trouble'
        PROVE  IInv'
    <2>1. reply \in Replies BY <1>3
    <2>2. /\ \A d \in Callers \ {c} : calls'[d] = calls[d]
          /\ calls'[c].stage = "idle" /\ calls'[c].reply = reply
          /\ calls'[c].tool = calls[c].tool
          /\ calls'[c].dependents = calls[c].dependents /\ calls'[c].listed = calls[c].listed
      BY <1>6, <2>1, Answers DEF IInv
    <2>3. Removal(c)'
      <3>1. HasRemoved(c) => c \in trouble BY <1>1 DEF Sound, Removing
      <3>2. reply = "not_found" => (HasRemoved(c)' <=> HasRemoved(c)) BY <1>6 DEF HasRemoved
      <3>3. QED BY <1>6, <2>2, <3>1, <3>2 DEF Removal
    <2>4. Between(c)'
      <3>1. steady' = steady /\ ever' = ever /\ namesakes' = namesakes BY <1>1 DEF Keep
      <3>2. QED BY <1>1, <1>6, <2>2, <3>1 DEF Sound, Between
    <2>5. Blamed(c)' /\ Missed(c)'
      BY <1>1, <1>6, <2>2 DEF Blamed, Missed, Over, Idle
    <2>6. QED BY <1>1, <1>4, <1>5, <1>6, <2>1, <2>2, <2>3, <2>4, <2>5, EndIInv
  <1>7. ASSUME NoAnswer(c),
               Becomes(r, "absent") \/ UNCHANGED <<runtimes, present, absent>>,
               removed' = removed \cup {<<c, calls[c].stage = "repeat">>} \/ removed' = removed
        PROVE  IInv'
    <2>1. CASE calls[c].stage = "delete"
      <3>1. calls' = [calls EXCEPT ![c].stage = "repeat"] /\ trouble' = trouble \cup {c}
        BY <1>7, <2>1 DEF NoAnswer
      <3>2. /\ \A d \in Callers \ {c} : calls'[d] = calls[d]
            /\ calls'[c].tool = calls[c].tool /\ calls'[c].runtime = calls[c].runtime
        BY <1>2, <3>1 DEF Call
      <3>3. QED BY <1>1, <1>4, <1>5, <1>7, <2>1, <3>1, <3>2, RepeatIInv
    <2>2. CASE calls[c].stage = "repeat"
      BY <1>6, <1>7, <2>2 DEF NoAnswer
    <2>3. QED BY <1>1, <2>1, <2>2
  <1>8. CASE /\ Becomes(r, "absent")
             /\ removed' = removed \cup {<<c, calls[c].stage = "repeat">>}
             /\ (Answer(c, "done") /\ UNCHANGED trouble) \/ NoAnswer(c)
    <2>1. HasRemoved(c)' BY <1>8 DEF HasRemoved
    <2>2. QED BY <1>6, <1>7, <1>8, <2>1
  <1>9. CASE runtimes[r] = "absent" /\ Refused(c, "not_found") /\ UNCHANGED removed
    <2>1. c \in absent
      BY <1>1, <1>9 DEF Sound, Traced, RuntimeTools
    <2>2. QED BY <1>6, <1>9, <2>1 DEF Refused
  <1>10. CASE Lost(c) /\ UNCHANGED removed BY <1>1, <1>10, LostIInv
  <1>11. CASE NoAnswer(c) /\ UNCHANGED <<runtimes, present, absent, removed>>
    BY <1>7, <1>11
  <1>12. QED BY <1>8, <1>9, <1>10, <1>11 DEF Delete

-----------------------------------------------------------------------------
\* inspect_crd: what is not there is not a fault.
LEMMA ReadCrdIInv ==
    ASSUME IInv, NEW c \in Callers, ReadCrd(c) PROVE IInv'
  <1>1. /\ calls[c].stage \in {"list_crds", "read_crd"} /\ calls[c].tool = "inspect_crd"
        /\ Keep /\ UNCHANGED <<refers, crd, controllers, removed>>
    BY DEF ReadCrd, Refused, Lost, IInv, Sound, Staged
  <1>2. ASSUME NEW reply \in {"done", "not_found"}, Refused(c, reply) PROVE IInv'
    <2>1. reply \in Replies /\ Answer(c, reply) BY <1>2 DEF Replies, Refused
    <2>2. /\ calls'[c].stage = "idle" /\ calls'[c].reply = reply
          /\ calls'[c].tool = calls[c].tool
      BY <2>1, Answers DEF IInv
    <2>3. Removal(c)' /\ Between(c)' /\ Blamed(c)' /\ Missed(c)'
      BY <1>1, <2>2 DEF Removal, Between, Blamed, Missed, Over, Idle
    <2>4. QED BY <1>1, <1>2, <2>1, <2>3, RefusedIInv
  <1>3. CASE Lost(c) BY <1>1, <1>3, LostIInv
  <1>4. QED BY <1>2, <1>3 DEF ReadCrd

\* The search for the controller: it finds a pod, goes on, has been everywhere, or
\* cannot begin.
LEMMA ScanIInv ==
    ASSUME IInv, NEW c \in Callers, Scan(c) PROVE IInv'
  <1> DEFINE call == calls[c]
             places == Search(call.namespaces)
  <1>1. call \in Call /\ Sound(c) /\ call.stage = "scan" /\ call.tool = "inspect_controller"
    BY DEF IInv, TypeOK, Sound, Staged, Scan
  <1>2. Keep /\ UNCHANGED <<refers, crd, controllers, removed>>
    BY DEF Scan
  <1>3. /\ call.at \in Nat /\ call.at >= 1 /\ staying[c] \subseteq controllers
        /\ c \notin trouble =>
             \A i \in DOMAIN places : i < call.at => places[i] \notin staying[c]
    BY <1>1 DEF Sound, Passed, Call
  <1>4. CASE call.at \notin DOMAIN places /\ Refused(c, "not_found")
    <2>1. "not_found" \in Replies /\ Answer(c, "not_found") BY <1>4 DEF Replies, Refused
    <2>2. /\ calls'[c].stage = "idle" /\ calls'[c].reply = "not_found"
          /\ calls'[c].tool = call.tool /\ calls'[c].namespaces = call.namespaces
      BY <2>1, Answers DEF IInv
    <2>3. Removal(c)' /\ Between(c)' /\ Blamed(c)'
      BY <1>1, <2>2 DEF Removal, Between, Blamed, Over, Idle
    <2>4. Len(call.namespaces) \in Nat /\ DOMAIN call.namespaces = 1..Len(call.namespaces)
      BY <1>1 DEF Call
    <2>5. \A i \in DOMAIN places : i < call.at
      <3>1. DOMAIN places = 1..(2 * Len(call.namespaces)) BY DEF Search
      <3>2. QED BY <1>3, <1>4, <2>4, <3>1
    <2>6. c \notin trouble =>
            staying[c] \cap ({call.namespaces[i] : i \in DOMAIN call.namespaces} \X Labels) = {}
      <3>1. SUFFICES ASSUME c \notin trouble, NEW i \in DOMAIN call.namespaces,
                            NEW label \in Labels
                     PROVE  <<call.namespaces[i], label>> \notin staying[c]
        OBVIOUS
      <3>2. PICK k \in DOMAIN places : places[k] = <<call.namespaces[i], label>>
        BY <2>4, SearchIsComplete
      <3>3. QED BY <1>3, <2>5, <3>1, <3>2
    <2>7. Missed(c)'
      <3>1. staying' = staying /\ trouble' = trouble BY <1>2, <1>4 DEF Keep, Refused
      <3>2. QED BY <2>2, <2>6, <3>1 DEF Missed
    <2>8. QED BY <1>1, <1>2, <1>4, <2>1, <2>3, <2>7, RefusedIInv
  <1>5. CASE /\ places[call.at] \in controllers
             /\ calls' = [calls EXCEPT ![c].stage = "read_pod"]
             /\ UNCHANGED <<trouble, runtimes, present, absent>>
    <2> DEFINE next == [call EXCEPT !.stage = "read_pod"]
    <2>1. next \in Call /\ next.stage = "read_pod" /\ next.tool = call.tool
      BY <1>1 DEF Call, Stages
    <2>2. calls' = [calls EXCEPT ![c] = next] BY <1>5 DEF IInv, TypeOK
    <2> HIDE DEF next
    <2>3. /\ calls' \in [Callers -> Call] /\ \A d \in Callers \ {c} : calls'[d] = calls[d]
          /\ calls'[c].stage = "read_pod" /\ calls'[c].tool = call.tool
      BY <2>1, <2>2 DEF IInv, TypeOK
    <2>4. Removing(c)'
      <3>1. Removing(c) BY <1>1 DEF Sound
      <3>2. HasRemoved(c)' = HasRemoved(c) BY <1>2 DEF HasRemoved
      <3>3. QED BY <1>1, <1>5, <2>3, <3>1, <3>2 DEF Removing
    <2>5. Sound(c)'
      BY <1>1, <2>3, <2>4
      DEF Sound, Staged, Traced, Removal, Listing, Between, Blamed, Passed, Missed,
          Over, Idle, RuntimeTools
    <2>6. QED BY <1>2, <1>5, <2>3, <2>5, GoesOnIInv
  <1>6. CASE /\ call.at \in DOMAIN places
             /\ calls' = [calls EXCEPT ![c].at = @ + 1]
             /\ (places[call.at] \notin controllers /\ UNCHANGED trouble)
                  \/ trouble' = trouble \cup {c}
             /\ UNCHANGED <<runtimes, present, absent>>
    <2> DEFINE next == [call EXCEPT !.at = call.at + 1]
    <2>1. /\ next \in Call /\ next.stage = "scan" /\ next.tool = call.tool
          /\ next.at = call.at + 1 /\ next.namespaces = call.namespaces
      BY <1>1, <1>3 DEF Call
    <2>2. calls' = [calls EXCEPT ![c] = next] BY <1>6 DEF IInv, TypeOK
    <2> HIDE DEF next
    <2>3. /\ calls' \in [Callers -> Call] /\ \A d \in Callers \ {c} : calls'[d] = calls[d]
          /\ calls'[c].stage = "scan" /\ calls'[c].tool = call.tool
          /\ calls'[c].at = call.at + 1 /\ calls'[c].namespaces = call.namespaces
      BY <2>1, <2>2 DEF IInv, TypeOK
    <2>4. Removing(c)'
      <3>1. Removing(c) BY <1>1 DEF Sound
      <3>2. HasRemoved(c)' = HasRemoved(c) BY <1>2 DEF HasRemoved
      <3>3. QED BY <1>1, <1>6, <2>3, <3>1, <3>2 DEF Removing
    <2>5. c \notin trouble' => \A i \in DOMAIN places : i < call.at + 1 => places[i] \notin staying[c]
      <3>1. SUFFICES ASSUME c \notin trouble', NEW i \in DOMAIN places, i < call.at + 1
                     PROVE  places[i] \notin staying[c]
        OBVIOUS
      <3>2. c \notin trouble /\ places[call.at] \notin controllers BY <1>6, <3>1
      <3>3. i \in Nat
        <4>1. DOMAIN places = 1..(2 * Len(call.namespaces)) BY DEF Search
        <4>2. Len(call.namespaces) \in Nat BY <1>1 DEF Call
        <4>3. QED BY <4>1, <4>2
      <3>4. i < call.at \/ i = call.at BY <1>3, <3>1, <3>3
      <3>5. QED BY <1>3, <3>2, <3>4
    <2>6. Passed(c)'
      <3>1. staying' = staying /\ controllers' = controllers BY <1>2 DEF Keep
      <3>2. call.at + 1 >= 1 BY <1>3
      <3> HIDE DEF places
      <3>3. places = Search(call.namespaces) BY DEF places
      <3>4. QED BY <1>3, <2>3, <2>5, <3>1, <3>2, <3>3 DEF Passed
    <2>7. Sound(c)'
      BY <1>1, <2>3, <2>4, <2>6
      DEF Sound, Staged, Traced, Removal, Listing, Between, Blamed, Missed,
          Over, Idle, RuntimeTools
    <2>8. trouble' = trouble \/ trouble' = trouble \cup {c} BY <1>6
    <2>9. QED BY <1>2, <1>6, <2>3, <2>7, <2>8, GoesOnIInv
  <1>7. CASE Lost(c) BY <1>1, <1>2, <1>7, LostIInv
  <1>8. QED BY <1>4, <1>5, <1>6, <1>7 DEF Scan

\* The controller's pod is read, if it is still there.
LEMMA ReadPodIInv ==
    ASSUME IInv, NEW c \in Callers, ReadPod(c) PROVE IInv'
  <1>1. /\ calls[c].stage = "read_pod" /\ calls[c].tool = "inspect_controller"
        /\ Keep /\ UNCHANGED <<refers, crd, controllers, removed>>
    BY DEF ReadPod, IInv, Sound, Staged
  <1>2. ASSUME NEW reply \in {"done", "kubernetes_error"}, Refused(c, reply),
               reply = "kubernetes_error" => calls[c].vanished
        PROVE  IInv'
    <2>1. reply \in Replies /\ Answer(c, reply) BY <1>2 DEF Replies, Refused
    <2>2. /\ calls'[c].stage = "idle" /\ calls'[c].reply = reply
          /\ calls'[c].tool = calls[c].tool /\ calls'[c].vanished = calls[c].vanished
      BY <2>1, Answers DEF IInv
    <2>3. Removal(c)' /\ Between(c)' /\ Blamed(c)' /\ Missed(c)'
      BY <1>1, <1>2, <2>2 DEF Removal, Between, Blamed, Missed, Over, Idle
    <2>4. QED BY <1>1, <1>2, <2>1, <2>3, RefusedIInv
  <1>3. CASE Lost(c) BY <1>1, <1>3, LostIInv
  <1>4. QED BY <1>2, <1>3 DEF ReadPod

-----------------------------------------------------------------------------
\* A new call has answered nothing yet that would have to be true.
LEMMA StartIInv ==
    ASSUME IInv, NEW c \in Callers, NEW call \in Call, Start(c, call), call.at = 1,
           call.stage \in {"idle", "request", "list", "scan", "list_crds", "read_crd"},
           call.stage = "idle" =>
             call.tool # "delete_runtime" /\ call.reply \notin {"kubernetes_error", "not_found"},
           call.stage = "request" => call.tool \in {"patch_runtime", "create_runtime"},
           call.stage = "list" => call.tool = "delete_runtime",
           call.stage = "scan" => call.tool = "inspect_controller",
           call.stage \in {"list_crds", "read_crd"} => call.tool = "inspect_crd"
    PROVE  IInv'
  <1> DEFINE jobs == IF call.tool = "delete_runtime" THEN Referring(call.runtime) ELSE {}
             others == IF call.tool = "delete_runtime" THEN Misnamed(call.runtime) ELSE {}
             about == IF call.tool \in RuntimeTools THEN {c} ELSE {}
             there == IF runtimes[call.runtime] # "absent" THEN about ELSE {}
             missing == IF runtimes[call.runtime] = "absent" THEN about ELSE {}
             places == IF call.tool = "inspect_controller" THEN controllers ELSE {}
  <1>1. /\ calls' = [calls EXCEPT ![c] = call]
        /\ steady' = [steady EXCEPT ![c] = jobs] /\ ever' = [ever EXCEPT ![c] = jobs]
        /\ namesakes' = [namesakes EXCEPT ![c] = others]
        /\ present' = (present \ {c}) \cup there /\ absent' = (absent \ {c}) \cup missing
        /\ staying' = [staying EXCEPT ![c] = places]
        /\ trouble' = trouble \ {c} /\ removed' = {x \in removed : x[1] # c}
        /\ UNCHANGED <<runtimes, refers, crd, controllers>>
    BY DEF Start, cluster
  <1>2. /\ jobs \in SUBSET Jobs /\ others \in SUBSET Jobs /\ places \in SUBSET Places
        /\ there \subseteq {c} /\ missing \subseteq {c}
        /\ call.tool = "delete_runtime" => /\ jobs = Referring(call.runtime)
                                           /\ others = Misnamed(call.runtime)
        /\ call.tool = "inspect_controller" => places = controllers
        /\ call.tool \in RuntimeTools => /\ runtimes[call.runtime] # "absent" => c \in there
                                         /\ runtimes[call.runtime] = "absent" => c \in missing
    BY NamedOnes DEF IInv, TypeOK, Referring
  <1> HIDE DEF jobs, others, about, there, missing, places
  <1>3. TypeOK'
    BY <1>1, <1>2 DEF IInv, TypeOK
  <1>4. /\ calls'[c] = call /\ \A d \in Callers \ {c} : calls'[d] = calls[d]
        /\ steady'[c] = jobs /\ ever'[c] = jobs /\ namesakes'[c] = others
        /\ staying'[c] = places
        /\ \A d \in Callers \ {c} :
              steady'[d] = steady[d] /\ ever'[d] = ever[d] /\ namesakes'[d] = namesakes[d] /\ staying'[d] = staying[d]
    BY <1>1 DEF IInv, TypeOK
  <1>5. ~HasRemoved(c)' /\ c \notin trouble'
    BY <1>1 DEF HasRemoved
  <1>6. Traced(c)' BY <1>1, <1>2, <1>4 DEF Traced
  <1>7. Listing(c)' BY <1>1, <1>2, <1>4 DEF Listing, Referring, Misnamed, Naming
  <1>8. Passed(c)'
    <2>1. \A i \in DOMAIN Search(call.namespaces) : ~(i < 1)
      <3>1. DOMAIN Search(call.namespaces) = 1..(2 * Len(call.namespaces)) BY DEF Search
      <3>2. Len(call.namespaces) \in Nat BY DEF Call
      <3>3. QED BY <3>1, <3>2
    <2>2. call.at = 1 /\ (call.stage = "scan" => places = controllers) BY <1>2
    <2>3. QED BY <1>1, <1>4, <2>1, <2>2 DEF Passed
  <1>9. Staged(c)' /\ Removing(c)' /\ Removal(c)' /\ Between(c)' /\ Blamed(c)' /\ Missed(c)'
    BY <1>4, <1>5 DEF Staged, Removing, Removal, Between, Blamed, Missed, Over, Idle
  <1>10. Sound(c)' BY <1>6, <1>7, <1>8, <1>9 DEF Sound
  <1>11. ASSUME NEW d \in Callers \ {c} PROVE Sound(d)'
    <2>1. Sound(d) /\ calls'[d] = calls[d] BY <1>4 DEF IInv
    <2>2. /\ (d \in trouble' <=> d \in trouble) /\ (d \in present' <=> d \in present)
          /\ (d \in absent' <=> d \in absent)
      BY <1>1, <1>2
    <2>3. HasRemoved(d)' <=> HasRemoved(d) BY <1>1 DEF HasRemoved
    <2>4. steady'[d] = steady[d] /\ ever'[d] = ever[d] /\ namesakes'[d] = namesakes[d] /\ staying'[d] = staying[d] BY <1>4
    <2>5. Staged(d)' /\ Traced(d)' /\ Removing(d)' /\ Removal(d)' /\ Blamed(d)'
      BY <1>1, <2>1, <2>2, <2>3 DEF Sound, Staged, Traced, Removing, Removal, Blamed, Over, Idle
    <2>6. Listing(d)' /\ Between(d)'
      BY <1>1, <2>1, <2>2, <2>4 DEF Sound, Listing, Between, Referring, Misnamed, Naming, Over
    <2>7. Passed(d)' /\ Missed(d)'
      BY <1>1, <2>1, <2>2, <2>4 DEF Sound, Passed, Missed, Over
    <2>8. QED BY <2>5, <2>6, <2>7 DEF Sound
  <1>12. QED BY <1>3, <1>10, <1>11 DEF IInv

\* A call of a tool that only looks, and needs no confirmation.
Looking(tool, r, input) == NewCall(tool, r, FALSE, input)

LEMMA LookingIsCall ==
    ASSUME NEW tool \in Tools, NEW r \in Runtimes, NEW input \in Inputs
    PROVE  LET new == Looking(tool, r, input) IN
           /\ new \in Call /\ new.tool = tool /\ new.at = 1 /\ new.stage = "idle"
           /\ new.reply = "none"
  <1>1. << >> \in Seq({Namespaces[i] : i \in DOMAIN Namespaces}) OBVIOUS
  <1>2. QED BY <1>1 DEF Looking, NewCall, Call, Stages, Replies

\* The tools take up their calls like that.
LEMMA StartsIInv ==
    ASSUME IInv, NEW c \in Callers, NEW r \in Runtimes, NEW confirmed \in BOOLEAN,
           \/ DeleteRuntime(c, r, confirmed)
           \/ \E input \in Inputs : \/ PatchRuntime(c, r, confirmed, input)
                                   \/ CreateRuntime(c, r, confirmed, input)
           \/ \E named \in BOOLEAN : InspectCrd(c, named)
           \/ \E input \in {"refused", "fine"},
                 namespaces \in {Namespaces} \cup {<<Namespaces[i]>> : i \in DOMAIN Namespaces} :
                InspectController(c, input, namespaces)
    PROVE  IInv'
  <1>1. \A tool \in Tools, input \in Inputs :
          LET new == NewCall(tool, r, confirmed, input) IN
          /\ new \in Call /\ new.tool = tool /\ new.at = 1 /\ new.stage = "idle"
          /\ new.reply = "none"
    <2>1. << >> \in Seq({Namespaces[i] : i \in DOMAIN Namespaces}) OBVIOUS
    <2>2. QED BY <2>1 DEF NewCall, Call, Stages, Replies
  <1>2. "fine" \in Inputs /\ "refused" \in Inputs
    BY DEF Inputs
  <1>3. ASSUME NEW tool \in {"patch_runtime", "create_runtime"}, NEW input \in Inputs,
               Start(c, Requesting(tool, r, confirmed, input))
        PROVE  IInv'
    <2> DEFINE new == NewCall(tool, r, confirmed, input)
               call == Requesting(tool, r, confirmed, input)
    <2>1. /\ new \in Call /\ new.tool = tool /\ new.at = 1 /\ new.stage = "idle"
          /\ new.reply = "none"
      BY <1>1 DEF Tools
    <2>2. \/ call = [new EXCEPT !.reply = "validation_error"]
          \/ call = [new EXCEPT !.reply = "preview"]
          \/ call = [new EXCEPT !.stage = "request"]
      <3>1. CASE input = "refused" BY <3>1 DEF Requesting
      <3>2. CASE input # "refused" /\ ~confirmed BY <3>2 DEF Requesting
      <3>3. CASE input # "refused" /\ confirmed BY <3>3 DEF Requesting
      <3>4. QED BY <3>1, <3>2, <3>3
    <2> HIDE DEF new, call
    <2>3. /\ call \in Call /\ call.at = 1 /\ call.tool = tool
          /\ call.stage \in {"idle", "request"}
          /\ call.reply \in {"none", "validation_error", "preview"}
      BY <2>1, <2>2 DEF Call, Stages, Replies
    <2>4. Start(c, call) BY <1>3 DEF call
    <2>5. QED BY <2>3, <2>4, StartIInv
  <1>4. CASE DeleteRuntime(c, r, confirmed)
    <2> DEFINE new == NewCall("delete_runtime", r, confirmed, "fine")
               call == [new EXCEPT !.stage = "list"]
    <2>1. new \in Call /\ new.tool = "delete_runtime" /\ new.at = 1
      BY <1>1, <1>2 DEF Tools
    <2>2. Start(c, call) BY <1>4 DEF DeleteRuntime
    <2> HIDE DEF new
    <2>3. call \in Call /\ call.at = 1 /\ call.tool = "delete_runtime" /\ call.stage = "list"
      BY <2>1 DEF Call, Stages
    <2> HIDE DEF call
    <2>4. QED BY <2>2, <2>3, StartIInv
  <1>5. ASSUME NEW named \in BOOLEAN, InspectCrd(c, named) PROVE IInv'
    <2> DEFINE stage == IF named THEN "read_crd" ELSE "list_crds"
               any == CHOOSE name \in Runtimes : TRUE
               new == Looking("inspect_crd", any, "fine")
               call == [new EXCEPT !.stage = stage]
    <2>1. new \in Call /\ new.tool = "inspect_crd" /\ new.at = 1
      <3>1. any \in Runtimes BY RuntimesAssumption
      <3> HIDE DEF any
      <3>2. "inspect_crd" \in Tools BY DEF Tools
      <3>3. QED BY <1>2, <3>1, <3>2, LookingIsCall
    <2>2. Start(c, call) BY <1>5 DEF InspectCrd, Looking
    <2>3. stage \in {"list_crds", "read_crd"} OBVIOUS
    <2> HIDE DEF new, stage
    <2>4. call \in Call /\ call.at = 1 /\ call.tool = "inspect_crd" /\ call.stage = stage
      BY <2>1, <2>3 DEF Call, Stages
    <2> HIDE DEF call
    <2>5. QED BY <2>2, <2>3, <2>4, StartIInv
  <1>6. ASSUME NEW input \in {"refused", "fine"},
               NEW namespaces \in {Namespaces} \cup {<<Namespaces[i]>> : i \in DOMAIN Namespaces},
               InspectController(c, input, namespaces)
        PROVE  IInv'
    <2> DEFINE any == CHOOSE name \in Runtimes : TRUE
               new == Looking("inspect_controller", any, input)
               call == IF input = "refused" THEN [new EXCEPT !.reply = "validation_error"]
                       ELSE [new EXCEPT !.stage = "scan", !.namespaces = namespaces]
    <2>1. new \in Call /\ new.tool = "inspect_controller" /\ new.at = 1 /\ new.stage = "idle"
          /\ new.reply = "none"
      <3>1. any \in Runtimes BY RuntimesAssumption
      <3> HIDE DEF any
      <3>2. input \in Inputs BY <1>2
      <3>3. "inspect_controller" \in Tools BY DEF Tools
      <3>4. QED BY <3>1, <3>2, <3>3, LookingIsCall
    <2>2. Start(c, call) BY <1>6 DEF InspectController, Looking
    <2>3. namespaces \in Seq({Namespaces[i] : i \in DOMAIN Namespaces})
      <3>1. Namespaces \in Seq({Namespaces[i] : i \in DOMAIN Namespaces})
        BY NamespacesAssumption
      <3>2. CASE namespaces = Namespaces BY <3>1, <3>2
      <3>3. ASSUME NEW i \in DOMAIN Namespaces, namespaces = <<Namespaces[i]>>
            PROVE  namespaces \in Seq({Namespaces[k] : k \in DOMAIN Namespaces})
        <4>1. Namespaces[i] \in {Namespaces[k] : k \in DOMAIN Namespaces} OBVIOUS
        <4>2. \A S : \A x \in S : <<x>> \in Seq(S) OBVIOUS
        <4>3. QED BY <3>3, <4>1, <4>2
      <3>4. QED BY <3>2, <3>3
    <2> HIDE DEF new
    <2>4. /\ call \in Call /\ call.at = 1 /\ call.tool = "inspect_controller"
          /\ call.stage \in {"idle", "scan"} /\ call.reply \in {"none", "validation_error"}
      <3>1. CASE input = "refused" BY <2>1, <3>1 DEF Call, Replies
      <3>2. CASE input # "refused" BY <2>1, <2>3, <3>2 DEF Call, Stages
      <3>3. QED BY <3>1, <3>2
    <2> HIDE DEF call
    <2>5. QED BY <2>2, <2>4, StartIInv
  <1>7. QED BY <1>3, <1>4, <1>5, <1>6 DEF PatchRuntime, CreateRuntime

\* A job is submitted or deleted: it is no longer one that stays, and if it refers
\* to a runtime now, the calls that are about to delete that know it.
LEMMA JobChangesIInv ==
    ASSUME IInv, NEW j \in Jobs, JobChanges(j) PROVE IInv'
  <1>1. PICK ref \in Refs : refers' = [refers EXCEPT ![j] = ref]
    BY DEF JobChanges
  <1>2. /\ steady' = [c \in Callers |->
                        IF calls[c].stage = "idle" THEN steady[c] ELSE steady[c] \ {j}]
        /\ ever' = [c \in Callers |->
                      IF /\ Deleting(c)
                         /\ refers'[j] = Ref("ClusterTrainingRuntime", calls[c].runtime)
                      THEN ever[c] \cup {j} ELSE ever[c]]
        /\ namesakes' = [c \in Callers |->
                           IF /\ Deleting(c) /\ refers'[j].name = calls[c].runtime
                              /\ refers'[j].kind # "ClusterTrainingRuntime"
                           THEN namesakes[c] \cup {j} ELSE namesakes[c]]
        /\ UNCHANGED <<runtimes, crd, controllers, calls, present, absent, staying, trouble, removed>>
    BY DEF JobChanges
  <1>3. TypeOK' BY <1>1, <1>2 DEF IInv, TypeOK
  <1>4. ASSUME NEW c \in Callers PROVE Sound(c)'
    <2>1. Sound(c) /\ refers \in [Jobs -> Refs] BY DEF IInv, TypeOK
    <2>2. Staged(c)' /\ Traced(c)' /\ Blamed(c)' /\ Passed(c)' /\ Missed(c)'
      BY <1>2, <2>1 DEF Sound, Staged, Traced, Blamed, Passed, Missed, Over, Idle
    <2>3. Removing(c)' /\ Removal(c)'
      BY <1>2, <2>1 DEF Sound, Removing, Removal, HasRemoved, Over
    <2>4. /\ steady'[c] \subseteq steady[c]
          /\ ever[c] \subseteq ever'[c] /\ namesakes[c] \subseteq namesakes'[c]
          /\ calls[c].stage # "idle" => j \notin steady'[c]
      BY <1>2
    <2>5. Listing(c)'
      <3>1. \A i \in Jobs \ {j} : refers'[i] = refers[i] BY <1>1, <2>1
      <3>2. CASE calls[c].stage = "list"
        <4>1. Deleting(c) /\ calls'[c] = calls[c]
          BY <1>2, <2>1, <3>2 DEF Sound, Staged, Deleting
        <4>2. /\ steady[c] \subseteq Referring(calls[c].runtime)
              /\ Referring(calls[c].runtime) \subseteq ever[c]
              /\ Misnamed(calls[c].runtime) \subseteq namesakes[c]
          BY <2>1, <3>2 DEF Sound, Listing
        <4>3. steady'[c] \subseteq Referring(calls[c].runtime)'
          BY <2>4, <3>1, <3>2, <4>1, <4>2 DEF Referring
        <4>4. Referring(calls[c].runtime)' \subseteq ever'[c]
          BY <1>2, <2>4, <3>1, <4>1, <4>2 DEF Referring
        <4>5. Misnamed(calls[c].runtime)' \subseteq namesakes'[c]
          <5>1. ASSUME NEW i \in Misnamed(calls[c].runtime)', i # j
                PROVE  i \in namesakes'[c]
            <6>1. i \in Misnamed(calls[c].runtime)
              BY <3>1, <4>1, <5>1 DEF Misnamed, Naming, Referring
            <6>2. QED BY <2>4, <4>2, <6>1
          <5>2. ASSUME j \in Misnamed(calls[c].runtime)'
                PROVE  j \in namesakes'[c]
            <6>1. /\ refers'[j].name = calls[c].runtime
                  /\ refers'[j] # Ref("ClusterTrainingRuntime", calls[c].runtime)
              BY <4>1, <5>2 DEF Misnamed, Naming, Referring
            <6>2. refers'[j] \in Refs
              BY <1>3 DEF TypeOK
            <6>3. refers'[j].kind # "ClusterTrainingRuntime"
              BY <6>1, <6>2 DEF Refs, Ref, Nowhere
            <6>4. QED BY <1>2, <4>1, <6>1, <6>3
          <5>3. QED BY <5>1, <5>2
        <4>6. QED BY <4>3, <4>4, <4>5 DEF Listing
      <3>3. CASE calls[c].stage # "list" BY <1>2, <3>3 DEF Listing
      <3>4. QED BY <3>2, <3>3
    <2>6. Between(c)' BY <1>2, <2>1, <2>4 DEF Sound, Between, Over
    <2>7. QED BY <2>2, <2>3, <2>5, <2>6 DEF Sound
  <1>5. QED BY <1>3, <1>4 DEF IInv

\* Somebody else's change of a runtime is noted by the calls about it.
LEMMA RuntimeChangesIInv ==
    ASSUME IInv, NEW r \in Runtimes, RuntimeChanges(r) PROVE IInv'
  <1>1. PICK state \in RuntimeStates : Becomes(r, state)
    BY DEF RuntimeChanges
  <1>2. UNCHANGED <<refers, crd, controllers, calls, steady, ever, namesakes, staying, trouble, removed>>
    BY DEF RuntimeChanges
  <1>3. ASSUME NEW d \in Callers
        PROVE  /\ Traced(d)' /\ runtimes' \in [Runtimes -> RuntimeStates]
               /\ present \subseteq present' /\ present' \subseteq Callers
               /\ absent \subseteq absent' /\ absent' \subseteq Callers
    <2>1. calls'[d].stage = "idle" \/ (/\ calls[d].stage # "idle"
                                       /\ calls'[d].tool = calls[d].tool
                                       /\ calls'[d].runtime = calls[d].runtime)
      BY <1>2
    <2>2. QED BY <1>1, <2>1, BecomesTraces
  <1>4. TypeOK'
    <2>1. runtimes' \in [Runtimes -> RuntimeStates] /\ present' \subseteq Callers /\ absent' \subseteq Callers
      BY <1>1 DEF Becomes, IInv, TypeOK
    <2>2. QED BY <1>2, <2>1 DEF IInv, TypeOK
  <1>5. ASSUME NEW d \in Callers PROVE Sound(d)'
    BY <1>2, <1>3, OthersStaySound
  <1>6. QED BY <1>4, <1>5 DEF IInv

\* The CRD is no matter of the invariant.
LEMMA CrdChangesIInv ==
    ASSUME IInv, CrdChanges PROVE IInv'
  <1>1. /\ crd' \in BOOLEAN
        /\ UNCHANGED <<runtimes, refers, controllers, calls>>
        /\ UNCHANGED <<steady, ever, namesakes, present, absent, staying, trouble, removed>>
    BY DEF CrdChanges, observers, IInv, TypeOK
  <1>2. TypeOK' BY <1>1 DEF IInv, TypeOK
  <1>3. ASSUME NEW d \in Callers PROVE Sound(d)'
    <2>1. Traced(d)' BY <1>1 DEF IInv, Sound, Traced
    <2>2. QED BY <1>1, <2>1, OthersStaySound
  <1>4. QED BY <1>2, <1>3 DEF IInv

\* A controller pod starts or goes away: its place is no longer one where it stays.
LEMMA ControllerChangesIInv ==
    ASSUME IInv, NEW p \in Places, ControllerChanges(p) PROVE IInv'
  <1>1. /\ controllers' = IF p \in controllers THEN controllers \ {p} ELSE controllers \cup {p}
        /\ calls' = [c \in Callers |->
                       IF calls[c].stage = "read_pod" /\ Search(calls[c].namespaces)[calls[c].at] = p
                       THEN [calls[c] EXCEPT !.vanished = TRUE] ELSE calls[c]]
        /\ staying' = [c \in Callers |->
                         IF calls[c].stage = "idle" THEN staying[c] ELSE staying[c] \ {p}]
        /\ UNCHANGED <<runtimes, refers, crd, steady, ever, namesakes, present, absent, trouble, removed>>
    BY DEF ControllerChanges
  <1>2. ASSUME NEW c \in Callers
        PROVE  /\ calls'[c] \in Call
               /\ calls'[c] = calls[c] \/ (/\ calls[c].stage = "read_pod"
                                           /\ calls'[c] = [calls[c] EXCEPT !.vanished = TRUE])
    <2>1. calls[c] \in Call BY DEF IInv, TypeOK
    <2>2. [calls[c] EXCEPT !.vanished = TRUE] \in Call BY <2>1 DEF Call
    <2>3. calls'[c] = IF calls[c].stage = "read_pod" /\ Search(calls[c].namespaces)[calls[c].at] = p
                      THEN [calls[c] EXCEPT !.vanished = TRUE] ELSE calls[c]
      BY <1>1
    <2>4. QED BY <2>1, <2>2, <2>3
  <1>3. calls' \in [Callers -> Call] BY <1>1, <1>2
  <1>4. TypeOK' BY <1>1, <1>3 DEF IInv, TypeOK
  <1>5. ASSUME NEW c \in Callers PROVE Sound(c)'
    <2>1. Sound(c) BY DEF IInv
    <2>2. /\ calls'[c].stage = calls[c].stage /\ calls'[c].tool = calls[c].tool
          /\ calls'[c].runtime = calls[c].runtime /\ calls'[c].reply = calls[c].reply
          /\ calls'[c].at = calls[c].at /\ calls'[c].namespaces = calls[c].namespaces
          /\ calls'[c].listed = calls[c].listed /\ calls'[c].dependents = calls[c].dependents
          /\ calls'[c].input = calls[c].input
          /\ calls[c].stage = "idle" => calls'[c] = calls[c]
      <3>1. calls[c] \in Call BY DEF IInv, TypeOK
      <3>2. CASE calls'[c] = calls[c] BY <3>2
      <3>3. CASE calls[c].stage = "read_pod" /\ calls'[c] = [calls[c] EXCEPT !.vanished = TRUE]
        BY <3>1, <3>3 DEF Call
      <3>4. QED BY <1>2, <3>2, <3>3
    <2>3. Staged(c)' /\ Traced(c)' /\ Blamed(c)'
      BY <1>1, <2>1, <2>2 DEF Sound, Staged, Traced, Blamed, Idle
    <2>4. Removing(c)' /\ Removal(c)'
      BY <1>1, <2>1, <2>2 DEF Sound, Removing, Removal, HasRemoved, Over
    <2>5. Listing(c)' /\ Between(c)'
      BY <1>1, <2>1, <2>2 DEF Sound, Listing, Between, Referring, Misnamed, Naming, Over
    <2>6. staying'[c] = IF calls[c].stage = "idle" THEN staying[c] ELSE staying[c] \ {p}
      BY <1>1
    <2>7. Missed(c)' BY <1>1, <2>1, <2>2, <2>6 DEF Sound, Missed, Over
    <2>8. Passed(c)' BY <1>1, <2>1, <2>2, <2>6 DEF Sound, Passed
    <2>9. QED BY <2>3, <2>4, <2>5, <2>7, <2>8 DEF Sound
  <1>6. QED BY <1>4, <1>5 DEF IInv

-----------------------------------------------------------------------------
\* Nothing is under way or answered in the beginning.
LEMMA InitIInv == Init => IInv
  <1> SUFFICES ASSUME Init PROVE IInv
    OBVIOUS
  <1> DEFINE r == CHOOSE r \in Runtimes : TRUE
  <1>1. calls = [c \in Callers |-> Looking("inspect_crd", r, "fine")]
    BY DEF Init, Looking
  <1>2. r \in Runtimes BY RuntimesAssumption
  <1> HIDE DEF r
  <1>3. /\ Looking("inspect_crd", r, "fine") \in Call
        /\ Looking("inspect_crd", r, "fine").stage = "idle"
        /\ Looking("inspect_crd", r, "fine").tool = "inspect_crd"
        /\ Looking("inspect_crd", r, "fine").reply = "none"
    BY <1>2, LookingIsCall DEF Tools, Inputs
  <1>4. calls \in [Callers -> Call]
        /\ \A c \in Callers : /\ calls[c].stage = "idle" /\ calls[c].tool = "inspect_crd"
                              /\ calls[c].reply = "none"
    BY <1>1, <1>3
  <1>5. /\ runtimes \in [Runtimes -> RuntimeStates] /\ refers \in [Jobs -> Refs]
        /\ crd \in BOOLEAN /\ controllers \subseteq Places
        /\ steady = [c \in Callers |-> {}] /\ ever = [c \in Callers |-> {}]
        /\ namesakes = [c \in Callers |-> {}]
        /\ present = {} /\ absent = {} /\ staying = [c \in Callers |-> {}]
        /\ trouble = {} /\ removed = {}
    BY DEF Init, RuntimeStates
  <1>6. TypeOK BY <1>4, <1>5 DEF TypeOK
  <1>7. ASSUME NEW c \in Callers PROVE Sound(c)
    BY <1>4, <1>5
    DEF Sound, Staged, Traced, Removing, Removal, HasRemoved, Listing, Between, Blamed,
        Passed, Missed, Over, Idle
  <1>8. QED BY <1>6, <1>7 DEF IInv

\* Every step keeps the invariant.
LEMMA NextIInv == IInv /\ [Next]_vars => IInv'
  <1> SUFFICES ASSUME IInv, [Next]_vars PROVE IInv'
    OBVIOUS
  <1>1. PICK r \in Runtimes : TRUE
    BY RuntimesAssumption
  <1>2. ASSUME NEW c \in Callers, NEW name \in Runtimes, NEW confirmed \in BOOLEAN,
               \/ DeleteRuntime(c, name, confirmed)
               \/ \E input \in Inputs : \/ PatchRuntime(c, name, confirmed, input)
                                       \/ CreateRuntime(c, name, confirmed, input)
        PROVE  IInv'
    BY <1>2, StartsIInv
  <1>3. ASSUME NEW c \in Callers,
               \/ \E named \in BOOLEAN : InspectCrd(c, named)
               \/ \E input \in {"refused", "fine"},
                     namespaces \in {Namespaces} \cup {<<Namespaces[i]>> : i \in DOMAIN Namespaces} :
                    InspectController(c, input, namespaces)
        PROVE  IInv'
    <2>1. ASSUME NEW confirmed \in BOOLEAN PROVE IInv'
      BY <1>1, <1>3, <2>1, StartsIInv
    <2>2. QED BY <2>1
  <1>4. CASE \E c \in Callers : Patch(c) \/ Create(c) \/ ListDependents(c) \/ Delete(c)
    BY <1>4, RequestIInv, ListDependentsIInv, DeleteIInv
  <1>5. CASE \E c \in Callers : ReadCrd(c) \/ Scan(c) \/ ReadPod(c)
    BY <1>5, ReadCrdIInv, ScanIInv, ReadPodIInv
  <1>6. CASE \/ \E name \in Runtimes : RuntimeChanges(name)
             \/ \E j \in Jobs : JobChanges(j)
             \/ \E p \in Places : ControllerChanges(p)
             \/ CrdChanges
    BY <1>6, RuntimeChangesIInv, JobChangesIInv, ControllerChangesIInv, CrdChangesIInv
  <1>7. CASE UNCHANGED vars
    <2>1. TypeOK' BY <1>7 DEF vars, IInv, TypeOK
    <2>2. ASSUME NEW d \in Callers PROVE Sound(d)'
      <3>1. Traced(d)' BY <1>7 DEF vars, IInv, Sound, Traced
      <3>2. QED BY <1>7, <3>1, OthersStaySound DEF vars
    <2>3. QED BY <2>1, <2>2 DEF IInv
  <1>8. QED BY <1>2, <1>3, <1>4, <1>5, <1>6, <1>7 DEF Next

\* The inductive invariant holds in every behaviour of the platform tools.
THEOREM Invariant == Spec => []IInv
  <1>1. QED BY InitIInv, NextIInv, PTL DEF Spec

\* The threads' calls, the cluster and the observers stay of their types.
THEOREM TypeCorrect == Spec => []TypeOK
  <1>1. IInv => TypeOK BY DEF IInv
  <1>2. QED BY <1>1, Invariant, PTL

\* The jobs that delete_runtime reports name the runtime or a namesake of it, and
\* those that refer to the runtime are among them, up to changes during the call
\* (trainer/api/platform.py:446-464).
THEOREM DependentsAreTold == Spec => []DependentsBetween
  <1>1. IInv => DependentsBetween BY DEF IInv, Sound, Between, DependentsBetween
  <1>2. QED BY <1>1, Invariant, PTL

\* What delete_runtime says of the deletion is true, unless an answer was lost
\* (trainer/api/platform.py:483-511, common/utils.py:45).
THEOREM RemovalsAreTold == Spec => []RemovalTold
  <1>1. IInv => RemovalTold BY DEF IInv, Sound, Removal, HasRemoved, RemovalTold
  <1>2. QED BY <1>1, Invariant, PTL

\* An error that counts against the circuit breaker has a cause
\* (trainer/api/platform.py:160, 338, 502).
THEOREM FaultsHaveCauses == Spec => []BlameNeedsTrouble
  <1>1. IInv => BlameNeedsTrouble BY DEF IInv, Sound, Blamed, BlameNeedsTrouble
  <1>2. QED BY <1>1, Invariant, PTL

\* A controller that is not found was not at one place all the time, however
\* many namespaces are searched (trainer/api/platform.py:75-91).
THEOREM SearchLeavesNoneOut == Spec => []ControllerMissNeedsLoss
  <1>1. IInv => ControllerMissNeedsLoss BY DEF IInv, Sound, Missed, ControllerMissNeedsLoss
  <1>2. QED BY <1>1, Invariant, PTL
=============================================================================
