-------------------------- MODULE PreFlight_proofs --------------------------
(***************************************************************************)
(* What the planning tools answer is true of the cluster, for any number   *)
(* of agents, versions, GPUs and changes, and their estimates fit, for     *)
(* every model.                                                            *)
(*                                                                         *)
(* The parts of the invariant are stated of a call, of the reads it has    *)
(* left, and of the reads it lost, so that a step has to be looked at for  *)
(* one call only.                                                          *)
(***************************************************************************)
EXTENDS PreFlight, TLAPS

\* The order in which reads are made, if they are made.
Rank(x) ==
    CASE x = "version"  -> 1
      [] x = "crd"      -> 2
      [] x = "sdk"      -> 3
      [] x = "platform" -> 4
      [] x = "gpus"     -> 5
      [] x = "model"    -> 6
      [] x = "runtimes" -> 7
      [] OTHER          -> 8

Left(todo) == {todo[i] : i \in DOMAIN todo}

Ordered(todo) == \A i, j \in DOMAIN todo : i < j => Rank(todo[i]) < Rank(todo[j])

\* The tools that check the environment.
Checkers == {"check_compatibility", "pre_flight"}

\* The size is only asked of models, and only pre_flight advises.
Planned(call, left) ==
    /\ "model" \in left => call.model \in Models
    /\ call.tool # "pre_flight" => call.advice = "none"

\* The observers have noted what is so now, as long as it matters.
Watched(c, call, left) ==
    /\ left \cap {"version", "crd"} # {} => Met \subseteq held[c] /\ Conditions \ Met \subseteq failed[c]
    /\ left # {} \/ call.advice = "fine_tune" => counts[c] = {} \/ gpus \in counts[c]
    /\ left \cap {"gpus", "name"} # {} \/ call.advice = "fine_tune" => counts[c] # {}
    /\ "runtimes" \in left => runtimes \subseteq ever[c] /\ steady[c] \subseteq runtimes

\* The blockers that were found have a cause, and what was checked held.
Checked(c, call, left, gone) ==
    /\ "old version" \in call.blockers => "version" \in failed[c]
    /\ "unreachable" \in call.blockers => "version" \in gone
    /\ "no crd" \in call.blockers => "crd" \in failed[c] \cup gone
    /\ "api not served" \in call.blockers => "api" \in failed[c]
    /\ call.tool \in Checkers /\ call.blockers = {} =>
         /\ "version" \notin left => "version" \in held[c]
         /\ "crd" \notin left => "crd" \in held[c] /\ "api" \in held[c]
         /\ "sdk" \notin left => sdk \notin {"old", "missing"}
    /\ call.tool \in Checkers /\ call.reply = "answered" =>
         left \cap {"version", "crd", "sdk"} = {}

\* The GPUs that were counted were there, and the advice fits what was read.
Grounded(c, call, left, gone) ==
    LET NoGpus == 0 \in counts[c] \/ "gpus" \in gone
        SomeGpus == counts[c] # {0}
    IN
    call.tool = "pre_flight" =>
      /\ call.count # 0 => call.count \in counts[c]
      /\ "runtimes" \in left /\ "gpus" \notin left /\ call.count = 0 => NoGpus
      /\ call.advice = "fine_tune" => SomeGpus /\ ever[c] \cap Tuned # {}
      /\ call.advice = "custom without gpus" => NoGpus /\ ever[c] \cap Tuned # {}
      /\ call.advice = "custom with gpus" => SomeGpus /\ ever[c] # {} /\ steady[c] \cap Tuned = {}
      /\ call.advice = "custom on cpus" => NoGpus /\ ever[c] # {} /\ steady[c] \cap Tuned = {}
      /\ call.advice = "no runtimes" => steady[c] = {} \/ "runtimes" \in gone

\* A preview that has looked for GPUs found some, or nothing.
Taken(c, call, left, gone) ==
    call.tool = "fine_tune" =>
      /\ call.follows => call.runtime \in Tuned
      /\ ~call.confirmed /\ "name" \in left /\ "gpus" \notin left =>
           counts[c] # {0} \/ "gpus" \in gone
      /\ call.follows /\ call.reply = "wrong runtime" => call.runtime = "torch-tune-llama"
      /\ call.reply = "needs gpus" => 0 \in counts[c]
      /\ call.reply = "accepted" /\ counts[c] = {0} => call.confirmed \/ "gpus" \in gone

Fits(call) ==
    call.estimate # NoEstimate =>
      call.model \in Models /\ Valid(call.model) /\ call.estimate = Estimate(call.model)

Sound(c, call, left, gone) ==
    /\ Planned(call, left) /\ Watched(c, call, left) /\ Checked(c, call, left, gone)
    /\ Grounded(c, call, left, gone) /\ Taken(c, call, left, gone) /\ Fits(call)

IInv ==
    /\ TypeOK
    /\ \A c \in Callers : /\ Ordered(calls[c].todo)
                          /\ Sound(c, calls[c], Left(calls[c].todo), lost[c])

-----------------------------------------------------------------------------
\* The next read comes before all others that are left.
LEMMA HeadFirst ==
    ASSUME NEW todo \in Seq(Reads), todo # << >>, Ordered(todo)
    PROVE  /\ Head(todo) \in Left(todo) /\ Tail(todo) \in Seq(Reads) /\ Ordered(Tail(todo))
           /\ Left(Tail(todo)) = Left(todo) \ {Head(todo)}
           /\ \A x \in Left(todo) : x # Head(todo) => Rank(Head(todo)) < Rank(x)
  <1>1. /\ Len(todo) \in Nat \ {0} /\ DOMAIN todo = 1..Len(todo) /\ Head(todo) = todo[1]
        /\ Tail(todo) \in Seq(Reads) /\ DOMAIN Tail(todo) = 1..(Len(todo) - 1)
        /\ \A i \in 1..(Len(todo) - 1) : Tail(todo)[i] = todo[i + 1]
    OBVIOUS
  <1>2. Ordered(Tail(todo))
    <2>1. SUFFICES ASSUME NEW i \in 1..(Len(todo) - 1), NEW j \in 1..(Len(todo) - 1), i < j
                   PROVE  Rank(Tail(todo)[i]) < Rank(Tail(todo)[j])
      BY <1>1 DEF Ordered
    <2>2. i + 1 \in DOMAIN todo /\ j + 1 \in DOMAIN todo /\ i + 1 < j + 1
      BY <1>1, <2>1
    <2>3. QED BY <1>1, <2>2 DEF Ordered
  <1>3. \A x \in Left(todo) : x # Head(todo) => Rank(Head(todo)) < Rank(x)
    <2>1. SUFFICES ASSUME NEW i \in DOMAIN todo, todo[i] # todo[1]
                   PROVE  Rank(todo[1]) < Rank(todo[i])
      BY <1>1 DEF Left
    <2>2. 1 \in DOMAIN todo /\ 1 < i BY <1>1, <2>1
    <2>3. QED BY <2>2 DEF Ordered
  <1>4. \A i \in DOMAIN todo : i # 1 => todo[i] # todo[1]
    <2>1. SUFFICES ASSUME NEW i \in DOMAIN todo, i # 1, todo[i] = todo[1] PROVE FALSE
      OBVIOUS
    <2>2. 1 \in DOMAIN todo /\ 1 < i BY <1>1, <2>1
    <2>3. Rank(todo[1]) < Rank(todo[1]) BY <2>1, <2>2 DEF Ordered
    <2>4. Rank(todo[1]) \in Int BY DEF Rank
    <2>5. QED BY <2>3, <2>4
  <1>5. Left(Tail(todo)) = Left(todo) \ {todo[1]}
    <2>1. ASSUME NEW i \in 1..(Len(todo) - 1) PROVE Tail(todo)[i] \in Left(todo) \ {todo[1]}
      <3>1. i + 1 \in DOMAIN todo /\ i + 1 # 1 BY <1>1
      <3>2. QED BY <1>1, <1>4, <3>1 DEF Left
    <2>2. ASSUME NEW i \in DOMAIN todo, todo[i] # todo[1] PROVE todo[i] \in Left(Tail(todo))
      <3>1. i - 1 \in 1..(Len(todo) - 1) /\ (i - 1) + 1 = i BY <1>1, <2>2
      <3>2. QED BY <1>1, <3>1 DEF Left
    <2>3. QED BY <1>1, <2>1, <2>2 DEF Left
  <1>6. todo[1] \in Left(todo)
    <2>1. 1 \in DOMAIN todo BY <1>1
    <2>2. QED BY <2>1 DEF Left
  <1>7. QED BY <1>1, <1>2, <1>3, <1>5, <1>6

\* Nothing is left of a call that is over.
LEMMA NothingLeft == Left(<< >>) = {} /\ Ordered(<< >>) /\ << >> \in Seq(Reads)
  <1>1. Left(<< >>) = {} /\ Ordered(<< >>) BY DEF Left, Ordered
  <1>2. << >> \in Seq(Reads) BY DEF Reads
  <1>3. QED BY <1>1, <1>2

LEMMA RanksAreNumbers == \A x : Rank(x) \in Int
  BY DEF Rank

LEMMA NotBoth ==
    ASSUME NEW x, NEW y, Rank(x) < Rank(y), Rank(y) < Rank(x) PROVE FALSE
  BY RanksAreNumbers

\* The environment is checked before anything else is read.
LEMMA ChecksFirst ==
    /\ \A x \in {"version", "crd", "sdk"} :
          Rank(x) < Rank("platform") /\ Rank(x) < Rank("gpus") /\ Rank(x) < Rank("runtimes")
    /\ Rank("gpus") < Rank("runtimes") /\ Rank("gpus") < Rank("name")
    /\ \A x \in {"version", "crd", "sdk"} : Rank(x) < Rank("model")
  <1>1. Rank("version") = 1 /\ Rank("crd") = 2 /\ Rank("sdk") = 3 BY DEF Rank
  <1>2. Rank("platform") = 4 /\ Rank("gpus") = 5 /\ Rank("model") = 6 BY DEF Rank
  <1>3. Rank("runtimes") = 7 /\ Rank("name") = 8 BY DEF Rank
  <1>4. QED BY <1>1, <1>2, <1>3

-----------------------------------------------------------------------------
\* The rounding of the estimate: what the GPUs of a size and a number hold.
LEMMA GpusHold ==
    ASSUME NEW memory \in Nat \ {0}
    PROVE  /\ Count(memory) \in Nat \ {0} /\ Each(memory) \in Nat
           /\ memory <= Count(memory) * Each(memory)
           /\ Count(memory) > 1 => /\ Each(memory) = 80
                                  /\ (Count(memory) - 1) * 80 < memory
  <1>1. CASE memory <= 80
    <2>1. Count(memory) = 1 BY <1>1 DEF Count
    <2>2. Each(memory) \in Nat /\ memory <= Each(memory) BY <1>1 DEF Each
    <2>3. QED BY <2>1, <2>2
  <1>2. CASE memory > 80
    <2>1. Each(memory) = 80 BY <1>2 DEF Each
    <2>2. Count(memory) = (memory + 79) \div 80 BY <1>2 DEF Count
    <2>3. /\ (memory + 79) \div 80 \in Nat \ {0}
          /\ memory <= ((memory + 79) \div 80) * 80
          /\ ((memory + 79) \div 80 - 1) * 80 < memory
      BY <1>2
    <2>4. QED BY <2>1, <2>2, <2>3
  <1>3. QED BY <1>1, <1>2

\* The parts of what a model needs are numbers, and the memory is cut off by
\* less than a GB.
LEMMA MemoryHolds ==
    ASSUME NEW m \in Models, Valid(m)
    PROVE  /\ Memory(m) \in Nat \ {0} /\ Needed(m) \in Nat
           /\ Needed(m) < 100 * (Memory(m) + 1)
  <1>1. m.params \in Nat \ {0} /\ m.batch \in Int /\ m.batch >= 1
    BY ModelsAssumption DEF Valid
  <1>2. Weights(m) \in Nat
    <2>1. Bits(m.quantization) \in {1, 2, 4, 8} BY DEF Bits
    <2>2. m.params * Bits(m.quantization) \in Nat BY <1>1, <2>1
    <2>3. QED BY <2>2 DEF Weights
  <1>3. Adapters(m) \in Nat BY <1>2 DEF Adapters
  <1>4. Activations(m) \in Nat
    <2>1. 9 + m.batch \in Nat BY <1>1
    <2>2. Weights(m) * 3 * (9 + m.batch) \in Nat BY <1>2, <2>1
    <2>3. QED BY <2>2 DEF Activations
  <1>5. Needed(m) \in Nat BY <1>2, <1>3, <1>4 DEF Needed, Overhead
  <1>6. QED BY <1>5 DEF Memory

\* An estimate of accepted arguments fits, whatever the model.
LEMMA EstimatesFit ==
    ASSUME NEW m \in Models, Valid(m)
    PROVE  /\ Estimate(m) \in [memory : Nat, count : Nat, each : Nat, total : Int]
           /\ Needed(m) < 100 * (Estimate(m).count * Estimate(m).each + 1)
           /\ Estimate(m).count > 1 =>
                Estimate(m).each = 80 /\ (Estimate(m).count - 1) * Estimate(m).each < Estimate(m).memory
           /\ Estimate(m).total >= Estimate(m).count
  <1> DEFINE memory == Memory(m)
             count == Count(memory)
             each == Each(memory)
             room == count * each
  <1>1. /\ memory \in Nat \ {0} /\ Needed(m) \in Nat
        /\ Needed(m) < 100 * (memory + 1)
    BY MemoryHolds
  <1>2. /\ count \in Nat \ {0} /\ each \in Nat /\ memory <= room
        /\ count > 1 => each = 80 /\ (count - 1) * 80 < memory
    BY <1>1, GpusHold
  <1>3. m.workers \in Int /\ m.workers >= 1
    BY ModelsAssumption DEF Valid
  <1>4. Estimate(m) = [memory |-> memory, count |-> count, each |-> each, total |-> count * m.workers]
    BY DEF Estimate
  <1> HIDE DEF memory, count, each
  <1>5. count * m.workers \in Int /\ count * m.workers >= count
    <2>1. \A a \in Nat, w \in Nat \ {0} : a * w >= a
      <3>1. SUFFICES ASSUME NEW a \in Nat, NEW w \in Nat \ {0} PROVE a * w >= a
        OBVIOUS
      <3>2. a * w = a + a * (w - 1) /\ a * (w - 1) >= 0
        OBVIOUS
      <3>3. QED BY <3>2
    <2>2. m.workers \in Nat \ {0} BY <1>3
    <2>3. QED BY <1>2, <2>1, <2>2
  <1>6. room \in Nat BY <1>2
  <1> HIDE DEF room
  <1>7. Needed(m) < 100 * (room + 1) BY <1>1, <1>2, <1>6
  <1>8. QED BY <1>1, <1>2, <1>4, <1>5, <1>7 DEF room
-----------------------------------------------------------------------------
\* What is looked for is what is left.
LEMMA LooksAtLeft ==
    ASSUME NEW call, NEW reads
    PROVE  Looks(call, reads) <=> Left(call.todo) \cap reads # {}
  BY DEF Looks, Left

\* A step of one agent leaves the other agents' calls sound.
LEMMA OthersStaySound ==
    ASSUME IInv, NEW c \in Callers, NEW d \in Callers \ {c},
           UNCHANGED cluster, calls'[d] = calls[d], held'[d] = held[d], failed'[d] = failed[d],
           counts'[d] = counts[d], ever'[d] = ever[d], steady'[d] = steady[d], lost'[d] = lost[d]
    PROVE  (Ordered(calls[d].todo) /\ Sound(d, calls[d], Left(calls[d].todo), lost[d]))'
  <1>1. Ordered(calls[d].todo) /\ Sound(d, calls[d], Left(calls[d].todo), lost[d]) BY DEF IInv
  <1>2. Ordered(calls[d].todo)' BY <1>1 DEF Ordered
  <1>3. Left(calls[d].todo)' = Left(calls[d].todo) BY DEF Left
  <1>4. Met' = Met /\ gpus' = gpus /\ runtimes' = runtimes /\ sdk' = sdk
    BY DEF cluster, Met, NewEnough
  <1>5. Watched(d, calls[d], Left(calls[d].todo))' BY <1>1, <1>3, <1>4 DEF Sound, Watched
  <1>6. Checked(d, calls[d], Left(calls[d].todo), lost[d])' BY <1>1, <1>3, <1>4 DEF Sound, Checked
  <1>7. Grounded(d, calls[d], Left(calls[d].todo), lost[d])' BY <1>1, <1>3 DEF Sound, Grounded
  <1>8. Taken(d, calls[d], Left(calls[d].todo), lost[d])' BY <1>1, <1>3 DEF Sound, Taken
  <1>9. Planned(calls[d], Left(calls[d].todo))' /\ Fits(calls[d])'
    BY <1>1, <1>3 DEF Sound, Planned, Fits
  <1>10. QED BY <1>2, <1>5, <1>6, <1>7, <1>8, <1>9 DEF Sound

\* A call of one agent becomes another: only that one is to be looked at.
LEMMA SetIInv ==
    ASSUME IInv, NEW c \in Callers, NEW call \in Call, NEW gone \in SUBSET Reads,
           calls' = [calls EXCEPT ![c] = call], lost' = [lost EXCEPT ![c] = gone],
           UNCHANGED cluster, UNCHANGED <<changes, held, failed, counts, ever, steady>>,
           Ordered(call.todo), Sound(c, call, Left(call.todo), gone)
    PROVE  IInv'
  <1>1. /\ calls'[c] = call /\ lost'[c] = gone
        /\ \A d \in Callers \ {c} : calls'[d] = calls[d] /\ lost'[d] = lost[d]
    BY DEF IInv, TypeOK
  <1>2. TypeOK' BY DEF IInv, TypeOK, cluster
  <1>3. ASSUME NEW d \in Callers \ {c}
        PROVE  (Ordered(calls[d].todo) /\ Sound(d, calls[d], Left(calls[d].todo), lost[d]))'
    BY <1>1, <1>3, OthersStaySound
  <1>4. Met' = Met /\ gpus' = gpus /\ runtimes' = runtimes /\ sdk' = sdk
    BY DEF cluster, Met, NewEnough
  <1>5. Ordered(calls[c].todo)' /\ Left(calls[c].todo)' = Left(call.todo)
    BY <1>1 DEF Ordered, Left
  <1>6. Watched(c, calls[c], Left(calls[c].todo))' BY <1>1, <1>4, <1>5 DEF Sound, Watched
  <1>7. Checked(c, calls[c], Left(calls[c].todo), lost[c])' BY <1>1, <1>4, <1>5 DEF Sound, Checked
  <1>8. Grounded(c, calls[c], Left(calls[c].todo), lost[c])' BY <1>1, <1>5 DEF Sound, Grounded
  <1>9. Taken(c, calls[c], Left(calls[c].todo), lost[c])' BY <1>1, <1>5 DEF Sound, Taken
  <1>10. Planned(calls[c], Left(calls[c].todo))' /\ Fits(calls[c])'
    BY <1>1, <1>5 DEF Sound, Planned, Fits
  <1>11. QED BY <1>2, <1>3, <1>5, <1>6, <1>7, <1>8, <1>9, <1>10 DEF IInv, Sound

\* The next read is left, and what has to come before it has been read.
LEMMA NextRead ==
    ASSUME IInv, NEW c \in Callers, ~Idle(c)
    PROVE  LET todo == calls[c].todo IN
           /\ calls[c] \in Call /\ todo \in Seq(Reads) /\ lost[c] \in SUBSET Reads
           /\ Head(todo) \in Left(todo) /\ Head(todo) \in Reads
           /\ Ordered(Tail(todo)) /\ Tail(todo) \in Seq(Reads)
           /\ Left(Tail(todo)) = Left(todo) \ {Head(todo)}
           /\ \A x \in Left(todo) : x # Head(todo) => Rank(Head(todo)) < Rank(x)
           /\ Sound(c, calls[c], Left(todo), lost[c])
  <1>1. calls[c] \in Call /\ calls[c].todo \in Seq(Reads) /\ lost[c] \in SUBSET Reads
    BY DEF IInv, TypeOK, Call
  <1>2. Ordered(calls[c].todo) /\ Sound(c, calls[c], Left(calls[c].todo), lost[c]) BY DEF IInv
  <1>3. calls[c].todo # << >> BY DEF Idle
  <1>4. Head(calls[c].todo) \in Reads BY <1>1, <1>3
  <1>5. QED BY <1>1, <1>2, <1>3, <1>4, HeadFirst

\* A read is made, and the call goes on with the others.
LEMMA StepIInv ==
    ASSUME IInv, NEW c \in Callers, NEW x \in Reads, NEW call \in Call, Step(c, x, call),
           call.todo = calls[c].todo, NEW gone \in SUBSET Reads,
           lost' = [lost EXCEPT ![c] = gone],
           Sound(c, call, Left(calls[c].todo) \ {x}, gone)
    PROVE  IInv'
  <1> DEFINE next == [call EXCEPT !.todo = Tail(@)]
             left == Left(calls[c].todo) \ {x}
  <1>1. ~Idle(c) /\ Head(calls[c].todo) = x /\ calls' = [calls EXCEPT ![c] = next]
        /\ UNCHANGED cluster /\ UNCHANGED <<changes, held, failed, counts, ever, steady>>
    BY DEF Step
  <1>2. /\ Ordered(Tail(calls[c].todo)) /\ Tail(calls[c].todo) \in Seq(Reads)
        /\ Left(Tail(calls[c].todo)) = left
    BY <1>1, NextRead
  <1>3. /\ next \in Call /\ next.todo = Tail(calls[c].todo) /\ next.tool = call.tool
        /\ next.model = call.model /\ next.confirmed = call.confirmed
        /\ next.runtime = call.runtime /\ next.follows = call.follows
        /\ next.blockers = call.blockers /\ next.count = call.count
        /\ next.estimate = call.estimate /\ next.names = call.names
        /\ next.advice = call.advice /\ next.reply = call.reply
    BY <1>2 DEF Call
  <1> HIDE DEF next, left
  <1>4. Sound(c, call, left, gone) BY DEF left
  <1>5. Planned(next, left) /\ Watched(c, next, left) /\ Fits(next)
    BY <1>3, <1>4 DEF Sound, Planned, Watched, Fits
  <1>6. Checked(c, next, left, gone) BY <1>3, <1>4 DEF Sound, Checked
  <1>7. Grounded(c, next, left, gone) BY <1>3, <1>4 DEF Sound, Grounded
  <1>8. Taken(c, next, left, gone) BY <1>3, <1>4 DEF Sound, Taken
  <1>9. Sound(c, next, Left(next.todo), gone) /\ Ordered(next.todo)
    BY <1>2, <1>3, <1>5, <1>6, <1>7, <1>8 DEF Sound
  <1>10. QED BY <1>1, <1>3, <1>9, SetIInv
-----------------------------------------------------------------------------
\* A check of the environment is made, which may add to the blockers.
LEMMA CheckIInv ==
    ASSUME IInv, NEW c \in Callers, NEW x \in {"version", "crd", "sdk"},
           NEW blockers \in SUBSET Blockers, Step(c, x, Blocked(c, blockers)),
           NEW gone \in SUBSET Reads, lost[c] \subseteq gone, lost' = [lost EXCEPT ![c] = gone],
           Checked(c, Blocked(c, blockers), Left(calls[c].todo) \ {x}, gone)
    PROVE  IInv'
  <1> DEFINE old == calls[c]
             left == Left(old.todo)
             call == Blocked(c, blockers)
  <1>1. ~Idle(c) /\ x \in Reads BY DEF Step, Reads
  <1>2. old \in Call /\ Sound(c, old, left, lost[c]) BY <1>1, NextRead
  <1>3. /\ call \in Call /\ call.todo = old.todo /\ call.tool = old.tool
        /\ call.model = old.model /\ call.confirmed = old.confirmed
        /\ call.runtime = old.runtime /\ call.follows = old.follows
        /\ call.count = old.count /\ call.estimate = old.estimate
        /\ call.names = old.names /\ call.advice = old.advice /\ call.reply = old.reply
    BY <1>2 DEF Blocked, Call
  <1>4. Step(c, x, call) /\ Checked(c, call, left \ {x}, gone) OBVIOUS
  <1> HIDE DEF call
  <1>5. Planned(call, left \ {x}) /\ Watched(c, call, left \ {x}) /\ Fits(call)
    BY <1>2, <1>3 DEF Sound, Planned, Watched, Fits
  <1>6. Grounded(c, call, left \ {x}, gone) BY <1>2, <1>3 DEF Sound, Grounded
  <1>7. Taken(c, call, left \ {x}, gone) BY <1>2, <1>3 DEF Sound, Taken
  <1>8. Sound(c, call, left \ {x}, gone) BY <1>4, <1>5, <1>6, <1>7 DEF Sound
  <1>9. QED BY <1>1, <1>3, <1>4, <1>8, StepIInv

\* The two comparisons of versions agree.
LEMMA VersionsCompare ==
    ASSUME NEW v \in Versions
    PROVE  AtLeast(v, Minimum) <=> NewEnough(v)
  <1>1. v \in Nat \X Nat BY VersionsAssumption
  <1>2. QED BY <1>1 DEF AtLeast, NewEnough, Minimum

LEMMA ReadVersionIInv ==
    ASSUME IInv, NEW c \in Callers, ReadVersion(c) PROVE IInv'
  <1> DEFINE old == calls[c]
             left == Left(old.todo)
  <1>1. ~Idle(c) /\ Head(old.todo) = "version" BY DEF ReadVersion, Came, Failed, Step
  <1>2. /\ old \in Call /\ "version" \in left /\ lost[c] \in SUBSET Reads
        /\ Sound(c, old, left, lost[c])
    BY <1>1, NextRead
  <1>3. Met \subseteq held[c] /\ Conditions \ Met \subseteq failed[c] /\ Checked(c, old, left, lost[c])
    BY <1>2 DEF Sound, Watched
  <1>4. CASE Came(c, "version", Blocked(c, IF version = Odd \/ AtLeast(version, Minimum)
                                           THEN {} ELSE {"old version"}))
    <2> DEFINE found == IF version = Odd \/ AtLeast(version, Minimum) THEN {} ELSE {"old version"}
               call == Blocked(c, found)
    <2>1. /\ found = {} => "version" \in held[c]
          /\ found # {} => "version" \in failed[c]
      <3>1. "version" \in Met <=> version = Odd \/ NewEnough(version) BY DEF Met, Conditions
      <3>2. version = Odd \/ (version \in Versions /\ (AtLeast(version, Minimum) <=> NewEnough(version)))
        BY VersionsCompare DEF IInv, TypeOK
      <3>3. QED BY <1>3, <3>1, <3>2 DEF Conditions
    <2>2. found \in SUBSET Blockers /\ found \subseteq {"old version"} BY DEF Blockers
    <2>3. Came(c, "version", call) BY <1>4
    <2> HIDE DEF found
    <2>4. /\ call.blockers = old.blockers \cup found /\ call.tool = old.tool
          /\ call.reply = old.reply
      BY <1>2 DEF Blocked, Call
    <2>5. Step(c, "version", call) /\ lost' = [lost EXCEPT ![c] = lost[c]]
      BY <2>3 DEF Came, IInv, TypeOK
    <2> HIDE DEF call
    <2>6. Checked(c, call, left \ {"version"}, lost[c])
      BY <1>3, <2>1, <2>2, <2>4 DEF Checked
    <2>7. QED BY <1>2, <2>2, <2>5, <2>6, CheckIInv DEF call
  <1>5. CASE Failed(c, "version", Blocked(c, {"unreachable"}))
    <2> DEFINE gone == lost[c] \cup {"version"}
               call == Blocked(c, {"unreachable"})
    <2>1. {"unreachable"} \in SUBSET Blockers /\ gone \in SUBSET Reads
      BY <1>2 DEF Blockers, Reads
    <2>2. /\ call.blockers = old.blockers \cup {"unreachable"} /\ call.tool = old.tool
          /\ call.reply = old.reply
      BY <1>2 DEF Blocked, Call
    <2>3. Step(c, "version", call) /\ lost' = [lost EXCEPT ![c] = gone]
      BY <1>5 DEF Failed
    <2> HIDE DEF call
    <2>4. Checked(c, call, left \ {"version"}, gone)
      BY <1>3, <2>2 DEF Checked
    <2>5. QED BY <2>1, <2>3, <2>4, CheckIInv DEF call
  <1>6. QED BY <1>4, <1>5 DEF ReadVersion

LEMMA ReadCrdIInv ==
    ASSUME IInv, NEW c \in Callers, ReadCrd(c) PROVE IInv'
  <1> DEFINE old == calls[c]
             left == Left(old.todo)
             FoundIn == CASE crd = "absent" -> {"no crd"}
                          [] crd = "unserved" -> {"api not served"}
                          [] OTHER -> {}
  <1>1. ~Idle(c) /\ Head(old.todo) = "crd" BY DEF ReadCrd, Came, Failed, Step
  <1>2. /\ old \in Call /\ "crd" \in left /\ lost[c] \in SUBSET Reads
        /\ Sound(c, old, left, lost[c])
    BY <1>1, NextRead
  <1>3. Met \subseteq held[c] /\ Conditions \ Met \subseteq failed[c] /\ Checked(c, old, left, lost[c])
    BY <1>2 DEF Sound, Watched
  <1>4. CASE Came(c, "crd", Blocked(c, FoundIn))
    <2> DEFINE found == FoundIn
               call == Blocked(c, found)
    <2>1. /\ found = {} => "crd" \in held[c] /\ "api" \in held[c]
          /\ "no crd" \in found => "crd" \in failed[c]
          /\ "api not served" \in found => "api" \in failed[c]
      <3>1. crd \in {"absent", "unserved", "served"} BY DEF IInv, TypeOK
      <3>2. /\ "crd" \in Met <=> crd # "absent"
            /\ "api" \in Met <=> crd = "served"
        BY DEF Met, Conditions
      <3>3. CASE crd = "absent" BY <1>3, <3>2, <3>3 DEF Conditions
      <3>4. CASE crd = "unserved" BY <1>3, <3>2, <3>4 DEF Conditions
      <3>5. CASE crd = "served" BY <1>3, <3>2, <3>5 DEF Conditions
      <3>6. QED BY <3>1, <3>3, <3>4, <3>5
    <2>2. found \in SUBSET Blockers /\ found \subseteq {"no crd", "api not served"} BY DEF Blockers
    <2>3. Came(c, "crd", call) BY <1>4
    <2> HIDE DEF found
    <2>4. /\ call.blockers = old.blockers \cup found /\ call.tool = old.tool
          /\ call.reply = old.reply
      BY <1>2 DEF Blocked, Call
    <2>5. Step(c, "crd", call) /\ lost' = [lost EXCEPT ![c] = lost[c]]
      BY <2>3 DEF Came, IInv, TypeOK
    <2> HIDE DEF call
    <2>6. Checked(c, call, left \ {"crd"}, lost[c])
      BY <1>3, <2>1, <2>2, <2>4 DEF Checked
    <2>7. QED BY <1>2, <2>2, <2>5, <2>6, CheckIInv DEF call
  <1>5. CASE Failed(c, "crd", Blocked(c, {"no crd"}))
    <2> DEFINE gone == lost[c] \cup {"crd"}
               call == Blocked(c, {"no crd"})
    <2>1. {"no crd"} \in SUBSET Blockers /\ gone \in SUBSET Reads
      BY <1>2 DEF Blockers, Reads
    <2>2. /\ call.blockers = old.blockers \cup {"no crd"} /\ call.tool = old.tool
          /\ call.reply = old.reply
      BY <1>2 DEF Blocked, Call
    <2>3. Step(c, "crd", call) /\ lost' = [lost EXCEPT ![c] = gone]
      BY <1>5 DEF Failed
    <2> HIDE DEF call
    <2>4. Checked(c, call, left \ {"crd"}, gone)
      BY <1>3, <2>2 DEF Checked
    <2>5. QED BY <2>1, <2>3, <2>4, CheckIInv DEF call
  <1>6. QED BY <1>4, <1>5 DEF ReadCrd

LEMMA CheckSdkIInv ==
    ASSUME IInv, NEW c \in Callers, CheckSdk(c) PROVE IInv'
  <1> DEFINE old == calls[c]
             left == Left(old.todo)
             found == IF sdk \in {"old", "missing"} THEN {"sdk"} ELSE {}
             call == Blocked(c, found)
  <1>1. ~Idle(c) /\ Head(old.todo) = "sdk" BY DEF CheckSdk, Came, Step
  <1>2. old \in Call /\ lost[c] \in SUBSET Reads /\ Sound(c, old, left, lost[c])
    BY <1>1, NextRead
  <1>3. Checked(c, old, left, lost[c]) BY <1>2 DEF Sound
  <1>4. Came(c, "sdk", call) BY DEF CheckSdk
  <1>5. /\ found \in SUBSET Blockers /\ found \subseteq {"sdk"}
        /\ found = {} => sdk \notin {"old", "missing"}
    BY DEF Blockers
  <1> HIDE DEF found
  <1>6. call.blockers = old.blockers \cup found /\ call.tool = old.tool /\ call.reply = old.reply
    BY <1>2 DEF Blocked, Call
  <1>7. Step(c, "sdk", call) /\ lost' = [lost EXCEPT ![c] = lost[c]]
    BY <1>4 DEF Came, IInv, TypeOK
  <1> HIDE DEF call
  <1>8. Checked(c, call, left \ {"sdk"}, lost[c])
    BY <1>3, <1>5, <1>6 DEF Checked
  <1>9. QED BY <1>2, <1>5, <1>7, <1>8, CheckIInv DEF call
-----------------------------------------------------------------------------
\* A call ends with a read, once the checks it is about have been made.
LEMMA EndIInv ==
    ASSUME IInv, NEW c \in Callers, NEW x \in {"platform", "gpus"},
           NEW reply \in {"answered", "needs gpus"}, End(c, x, reply),
           reply = "needs gpus" => calls[c].tool = "fine_tune" /\ 0 \in counts[c],
           NEW gone \in SUBSET Reads, lost[c] \subseteq gone, lost' = [lost EXCEPT ![c] = gone]
    PROVE  IInv'
  <1> DEFINE old == calls[c]
             left == Left(old.todo)
             call == [old EXCEPT !.todo = << >>, !.reply = reply]
  <1>1. ~Idle(c) /\ Head(old.todo) = x BY DEF End
  <1>2. /\ old \in Call /\ Sound(c, old, left, lost[c])
        /\ \A y \in left : y # x => Rank(x) < Rank(y)
    BY <1>1, NextRead
  <1>3. left \cap {"version", "crd", "sdk"} = {}
    <2>1. ASSUME NEW y \in left, y \in {"version", "crd", "sdk"} PROVE FALSE
      <3>1. Rank(y) < Rank(x) /\ y # x BY <2>1, ChecksFirst
      <3>2. Rank(x) < Rank(y) BY <1>2, <3>1
      <3>3. QED BY <3>1, <3>2, NotBoth
    <2>2. QED BY <2>1
  <1>4. /\ calls' = [calls EXCEPT ![c] = call]
        /\ UNCHANGED cluster /\ UNCHANGED <<changes, held, failed, counts, ever, steady>>
    BY DEF End
  <1>5. reply \in Replies BY DEF Replies
  <1>6. << >> \in Seq(Reads) BY NothingLeft
  <1>7. /\ call \in Call /\ call.todo = << >> /\ call.tool = old.tool
        /\ call.model = old.model /\ call.confirmed = old.confirmed
        /\ call.runtime = old.runtime /\ call.follows = old.follows
        /\ call.blockers = old.blockers /\ call.count = old.count
        /\ call.estimate = old.estimate /\ call.names = old.names
        /\ call.advice = old.advice /\ call.reply = reply
    BY <1>2, <1>5, <1>6 DEF Call
  <1> HIDE DEF call
  <1>8. Planned(call, {}) /\ Fits(call) BY <1>2, <1>7 DEF Sound, Planned, Fits
  <1>9. Watched(c, call, {})
    <2>1. x \in left BY <1>1, NextRead
    <2>2. QED BY <1>2, <1>7, <2>1 DEF Sound, Watched
  <1>10. Checked(c, call, {}, gone) BY <1>2, <1>3, <1>7 DEF Sound, Checked
  <1>11. Grounded(c, call, {}, gone) BY <1>2, <1>7 DEF Sound, Grounded
  <1>12. Taken(c, call, {}, gone)
    BY <1>2, <1>7 DEF Sound, Taken
  <1>13. Sound(c, call, Left(call.todo), gone) /\ Ordered(call.todo)
    BY <1>7, <1>8, <1>9, <1>10, <1>11, <1>12, NothingLeft DEF Sound
  <1>14. QED BY <1>4, <1>7, <1>13, SetIInv

LEMMA DetectPlatformIInv ==
    ASSUME IInv, NEW c \in Callers, DetectPlatform(c) PROVE IInv'
  <1> DEFINE old == calls[c]
             left == Left(old.todo)
  <1>1. ~Idle(c) /\ Head(old.todo) = "platform" BY DEF DetectPlatform, Came, Step, End
  <1>2. /\ old \in Call /\ "platform" \in left /\ lost[c] \in SUBSET Reads
        /\ Sound(c, old, left, lost[c])
    BY <1>1, NextRead
  <1>3. lost' = [lost EXCEPT ![c] = lost[c]] BY DEF DetectPlatform, Came, IInv, TypeOK
  <1>4. CASE End(c, "platform", "answered")
    <2>1. "answered" # "needs gpus" OBVIOUS
    <2>2. QED BY <1>2, <1>3, <1>4, <2>1, EndIInv
  <1>5. CASE Came(c, "platform", old)
    <2> DEFINE rest == left \ {"platform"}
    <2>1. Planned(old, rest) /\ Watched(c, old, rest) /\ Fits(old)
      BY <1>2 DEF Sound, Planned, Watched
    <2>2. Checked(c, old, rest, lost[c]) BY <1>2 DEF Sound, Checked
    <2>3. Grounded(c, old, rest, lost[c]) /\ Taken(c, old, rest, lost[c])
      BY <1>2 DEF Sound, Grounded, Taken
    <2>4. Sound(c, old, rest, lost[c]) BY <2>1, <2>2, <2>3 DEF Sound
    <2>5. Step(c, "platform", old) /\ "platform" \in Reads BY <1>5 DEF Came, Reads
    <2>6. QED BY <1>2, <1>3, <2>4, <2>5, StepIInv
  <1>6. QED BY <1>4, <1>5 DEF DetectPlatform

\* GPUs are counted, or not, and the call goes on or is answered.
LEMMA CountIInv ==
    ASSUME IInv, NEW c \in Callers, calls[c].tool \in {"pre_flight", "get_cluster_resources", "fine_tune"},
           NEW count \in Nat, NEW reply \in {"answered", "failed", calls[c].reply},
           calls[c].tool # "get_cluster_resources" => reply = calls[c].reply,
           NEW gone \in SUBSET Reads, lost[c] \subseteq gone, lost' = [lost EXCEPT ![c] = gone],
           Step(c, "gpus", [calls[c] EXCEPT !.count = count, !.reply = reply]),
           calls[c].tool = "pre_flight" =>
             /\ count # 0 => count \in counts[c]
             /\ count = 0 => 0 \in counts[c] \/ "gpus" \in gone,
           calls[c].tool = "fine_tune" => counts[c] # {0} \/ "gpus" \in gone
    PROVE  IInv'
  <1> DEFINE old == calls[c]
             left == Left(old.todo)
             rest == left \ {"gpus"}
             call == [old EXCEPT !.count = count, !.reply = reply]
  <1>1. ~Idle(c) /\ Head(old.todo) = "gpus" BY DEF Step
  <1>2. /\ old \in Call /\ "gpus" \in left /\ Sound(c, old, left, lost[c])
    BY <1>1, NextRead
  <1>3. reply \in Replies BY <1>2 DEF Call, Replies
  <1>4. /\ call \in Call /\ call.todo = old.todo /\ call.tool = old.tool
        /\ call.model = old.model /\ call.confirmed = old.confirmed
        /\ call.runtime = old.runtime /\ call.follows = old.follows
        /\ call.blockers = old.blockers /\ call.count = count
        /\ call.estimate = old.estimate /\ call.names = old.names
        /\ call.advice = old.advice /\ call.reply = reply
    BY <1>2, <1>3 DEF Call
  <1>5. Step(c, "gpus", call) OBVIOUS
  <1> HIDE DEF call
  <1>6. Planned(call, rest) /\ Watched(c, call, rest) /\ Fits(call)
    BY <1>2, <1>4 DEF Sound, Planned, Watched, Fits
  <1>7. Checked(c, call, rest, gone) BY <1>2, <1>4 DEF Sound, Checked, Checkers
  <1>8. Grounded(c, call, rest, gone) BY <1>2, <1>4 DEF Sound, Grounded
  <1>9. Taken(c, call, rest, gone) BY <1>2, <1>4 DEF Sound, Taken
  <1>10. Sound(c, call, rest, gone) BY <1>6, <1>7, <1>8, <1>9 DEF Sound
  <1>11. QED BY <1>4, <1>5, <1>10, StepIInv DEF Reads

LEMMA ReadGpusIInv ==
    ASSUME IInv, NEW c \in Callers, ReadGpus(c) PROVE IInv'
  <1> DEFINE old == calls[c]
             left == Left(old.todo)
             gone == lost[c] \cup {"gpus"}
  <1>1. ~Idle(c) /\ Head(old.todo) = "gpus" BY DEF ReadGpus, Came, Failed, Step, End
  <1>2. /\ old \in Call /\ "gpus" \in left /\ lost[c] \in SUBSET Reads
        /\ Sound(c, old, left, lost[c])
    BY <1>1, NextRead
  <1>3. gpus \in counts[c] /\ gpus \in Nat /\ gone \in SUBSET Reads
    BY <1>2 DEF Sound, Watched, IInv, TypeOK, Reads
  <1>4. /\ UNCHANGED lost => lost' = [lost EXCEPT ![c] = lost[c]]
        /\ old.count \in Nat
        /\ old = [old EXCEPT !.count = old.count, !.reply = old.reply]
        /\ \A n : [old EXCEPT !.count = n] = [old EXCEPT !.count = n, !.reply = old.reply]
        /\ \A r : [old EXCEPT !.reply = r] = [old EXCEPT !.count = old.count, !.reply = r]
    BY <1>2 DEF IInv, TypeOK, Call
  <1>5. CASE old.tool = "pre_flight"
    <2>1. CASE Came(c, "gpus", [old EXCEPT !.count = gpus])
      <3>1. Step(c, "gpus", [old EXCEPT !.count = gpus, !.reply = old.reply]) /\ UNCHANGED lost
        BY <1>4, <2>1 DEF Came
      <3>2. /\ gpus # 0 => gpus \in counts[c]
            /\ gpus = 0 => 0 \in counts[c] \/ "gpus" \in lost[c]
        BY <1>3
      <3>3. lost' = [lost EXCEPT ![c] = lost[c]] BY <1>4, <3>1
      <3>4. QED BY <1>2, <1>3, <1>5, <3>1, <3>2, <3>3, CountIInv
    <2>2. CASE Failed(c, "gpus", [old EXCEPT !.count = WithoutCount(old.tool)])
      <3>1. WithoutCount(old.tool) = 0 BY <1>5 DEF WithoutCount
      <3>2. Step(c, "gpus", [old EXCEPT !.count = 0, !.reply = old.reply])
        BY <1>4, <2>2, <3>1 DEF Failed
      <3>3. lost' = [lost EXCEPT ![c] = gone] BY <2>2 DEF Failed
      <3>4. 0 \in Nat /\ "gpus" \in gone OBVIOUS
      <3>5. QED BY <1>2, <1>3, <1>5, <3>2, <3>3, <3>4, CountIInv
    <2>3. QED BY <1>5, <2>1, <2>2 DEF ReadGpus
  <1>6. CASE old.tool = "get_cluster_resources"
    <2>1. CASE Came(c, "gpus", [old EXCEPT !.count = gpus, !.reply = "answered"])
      BY <1>2, <1>3, <1>4, <1>6, <2>1, CountIInv DEF Came
    <2>2. CASE Failed(c, "gpus", [old EXCEPT !.reply = "failed"])
      BY <1>2, <1>3, <1>4, <1>6, <2>2, CountIInv DEF Failed
    <2>3. QED BY <1>6, <2>1, <2>2 DEF ReadGpus
  <1>7. CASE old.tool = "fine_tune"
    <2>1. CASE gpus # 0 /\ Came(c, "gpus", old)
      <3>1. Step(c, "gpus", [old EXCEPT !.count = old.count, !.reply = old.reply]) /\ UNCHANGED lost
        BY <1>4, <2>1 DEF Came
      <3>2. counts[c] # {0} BY <1>3, <2>1
      <3>3. QED BY <1>2, <1>3, <1>4, <1>7, <3>1, <3>2, CountIInv
    <2>2. CASE gpus = 0 /\ End(c, "gpus", "needs gpus") /\ UNCHANGED lost
      BY <1>2, <1>3, <1>4, <1>7, <2>2, EndIInv
    <2>3. CASE WithoutCount(old.tool) # 0 /\ Failed(c, "gpus", old)
      <3>1. Step(c, "gpus", [old EXCEPT !.count = old.count, !.reply = old.reply])
        BY <1>4, <2>3 DEF Failed
      <3>2. lost' = [lost EXCEPT ![c] = gone] BY <2>3 DEF Failed
      <3>3. "gpus" \in gone OBVIOUS
      <3>4. QED BY <1>2, <1>3, <1>4, <1>7, <3>1, <3>2, <3>3, CountIInv
    <2>4. WithoutCount(old.tool) # 0 BY <1>7 DEF WithoutCount
    <2>5. QED BY <1>7, <2>1, <2>2, <2>3, <2>4 DEF ReadGpus
  <1>8. QED BY <1>5, <1>6, <1>7 DEF ReadGpus
-----------------------------------------------------------------------------
\* The hub answers, or not: an estimate is one of accepted arguments.
LEMMA AskHubIInv ==
    ASSUME IInv, NEW c \in Callers, AskHub(c) PROVE IInv'
  <1> DEFINE old == calls[c]
             left == Left(old.todo)
             rest == left \ {"model"}
             Said(reply) == IF old.tool = "pre_flight" THEN "none" ELSE reply
             Told(reply) == [old EXCEPT !.reply = Said(reply)]
  <1>1. ~Idle(c) /\ Head(old.todo) = "model" BY DEF AskHub
  <1>2. /\ old \in Call /\ "model" \in left /\ lost[c] \in SUBSET Reads
        /\ Sound(c, old, left, lost[c])
        /\ \A y \in left : y # "model" => Rank("model") < Rank(y)
    BY <1>1, NextRead
  <1>3. left \cap {"version", "crd", "sdk"} = {}
    <2>1. ASSUME NEW y \in left, y \in {"version", "crd", "sdk"} PROVE FALSE
      <3>1. Rank(y) < Rank("model") /\ y # "model" BY <2>1, ChecksFirst
      <3>2. Rank("model") < Rank(y) BY <1>2, <3>1
      <3>3. QED BY <3>1, <3>2, NotBoth
    <2>2. QED BY <2>1
  <1>4. lost' = [lost EXCEPT ![c] = lost[c]] BY DEF AskHub, Came, IInv, TypeOK
  <1>5. old.model \in Models BY <1>2 DEF Sound, Planned
  <1>6. ASSUME NEW reply \in {"answered", "failed", "refused"},
               NEW estimate \in {old.estimate, Estimate(old.model)},
               estimate # old.estimate => Valid(old.model),
               NEW call, call = [old EXCEPT !.reply = Said(reply), !.estimate = estimate],
               Step(c, "model", call)
        PROVE  IInv'
    <2>1. old.estimate \in [memory : Nat, count : Nat, each : Nat, total : Int]
      BY <1>2 DEF Call
    <2>2. estimate \in [memory : Nat, count : Nat, each : Nat, total : Int]
      BY <1>5, <1>6, <2>1, EstimatesFit
    <2> DEFINE said == Said(reply)
    <2>3. said \in Replies /\ said \in {"none", "answered", "failed", "refused"}
          /\ (said = "none" <=> old.tool = "pre_flight")
      BY <1>6 DEF Replies
    <2> HIDE DEF said
    <2>4. /\ call \in Call /\ call.todo = old.todo /\ call.tool = old.tool
          /\ call.model = old.model /\ call.confirmed = old.confirmed
          /\ call.runtime = old.runtime /\ call.follows = old.follows
          /\ call.blockers = old.blockers /\ call.count = old.count
          /\ call.estimate = estimate /\ call.names = old.names
          /\ call.advice = old.advice /\ call.reply = said
      BY <1>2, <1>6, <2>2, <2>3 DEF Call, said
    <2>5. Fits(call)
      <3>1. Fits(old) BY <1>2 DEF Sound
      <3>2. CASE estimate = old.estimate BY <2>4, <3>1, <3>2 DEF Fits
      <3>3. CASE estimate # old.estimate
        BY <1>5, <1>6, <2>4, <3>3 DEF Fits
      <3>4. QED BY <3>2, <3>3
    <2>6. Planned(call, rest) /\ Watched(c, call, rest)
      BY <1>2, <2>4 DEF Sound, Planned, Watched
    <2>7. Checked(c, call, rest, lost[c]) BY <1>2, <1>3, <2>4 DEF Sound, Checked
    <2>8. Grounded(c, call, rest, lost[c]) BY <1>2, <2>4 DEF Sound, Grounded
    <2>9. Taken(c, call, rest, lost[c]) BY <1>2, <2>3, <2>4 DEF Sound, Taken
    <2>10. Sound(c, call, rest, lost[c]) BY <2>5, <2>6, <2>7, <2>8, <2>9 DEF Sound
    <2>11. QED BY <1>2, <1>4, <1>6, <2>4, <2>10, StepIInv DEF Reads
  <1>7. \A r : Told(r) = [old EXCEPT !.reply = Said(r), !.estimate = old.estimate]
    BY <1>2 DEF Call
  <1>8. \A r, e : [Told(r) EXCEPT !.estimate = e] = [old EXCEPT !.reply = Said(r), !.estimate = e]
    BY <1>2 DEF Call
  <1>9. CASE Valid(old.model) /\ Came(c, "model", [Told("answered") EXCEPT !.estimate = Estimate(old.model)])
    <2>1. Step(c, "model", [old EXCEPT !.reply = Said("answered"), !.estimate = Estimate(old.model)])
      BY <1>8, <1>9 DEF Came
    <2>2. QED BY <1>6, <1>9, <2>1
  <1>10. CASE Valid(old.model) /\ Came(c, "model", Told("failed"))
    <2>1. Step(c, "model", [old EXCEPT !.reply = Said("failed"), !.estimate = old.estimate])
      BY <1>7, <1>10 DEF Came
    <2>2. QED BY <1>6, <2>1
  <1>11. CASE ~Valid(old.model) /\ Came(c, "model", Told("refused"))
    <2>1. Step(c, "model", [old EXCEPT !.reply = Said("refused"), !.estimate = old.estimate])
      BY <1>7, <1>11 DEF Came
    <2>2. QED BY <1>6, <2>1
  <1>12. QED BY <1>9, <1>10, <1>11 DEF AskHub

\* fine_tune refuses a runtime by its name.
LEMMA CheckNameIInv ==
    ASSUME IInv, NEW c \in Callers, CheckName(c) PROVE IInv'
  <1> DEFINE old == calls[c]
             left == Left(old.todo)
             rest == left \ {"name"}
             reply == IF Accepts(old.runtime) THEN "accepted" ELSE "wrong runtime"
             call == [old EXCEPT !.reply = reply]
  <1>1. ~Idle(c) /\ Head(old.todo) = "name" BY DEF CheckName, Came, Step
  <1>2. /\ old \in Call /\ "name" \in left /\ lost[c] \in SUBSET Reads
        /\ Sound(c, old, left, lost[c])
        /\ \A y \in left : y # "name" => Rank("name") < Rank(y)
    BY <1>1, NextRead
  <1>3. "gpus" \notin left
    <2>1. SUFFICES ASSUME "gpus" \in left PROVE FALSE OBVIOUS
    <2>2. Rank("name") < Rank("gpus") BY <1>2, <2>1
    <2>3. Rank("gpus") < Rank("name") BY ChecksFirst
    <2>4. QED BY <2>2, <2>3, NotBoth
  <1>4. Step(c, "name", call) /\ lost' = [lost EXCEPT ![c] = lost[c]]
    BY DEF CheckName, Came, IInv, TypeOK
  <1>5. /\ reply \in Replies /\ reply \in {"accepted", "wrong runtime"}
        /\ reply = "wrong runtime" => old.runtime # "torchtune"
    BY DEF Accepts, Replies
  <1> HIDE DEF reply
  <1>6. /\ call \in Call /\ call.todo = old.todo /\ call.tool = old.tool
        /\ call.model = old.model /\ call.confirmed = old.confirmed
        /\ call.runtime = old.runtime /\ call.follows = old.follows
        /\ call.blockers = old.blockers /\ call.count = old.count
        /\ call.estimate = old.estimate /\ call.names = old.names
        /\ call.advice = old.advice /\ call.reply = reply
    BY <1>2, <1>5 DEF Call
  <1> HIDE DEF call
  <1>7. Planned(call, rest) /\ Watched(c, call, rest) /\ Fits(call)
    BY <1>2, <1>6 DEF Sound, Planned, Watched, Fits
  <1>8. Checked(c, call, rest, lost[c]) BY <1>2, <1>5, <1>6 DEF Sound, Checked
  <1>9. Grounded(c, call, rest, lost[c]) BY <1>2, <1>6 DEF Sound, Grounded
  <1>10. Taken(c, call, rest, lost[c])
    BY <1>2, <1>3, <1>5, <1>6 DEF Sound, Taken, Tuned
  <1>11. Sound(c, call, rest, lost[c]) BY <1>7, <1>8, <1>9, <1>10 DEF Sound
  <1>12. QED BY <1>2, <1>4, <1>6, <1>11, StepIInv DEF Reads
-----------------------------------------------------------------------------
\* What pre_flight advises is grounded in what was read.
LEMMA AdviceFits ==
    ASSUME NEW names \in SUBSET Names, NEW count \in Nat
    PROVE  LET advice == Advice(names, count) IN
           /\ advice \in Advices
           /\ advice = "fine_tune" => names \cap Tuned # {} /\ count # 0
           /\ advice = "custom without gpus" => names \cap Tuned # {} /\ count = 0
           /\ advice = "custom with gpus" => names # {} /\ names \cap Tuned = {} /\ count # 0
           /\ advice = "custom on cpus" => names # {} /\ names \cap Tuned = {} /\ count = 0
           /\ advice = "no runtimes" => names = {}
           /\ advice # "none"
  <1>1. HasTorchtune(names) <=> names \cap Tuned # {} BY DEF HasTorchtune
  <1>2. HasTorchtune(names) => names # {} BY <1>1
  <1>3. count > 0 <=> count # 0 OBVIOUS
  <1>4. CASE HasTorchtune(names) /\ count # 0
    <2>1. Advice(names, count) = "fine_tune" BY <1>3, <1>4 DEF Advice
    <2>2. QED BY <1>1, <1>4, <2>1 DEF Advices
  <1>5. CASE HasTorchtune(names) /\ count = 0
    <2>1. Advice(names, count) = "custom without gpus" BY <1>3, <1>5 DEF Advice
    <2>2. QED BY <1>1, <1>5, <2>1 DEF Advices
  <1>6. CASE ~HasTorchtune(names) /\ names # {} /\ count # 0
    <2>1. Advice(names, count) = "custom with gpus" BY <1>3, <1>6 DEF Advice
    <2>2. QED BY <1>1, <1>6, <2>1 DEF Advices
  <1>7. CASE ~HasTorchtune(names) /\ names # {} /\ count = 0
    <2>1. Advice(names, count) = "custom on cpus" BY <1>3, <1>7 DEF Advice
    <2>2. QED BY <1>1, <1>7, <2>1 DEF Advices
  <1>8. CASE names = {}
    <2>1. Advice(names, count) = "no runtimes" BY <1>2, <1>8 DEF Advice
    <2>2. QED BY <1>8, <2>1 DEF Advices
  <1>9. QED BY <1>2, <1>4, <1>5, <1>6, <1>7, <1>8

LEMMA ReadRuntimesIInv ==
    ASSUME IInv, NEW c \in Callers, ReadRuntimes(c) PROVE IInv'
  <1> DEFINE old == calls[c]
             left == Left(old.todo)
             rest == left \ {"runtimes"}
  <1>1. ~Idle(c) /\ Head(old.todo) = "runtimes" BY DEF ReadRuntimes, Came, Failed, Step
  <1>2. /\ old \in Call /\ "runtimes" \in left /\ lost[c] \in SUBSET Reads
        /\ Sound(c, old, left, lost[c])
        /\ \A y \in left : y # "runtimes" => Rank("runtimes") < Rank(y)
    BY <1>1, NextRead
  <1>3. left \cap {"version", "crd", "sdk", "gpus"} = {}
    <2>1. ASSUME NEW y \in left, y \in {"version", "crd", "sdk", "gpus"} PROVE FALSE
      <3>1. Rank(y) < Rank("runtimes") /\ y # "runtimes" BY <2>1, ChecksFirst
      <3>2. Rank("runtimes") < Rank(y) BY <1>2, <3>1
      <3>3. QED BY <3>1, <3>2, NotBoth
    <2>2. QED BY <2>1
  <1>4. /\ UNCHANGED lost => lost' = [lost EXCEPT ![c] = lost[c]]
        /\ runtimes \in SUBSET Names /\ old.count \in Nat /\ old.advice \in Advices
        /\ old.names \in SUBSET Names
    BY <1>2 DEF IInv, TypeOK, Call
  <1>5. /\ runtimes \subseteq ever[c] /\ steady[c] \subseteq runtimes
        /\ counts[c] = {} \/ gpus \in counts[c]
    BY <1>2 DEF Sound, Watched
  <1>6. ASSUME NEW names \in SUBSET Names, NEW advice \in Advices,
               NEW reply \in {"answered", "failed"},
               NEW gone \in SUBSET Reads, lost[c] \subseteq gone, lost' = [lost EXCEPT ![c] = gone],
               NEW call, call = [old EXCEPT !.names = names, !.reply = reply, !.advice = advice],
               Step(c, "runtimes", call),
               old.tool = "pre_flight" => names = runtimes \/ (names = {} /\ "runtimes" \in gone),
               \/ old.tool = "pre_flight" /\ advice = Advice(names, old.count)
               \/ old.tool = "list_runtimes" /\ advice = old.advice
        PROVE  IInv'
    <2>1. reply \in Replies BY <1>6 DEF Replies
    <2>2. /\ call \in Call /\ call.todo = old.todo /\ call.tool = old.tool
          /\ call.model = old.model /\ call.confirmed = old.confirmed
          /\ call.runtime = old.runtime /\ call.follows = old.follows
          /\ call.blockers = old.blockers /\ call.count = old.count
          /\ call.estimate = old.estimate /\ call.names = names
          /\ call.advice = advice /\ call.reply = reply
      BY <1>2, <1>6, <2>1 DEF Call
    <2>3. Fits(call) BY <1>2, <2>2 DEF Sound, Fits
    <2>4. Checked(c, call, rest, gone) BY <1>2, <1>3, <1>6, <2>2 DEF Sound, Checked
    <2>5. Taken(c, call, rest, gone) BY <1>2, <1>6, <2>2 DEF Sound, Taken
    <2>6. CASE old.tool = "list_runtimes"
      <3>1. advice = old.advice /\ advice = "none"
        BY <1>2, <1>6, <2>6 DEF Sound, Planned
      <3>2. Planned(call, rest) /\ Watched(c, call, rest)
        BY <1>2, <2>2, <3>1 DEF Sound, Planned, Watched
      <3>3. Grounded(c, call, rest, gone) BY <2>2, <2>6 DEF Grounded
      <3>4. QED BY <1>6, <2>2, <2>3, <2>4, <2>5, <3>2, <3>3, StepIInv DEF Sound, Reads
    <2>7. CASE old.tool = "pre_flight"
      <3>1. advice = Advice(names, old.count) BY <1>6, <2>7
      <3>2. /\ advice = "fine_tune" => names \cap Tuned # {} /\ old.count # 0
            /\ advice = "custom without gpus" => names \cap Tuned # {} /\ old.count = 0
            /\ advice = "custom with gpus" => names # {} /\ names \cap Tuned = {} /\ old.count # 0
            /\ advice = "custom on cpus" => names # {} /\ names \cap Tuned = {} /\ old.count = 0
            /\ advice = "no runtimes" => names = {}
        BY <1>4, <3>1, AdviceFits
      <3>3. /\ old.count # 0 => old.count \in counts[c]
            /\ old.count = 0 => 0 \in counts[c] \/ "gpus" \in gone
        BY <1>2, <1>3, <1>6, <2>7 DEF Sound, Grounded
      <3>4. /\ names # {} => names \subseteq ever[c] /\ steady[c] \subseteq names
            /\ names = {} => steady[c] = {} \/ "runtimes" \in gone
        BY <1>5, <1>6, <2>7
      <3>5. Planned(call, rest) BY <1>2, <2>2, <2>7 DEF Sound, Planned
      <3>6. Watched(c, call, rest)
        BY <1>2, <1>5, <2>2, <3>2, <3>3 DEF Sound, Watched
      <3>7. Grounded(c, call, rest, gone)
        <4>1. "runtimes" \notin rest OBVIOUS
        <4>2. QED BY <2>2, <2>7, <3>2, <3>3, <3>4, <4>1 DEF Grounded
      <3>8. QED BY <1>6, <2>2, <2>3, <2>4, <2>5, <3>5, <3>6, <3>7, StepIInv DEF Sound, Reads
    <2>8. QED BY <1>6, <2>6, <2>7
  <1>7. lost[c] \cup {"runtimes"} \in SUBSET Reads BY <1>2 DEF Reads
  <1>8. CASE old.tool = "pre_flight"
    <2>1. CASE Came(c, "runtimes", [old EXCEPT !.names = runtimes, !.reply = "answered",
                                               !.advice = Advice(runtimes, old.count)])
      <3>1. Advice(runtimes, old.count) \in Advices BY <1>4, AdviceFits
      <3>2. QED BY <1>2, <1>4, <1>6, <1>8, <2>1, <3>1 DEF Came
    <2>2. CASE Failed(c, "runtimes", [old EXCEPT !.names = {}, !.reply = "answered",
                                                 !.advice = Advice({}, old.count)])
      <3>1. Advice({}, old.count) \in Advices BY <1>4, AdviceFits
      <3>2. QED BY <1>2, <1>6, <1>7, <1>8, <2>2, <3>1 DEF Failed
    <2>3. QED BY <1>8, <2>1, <2>2 DEF ReadRuntimes
  <1>9. CASE old.tool = "list_runtimes"
    <2>1. CASE Came(c, "runtimes", [old EXCEPT !.names = runtimes, !.reply = "answered"])
      <3>1. [old EXCEPT !.names = runtimes, !.reply = "answered"]
              = [old EXCEPT !.names = runtimes, !.reply = "answered", !.advice = old.advice]
        BY <1>2 DEF Call
      <3>2. QED BY <1>2, <1>4, <1>6, <1>9, <2>1, <3>1 DEF Came
    <2>2. CASE Failed(c, "runtimes", [old EXCEPT !.reply = "failed"])
      <3>1. [old EXCEPT !.reply = "failed"]
              = [old EXCEPT !.names = old.names, !.reply = "failed", !.advice = old.advice]
        BY <1>2 DEF Call
      <3>2. QED BY <1>2, <1>4, <1>6, <1>7, <1>9, <2>2, <3>1 DEF Failed
    <2>3. QED BY <1>9, <2>1, <2>2 DEF ReadRuntimes
  <1>10. QED BY <1>8, <1>9 DEF ReadRuntimes
-----------------------------------------------------------------------------
LEMMA NoChangesYet == 0 \in 0..MaxChanges
  BY MaxChangesAssumption

LEMMA MetAreConditions == Met \in SUBSET Conditions /\ (Conditions \ Met) \in SUBSET Conditions
  BY DEF Met

\* Nothing has been found or advised.
Fresh(call) ==
    call.blockers = {} /\ call.count = 0 /\ call.estimate = NoEstimate /\ call.advice = "none"

\* A new call has found and advised nothing, and its observers begin with the
\* cluster as it is.
LEMMA StartIInv ==
    ASSUME IInv, NEW c \in Callers, NEW call \in Call, Start(c, call), Ordered(call.todo),
           Fresh(call), ~call.follows, call.reply \in {"none", "refused"},
           "model" \in Left(call.todo) => call.model \in Models,
           "crd" \in Left(call.todo) => "version" \in Left(call.todo),
           call.tool \in Checkers => {"version", "crd", "sdk"} \subseteq Left(call.todo),
           call.tool = "pre_flight" => "gpus" \in Left(call.todo),
           call.tool = "fine_tune" => call.confirmed \/ "gpus" \in Left(call.todo)
    PROVE  IInv'
  <1> DEFINE left == Left(call.todo)
             checks == Looks(call, {"version"})
             lists == Looks(call, {"runtimes"})
             counting == Looks(call, {"gpus", "name"})
  <1>1. /\ calls' = [calls EXCEPT ![c] = call] /\ lost' = [lost EXCEPT ![c] = {}]
        /\ held' = [held EXCEPT ![c] = IF checks THEN Met ELSE {}]
        /\ failed' = [failed EXCEPT ![c] = IF checks THEN Conditions \ Met ELSE {}]
        /\ counts' = [counts EXCEPT ![c] = IF counting THEN {gpus} ELSE {}]
        /\ ever' = [ever EXCEPT ![c] = IF lists THEN runtimes ELSE {}]
        /\ steady' = [steady EXCEPT ![c] = IF lists THEN runtimes ELSE {}]
        /\ changes' = 0 /\ UNCHANGED cluster
    BY DEF Start
  <1>2. /\ checks <=> "version" \in left
        /\ lists <=> "runtimes" \in left
        /\ counting <=> left \cap {"gpus", "name"} # {}
    BY LooksAtLeft
  <1> HIDE DEF checks, lists, counting
  <1>3. TypeOK'
    <2>1. calls' \in [Callers -> Call] /\ lost' \in [Callers -> SUBSET Reads]
      BY <1>1 DEF IInv, TypeOK
    <2>2. held' \in [Callers -> SUBSET Conditions] /\ failed' \in [Callers -> SUBSET Conditions]
      BY <1>1, MetAreConditions DEF IInv, TypeOK
    <2>3. /\ counts' \in [Callers -> SUBSET (0..MaxGpus)]
          /\ ever' \in [Callers -> SUBSET Names] /\ steady' \in [Callers -> SUBSET Names]
      BY <1>1 DEF IInv, TypeOK
    <2>4. QED BY <1>1, <2>1, <2>2, <2>3, NoChangesYet DEF IInv, TypeOK, cluster
  <1>4. /\ calls'[c] = call /\ lost'[c] = {}
        /\ "version" \in left => held'[c] = Met /\ failed'[c] = Conditions \ Met
        /\ left \cap {"gpus", "name"} # {} => counts'[c] = {gpus}
        /\ left \cap {"gpus", "name"} = {} => counts'[c] = {}
        /\ "runtimes" \in left => ever'[c] = runtimes /\ steady'[c] = runtimes
    BY <1>1, <1>2 DEF IInv, TypeOK
  <1>5. \A d \in Callers \ {c} :
          /\ calls'[d] = calls[d] /\ lost'[d] = lost[d] /\ held'[d] = held[d]
          /\ failed'[d] = failed[d] /\ counts'[d] = counts[d]
          /\ ever'[d] = ever[d] /\ steady'[d] = steady[d]
    BY <1>1 DEF IInv, TypeOK
  <1>6. ASSUME NEW d \in Callers \ {c}
        PROVE  (Ordered(calls[d].todo) /\ Sound(d, calls[d], Left(calls[d].todo), lost[d]))'
    BY <1>1, <1>5, <1>6, OthersStaySound
  <1>7. Met' = Met /\ gpus' = gpus /\ runtimes' = runtimes /\ sdk' = sdk
    BY <1>1 DEF cluster, Met, NewEnough
  <1>8. Ordered(calls[c].todo)' /\ Left(calls[c].todo)' = left
    BY <1>4 DEF Ordered, Left
  <1> HIDE DEF left
  <1>9. /\ left \cap {"version", "crd"} # {} => "version" \in left
        /\ call.tool \in Checkers => {"version", "crd", "sdk"} \subseteq left
        /\ call.tool = "pre_flight" => "gpus" \in left
        /\ call.tool = "fine_tune" => call.confirmed \/ "gpus" \in left
        /\ "model" \in left => call.model \in Models
    BY DEF left
  <1>10. Planned(calls[c], Left(calls[c].todo))' /\ Fits(calls[c])'
    BY <1>4, <1>8, <1>9 DEF Planned, Fits, Fresh
  <1>11. Watched(c, calls[c], Left(calls[c].todo))'
    BY <1>4, <1>7, <1>8, <1>9 DEF Watched, Fresh
  <1>12. Checked(c, calls[c], Left(calls[c].todo), lost[c])'
    BY <1>4, <1>8, <1>9 DEF Checked, Fresh
  <1>13. Grounded(c, calls[c], Left(calls[c].todo), lost[c])'
    BY <1>4, <1>8, <1>9 DEF Grounded, Fresh
  <1>14. Taken(c, calls[c], Left(calls[c].todo), lost[c])'
    BY <1>4, <1>8, <1>9 DEF Taken, Fresh
  <1>15. QED BY <1>3, <1>6, <1>8, <1>10, <1>11, <1>12, <1>13, <1>14 DEF IInv, Sound

\* The reads that the tools plan.
LEMMA CheckPlan ==
    LET todo == <<"version", "crd", "sdk", "platform">> IN
    /\ todo \in Seq(Reads) /\ Ordered(todo)
    /\ Left(todo) = {"version", "crd", "sdk", "platform"}
  <1> DEFINE todo == <<"version", "crd", "sdk", "platform">>
  <1>1. todo \in Seq(Reads) BY DEF Reads
  <1>2. DOMAIN todo = 1..4 /\ todo[1] = "version" /\ todo[2] = "crd" /\ todo[3] = "sdk" /\ todo[4] = "platform"
    OBVIOUS
  <1>3. Rank("version") = 1 /\ Rank("crd") = 2 /\ Rank("sdk") = 3 /\ Rank("platform") = 4 BY DEF Rank
  <1> HIDE DEF todo
  <1>4. Ordered(todo)
    <2>1. \A i \in DOMAIN todo : Rank(todo[i]) = i BY <1>2, <1>3
    <2>2. QED BY <2>1 DEF Ordered
  <1>5. Left(todo) = {"version", "crd", "sdk", "platform"} BY <1>2 DEF Left
  <1>6. QED BY <1>1, <1>4, <1>5 DEF todo

LEMMA OneRead ==
    ASSUME NEW x \in Reads
    PROVE  <<x>> \in Seq(Reads) /\ Ordered(<<x>>) /\ Left(<<x>>) = {x}
  <1>1. <<x>> \in Seq(Reads) /\ DOMAIN <<x>> = {1} /\ <<x>>[1] = x OBVIOUS
  <1>2. QED BY <1>1 DEF Ordered, Left

LEMMA TunePlan ==
    LET todo == <<"gpus", "name">> IN
    todo \in Seq(Reads) /\ Ordered(todo) /\ Left(todo) = {"gpus", "name"}
  <1> DEFINE todo == <<"gpus", "name">>
  <1>1. todo \in Seq(Reads) BY DEF Reads
  <1>2. DOMAIN todo = 1..2 /\ todo[1] = "gpus" /\ todo[2] = "name" OBVIOUS
  <1> HIDE DEF todo
  <1>3. Ordered(todo)
    <2>1. ASSUME NEW i \in DOMAIN todo, NEW j \in DOMAIN todo, i < j
          PROVE  Rank(todo[i]) < Rank(todo[j])
      <3>1. i = 1 /\ j = 2 BY <1>2, <2>1
      <3>2. QED BY <1>2, <3>1, ChecksFirst
    <2>2. QED BY <2>1 DEF Ordered
  <1>4. Left(todo) = {"gpus", "name"} BY <1>2 DEF Left
  <1>5. QED BY <1>1, <1>3, <1>4 DEF todo

\* A read is put after others.
LEMMA ReadAfter ==
    ASSUME NEW s \in Seq(Reads), NEW t \in Seq(Reads), NEW x \in Reads,
           DOMAIN t = 1..(Len(s) + 1), \A i \in DOMAIN s : t[i] = s[i], t[Len(s) + 1] = x
    PROVE  s \o <<x>> = t
  <1> DEFINE u == s \o <<x>>
  <1>1. Len(s) \in Nat /\ DOMAIN s = 1..Len(s) OBVIOUS
  <1>2. u \in Seq(Reads) /\ u = Append(s, x) OBVIOUS
  <1>3. DOMAIN u = 1..(Len(s) + 1) /\ u[Len(s) + 1] = x BY <1>2
  <1>4. \A i \in DOMAIN s : u[i] = s[i] BY <1>1, <1>2
  <1> HIDE DEF u
  <1>5. \A i \in DOMAIN u : u[i] = t[i] BY <1>1, <1>3, <1>4
  <1>6. u = t BY <1>2, <1>3, <1>5
  <1>7. QED BY <1>6 DEF u

LEMMA FlightPlan ==
    ASSUME NEW m
    PROVE  LET todo == <<"version", "crd", "sdk", "platform", "gpus">>
                         \o (IF m = NoModel THEN << >> ELSE <<"model">>) \o <<"runtimes">>
           IN  /\ todo \in Seq(Reads) /\ Ordered(todo)
               /\ {"version", "crd", "sdk", "gpus"} \subseteq Left(todo)
               /\ "model" \in Left(todo) => m # NoModel
  <1> DEFINE todo == <<"version", "crd", "sdk", "platform", "gpus">>
                       \o (IF m = NoModel THEN << >> ELSE <<"model">>) \o <<"runtimes">>
  <1>1. /\ Rank("version") = 1 /\ Rank("crd") = 2 /\ Rank("sdk") = 3 /\ Rank("platform") = 4
        /\ Rank("gpus") = 5 /\ Rank("model") = 6 /\ Rank("runtimes") = 7
    BY DEF Rank
  <1> DEFINE checks == <<"version", "crd", "sdk", "platform", "gpus">>
  <1>2. /\ checks \in Seq(Reads) /\ Len(checks) = 5 /\ DOMAIN checks = 1..5
        /\ checks[1] = "version" /\ checks[2] = "crd" /\ checks[3] = "sdk"
        /\ checks[4] = "platform" /\ checks[5] = "gpus"
    BY DEF Reads
  <1> HIDE DEF checks
  <1>3. CASE m = NoModel
    <2> DEFINE plan == <<"version", "crd", "sdk", "platform", "gpus", "runtimes">>
    <2>1. plan \in Seq(Reads) BY DEF Reads
    <2>2. /\ DOMAIN plan = 1..6 /\ plan[1] = "version" /\ plan[2] = "crd" /\ plan[3] = "sdk"
          /\ plan[4] = "platform" /\ plan[5] = "gpus" /\ plan[6] = "runtimes"
      OBVIOUS
    <2> HIDE DEF plan
    <2>3. todo = plan
      <3>1. todo = (checks \o << >>) \o <<"runtimes">> BY <1>3 DEF checks
      <3>2. checks \o << >> = checks BY <1>2
      <3>3. \A i \in DOMAIN checks : plan[i] = checks[i] BY <1>2, <2>2
      <3>4. "runtimes" \in Reads /\ DOMAIN plan = 1..(Len(checks) + 1)
            /\ plan[Len(checks) + 1] = "runtimes"
        BY <1>2, <2>2 DEF Reads
      <3>5. checks \o <<"runtimes">> = plan BY <1>2, <2>1, <3>3, <3>4, ReadAfter
      <3>6. QED BY <3>1, <3>2, <3>5
    <2>4. Ordered(plan)
      <3>1. \A i \in DOMAIN plan : Rank(plan[i]) = IF i = 6 THEN 7 ELSE i BY <1>1, <2>2
      <3>2. QED BY <2>2, <3>1 DEF Ordered
    <2>5. Left(plan) = {"version", "crd", "sdk", "platform", "gpus", "runtimes"} BY <2>2 DEF Left
    <2>6. QED BY <2>1, <2>3, <2>4, <2>5
  <1>4. CASE m # NoModel
    <2> DEFINE plan == <<"version", "crd", "sdk", "platform", "gpus", "model", "runtimes">>
               more == <<"version", "crd", "sdk", "platform", "gpus", "model">>
    <2>1. plan \in Seq(Reads) /\ more \in Seq(Reads) BY DEF Reads
    <2>2. /\ DOMAIN plan = 1..7 /\ plan[1] = "version" /\ plan[2] = "crd" /\ plan[3] = "sdk"
          /\ plan[4] = "platform" /\ plan[5] = "gpus" /\ plan[6] = "model" /\ plan[7] = "runtimes"
      OBVIOUS
    <2>3. /\ Len(more) = 6 /\ DOMAIN more = 1..6 /\ more[1] = "version" /\ more[2] = "crd"
          /\ more[3] = "sdk" /\ more[4] = "platform" /\ more[5] = "gpus" /\ more[6] = "model"
      OBVIOUS
    <2> HIDE DEF plan, more
    <2>4. todo = plan
      <3>1. todo = (checks \o <<"model">>) \o <<"runtimes">> BY <1>4 DEF checks
      <3>2. /\ \A i \in DOMAIN checks : more[i] = checks[i]
            /\ \A i \in DOMAIN more : plan[i] = more[i]
        BY <1>2, <2>2, <2>3
      <3>3. /\ "model" \in Reads /\ DOMAIN more = 1..(Len(checks) + 1)
            /\ more[Len(checks) + 1] = "model"
            /\ "runtimes" \in Reads /\ DOMAIN plan = 1..(Len(more) + 1)
            /\ plan[Len(more) + 1] = "runtimes"
        BY <1>2, <2>2, <2>3 DEF Reads
      <3>4. checks \o <<"model">> = more BY <1>2, <2>1, <3>2, <3>3, ReadAfter
      <3>5. more \o <<"runtimes">> = plan BY <2>1, <3>2, <3>3, ReadAfter
      <3>6. QED BY <3>1, <3>4, <3>5
    <2>5. Ordered(plan)
      <3>1. \A i \in DOMAIN plan : Rank(plan[i]) = i BY <1>1, <2>2
      <3>2. QED BY <2>2, <3>1 DEF Ordered
    <2>6. {"version", "crd", "sdk", "gpus"} \subseteq Left(plan) BY <2>2 DEF Left
    <2>7. QED BY <1>4, <2>1, <2>4, <2>5, <2>6
  <1>5. QED BY <1>3, <1>4
-----------------------------------------------------------------------------
\* A new call is a call.
LEMMA NewCallIsCall ==
    ASSUME NEW tool \in {"check_compatibility", "get_cluster_resources", "estimate_resources",
                         "list_runtimes", "pre_flight", "fine_tune"},
           NEW todo \in Seq(Reads), NEW model \in Models \cup {NoModel}
    PROVE  LET call == NewCall(tool, todo, model) IN
           /\ call \in Call /\ call.tool = tool /\ call.todo = todo /\ call.model = model
           /\ Fresh(call) /\ ~call.follows /\ call.reply = "none"
  <1>1. NoEstimate \in [memory : Nat, count : Nat, each : Nat, total : Int] BY DEF NoEstimate
  <1>2. /\ "torchtune" \in Names /\ {} \in SUBSET Blockers /\ {} \in SUBSET Names
        /\ "none" \in Advices /\ "none" \in Replies /\ 0 \in Nat
    BY DEF Names, Advices, Replies
  <1>3. QED BY <1>1, <1>2 DEF NewCall, Call, Fresh

LEMMA CheckCompatibilityIInv ==
    ASSUME IInv, NEW c \in Callers, CheckCompatibility(c) PROVE IInv'
  <1> DEFINE todo == <<"version", "crd", "sdk", "platform">>
             call == NewCall("check_compatibility", todo, NoModel)
  <1>1. todo \in Seq(Reads) /\ Ordered(todo) /\ Left(todo) = {"version", "crd", "sdk", "platform"}
    BY CheckPlan
  <1>2. Start(c, call) BY DEF CheckCompatibility
  <1> HIDE DEF todo
  <1>3. /\ call \in Call /\ call.tool = "check_compatibility" /\ call.todo = todo
        /\ Fresh(call) /\ ~call.follows /\ call.reply = "none"
    BY <1>1, NewCallIsCall
  <1> HIDE DEF call
  <1>4. QED BY <1>1, <1>2, <1>3, StartIInv

\* The tools that make a single read, other than a check, or none.
LEMMA SingleIInv ==
    ASSUME IInv, NEW c \in Callers, NEW call \in Call, Start(c, call),
           call.todo = << >> \/ \E x \in {"gpus", "model", "runtimes"} : call.todo = <<x>>,
           call.tool \in {"get_cluster_resources", "estimate_resources", "list_runtimes"},
           Fresh(call), ~call.follows, call.reply \in {"none", "refused"},
           call.todo = <<"model">> => call.model \in Models
    PROVE  IInv'
  <1>1. CASE call.todo = << >> BY <1>1, NothingLeft, StartIInv DEF Checkers
  <1>2. CASE \E x \in {"gpus", "model", "runtimes"} : call.todo = <<x>>
    <2>1. PICK x \in {"gpus", "model", "runtimes"} : call.todo = <<x>> BY <1>2
    <2>2. Ordered(call.todo) /\ Left(call.todo) = {x} BY <2>1, OneRead DEF Reads
    <2>3. "model" \in Left(call.todo) => call.model \in Models BY <2>1, <2>2
    <2>4. "crd" \notin Left(call.todo) /\ call.tool \notin Checkers BY <2>2 DEF Checkers
    <2>5. call.tool # "pre_flight" /\ call.tool # "fine_tune" OBVIOUS
    <2>6. QED BY <2>2, <2>3, <2>4, <2>5, StartIInv
  <1>3. QED BY <1>1, <1>2

LEMMA GetClusterResourcesIInv ==
    ASSUME IInv, NEW c \in Callers, GetClusterResources(c) PROVE IInv'
  <1> DEFINE todo == <<"gpus">>
             call == NewCall("get_cluster_resources", todo, NoModel)
  <1>1. "gpus" \in Reads BY DEF Reads
  <1>2. todo \in Seq(Reads) BY <1>1
  <1>3. todo # <<"model">> /\ todo = <<"gpus">> OBVIOUS
  <1>4. Start(c, call) BY DEF GetClusterResources
  <1> HIDE DEF todo
  <1>5. /\ call \in Call /\ call.tool = "get_cluster_resources" /\ call.todo = todo
        /\ Fresh(call) /\ ~call.follows /\ call.reply = "none"
    BY <1>2, NewCallIsCall
  <1> HIDE DEF call
  <1>6. QED BY <1>3, <1>4, <1>5, SingleIInv

LEMMA ListRuntimesIInv ==
    ASSUME IInv, NEW c \in Callers, ListRuntimes(c) PROVE IInv'
  <1> DEFINE todo == <<"runtimes">>
             call == NewCall("list_runtimes", todo, NoModel)
  <1>1. "runtimes" \in Reads BY DEF Reads
  <1>2. todo \in Seq(Reads) BY <1>1
  <1>3. todo # <<"model">> /\ todo = <<"runtimes">> OBVIOUS
  <1>4. Start(c, call) BY DEF ListRuntimes
  <1> HIDE DEF todo
  <1>5. /\ call \in Call /\ call.tool = "list_runtimes" /\ call.todo = todo
        /\ Fresh(call) /\ ~call.follows /\ call.reply = "none"
    BY <1>2, NewCallIsCall
  <1> HIDE DEF call
  <1>6. QED BY <1>3, <1>4, <1>5, SingleIInv

LEMMA EstimateResourcesIInv ==
    ASSUME IInv, NEW c \in Callers, NEW m \in Models, EstimateResources(c, m) PROVE IInv'
  <1> DEFINE todo == <<"model">>
             call == NewCall("estimate_resources", todo, m)
             refused == [call EXCEPT !.todo = << >>, !.reply = "refused"]
  <1>1. "model" \in Reads /\ "refused" \in Replies BY DEF Reads, Replies
  <1>2. todo \in Seq(Reads) /\ << >> \in Seq(Reads) BY <1>1, NothingLeft
  <1>3. todo = <<"model">> OBVIOUS
  <1>4. Start(c, call) \/ Start(c, refused) BY DEF EstimateResources
  <1> HIDE DEF todo
  <1>5. /\ call \in Call /\ call.tool = "estimate_resources" /\ call.todo = todo
        /\ Fresh(call) /\ ~call.follows /\ call.reply = "none"
        /\ call.model = m
    BY <1>2, NewCallIsCall
  <1> HIDE DEF call
  <1>6. /\ refused \in Call /\ refused.tool = "estimate_resources" /\ refused.todo = << >>
        /\ Fresh(refused) /\ ~refused.follows /\ refused.reply = "refused"
        /\ refused.model = m
    BY <1>1, <1>2, <1>5 DEF Call, Fresh
  <1> HIDE DEF refused
  <1>7. CASE Start(c, call) BY <1>3, <1>5, <1>7, SingleIInv
  <1>8. CASE Start(c, refused) BY <1>6, <1>8, SingleIInv
  <1>9. QED BY <1>4, <1>7, <1>8

LEMMA PreFlightIInv ==
    ASSUME IInv, NEW c \in Callers, NEW m \in Models \cup {NoModel}, PreFlight(c, m) PROVE IInv'
  <1> DEFINE todo == <<"version", "crd", "sdk", "platform", "gpus">>
                       \o (IF m = NoModel THEN << >> ELSE <<"model">>) \o <<"runtimes">>
             call == NewCall("pre_flight", todo, m)
  <1>1. /\ todo \in Seq(Reads) /\ Ordered(todo)
        /\ {"version", "crd", "sdk", "gpus"} \subseteq Left(todo)
        /\ "model" \in Left(todo) => m # NoModel
    BY FlightPlan
  <1>2. Start(c, call) BY DEF PreFlight
  <1> HIDE DEF todo
  <1>3. /\ call \in Call /\ call.tool = "pre_flight" /\ call.todo = todo /\ call.model = m
        /\ Fresh(call) /\ ~call.follows /\ call.reply = "none"
    BY <1>1, NewCallIsCall
  <1> HIDE DEF call
  <1>4. QED BY <1>1, <1>2, <1>3, StartIInv

\* fine_tune as the agent likes, and as it was advised.
Own(r, confirmed) == FineTuning(r, confirmed, FALSE)
Advised(r, confirmed) == FineTuning(r, confirmed, TRUE)

LEMMA FineTuningIsCall ==
    ASSUME NEW r \in Names, NEW confirmed \in BOOLEAN, NEW call,
           call = Own(r, confirmed) \/ call = Advised(r, confirmed)
    PROVE  /\ call \in Call /\ call.tool = "fine_tune" /\ call.runtime = r
           /\ (call.confirmed <=> confirmed)
           /\ call = Own(r, confirmed) => ~call.follows
           /\ call = Advised(r, confirmed) => call.follows
           /\ Fresh(call) /\ call.reply = "none"
           /\ Ordered(call.todo) /\ Left(call.todo) \subseteq {"gpus", "name"}
           /\ "name" \in Left(call.todo) /\ ("gpus" \in Left(call.todo) <=> ~confirmed)
  <1> DEFINE todo == IF confirmed THEN <<"name">> ELSE <<"gpus", "name">>
             new == NewCall("fine_tune", todo, NoModel)
             own == [new EXCEPT !.runtime = r, !.confirmed = confirmed, !.follows = FALSE]
             advised == [new EXCEPT !.runtime = r, !.confirmed = confirmed, !.follows = TRUE]
  <1>1. /\ todo \in Seq(Reads) /\ Ordered(todo) /\ Left(todo) \subseteq {"gpus", "name"}
        /\ "name" \in Left(todo) /\ ("gpus" \in Left(todo) <=> ~confirmed)
    BY TunePlan, OneRead DEF Reads
  <1> HIDE DEF todo
  <1>2. /\ new \in Call /\ new.tool = "fine_tune" /\ new.todo = todo
        /\ Fresh(new) /\ new.reply = "none"
    BY <1>1, NewCallIsCall
  <1> HIDE DEF new
  <1>3. /\ own \in Call /\ own.tool = "fine_tune" /\ own.todo = todo /\ Fresh(own)
        /\ own.reply = "none" /\ own.runtime = r /\ (own.confirmed <=> confirmed) /\ ~own.follows
    BY <1>2 DEF Call, Fresh
  <1>4. /\ advised \in Call /\ advised.tool = "fine_tune" /\ advised.todo = todo /\ Fresh(advised)
        /\ advised.reply = "none" /\ advised.runtime = r /\ (advised.confirmed <=> confirmed)
        /\ advised.follows
    BY <1>2 DEF Call, Fresh
  <1>5. Own(r, confirmed) = own /\ Advised(r, confirmed) = advised
    BY DEF Own, Advised, FineTuning, new, todo
  <1> HIDE DEF own, advised
  <1>6. CASE call = own BY <1>1, <1>3, <1>4, <1>5, <1>6
  <1>7. CASE call = advised BY <1>1, <1>3, <1>4, <1>5, <1>7
  <1>8. QED BY <1>5, <1>6, <1>7

LEMMA FineTuneIInv ==
    ASSUME IInv, NEW c \in Callers, NEW r \in Names, NEW confirmed \in BOOLEAN,
           FineTune(c, r, confirmed)
    PROVE  IInv'
  <1> DEFINE call == Own(r, confirmed)
  <1>1. /\ call \in Call /\ call.tool = "fine_tune" /\ (call.confirmed <=> confirmed)
        /\ Fresh(call) /\ call.reply = "none"
        /\ Ordered(call.todo) /\ Left(call.todo) \subseteq {"gpus", "name"}
        /\ ("gpus" \in Left(call.todo) <=> ~confirmed)
    BY FineTuningIsCall
  <1>2. ~call.follows BY FineTuningIsCall
  <1>3. Start(c, call) BY DEF FineTune, Own
  <1> HIDE DEF call
  <1>4. "model" \notin Left(call.todo) /\ "crd" \notin Left(call.todo) BY <1>1
  <1>5. call.tool \notin Checkers /\ call.tool # "pre_flight" BY <1>1 DEF Checkers
  <1>6. call.confirmed \/ "gpus" \in Left(call.todo) BY <1>1
  <1>7. QED BY <1>1, <1>2, <1>3, <1>4, <1>5, <1>6, StartIInv

LEMMA FollowAdviceIInv ==
    ASSUME IInv, NEW c \in Callers, NEW r \in Names, NEW confirmed \in BOOLEAN,
           FollowAdvice(c, r, confirmed)
    PROVE  IInv'
  <1> DEFINE call == Advised(r, confirmed)
             left == Left(call.todo)
  <1>1. /\ call \in Call /\ call.tool = "fine_tune" /\ (call.confirmed <=> confirmed)
        /\ call.follows /\ Fresh(call) /\ call.runtime = r /\ call.reply = "none"
        /\ Ordered(call.todo) /\ Left(call.todo) \subseteq {"gpus", "name"}
        /\ ("gpus" \in Left(call.todo) <=> ~confirmed)
    BY FineTuningIsCall
  <1>2. /\ calls' = [calls EXCEPT ![c] = call] /\ lost' = [lost EXCEPT ![c] = {}]
        /\ UNCHANGED cluster /\ UNCHANGED <<changes, held, failed, counts, ever, steady>>
        /\ calls[c].advice = "fine_tune" /\ r \in Tuned
    BY DEF FollowAdvice, HasTorchtune, Advised
  <1> HIDE DEF call
  <1>3. Watched(c, calls[c], Left(calls[c].todo)) BY DEF IInv, Sound
  <1>4. Planned(call, left) /\ Fits(call) BY <1>1 DEF Planned, Fits, Fresh
  <1>5. Watched(c, call, left) BY <1>1, <1>2, <1>3 DEF Watched, Fresh
  <1>6. Checked(c, call, left, {}) BY <1>1 DEF Checked, Checkers, Fresh
  <1>7. Grounded(c, call, left, {}) BY <1>1 DEF Grounded, Fresh
  <1>8. Taken(c, call, left, {}) BY <1>1, <1>2 DEF Taken
  <1>9. Sound(c, call, left, {}) BY <1>4, <1>5, <1>6, <1>7, <1>8 DEF Sound
  <1>10. QED BY <1>1, <1>2, <1>9, SetIInv
-----------------------------------------------------------------------------
\* The cluster changes: what was observed stays so, and calls under way observe more.
LEMMA ObservedIInv ==
    ASSUME IInv, Observed, sdk' = sdk, version' \in Versions \cup {Odd},
           crd' \in {"absent", "unserved", "served"}, gpus' \in 0..MaxGpus, runtimes' \subseteq Names
    PROVE  IInv'
  <1>1. calls' = calls /\ lost' = lost /\ changes' \in 0..MaxChanges
    <2>1. changes < MaxChanges /\ changes' = changes + 1 /\ UNCHANGED <<calls, lost>>
      BY DEF Observed
    <2>2. changes \in 0..MaxChanges BY DEF IInv, TypeOK
    <2>3. QED BY <2>1, <2>2, MaxChangesAssumption
  <1>2. Met' \in SUBSET Conditions /\ (Conditions \ Met') \in SUBSET Conditions
    BY DEF Met
  <1>3. TypeOK'
    <2>1. held' \in [Callers -> SUBSET Conditions] /\ failed' \in [Callers -> SUBSET Conditions]
      BY <1>2 DEF Observed, IInv, TypeOK
    <2>2. /\ counts' \in [Callers -> SUBSET (0..MaxGpus)]
          /\ ever' \in [Callers -> SUBSET Names] /\ steady' \in [Callers -> SUBSET Names]
      BY DEF Observed, IInv, TypeOK
    <2>3. QED BY <1>1, <2>1, <2>2 DEF IInv, TypeOK
  <1>4. ASSUME NEW d \in Callers
        PROVE  (Ordered(calls[d].todo) /\ Sound(d, calls[d], Left(calls[d].todo), lost[d]))'
    <2> DEFINE call == calls[d]
               left == Left(call.todo)
               gone == lost[d]
    <2>1. Ordered(call.todo) /\ Sound(d, call, left, gone) BY DEF IInv
    <2>2. /\ held[d] \subseteq held'[d] /\ failed[d] \subseteq failed'[d]
          /\ left \cap {"version", "crd"} # {} => Met' \subseteq held'[d] /\ Conditions \ Met' \subseteq failed'[d]
      <3>1. Looks(call, {"version", "crd"}) <=> left \cap {"version", "crd"} # {}
        BY LooksAtLeft
      <3>2. /\ held'[d] = IF Looks(call, {"version", "crd"}) THEN held[d] \cup Met' ELSE held[d]
            /\ failed'[d] = IF Looks(call, {"version", "crd"})
                            THEN failed[d] \cup (Conditions \ Met') ELSE failed[d]
        BY DEF Observed
      <3>3. QED BY <3>1, <3>2
    <2>3. /\ counts[d] \subseteq counts'[d] /\ counts'[d] \subseteq counts[d] \cup {gpus'}
          /\ counts[d] = {} => counts'[d] = {}
          /\ left # {} \/ call.advice = "fine_tune" => counts'[d] = {} \/ gpus' \in counts'[d]
      <3>1. left # {} => ~Idle(d) BY NothingLeft DEF Idle
      <3>2. counts'[d] = IF Watching(d) /\ counts[d] # {} THEN counts[d] \cup {gpus'} ELSE counts[d]
        BY DEF Observed
      <3>3. QED BY <3>1, <3>2 DEF Watching
    <2>4. /\ ever[d] \subseteq ever'[d] /\ steady'[d] \subseteq steady[d]
          /\ "runtimes" \in left => runtimes' \subseteq ever'[d] /\ steady'[d] \subseteq runtimes'
      <3>1. Looks(call, {"runtimes"}) <=> "runtimes" \in left BY LooksAtLeft
      <3>2. /\ ever'[d] = IF Looks(call, {"runtimes"}) THEN ever[d] \cup runtimes' ELSE ever[d]
            /\ steady'[d] = IF Looks(call, {"runtimes"}) THEN steady[d] \cap runtimes' ELSE steady[d]
        BY DEF Observed
      <3>3. QED BY <3>1, <3>2
    <2>5. Ordered(calls[d].todo)' /\ Left(calls[d].todo)' = left
      BY <1>1, <2>1 DEF Ordered, Left
    <2>6. counts[d] # {0} => counts'[d] # {0} BY <2>3
    <2>7. calls'[d] = call /\ lost'[d] = gone BY <1>1
    <2> HIDE DEF call, left, gone
    <2>8. Planned(calls[d], Left(calls[d].todo))' /\ Fits(calls[d])'
      BY <2>1, <2>5, <2>7 DEF Sound, Planned, Fits
    <2>9. Watched(d, calls[d], Left(calls[d].todo))'
      BY <2>1, <2>2, <2>3, <2>4, <2>5, <2>7 DEF Sound, Watched
    <2>10. Checked(d, calls[d], Left(calls[d].todo), lost[d])'
      BY <2>1, <2>2, <2>5, <2>7 DEF Sound, Checked
    <2>11. Grounded(d, calls[d], Left(calls[d].todo), lost[d])'
      BY <2>1, <2>3, <2>4, <2>5, <2>6, <2>7 DEF Sound, Grounded
    <2>12. Taken(d, calls[d], Left(calls[d].todo), lost[d])'
      BY <2>1, <2>3, <2>5, <2>6, <2>7 DEF Sound, Taken
    <2>13. QED BY <2>5, <2>8, <2>9, <2>10, <2>11, <2>12 DEF Sound
  <1>5. QED BY <1>3, <1>4 DEF IInv

-----------------------------------------------------------------------------
LEMMA InitIInv == Init => IInv
  <1> SUFFICES ASSUME Init PROVE IInv OBVIOUS
  <1> DEFINE todo == << >>
             call == NewCall("list_runtimes", todo, NoModel)
  <1>1. todo \in Seq(Reads) /\ Left(todo) = {} /\ Ordered(todo) BY NothingLeft
  <1>2. calls = [c \in Callers |-> call] BY DEF Init
  <1> HIDE DEF todo
  <1>3. /\ call \in Call /\ call.tool = "list_runtimes" /\ call.todo = todo
        /\ Fresh(call) /\ ~call.follows /\ call.reply = "none"
    BY <1>1, NewCallIsCall
  <1>4. TypeOK
    <2>1. calls \in [Callers -> Call] BY <1>2, <1>3
    <2>2. /\ held \in [Callers -> SUBSET Conditions] /\ failed \in [Callers -> SUBSET Conditions]
          /\ counts \in [Callers -> SUBSET (0..MaxGpus)] /\ ever \in [Callers -> SUBSET Names]
          /\ steady \in [Callers -> SUBSET Names] /\ lost \in [Callers -> SUBSET Reads]
      BY DEF Init
    <2>3. changes \in 0..MaxChanges BY NoChangesYet DEF Init
    <2>4. QED BY <2>1, <2>2, <2>3 DEF Init, TypeOK
  <1> HIDE DEF call
  <1>5. ASSUME NEW c \in Callers
        PROVE  Ordered(calls[c].todo) /\ Sound(c, calls[c], Left(calls[c].todo), lost[c])
    <2>1. calls[c] = call /\ Left(call.todo) = {} /\ Ordered(call.todo) BY <1>1, <1>2, <1>3
    <2>2. Planned(call, {}) /\ Watched(c, call, {}) /\ Fits(call)
      BY <1>3 DEF Planned, Watched, Fits, Fresh
    <2>3. Checked(c, call, {}, lost[c]) BY <1>3 DEF Checked, Checkers, Fresh
    <2>4. Grounded(c, call, {}, lost[c]) /\ Taken(c, call, {}, lost[c])
      BY <1>3 DEF Grounded, Taken
    <2>5. QED BY <2>1, <2>2, <2>3, <2>4 DEF Sound
  <1>6. QED BY <1>4, <1>5 DEF IInv

\* Nothing but the cluster or a call changes the invariant's parts.
LEMMA StutterIInv ==
    ASSUME IInv, UNCHANGED vars PROVE IInv'
  <1>1. /\ UNCHANGED cluster /\ calls' = calls /\ lost' = lost /\ held' = held /\ failed' = failed
        /\ counts' = counts /\ ever' = ever /\ steady' = steady /\ changes' = changes
    BY DEF vars, cluster
  <1>2. TypeOK' BY <1>1 DEF IInv, TypeOK, cluster
  <1>3. Met' = Met /\ gpus' = gpus /\ runtimes' = runtimes /\ sdk' = sdk
    BY <1>1 DEF cluster, Met, NewEnough
  <1>4. ASSUME NEW d \in Callers
        PROVE  (Ordered(calls[d].todo) /\ Sound(d, calls[d], Left(calls[d].todo), lost[d]))'
    <2>1. Ordered(calls[d].todo) /\ Sound(d, calls[d], Left(calls[d].todo), lost[d]) BY DEF IInv
    <2>2. Ordered(calls[d].todo)' /\ Left(calls[d].todo)' = Left(calls[d].todo)
      BY <1>1, <2>1 DEF Ordered, Left
    <2>3. Watched(d, calls[d], Left(calls[d].todo))' BY <1>1, <1>3, <2>1, <2>2 DEF Sound, Watched
    <2>4. Checked(d, calls[d], Left(calls[d].todo), lost[d])'
      BY <1>1, <1>3, <2>1, <2>2 DEF Sound, Checked
    <2>5. Grounded(d, calls[d], Left(calls[d].todo), lost[d])' BY <1>1, <2>1, <2>2 DEF Sound, Grounded
    <2>6. Taken(d, calls[d], Left(calls[d].todo), lost[d])' BY <1>1, <2>1, <2>2 DEF Sound, Taken
    <2>7. Planned(calls[d], Left(calls[d].todo))' /\ Fits(calls[d])'
      BY <1>1, <2>1, <2>2 DEF Sound, Planned, Fits
    <2>8. QED BY <2>2, <2>3, <2>4, <2>5, <2>6, <2>7 DEF Sound
  <1>5. QED BY <1>2, <1>4 DEF IInv

LEMMA NextIInv == IInv /\ [Next]_vars => IInv'
  <1> SUFFICES ASSUME IInv, [Next]_vars PROVE IInv' OBVIOUS
  <1>1. ASSUME NEW c \in Callers, Work(c) PROVE IInv'
    BY <1>1, ReadVersionIInv, ReadCrdIInv, CheckSdkIInv, DetectPlatformIInv, ReadGpusIInv,
       AskHubIInv, ReadRuntimesIInv, CheckNameIInv DEF Work
  <1>2. ASSUME NEW c \in Callers, CheckCompatibility(c) PROVE IInv' BY <1>2, CheckCompatibilityIInv
  <1>3. ASSUME NEW c \in Callers, GetClusterResources(c) PROVE IInv' BY <1>3, GetClusterResourcesIInv
  <1>4. ASSUME NEW c \in Callers, ListRuntimes(c) PROVE IInv' BY <1>4, ListRuntimesIInv
  <1>5. ASSUME NEW c \in Callers, NEW m \in Models, EstimateResources(c, m) PROVE IInv'
    BY <1>5, EstimateResourcesIInv
  <1>6. ASSUME NEW c \in Callers, NEW m \in Models \cup {NoModel}, PreFlight(c, m) PROVE IInv'
    BY <1>6, PreFlightIInv
  <1>7. ASSUME NEW c \in Callers, NEW r \in Names, NEW confirmed \in BOOLEAN,
               FineTune(c, r, confirmed) \/ FollowAdvice(c, r, confirmed)
        PROVE  IInv'
    BY <1>7, FineTuneIInv, FollowAdviceIInv
  <1>8. CASE Upgrade
    BY <1>8, ObservedIInv DEF Upgrade, IInv, TypeOK
  <1>9. CASE Operate
    BY <1>9, ObservedIInv DEF Operate, IInv, TypeOK
  <1>10. CASE Scale
    BY <1>10, ObservedIInv DEF Scale, IInv, TypeOK
  <1>11. ASSUME NEW r \in Names, Install(r) PROVE IInv'
    BY <1>11, ObservedIInv DEF Install, IInv, TypeOK
  <1>12. CASE UNCHANGED vars BY <1>12, StutterIInv
  <1>13. QED
    BY <1>1, <1>2, <1>3, <1>4, <1>5, <1>6, <1>7, <1>8, <1>9, <1>10, <1>11, <1>12 DEF Next

-----------------------------------------------------------------------------
\* The invariant: the observers know what is so now of what is still to be read,
\* and what was found, counted and advised so far rests on what they observed.
THEOREM Invariant == Spec => []IInv
  <1>1. Init => IInv BY InitIInv
  <1>2. IInv /\ [Next]_vars => IInv' BY NextIInv
  <1>3. QED BY <1>1, <1>2, PTL DEF Spec

\* The variables have their types.
THEOREM TypeCorrect == Spec => []TypeOK
  <1>1. IInv => TypeOK BY DEF IInv
  <1>2. QED BY <1>1, Invariant, PTL

\* A blocker has its cause, and a compatible cluster met every condition.
THEOREM BlockersHaveCauses == Spec => []BlockersNeedCause
  <1>1. IInv => BlockersNeedCause
    <2> SUFFICES ASSUME IInv, NEW c \in Callers
                 PROVE  LET call == calls[c] IN
                        /\ "old version" \in call.blockers => "version" \in failed[c]
                        /\ "unreachable" \in call.blockers => "version" \in lost[c]
                        /\ "no crd" \in call.blockers => "crd" \in failed[c] \cup lost[c]
                        /\ "api not served" \in call.blockers => "api" \in failed[c]
                        /\ /\ call.tool \in Checkers
                           /\ call.reply = "answered" /\ call.blockers = {}
                           => held[c] = Conditions /\ sdk \notin {"old", "missing"}
      BY DEF BlockersNeedCause, Checkers
    <2>1. Checked(c, calls[c], Left(calls[c].todo), lost[c]) /\ held[c] \subseteq Conditions
      BY DEF IInv, Sound, TypeOK
    <2>2. QED BY <2>1 DEF Checked, Conditions
  <1>2. QED BY <1>1, Invariant, PTL

\* What pre_flight advises fits what the cluster was while it looked.
THEOREM AdviceIsGrounded == Spec => []AdviceGrounded
  <1>1. IInv => AdviceGrounded
    BY DEF IInv, Sound, Grounded, AdviceGrounded
  <1>2. QED BY <1>1, Invariant, PTL

\* What pre_flight advises is taken, but for the names and the GPUs that are gone.
THEOREM AdviceIsTaken == Spec => []AdviceTaken
  <1>1. IInv => AdviceTaken
    BY DEF IInv, Sound, Taken, AdviceTaken
  <1>2. QED BY <1>1, Invariant, PTL

\* The GPUs of an estimate hold the model, whatever its size.
THEOREM EstimatesHold == Spec => []EstimateFits
  <1>1. IInv => EstimateFits
    <2> SUFFICES ASSUME IInv, NEW c \in Callers, calls[c].estimate # NoEstimate
                 PROVE  LET e == calls[c].estimate
                            m == calls[c].model
                        IN  /\ m # NoModel /\ Valid(m)
                            /\ Needed(m) < 100 * (e.count * e.each + 1)
                            /\ e.count > 1 => e.each = 80 /\ (e.count - 1) * e.each < e.memory
                            /\ e.total >= e.count
      BY DEF EstimateFits
    <2>1. /\ calls[c].model \in Models /\ Valid(calls[c].model)
          /\ calls[c].estimate = Estimate(calls[c].model)
      BY DEF IInv, Sound, Fits
    <2>2. calls[c].model # NoModel BY <2>1, ModelsAssumption
    <2>3. QED BY <2>1, <2>2, EstimatesFit
  <1>2. QED BY <1>1, Invariant, PTL
=============================================================================
