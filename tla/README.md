# A formal model of kubeflow-mcp-server

`kubeflow_mcp` is an MCP server: a language-model client calls its tools, and
the tools drive Kubeflow Trainer in a Kubernetes cluster.  The tools are
synchronous functions that FastMCP runs on worker threads, so everything the
process keeps between calls (circuit breakers, the rate limiter, cached
clients, a patched function of the SDK) is shared by threads, and everything in
the cluster is shared with other people.  These modules say what must hold
there, TLC checks it on small instances, and TLAPS proves the core of it for
every value of the constants.

## 1. The system

| component | state | operations | hard behaviour | what makes it correct |
|---|---|---|---|---|
| circuit breaker, `core/resilience.py` | state, failure count, time of the last failure, half-open slots and successes; one object per name | `can_execute`, `record_success`, `record_failure` | calls overlap: reports of calls admitted long ago, slots that no report gives back, the clock | bounded probing, a real pause, closing on fresh evidence, calls let in again |
| rate limiter, `core/resilience.py` | balance, time of the last update | `acquire` | fractions of tokens, lazy refill, wall clock set back | no window of time grants more than bucket plus refill; bursts served; no starvation |
| tool gateway, `core/server.py` `_audit_wrap`, `core/dynamic_tools.py` `execute_tool` | breakers per name, the one limiter | one pipeline per call | two nested breakers in the dynamic modes; results of the inner one are input of the outer | faults of one tool stay with it; a breaker that has opened pauses, whatever others report |
| HF_HOME patch, `trainer/api/training.py` | a function slot of the SDK module, a lock | read, patch, train, restore | the slot is read outside the lock | a call's wrapper is there while it trains; the SDK's function comes back |
| job tools, `trainer/api/training.py`, `lifecycle.py` | TrainJobs in the cluster and their ownership label | three submissions, delete, update | check-then-act on a job others change; lost answers; two-phase confirmation | non-admins change only labelled jobs; changes are confirmed; jobs stay owned |
| pip-list pod, `trainer/api/discovery.py` | a pod per call | create, poll, logs, delete | failing requests, slow pods, crashes, runtimes deleted meanwhile | no pod outlives its call; answers say what happened |
| client caches, `common/utils.py` | two `lru_cache`s, a dictionary with a lock | get, build, evict, `reset_clients` | builds that overlap other builds and resets | bounded, one client per key, nothing stale after a reset |
| policy, personas and namespaces, `core/policy.py`, `core/security.py` | the cached policy file, the effective persona | `get_allowed_tools`, `apply_policy_filters`, `check_namespace_allowed` | inheritance, shadowing, cycles; a file edited at any time and read once | what is offered, and where tools that ask are admitted, is what one version of the policy says |
| startup, `core/server.py` `create_server`, `core/resources.py`, `core/http_edge.py` | loaded modules, registered tools and resources, readiness | import, filter, register, probe | client modules and resources that fail one by one | ready means complete; every start ends |
| platform tools, `trainer/api/platform.py` | runtimes and jobs in the cluster | patch, create, delete, inspect CRDs and the controller | jobs listed, then the runtime deleted; lost answers and the connection pool's repetition; a search that passes over failed listings | what is reported was so during the call, or a request failed |
| planning tools, `trainer/api/planning.py`, and `list_runtimes` | none; the cluster they read | `check_compatibility`, `get_cluster_resources`, `estimate_resources`, `pre_flight` | several reads of a cluster that changes, defaults where a read failed, arithmetic with truncation | blockers have causes, the advice fits the cluster and is accepted by the tool it names, the GPUs hold the model |
| monitoring tools, `trainer/api/monitoring.py`, and the job listings of `discovery.py` | none; the job they watch | logs with a fallback, events, `wait_for_training`, `list_training_jobs`, `get_training_job` | a job and pods that go on meanwhile; polls; a fallback that passes over errors | logs of the step that was asked for, statuses that were so, errors blamed on the infrastructure for a cause |
| tool discovery, `core/dynamic_tools.py` | `TOOL_REGISTRY`, the lazily loaded embeddings | `list_tools`, `describe_tools`, `find_tools` | none: a lazy load that may be done twice, with the same result | not modelled, see section 8 |
| identity middleware, `core/middleware.py` | three ContextVars | set, call, reset | none: they are separate per task | not modelled, see section 8 |
| security validation, configuration, auth, transport security, logging, telemetry, health, optimizer and hub stubs | read-only, or output | – | – | not modelled, see section 8 |

A tool call passes the components in this order: HTTP edge and middleware,
`_audit_wrap` (limiter, then the breaker named after the wrapped function), in
the dynamic modes `execute_tool` (registry, then the tool's own breaker), the
tool, its clients from the caches, the Kubernetes API; then the reports to the
breakers on the way back.

## 2. The modules

| module | models | extends | checked by | proved in |
|---|---|---|---|---|
| `BreakerOps` | the methods of `CircuitBreaker` as operators on a record | | the runs of `CircuitBreaker` and `ToolGateway` | |
| `BreakerGate` | what a breaker promises: closed, paused or probing (abstract) | | implemented by `CircuitBreaker` | |
| `CircuitBreaker` | one breaker and concurrent calls | `BreakerOps`, instantiates `BreakerGate` | `CircuitBreaker.cfg` | `CircuitBreaker_proofs` |
| `RateLimiter` | the token bucket | | `RateLimiter.cfg` | `ToolGateway_proofs` |
| `ToolGateway` | the whole path of a call through limiter and breakers | `BreakerOps` | `ToolGateway.cfg` | `ToolGateway_proofs` |
| `HfHomePatch` | `_inject_trainer_hf_home` | | `HfHomePatch.cfg`, `HfHomePatchLeak.cfg` | `ClientCaches_proofs` |
| `JobLifecycle` | the tools that change jobs | | `JobLifecycle.cfg` | `JobLifecycle_proofs` |
| `JobWatch` | the tools that watch jobs | | `JobWatch.cfg` | `JobWatch_proofs` |
| `PlatformTools` | the tools for runtimes, CRDs and the controller | | `PlatformTools.cfg` | `PlatformTools_proofs` |
| `PreFlight` | the planning tools, `list_runtimes`, and `fine_tune`'s own checks | | `PreFlight.cfg` | `PreFlight_proofs` |
| `PipListPod` | `get_runtime(include_packages=True)` | | `PipListPod.cfg` | `JobLifecycle_proofs` |
| `ClientCaches` | the client caches | | `ClientCaches.cfg` | `ClientCaches_proofs` |
| `ServerStartup` | `create_server`, the policy file and personas, namespaces, readiness | | `ServerStartup.cfg` | `ServerStartup_proofs` |

`MC<module>` extends a module with the sets that its `.cfg` files name.
Operators headed "Mutation of ..." are plausible bugs of the definition they
stand before; nothing uses them, they exist to show that each property can fail.
`RateLimiter`, `HfHomePatch` and `PipListPod` prefix the usual names (`LimiterSpec`,
`PatchNext`, `podVars`), since a module of proofs extends each of them together
with the component it is proved beside.

### How state and steps correspond to the code

* **What is one step.**  A method that runs under its object's lock
  (`can_execute`, `record_*`, `acquire`) is one step; so is one request to the
  Kubernetes API, and one read or write of an unprotected variable.  A critical
  section with a slow call in it (the namespace cache's constructor, training
  under `_hf_home_lock`) is several steps and a variable for the holder of the lock.
* **Observers.**  Each module names the variables that only properties read
  (`probes`, `evidence`, `stale`, `overlapped`, ...).  No guard reads them, so they
  change nothing that the program may do.
* **Time.**  `BreakerOps!elapsed` is `time.time() - last_failure_time`, and
  `RateLimiter!accrued` is what the next `acquire` would add.  Both are exact up
  to the comparison in the code: `elapsed` saturates at the timeout, and
  `failure_count` at the threshold, since the code only compares with `>=`.
* **`CircuitBreaker`**: `Admit`/`Deny` are `can_execute`, `Finish` is the tool
  returning with the report that follows in the same thread.
* **`ToolGateway`**: `Call`/`RateLimited` are the limiter, `EnterOuter` and
  `ReportOuter` the breaker of `_audit_wrap`, `EnterInner` and `ReportInner`
  that of `execute_tool` (only when `dynamic`, the mode the server was started in), `Run` the tool,
  which may end in any result at any time: a healthy cluster does not keep the
  caller's mistakes from counting as failures.  The limiter is there as whole calls;
  its arithmetic is `RateLimiter`'s subject.
* **`HfHomePatch`**: a call stands for the wrapper it makes, and `original[c]`
  for the variable the wrapper closes over, so `Homes` follows the chain of
  wrappers as a call of the patched function does.
* **`JobLifecycle`**: `Delete` and `Update` are the tools up to their first
  request, `CheckOwnership` is `is_mcp_managed` and what its caller does with
  the answer, `Act` the request that changes the job, `Fail` that request
  failing without effect.  `Act` may answer with an error too: its answer is
  lost.  `Others` is everybody with kubectl.
* **`JobWatch`**: `Get...`, `List...` and `Wait...` are the tools up to their
  first request.  `ReadLogs` is the SDK's read of the step's pod, `ListPods` and
  `ReadPrevious` the fallback to what the containers before wrote, a pod a step;
  `ListPods` refuses a name that a job may have and `validate_k8s_name` does not
  accept.
  `Poll` is one turn of the SDK's `wait_for_job_status`, known from its use: it
  is external, and so are the job and its pods (`Progress`, `Halt`, `Write`,
  `Restart`, `Vanish`).
* **`PlatformTools`**: a tool validates and previews in the step that starts it;
  `Patch`, `Create`, `ListDependents`, `Delete`, `ReadCrd`, `Scan` and `ReadPod`
  are its requests.  `Took` lets an answer be lost after the effect, `Lost` before
  it, and `NoAnswer` hands a deletion to the connection pool, which makes it once
  more (`utils.py:45`).  `Scan` is one listing of `_find_controller_pod`; like
  `ListDependents` it also ends when no client can be built.  `refers` has the
  kind and the name of each job's `runtimeRef`, and `Dependents` compares the
  name only, as the code does.
* **`PreFlight`**: a call has a list of reads still to make (`todo`), and a step
  makes the first of them; `lost` has those that failed.  `FineTune` is the part
  of `fine_tune` before it submits, and `FollowAdvice` the agent that does what
  `pre_flight` recommended.  `Estimate` is the arithmetic of
  `estimate_resources` in hundredths of a GB.  Names of runtimes stand for the
  three ways in which the tests of `pre_flight` and of `fine_tune` come out.
* **`PipListPod`**: one step per request in the order of the source; `Poll` is
  one turn of the loop with its sleep, which takes one interval or more.
* **`ClientCaches`**: `Get`/`Make`/`Keep` are `lru_cache` around a factory,
  with the semantics of `functools`: no lock while the factory runs, and a
  result is stored only if none is there.  `Want`/`Lookup`/`Load`/`Store` are
  the namespace cache, `Clear`/`ClearNamespaces` are `reset_clients`.
* **`ServerStartup`**: `FindPolicyFile` and `OpenPolicyFile` are the first
  `_get_cached_policy`, with everybody who edits the files in between; `Climb`,
  `Top` and `Refuse` are one level of `get_allowed_tools`, run for the
  instructions and again for the tools; `Filter` is `apply_policy_filters` with
  the `read_only` stage.  `Request` is a call of a tool that asks
  `check_namespace_allowed`, or of one that does not: `inspect_controller`, which
  takes a namespace, and `delete_runtime`, which lists the jobs of all.  The
  properties judge the result by a definition of
  their own: the least set of personas closed under inheritance, and a reading
  of allow and deny tool by tool.

## 3. What the runs show

Passing runs:

* `CircuitBreaker`: four calls at once, threshold 2, three slots, a pause of 3.
  One caller more than slots, so that refusals in HALF_OPEN and stragglers of an
  earlier period occur together.  `ProbeBound` and `LockoutNeedsNeutral` are about
  the slots; `ImplementsGate` says that the breaker is the gate of `BreakerGate`:
  once shut it pauses for the whole timeout, whatever stragglers report, then
  probes, and closes only after as many successes as it has slots;
  `RetriesUnlessSpent` and
  `RecoversUnlessSpent` say that the breaker lets calls through for ever, and
  closes once the cluster is healthy, unless a call that reported nothing used
  up a half-open slot.
* `RateLimiter`: a bucket of two and two thirds of a call refilled by two thirds
  of a call per unit, so that balances between whole calls occur, with set-backs
  of the clock.
* `ToolGateway`: two tools and an unknown name, two threads, full mode and the
  dynamic modes, tools that end in any way at any time.  `ToolBreakerIsolation`
  says which failures a breaker that refuses may stand on, `BreakersPause` that
  one which has opened lets nobody through for the pause, whatever other calls
  report to it.
* `HfHomePatch`: four concurrent calls, enough for wrappers on wrappers on
  wrappers.
* `JobLifecycle`: all personas, two threads and others on one name.
* `JobWatch`: a job with two pods that is created, runs, ends, fails, is suspended
  and deleted, and pods that write, restart and vanish, all while a call is
  under way.
* `PlatformTools`: one runtime name, two jobs that may refer to a runtime of that
  name of either kind, the two default namespaces of the
  controller, all changed by others between any two requests; lost answers and
  the repeated deletion.
* `PreFlight`: versions on both sides of the minimum, in the minor and the major
  number, and one that cannot be parsed; models on both sides of the sizes at
  which GPUs change; a cluster that changes between the reads, reads that fail.
* `PipListPod`: two calls, with failing requests and crashes.
* `ClientCaches`: two namespaces in a cache of one entry, a rotation of the
  kubeconfig, resets at any time.  `NsCacheSound` has the limit, one entry and one
  client per namespace, and nothing older than a reset, as they must hold together
  of one critical section.
* `ServerStartup`: seven policies (a shadowed persona, inheritance from all
  tools, from itself, in a circle, from nobody; allow, deny, read-only and
  namespace lists, also empty ones) and broken files, in two places and edited
  at any time; every persona, failing imports and resources, restarts.

Several of these properties have an exception in their statement, and the
exception is where the code falls short of what one would hope for.  With the
exception taken out each of them fails:

* `LockoutNeedsNeutral`, `RetriesUnlessSpent`: an answer that is no error of the
  infrastructure takes a half-open slot and gives none back.  In the dynamic
  modes the CIRCUIT_OPEN answer of a tool's own breaker and an unknown tool name
  are such answers for the breaker of `execute_tool`.
* `StrayNeedsStaleCheck`: between reading the label and the request by name a
  job may be replaced, and is then deleted or patched though it is not labelled.
* `OnlyUpdatesUnconfirmed`: `update_training_job` has no `confirmed` parameter,
  while `README.md:122` says every mutating tool requires it.
* `RemovalTold`: a deletion that took effect, whose answer was lost and which the
  connection pool repeats, is answered 404, and the caller is told that there was
  no such runtime.
* `ToolBreakerIsolation`: what counts as a failure may be the caller's mistake, on
  a healthy cluster: arguments that do not fit the function, which `execute_tool`
  records and answers with SDK_ERROR (`dynamic_tools.py:206`, `214-216`), a taken
  name of a runtime (`platform.py:419`), a job that is missing or has failed
  (`monitoring.py:306`, `394`), a model the hub does not know
  (`planning.py:510-525`).  In the dynamic modes such mistakes with one tool make
  the breaker of `execute_tool` refuse all of them.
* `DependentsBetween`: of a `runtimeRef` only the name is compared
  (`platform.py:454-456`), so jobs of a namespaced TrainingRuntime with that name
  are reported as dependents of the ClusterTrainingRuntime.  And when the listing
  of the jobs fails, `delete_runtime` goes on as if no job depended on the
  runtime; so it does for jobs submitted since.
* `NamespacesOfOnePolicy`: only the tools that work on jobs ask
  `check_namespace_allowed`.  `inspect_controller(namespace=...)` reads the logs and
  events of the controller's pod in any namespace, and `delete_runtime` names the
  jobs of every namespace, whatever the policy's list says
  (`platform.py:172-244`, `448-462`); only the tool lists of the policy keep them
  away.
* `ControllerMissNeedsLoss`: a listing that fails counts as one without pods, so
  "not found" may mean that the search could not look.
* `BlameNeedsTrouble`: a name that is taken and a malformed body are
  KUBERNETES_ERROR, which the breaker counts, like a cluster out of order.
* `CountedNeedsCause`: `wait_for_training` answers SDK_ERROR, which the breaker
  counts, for a job that failed or is missing and for a status the SDK does not
  know; so do `get_training_events` of a missing job and a listing by a runtime
  that is not there.
* `LogsOfStep`: previous logs that cannot be read are left out without a word.
* `AdviceTaken`: `pre_flight` accepts runtimes whose name starts with torchtune or
  torch-tune, `fine_tune` those that start with torchtune and torch-tune itself;
  and `fine_tune` refuses for want of GPUs that went away since, and goes on when
  they cannot be counted.
* `EstimateFits`: the memory is cut to whole GBs before GPUs are chosen, so up to
  one GB may be missing.
* `LeakNeedsFailure`: a create whose answer is lost, and a delete that fails,
  leave the pip-list pod behind.  That `get_runtime` creates a pod at all is at
  odds with its `readOnlyHint` (`trainer/__init__.py:184`).
* `NotFoundNeedsLoss`: any 404, of the pod too, is answered as the runtime's.
* `StaleNeedsOverlap`: a factory under way when `reset_clients` runs stores its
  old client afterwards; and two threads that miss at once get two clients.

One run ends in a violation, of a statement of the repository that the code
does not keep:

| run | statement | why it fails |
|---|---|---|
| `HfHomePatchLeak` | "temporarily patches" (`training.py:112`) | the original is read before the lock is taken, so it may be another call's wrapper, which is then restored for good |

`HfHomePatchLeak` does not lose HF_HOME (`HomeOnce` holds): the wrapper that stays
looks for an entry first.  What stays is a chain of wrappers on a function of
the SDK that other code in the process calls.

More statements are at odds with what the models say, seen in the
exceptions above and in the code, without a run of their own:

* "Retries automatically after recovery timeout." (`server.py:170`): not after
  neutral calls took all half-open slots; that is the exception of
  `RetriesUnlessSpent`.
* "Using per-name breakers prevents a failure in one tool ... from tripping the
  circuit for unrelated tools" (`resilience.py:126`): in the dynamic modes the
  outer breaker is named `execute_tool` for every tool.  `ToolBreakerIsolation`
  holds of the breakers named after tools only.
* "user validation errors ... are not infrastructure problems"
  (`common/constants.py:44`): some mistakes of the caller have a code that counts,
  as listed above at `ToolBreakerIsolation`.
* "Namespace enforcement" (`README.md:16`): not by the two tools above at
  `NamespacesOfOnePolicy`.
* "If job not found (`RESOURCE_NOT_FOUND`)" (`lifecycle.py:56`): for non-admins the
  ownership check answers first, with VALIDATION_ERROR.

## 4. Bounds, and why they are enough

* The breaker's thresholds are 2 and 3 instead of 5 and 30 s, with the three slots
  of the code: every
  comparison is still taken both ways, and the theorems of section 6 hold for
  all values.  Time saturates where the code stops telling instants apart.
* `RateLimiter`: `MaxIdle`, `MaxWindow` and `MaxSteps` bound how long the clock
  is followed, the observed window and the set-backs; the theorems need no more
  than that they are natural numbers.
* Two threads suffice for every hazard between a check and an act, since the
  other party is either another thread or "others"; the breaker has one thread
  more than slots, `HfHomePatch` four calls.
* `JobLifecycle` has one name: calls about different names share nothing but the
  persona, which never changes.  The proofs are for any set of names.
* `ClientCaches` has one rotation (`MaxVersion`) and one namespace more than
  entries, so that evictions happen.
* `JobWatch`, `PlatformTools` and `PreFlight` have one caller: calls of these tools
  share nothing in the server, and what another could do to the cluster others do.
  `MaxChanges` bounds the changes during one call, 4 in `JobWatch` (a job can be
  created, run and end, or a pod write and restart, between two requests) and 2 in
  `PreFlight` (to change and change back between two reads); `MaxPolls` of 2 leaves a
  poll before and one after a change, and `MaxGpus` of 1 tells none from some, all
  that the code asks.  Two namespaces are the defaults of the code.  The proofs are
  for any number of callers, namespaces, polls, GPUs, models and changes.
* `PollLimit` bounds the clock of the polling loop in `PipListPod`.
* `ServerStartup` has no bound on edits and restarts.  Two of the three places
  for a policy file tell the first from a later one.

## 5. Fairness, and why the code justifies it

* `CircuitBreaker!Progress`: time passes, and a call that was accepted goes on to
  its end.  The API clients are configured with
  timeouts (`utils.py:45-48`), so a tool returns or raises.  Nothing is assumed
  of clients except in `RetryingSpec`, where they call again after an answer:
  a breaker recovers only through calls.
* `RateLimiter!FairLimiterSpec`: time passes and clients keep calling; `Mark` is fair
  only because the observed window must be allowed to end.
* `HfHomePatch!FairPatchSpec`: `client.train()` returns or raises.  Weak fairness of
  `Patch` is enough, since each call takes the lock once.
* `PipListPod!FairPodSpec`: requests return, and the clock of the polling loop
  advances.  The requests of this function carry no timeout of their own
  (`discovery.py:313-332`), so that is an assumption on the API server.  Nothing
  is assumed of the pod.
* `ClientCaches!FairSpec`: constructors return or raise, and a thread that waits
  for the lock is not passed over for ever (strong fairness of `Lookup`).
  CPython's lock does not promise an order; what the run shows is that no path
  keeps the lock.
* `ServerStartup!FairSpec`: `create_server` runs on, on the main thread.

## 6. What is proved

All proofs are in `*_proofs` modules and hold for every value of the constants
under the `ASSUME`s of the modules: positive thresholds and limits, a call that
costs no more than the bucket, at least one tool, names that are not mistaken for
one another, tools that either ask for a namespace or do not, a list of factories without repetition.

* **`CircuitBreaker_proofs`**: `TypeCorrect`, `ProbesBounded`,
  `LockoutOnlyByNeutral`, `ClosingNeedsEvidence`, `OpeningPauses`,
  `BreakerImplementsGate`.  None of the
  properties is inductive.  The invariant `IInv` counts the slots of a half-open
  period: the slots taken are the probes still running, those that passed and
  those that were spent (`half_open_calls` = running + passed + spent), the
  successes the breaker counted are those of this period (so the counter is 0
  whenever it is not half-open, although `can_execute` does not reset it), and
  the time since the circuit opened is never less than the time since the last
  failure.  The first gives the bound and the diagnosis of a lock-out, the
  second that closing rests on evidence, the third that stragglers do not
  shorten the pause.  The refinement is shown step by step: under `IInv` each
  action is one of the gate's or leaves the gate as it is.
* **`ToolGateway_proofs`**, gateway: `TypeCorrect`, `BreakersIsolated`,
  `PausesLast`.  `IInv` follows a failure from the tool that has it to the breaker
  that hears of it: a call that carries a failure carries one of its own tool
  (`CarriedFailures`), so a breaker that is not closed stands for a tool that
  failed (`OnlyFailedTrip`).  `PausesLast` takes the pause of
  one breaker to all of them, with two breakers for a call and reports of other
  tools in between.
* **`ToolGateway_proofs`**, limiter: `LimiterTypeCorrect`, `WindowsBounded`,
  `BurstsServed`.
  `LimiterInv` is the accounting of the window: what was granted plus what could be
  granted now is at most a bucket plus the allowance, also with the balance below
  zero; while `burst` holds, the balance is at least a bucket less what was
  granted; and `WindowBound` itself, since the first says little of what was
  granted once a set-back has made the balance negative.
* **`ClientCaches_proofs`**, caches: `TypeCorrect`, `NamespaceCacheSound`,
  `StaleOnlyByOverlap`.  For the namespace cache `IInv` has what a critical section
  is for: whoever makes or stores a client holds the lock and its namespace has no
  entry (`Critical`), so the dictionary stays one (`Dictionary`), what callers were
  given is what it holds (`GivenAreCached`), and no client in it, or about to be, is
  from before the last reset (`Fresh`).  `FactoriesFresh` is the weaker statement
  that `lru_cache` leaves: of a factory that was idle when it was cleared, the
  client stored and the clients still under way are from no kubeconfig older than
  `Bound`, which moves factory by factory while a reset goes on.
* **`ClientCaches_proofs`**, patch: `PatchTypeCorrect`, `HomesAreAddedOnce`,
  `OwnWrapperHolds`, `LeakNeedsOverlap`.  `PatchInv` says that the holder of the lock
  is the one call that has patched, and that without an overlap whatever a call
  will put back is the SDK's own function.  For `HomeOnce` it says that wrappers
  lie on top of each other without a circle: of any set of wrappers one lies on a
  function outside of the set (`Stacked`), which holds because nobody finds the
  wrapper of a call that has not begun (`NotYetFound`).  That takes the place of an
  induction over the chain: if some wrappers built another number of entries than
  one, the set of them would have no such wrapper (`HomesOnce`).  `Homes` is a
  recursive function, and `HomesSolve` shows that its equation has a solution.
* **`JobLifecycle_proofs`**: `TypeCorrect`, `StraysNeedStaleChecks`,
  `OursStayOurs`, `UpdatesOnlyUnconfirmed`.  `IInv` says that a call past the check,
  if it is not an
  admin's, either is marked stale or its job still has the label that was read:
  every change of a job marks the calls that stand between check and request.
  `Gated`, the invariant behind the last, says that a call about to change the
  cluster was confirmed or is an update.
* **`JobLifecycle_proofs`**, pod: `PodTypeCorrect`, `LeaksNeedFailures`,
  `PackagesAreOfSuccesses`, `NotFoundIsLost`.  `PodInv` says that a pod which is there
  is owed: its call is still between the create and the cleanup, a request of it
  failed, or the server stopped (`PodsAreOwed`); that success of a pod, read or
  still to be read, is noted, and a log is only read of a pod that ended
  (`SuccessesNoted`); and that a runtime or pod which is not there while its call
  goes on is noted (`LossesNoted`).
* **`ServerStartup_proofs`**: `TypeCorrect`, `OneSnapshot`, `OfferedAsPromised`,
  `ReadyMeansComplete`.  `Inv` says that from the first
  lookup to the end the policy is one cached value, that nothing is admitted
  before the server serves, and that a request is judged by the value the tools
  were filtered with, whatever is on disk, or is one of an offered tool that does
  not ask (`Judged`).  `Lookup` says
  of the walk up the chain (`Underway`) that every persona behind it is defined and
  leads nowhere but to personas visited or to the one ahead, and that every set
  closed under inheritance contains them all; at the top the personas visited are
  therefore the least such set, which is how the property defines the chain.
  `OneSnapshot` needs both: that the tools offered are those that were promised
  makes `Judged` a statement about the policy.
  `Flags` accounts for every client (loaded or still to be imported) and every
  resource (registered or pending) as long as the flags of readiness stand.
  `TypeCorrect` needs to know that nothing is offered before the filters ran
  (`Unfiltered`), and of the walk what `Lookup` knows.
* **`PlatformTools_proofs`**: `TypeCorrect`, `DependentsAreTold`,
  `RemovalsAreTold`, `FaultsHaveCauses`, `SearchLeavesNoneOut`.  `IInv` says of every
  call under way what its observers have noted of the state it will act on: that
  the runtime was there or absent as it is now, that a deletion that goes on after
  its effect lost an answer, that every place searched so far was empty at some
  time or not answered.
* **`PreFlight_proofs`**: `TypeCorrect`, `BlockersHaveCauses`, `AdviceIsGrounded`,
  `AdviceIsTaken`, `EstimatesHold`.  The parts of `IInv` are stated of one call, the
  reads it has left and those it lost: what it gathered was so at some time since
  it began, and what it has still to read is observed on.  The arithmetic of the
  estimate is proved for all parameters, batches and precisions.
* **`JobWatch_proofs`**: `TypeCorrect`, `ErrorsHaveCauses`, `StatusesSeen`,
  `LinesAreTheSteps`.  `IInv` says of one call that the lines gathered and pods left
  are those of its step, that what was passed over was mute or lost, and that the
  polls that are used up each saw another status.

The type invariant of every module is proved, as a part of the invariants above
(the abstract `BreakerGate` has none of its own).  The run of
`CircuitBreaker` evaluates its own as well; the others state only what could be
wrong in the code.

## 7. What is only model-checked

Liveness under fairness (`RetriesUnlessSpent`, `RecoversUnlessSpent`,
`KeepsServing`, `AllEnd`, `AllAnswered`, `Answered`, `StartupEnds`) is out of the
prover's reach, as is ENABLED, and stays with TLC.  Every other property of the
passing runs is a theorem.

## 8. What is not modelled, and why

* Wording and layout of answers, spans, log lines, masking: no property here is
  about them.
* Validation of parameters: it precedes every effect and changes no state.
* The SDK and the API server beyond what the code's use of them shows.
* Custom personas in `JobLifecycle`, which has the built-in ones: a custom persona
  is a set of tools that goes through the same ownership check.
* The matching of names and wildcards: a pattern is the set of tools it matches.
  An invalid mode, which `create_server` refuses and the command line cannot give.
* `with_circuit_breaker`, `retry_with_backoff` and its async twin,
  `SessionManager`, `reset_breakers`, `reload_policy`: no caller in the source.
  `reset_clients` has none either, but documents a use, and is modelled.
* The parsing of the hub's metadata and the models that `estimate_resources`
  suggests: `PreFlight` takes the size of the model as what the hub tells.
* `_EmbeddingCache` and the ranking of `find_tools`: the embeddings are assigned
  last, so no caller sees them without a model, and two loads make equal ones.
* The identity middleware: ContextVars are separate per task by the language, and
  only log lines read them.  Configuration: read once, in a fixed order.
* Recovery from a crash: the code has none; `PipListPod!Crash` shows what is left.
* Optimizer and hub: stubs without behaviour.
* Logging, telemetry, health, the rest of the HTTP edge: output, static texts and
  stateless checks of a request.

## 9. Plan

Done of the plan: the core (breaker, limiter, gateway, patch, jobs, caches, pod,
startup), the abstract gate and its refinement, the platform, planning and
monitoring tools, and the proofs of section 6.  What is left, in this order:

1. The abstract gate once more, for each breaker of `ToolGateway`: that takes the
   observers of `CircuitBreaker` per name.
2. `ToolGateway` over `JobWatch`: what a breaker makes of the errors that
   `CountedNeedsCause` permits, now in separate modules.
3. A retry of a submission whose answer was lost, for jobs that the SDK names.
4. Precedence in the configuration; the checks of training scripts.
