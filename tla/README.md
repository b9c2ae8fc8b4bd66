# NetGrader worker: verification project

TLA+ models of the NetGrader worker (`src/main.py`, `src/app/**`), the TLC
configurations that check them on small instances, and TLAPS proofs of what
holds for every instance.  `PROJECT.json` maps each definition to the lines it
models and lists runs, mutants, hazards, findings and theorems.

The worker is one Python process: a FastAPI application whose event loop also
runs a RabbitMQ consumer.  A grading job comes from the queue; its tasks run
commands on network devices through Nornir/netmiko in executor threads; groups
of tasks are scored, and progress and results are posted to the backend.

## 1. Inventory

| Component | State | Operations | Modelled in |
|---|---|---|---|
| Queue consumer (`services/pipeline/queue_consumer.py`) | connection, channel, `is_running`, cleanup task | `start_consuming`, `_process_message`, `publish_job`, `_periodic_cleanup`, `disconnect` | `QueueConsumer`, the cleanup in `ConnectionManager` |
| Grading service (`services/grading/simple_grading_service.py`) | locals of `process_grading_job`: results, totals, `execution_cancelled`, `task_index`, semaphore | `process_grading_job`, `_run_tasks_parallel`, `_execute_single_task`, rescue and cleanup tasks; `validate_job_payload`, `detect_devices` | `JobExecution`, `GradingContract`; `TemplateTest`, `DeviceDetection` |
| Scoring (`services/grading/scoring_service.py`) | none | group scoring, grouping, comparison of values | `GradingJobs` (groups) |
| Data model (`schemas/models.py`) | none | - | `GradingJobs` |
| Nornir grading service (`services/grading/nornir_grading_service.py`) | Nornir's results and failed hosts | `execute_task`: ping, command, SSH test, custom task | `ConnectionManager`, `CustomTask` |
| Connection manager (`services/connectivity/connection_manager.py`) | `devices`, `_active_connections`, shared Nornir instance, temporary directories | `get_connection`, `cleanup_all`, `clear_job_state`, `add_device`, inventory | `ConnectionManager`, `DeviceDetection` (`Host`) |
| HTTP application (`main.py`) | `consumer_task`, `template_test_lock` | lifespan, queueing, template test with timeout, dry runs | `TemplateTest`, `Abort` of `JobExecution`, `Shutdown` of `QueueConsumer` |
| Callback client (`services/connectivity/api_client.py`) | none | posts with retries | `ResultDelivery` |
| Custom task registry (`services/custom_tasks/custom_task_registry.py`) | templates by name, loaded flag, failures | `initialize`, lookup by jobs, temporary templates, validation, parameters | `TemplateRegistry`, `TemplateTest`, `CustomTask` |
| Custom task executor (`services/custom_tasks/custom_task_executor.py`) | variables of one task | a sequence of commands and validations | `CustomTask` |
| Device detection (`services/connectivity/snmp_detection.py`) | none | platform from SNMP, SSH, static data | `DeviceDetection` |
| Configuration (`core/config.py`) | constants | - | `MaxParallel`, `MaxRetries`, `enabled` |
| MinIO service, snapshot collector, IPv6 utilities, exception classification | none, or a lazily created client | calls of libraries, text processing | not modelled (section 5) |

Interactions.  The consumer calls `initialize` and `process_grading_job` inside
`message.process()`, which settles the message by whether its block raised.
The grading service detects what kind of devices it has, registers them with
the connection manager, starts one coroutine per device (`asyncio.gather`), and
each calls the Nornir service, which takes a context from the connection
manager and hands the command to an executor thread (`asyncio.to_thread`).  The
final result is posted by `process_grading_job` itself, before the message is
acknowledged.  `clear_job_state` is called by the grading service and again by
the consumer.  The hourly cleanup shares the connection manager with whatever
job is running.  The template-test endpoint builds a grading service of its
own, with its own registry and connection manager; tests wait for one another
on a lock and share the default executor's threads with everybody.

Hard behaviours: coroutines interleaving at every await; threads that outlive
a cancelled coroutine; state shared by all tasks of a job (Nornir instance,
failed hosts, progress counter); messages delivered again after a lost
connection or a crash; results posted again after a lost answer; cleanups
without an owner; timeouts; registers that keep what an earlier command left;
platforms that are missing, given or found.  `PROJECT.json` lists each as a
hazard at the line where it bites, and says of those without a property why.

What makes each component correct:

- grading service: one command per device, bounded parallelism, order of a
  device's tasks, batches as barriers, every task exactly one result, totals
  that add up, rescue and cleanup in order, an end to every job;
- connection manager: one session per device for shared tasks, connections and
  directories owned and returned, a shared inventory that matches the job, no
  connection closed below a command by the end of its own job, failures of one
  task without effect on the next (which `cascade` refutes);
- queue consumer and callback client: no message lost, none acknowledged
  without its result having been posted, gradings and posts bounded by the
  faults, one at a time, every message settled in the end;
- template registry: only valid templates served, a ping in place of a custom
  task only for a reason that shows, a health status that is true, templates
  that stay;
- template test: tests that do not meet on a device, nothing left behind, a
  success that means every task was graded, an answer to every request;
- custom task: parameters of their declared types, a result the scoring reckons
  with, verdicts that rest on what the device answered last;
- device detection: a platform for every device, from its own answer.

## 2. Modules

| Module | Content |
|---|---|
| `GradingJobs` | tasks, groups, results; grouping and group scoring as operators |
| `JobExecution` | one call of `process_grading_job`; extends `GradingJobs` |
| `GradingContract` | what such a call promises, without coroutines; `JobExecution` implements it |
| `JobExecutionProofs` | theorems about `JobExecution`: types, devices, permits, progress numbers |
| `JobResultsProofs` | extends it: order, batches, verdicts, accounts, the refinement of `GradingContract` |
| `ConnectionManager` | connections over a succession of jobs |
| `ResultDelivery` | one call of `send_final_result` per grading, as operators |
| `QueueConsumer` | the consumer, its broker, and `ResultDelivery` as its instance |
| `TemplateRegistry` | the registry, its loads from MinIO, and the jobs that use it |
| `TemplateTest` | concurrent requests of the template-test endpoint; extends `GradingJobs` |
| `CustomTask` | one custom task; its result is compared with `GradingJobs` |
| `DeviceDetection` | from missing platforms to registered hosts |
| `QueueConsumerProofs`, `ConnectionManagerProofs`, `TemplateRegistryProofs`, `TemplateTestProofs`, `CustomTaskProofs`, `DeviceDetectionProofs` | theorems about these components |
| `MC...` | small instances |

An action is the code between two points where something else can run: an
await that suspends, or a hand-over to a thread.

**`JobExecution`.**  `pc` is the position of `process_grading_job`; `co[d]`,
`current[d]` and `remaining[d]` are the coroutine of device `d` in
`_run_tasks_parallel`; `permits` is the semaphore, `task_index` and `slot` the
progress counter, `busy[d]` the commands of `d` in executor threads.
`counter_lock` is never held across an await, so it is not a step of its own;
`Claim` is the code under it.  The semaphore wakes waiters in order, which
`Acquire` keeps.  After a result is appended the coroutine claims its next task
without suspending, hence `Record`.  `GatherGroup` does everything between the
gather and the next await: the score, the totals, the decision to cancel, and
whether rescue or cleanup tasks come next.  A rescue or cleanup task may fail in
any way; its result is unused.  `Abort` is a cancellation at an await
(`wait_for` of the template test, shutdown): coroutines are gone, threads are not
(`OrphanEnds`).  The result of a task is any element of `Outcomes`, which is
what the Nornir service and the custom task executor can return; points are
integers and a proportional share is rounded down.  Posted progress updates do
not change state.

**`GradingContract`** has four actions: grade the ungrouped tasks, grade the
next group as a whole, return, abort.  `JobExecution` maps its gathered results
and verdicts to it.

**`ConnectionManager`.**  `contexts` is `_active_connections`; an instance is a
Nornir object with its inventory, directory, open connections and failed hosts.
`get_connection`, `cleanup_all` and `clear_job_state` await nothing that
suspends: one action each.  Every caller of `get_connection` asks for SHARED, so
that is the mode modelled.  A task is `BeginTask` (context and dispatch),
`ThreadStarts` or `CannotConnect`, then `CommandReturns`, `CommandRaises` or
`Refused`.  `Refused` is the lookup `result[device_id]` after Nornir ran on no
host because the host is remembered as failed.  Custom tasks open their
connection on the event loop's thread, so `BeginTask` includes it for them.  A
session is a job id or none, as the callers build the key.

What drives the manager are handlings of jobs, since a job that is delivered
again is handled again.  A handling runs, becomes stale when its broker
connection is lost (`LoseConnection`; it goes on, and the next may start), and is
over once it called `clear_job_state`.  `EndJob` is that call at the end of
`process_grading_job`, which has gathered all tasks of its own, though not those
of another handling; `CancelJob` is the consumer's `finally` after a
cancellation, while threads still command devices.  `CreationFails` is an
exception in `_create_nornir_inventory` after the directory was made, or in
`InitNornir`.  Four variables only record what happened: `cleanups`; `met`, the
handlings that were alive together with another; `struck`, the tasks that were
at work when somebody else's cleanup, or their own cancellation, closed
everything; `lost`, the directories of failed creations.  That `rmtree` and the
closing of a connection succeed is assumed.

**`QueueConsumer`.**  A delivery is a message on a numbered channel;
`handler[h]` is the phase of `_process_message`.  What a message carries is
chosen in `Init`.  The broker and `aio_pika` are external and modelled from
their use: `prefetch_count=1`, `message.process()` with its default
`requeue=False`, a robust connection.  Whether a handler goes on after its
connection is lost is left open; both are allowed.  A crash ends the process
with all handlers and in-memory state.  **`ResultDelivery`** is the loop of
`send_final_result`: a post is answered, whatever the status, or raises, in
which case it may have arrived all the same.  What a cancelled or dying call
was posting may arrive too (`Interrupted`).

**`TemplateRegistry`.**  A version of an object is valid or not; `store[o]` is
the history of its versions.  A load lists (`List`, `ListFails`), then
downloads and caches one object after the other; `CacheTemplate` ends with
whatever follows the last object, the strict-mode exception included.  The flag
`initialized` stands for those of the registry and of the grading service, which
are set without an await in between.  A handler is rejected when its load
raised, which is `InitializeRaises` of `QueueConsumer`.  A listing that fails is
logged and counts as a load, in strict mode too; `listing` records how the
listing of each job went.

**`TemplateTest`.**  A request loads its registry on an executor thread, waits
for `template_test_lock`, registers its draft and validates the payload without
suspending (`Validate`), grades, and answers.  The grading is `JobExecution`'s
seen from outside: one task per device at a time, `Graded` when all are done or
a group cancelled.  `TimesOut` may happen at any moment; it drops what waits for
a thread, leaves what runs on one, releases the lock and never gets to
`_cleanup_job_state`.  `GradingRaises` is the answer 500 when
`process_grading_job` raises before its first task, and does not get there
either.  Rescue and cleanup tasks of groups are left to `JobExecution`.
`registry` leaves the draft out, since the registry is the
request's own and nobody sees the draft put back.

**`CustomTask`.**  `Prepare` converts and checks parameters, `Connect` opens the
connection when a command needs one, `RunCommand` is one round of the command
loop, `Judge` applies the rules and scores.  Values keep the type they have in
Python, because `_apply_condition` branches on it; texts are names, and what a
pattern or substring finds in a text is the constant `Find`; what is not in its
domain is no regular expression.  A command's argument is one placeholder.  A
path leads to a register, a parameter or the record of a command, by its own name
or below `variables`, `parameters` or `commands`, and from there to a part of it.
Of the values only the dictionary of the regex parser has parts: positions in a
list and the parts of what a custom script returns are left out.

**`DeviceDetection`.**  `SnmpAnswers` and `NoSnmpAnswer` are the ends of the
coroutines of `detect_multiple_devices`, in any order; static detection with its
SSH login is synchronous and part of the latter.  An answer records, beside the
platform, the signs it was made from, for the property to compare.
`RegisterDetected` replaces the platforms and registers all devices: nothing in
between suspends.  `Host` is what `add_device` and the inventory make of a type.

Definitions whose comment begins with "Defect:" are not part of any
specification.  Each is a plausible wrong version of the definition after it;
`PROJECT.json` says which property tells the two apart.

## 3. Runs

| Run | Instance and bounds | Shows |
|---|---|---|
| `job_execution` | 5 jobs, 3 devices, 2 permits, 2 groups and an unconfigured one | all safety, the refinement of `GradingContract`, termination |
| `connections` | 2 jobs, 2 devices, 3 instances and directories, 1 lost broker connection, cancellations, 1 failed creation, 1 hourly cleanup, each at any moment | a job closes nothing below a command of its own; connections are owned and end with their job unless a cleanup struck a task; inventory and directories in any case |
| `queue_consumer` | 2 messages of any kind, 1 lost connection, 1 crash, shutdown, 2 attempts per result, 2 faults of posts | no loss, no acknowledgement without a report, bounded repetition, progress |
| `template_registry` | 2 jobs that may overlap, 2 objects with up to 2 versions each, 1 failure of MinIO, strict or not | validity, a ping only for a reason, truthful health, no template lost, an end to every job |
| `template_test` | 3 requests, 2 devices, 2 threads; a payload of two devices, one of a single device, and one that goes wrong in any of 7 ways | tests meet only after a timeout, only a timeout leaks, success is complete, an answer to every request |
| `custom_task` | some 400 templates of up to 4 commands, 5 sets of arguments, 3 answers and an error per command | parameters have their types, results are ones the scoring knows, a pass rests on the latest answer |
| `device_detection` | 2 devices with any of 10 platforms each, SNMP enabled and available or not, every answer in both orders | no missing platform gets past the detection, each device's own answer decides |

Bounds.  Three devices for two permits is the least instance where a coroutine
waits for a permit and takes it over; two tasks on one device exercise the
order.  The jobs cover an empty one, groups that stop and that go on, an unknown group
type, an unconfigured group, groups worth nothing, rescue and cleanup of length
one and two, interleaved groups.  Two jobs are the least that can leave state
to one another, and a task of the second names a device only the first
registered.  In `connections` either handling may also be stale while the other
runs.  `MaxInstances` limits Nornir objects and directories: three are the
directory of a failed creation, an instance that a thread still uses after a
cleanup, and the one the next task gets.  One hourly cleanup may fall on any
step of either job, and every end of a handling is another.  One loss
and one crash give three channels, so that handlers of two generations can
coexist and a job can be redelivered twice; two attempts make a first and a last
one (the configured default is three), and two faults are enough to lose a
result.  Two jobs give both an overlapping load and a second load after a
rejected first one; two versions let an object change between its listing, its
download and the other load.  Three requests for two threads let two timed-out
tests hold every thread while the third owns the lock or waits for it.  In
`custom_task` numbers in texts have one digit; the templates combine every
condition with every type of value, a register written twice, placeholders that
resolve, are None or are unknown, and parsing what failed.

Nobody who calls `cleanup_all` or `clear_job_state` asks who else is at work: not
the hourly cleanup, not the consumer's `finally` after a cancellation, not the
handler of a lost delivery.  A command may lose its connection to any of them,
and a thread that was queued then opens one on an instance nobody will close.
`NothingLeaks`, `CommandKeepsConnection` and `ConnectionsOwned` therefore except
the device (or the command) whose task such a cleanup struck, and only that one;
without the exception each is violated.  `SharedCoversJob` has the exact inventory
for a job that met no other, and for the rest that no device of a finished job is
in it.  `DirectoriesTracked` needs no exception but `lost`: a directory whose
instance could not be created has no owner in the code either.  `OwnJobState`
and `OneAtATime` say what holds as long as no connection was lost; what a
stale handler does to the devices of the next job is part of `ConnectionManager`.
`SuccessIsComplete` is about payloads that declare groups: when none is declared,
tasks that name one are accepted and never run (`simple_grading_service.py:742`,
where the template guide, 431, has "Ensures all referenced groups exist").

Fairness.  `JobExecution`: weak fairness of the main coroutine and of each
device's coroutine, because the event loop runs every ready coroutine and each
command has a read timeout.  `QueueConsumer`: weak fairness of starting,
reconnecting, each delivery and each handler; the broker hands out what it can,
`connect_robust` keeps trying, and grading ends by the run above.
`TemplateRegistry`: weak fairness of each handler, a call of MinIO returns or
raises.  `TemplateTest`: weak fairness of each handler, of threads taking up work
and of threads ending; not of each piece of work, since nothing orders them for
the property to rely on.  `CustomTask` and `DeviceDetection` have no liveness:
a sequence of commands and a gather, each as long as its input.  Losses,
crashes, shutdown, faults and `Send` have no fairness.  `EventuallySettled`
exempts a worker that stopped or whose consumer task died, which is what
`listening` shows can happen.  Deadlock is checked in all runs; the only
states without a real successor are ends, which `Over`, `AllDone`, `Done` and
`Quiet` name.

Runs in which the code departs from what the repository says of it:

| Run | Statement | What happens |
|---|---|---|
| `requeue` | "The message will be requeued automatically due to exception" (`queue_consumer.py:132`) | `initialize` raises, the message is rejected with `requeue=False` and the job is discarded |
| `listening` | "continuously listens to the RabbitMQ queue and picks up grading jobs as they arrive" (`queue_consumer.py:22`) | the first `connect` raises, the consumer task ends, the application stays up and no job is picked up |
| `cascade` | "Task failures don't cascade to other tasks" (implementation guide, 977) | a command raises, the shared Nornir instance keeps the host in `failed_hosts`, the device's next task is refused |
| `rescue` | "Tasks to run when group fails" (`models.py:68`; also `simple_grading_service.py:638` and the implementation guide, 231 and 644) | a group with `continue_on_failure`, the default, fails, and the job goes on without its rescue tasks; `CleanupBeforeNext` says when they do run |
| `given_platform` | "Only runs when `device.platform` is undefined" (implementation guide, 91) | one device lacks a platform, all are detected, and a device given as `cisco_ios_telnet` is registered as `cisco_router` |

`requeue` has a second reading.  The template guide (412) says "`STRICT_MODE=true`
causes startup failure if any template fails validation", and
`custom_task_registry.py:120` "raise on any template load failure during startup".
Nothing is loaded at startup: the first job loads, and in strict mode a template
that fails makes its `initialize` raise.  The application stays up and job after
job is discarded, which is the trace of `requeue`.  A listing that fails raises in
neither mode: the registry then stays empty, and custom tasks run as pings
(`ListFails`, the first reason `PingHasReason` admits).

Other disagreements met while modelling, which no property hides:

- `custom_task_executor.py:412` tests `> 0.5` under the comment "At least half
  commands succeeded".  `ResultIsOutcome` says nothing of a task of which exactly
  half succeeded; its mutant rounds the half of an odd number down.
- `custom_task_executor.py:209` says "Convert both to strings for numeric
  comparison"; line 210 converts the actual number only, so `value: 1` never equals
  a `match_count` of 1.  `Equals` has the code's meaning.
- `custom_yaml_template_guide.md:179` says that the commands of a template share "a
  single isolated connection"; the application asks for the shared session, which
  all tasks of a job on the device use.

## 4. Proofs

Every invariant and action property that a passing run checks is also a theorem,
for every value of the constants that satisfies the assumptions; so is the
refinement.  What the runs check alone is liveness.

In each proof module `IInv` (`RInv` and `AInv` in `JobResultsProofs`) is an
inductive invariant; `InitInv` says that it holds at first, one lemma per action
that the action preserves it, `NextInv` combines these by the disjuncts of
`Next`, and `Inductive` is `Spec => []IInv`.  The theorems follow from it.

| Module | Theorems, of the property in parentheses |
|---|---|
| `JobExecutionProofs` | `TypeCorrect` (`TypeOK`), `DeviceExclusion` (`DeviceExclusive`), `ParallelBounded` (`ParallelBound`), `UniqueSlots` (`SlotsUnique`) |
| `JobResultsProofs` | `OrderOnDevice` (`SameDeviceOrder`), `BatchesAreBarriers` (`BatchBarrier`), `CleanupFirst` (`CleanupBeforeNext`), `VerdictsFollow` (`GroupVerdict`), `BooksBalance` (`Accounting`), `Implementation` (`RefinesContract`) |
| `QueueConsumerProofs` | `TypeCorrect`, `NothingLost` (`NoMessageLost`), `AcknowledgedAfterReport` (`AckedMeansReported`), `RepetitionBounded` (`BoundedRegrading`), `HandlersBounded` (`OneAtATime`), `JobStateOwned` (`OwnJobState`) |
| `ConnectionManagerProofs` | `TypeCorrect`, `NothingLeaksBetweenJobs` (`NothingLeaks`), `CommandsKeepConnections` (`CommandKeepsConnection`), `SharedKnowsTheJob` (`SharedCoversJob`), `EveryConnectionOwned` (`ConnectionsOwned`), `EveryDirectoryTracked` (`DirectoriesTracked`) |
| `TemplateRegistryProofs` | `TypeCorrect`, `OnlyValidServed` (`OnlyValidTemplates`), `PingsHaveReasons` (`PingHasReason`), `HealthyComplete` (`HealthyIsComplete`), `ServedStays` (`TemplatesStay`, an action property) |
| `TemplateTestProofs` | `TypeCorrect`, `DevicesKeptApart` (`OnlyOrphansIntrude`), `NothingLeftBehind` (`OnlyTimeoutsLeak`), `SuccessGradedAll` (`SuccessIsComplete`) |
| `CustomTaskProofs` | `TypeCorrect`, `ResultsFitScoring` (`ResultIsOutcome`), `PassOnLatestAnswer` (`PassRestsOnLatest`) |
| `DeviceDetectionProofs` | `TypeCorrect`, `OwnAnswersDecide` (`OwnAnswerDecides`) |

Assumptions.  Each is named in the module that declares the constants and
evaluated by TLC in the runs.  Most are types.  The others: devices of a job are
finitely many; `MaxParallel`, `MaxRetries`, `MaxVersions` and `Threads` are at
least 1 (`core/config.py` sees to that for the first and has 3 for the second,
though it does not refuse a `MAX_RETRIES` of 0, which would post nothing; an
object that exists has a version, an executor has a thread); the devices of a
detection are distinct,
since the dictionary of answers is keyed by their ids; the absent group, job and
platform are none of the real ones; and, because points are floats in the code
and integers here, a task's points are divisible by the number of commands of a
template without rules.

`JobExecution`.  Nothing in `DeviceExclusive` forbids a state where a coroutine
is about to start a command on a device that already has one.  `IInv` adds what
the code relies on:

- `Control`: where the job stands, and that a rescue or cleanup phase has a
  configured group and a task left;
- `Workers`: a coroutine at work has a task, and those it still has are of its
  batch and device;
- `Commands`: the commands in flight are exactly those some coroutine waits for,
  except after an abort, when there is still at most one per device;
- `Permits`: in a batch, permits and their holders add up to `MaxParallel`.
  With `Commands` this gives `ParallelBound`;
- `Slots`: slots given out are below `task_index`, distinct, as many as
  `task_index`, and no task yet to run has one.  A claim therefore takes a
  fresh number, and since only tasks claim, the number is below their count.

`RInv` of `JobResultsProofs` adds what is known of results.  `BatchProgress`:
every task of the batch is to come, in work, or has its one result.
`Gathering`: which batches are gathered at each position.  `Verdicts`: which
groups are scored, and that the job is cancelled just when one of them stops
it.  `Aftermath`: only the group just scored may lack its rescue or cleanup.
`StepMaps` is the refinement: `GatherUngrouped` grades the ungrouped tasks, or
stutters when there are none; `GatherGroup` grades the next group; `Report`
returns; `Abort` aborts; every other step leaves what the contract sees.

`Accounting` speaks of sums.  `AInv` adds `Payable`, that results and groups
earn no more than they are worth.  `MapThenSumSet` is a fold whose choice of
order the prover cannot follow, so the lemmas `Total...` show that it equals a
table over all subsets of a finite set that adds one member at a time, that the
table is the same in whatever order members are added, and so that a sum grows
by what its set gains.  The induction is by a smallest counterexample among the
finite subsets (`SmallestSubset`, from the well-foundedness of the naturals),
since the induction theorems of the library take an operator.

`QueueConsumer`.  `Handlers`: one message is out, and a handler works alone on a
channel of the current process.  `Progress`: how far a handler is says what has
happened to its job.  Bounded repetition is a matter of counting: `Gradings`
adds to the gradings of a message the handlers that have yet to grade it and
one more while the broker may hand it out; the sum never exceeds the number of
channels.  `Posts` does the same with the attempts left to its handlers.

`ConnectionManager`.  `JobState` says whose devices are registered,
`SharedInstance` what the shared instance knows, `TasksHaveContext` and
`ConnectionsCovered` that a kept context answers for each task at work and for
each connection.  Only the last two except what was struck: directories,
devices and the shared inventory need no such exception.

`TemplateRegistry`.  `LoadOf` says that the objects a load is done with are
served or recorded as failed, `EndOf` the same of a job that got past its load,
`Versions` that nothing is served in a version the object never had, and
`Initializer` that an initialized registry was initialized by a load whose
listing failed or that is over, which is what a fallback to a ping rests on.

`TemplateTest`.  `LockInv`: who grades owns the lock.  `PhaseInv`: what work can
exist in which phase, and what outlives a timeout.  `DeviceInv`: one task per
test and device.  `GradingInv`: while a test grades no task is forgotten.
`Fresh`: before its first task a test has no connection, so that an exception
there leaves none.

`CustomTask`.  `Latest`: a register has what the latest command bearing its name
returned, which is an error text when that command failed.  `AllHold`: the rules
of a task that passed hold on what the registers have.  `Scored`: the result is
the code's own for every share of commands, exactly half included.

`DeviceDetection`.  Each device answers at most once, each answer has its
evidence, and no platform is replaced before all are registered.

Proving corrected the models in three places.  Some `CASE`s of `DeviceDetection`
and `CustomTask` had arms that overlap, of which TLA+ may choose either where
the code takes the first; they are disjoint now.  A parse of something that is no
text raised a text of its own; it raises any.  And `PassRestsOnLatest` listed
conditions for which it held with the texts of its run; it now asks what it
depends on, that the rule would accept neither an error text nor the lack of a
value, and holds for any texts and patterns.

Model-checked only: `Terminates`, `EventuallySettled`, `JobsEnd`,
`EveryRequestAnswered` and the violated `PicksUpJobs`, which rest on fairness
and `ENABLED`, out of the prover's reach; and the other violated statements,
which are false.

## 5. Not modelled

- Text: inventory files, prompts, formatting of messages, classification of
  exceptions, IPv6 addresses (parsed by the standard library).  `Outcomes` stands
  for what comes out of it.
- Comparison of values (`_compare_values`) and the score of test cases: pure
  functions of one task's output, which `Outcomes` leaves open.
- Custom tasks: the textfsm and jinja parsers (a library decides), `register_as`
  with the raw output, debug output.  `netmiko_send_config` has a branch in the
  executor, but every validation refuses it, as the model does.
- The ping a custom task issues is a command that answers or raises in
  `CustomTask`; that it opens a second context for the same device while the
  first is held is not part of `ConnectionManager`.
- Detection: vendor, model and version, which nothing reads; the time the
  blocking SSH login takes, for want of clocks.
- Bodies of progress updates.  The last one always says "completed" and its
  count is of tasks started, neither of which another part reads.
- The MinIO service is a client created without suspending, around calls of a
  library, which return or raise in `TemplateRegistry`.
- The isolated and stateful modes of `get_connection`, which no caller asks for.
- Rescue and cleanup tasks of groups in `TemplateTest`; `JobExecution` has them.
- `close_stateful_connection`, `reload_templates`, `test_connectivity`,
  `get_parameter_info`, `BatfishAPI` and the snapshot collector have no caller;
  `TaskGroup.timeout_seconds` and the configured connection timeout are never
  read.
- `publish_job` connecting beside `start_consuming`: the connection that is
  forgotten consumes nothing.
- A template test and a job of the queue on the same device: they share nothing
  but the device, and nothing in the code keeps or promises to keep them apart.

## 6. Plan

Written, in this order: `GradingJobs`, `JobExecution`, `GradingContract`,
`ConnectionManager`, `QueueConsumer`, `JobExecutionProofs`, `TemplateRegistry`,
`ResultDelivery`, `TemplateTest`, `CustomTask`, `DeviceDetection`.

Proved, each in a module of its own: first `JobExecution` (types, devices,
permits, progress numbers), then `QueueConsumer`, `ConnectionManager`,
`TemplateTest`, the results of `JobExecution` with the refinement and the
accounts, `TemplateRegistry`, `DeviceDetection`, `CustomTask`.

To prove more: that `GradingContract` by itself ends jobs only when they are
graded or stopped, and from it, through the refinement, the same of
`JobExecution`.

To extend the model: `Worker`, the consumer, the grading service and the
connection manager composed in one module (`ConnectionManager` has handlings that
meet, without the broker); the comparison of values as operators against a reference definition.
