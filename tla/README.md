# Verification of queuebert-js

TLA+ models of [queuebert-js](../src/README.md): what its background machinery does to queues,
caches and workers when Redis commands fail, operators press buttons in any order, timers fire late
and processes die. TLC checks the models on small instances, TLAPS proves the central invariants for
every instance.

    tlc -config MigrationSingle.cfg MCMigration.tla      # one run
    tlc -config QueueAdmin.cfg MCQueueAdmin.tla          # another
    tlapm MigrationProofs.tla                            # the proofs of one module

Paths below are relative to `src/packages/`. `service` is `nest/src/lib/queuebert.service.ts`,
`controller` is `nest/src/lib/queuebert.controller.ts`, `processor` is
`bullmq/src/lib/base-queue-processor.ts`.

## 1. The system

Queuebert is a set of NestJS packages around BullMQ. `nest` exposes queues over HTTP: statistics,
pause, resume, clean, drain, and the migration of jobs and caches from one queue or Redis to
another. `bullmq` wraps queues and workers with statistics and recovery, `otel` keeps metrics.
Everything runs in one Node.js event loop per process, so that code between two `await`s is atomic;
Redis is shared by any number of processes and by the BullMQ workers.

| Component (code) | State it keeps | Operations | Talks to | Hard, and what makes it correct | Here |
|---|---|---|---|---|---|
| Queue migrations (service 1318-1441, 1458-2328) | `activeMigrations`: status, abort signal, pause flag, resolver; in Redis the lease key, the pause flags and the jobs | start / execute, cancel, pause, resume, shutdown, expiry of the lease | BullMQ queues on one or two Redis; workers take jobs of the same queues, applications add some | not transactional across queues: every job is added, then removed. No job lost, none run twice, one mover per source, flags restored | `Migration`, `SafeMigration`, `JobHandoff` |
| Cache migrations (service 180-212, 2331-2886) | `activeCacheMigrations`, the SCAN cursor, the batch in hand | start, cancel, pause, resume, shutdown | SCAN, MGET, PTTL on one Redis, SET on the other; applications write meanwhile | SCAN repeats and returns more than COUNT, the list of errors is bounded. Every steady key is copied, listed or counted | `CacheMigration` |
| Worker recovery and heartbeat (processor) | attempts, timer, shutdown flag, throughput window, `statsLogInProgress` | `closed`/`ready` events, timer, `run()`, heartbeat, destroy | the BullMQ worker and its Redis client | calls of `run()` overlap with timers, events and the shutdown, and may resolve without having started the worker. Nothing but such a call, or a missing worker, ends a recovery silently | `QueueProcessor` |
| Queue controls (service 950-1134) | pause flag and pause-reason key in Redis | pause, resume, pause all, clean, drain | BullMQ; the migrations, which pause and restore the same flag | two commands per call, bulk calls that fail in part, crossed calls, the restore of a migration. An answered control holds | `QueueAdmin`; the flag also in `Migration` |
| Statistics, rates, performance (service 214-950) | `rateSamples` | statistics of one or all queues, metrics | BullMQ counts, processor statistics, adapter | overlapping requests replace each other's sample. Rates add up within their rounding, verdicts agree with the counts | `QueueAdmin`, `QueueRates` |
| Controller (`nest/.../queuebert.controller.ts`) | the queues it was given, the temporary ones it opened | HTTP handlers | service, provider | every failing path closes the temporary queues and nothing else; the right instance is used | `QueueAdmin`, `QueueConfig` |
| Module, queue provider (`nest/.../queuebert.module.ts`) | the map of queues, the ones it owns | validation, resolution, shutdown | container, BullMQ | owned queues are closed at the shutdown, injected and given ones never | `QueueAdmin`, `QueueConfig` |
| `QueuebertWorker`, `QueuebertQueue`, `QueuebertBullMQService`, global statistics | running/paused flags, active jobs; maps of queues, workers and statistics | create, close, pause, resume, destroy; the wrapped processor | BullMQ, collectors, listeners | flags beside the ones of BullMQ, maps changed across awaits. Statistics are registered while a worker lives, the shutdown closes all | `Workers` |
| Statistics collectors (`bullmq/.../stats-collector.ts`) | bounded samples, unbounded totals, names | record, window, prune, percentiles | workers | every job counted once, the window exact | `JobStats`, `Workers` |
| Processor adapter (`bullmq/.../queuebert-processor-adapter.ts`) | the context of its queue | context, statistics | service | its verdict is as old as its context | `QueueAdmin`, `QueueRates` |
| OpenTelemetry registry (`otel/.../metrics-collector.ts`) | counters, buckets, recent jobs, names, by queue | record, push, clear, snapshot | listeners, service | pushes overwrite counters; bound on names; verdicts derived from buckets | `JobStats`, `Workers` |
| Integration registry, OpenTelemetry instrumentation, types, errors, build scripts | | | | declarations, wiring, tooling | not modelled |

`PROJECT.json` lists every hazard of this code with its line and the properties that cover it.

## 2. How the models read the code

* A Redis command, a timer or a promise is an `await`. A run's `pc` names the await it is suspended
  at; an action takes the run from one await to the next: the command takes effect, its answer
  arrives, the code runs on. Everything else interleaves between two actions.
* In `Migration` a command's outcome is `ok`, `rejected` (not applied) or `lost` (applied, but its
  promise rejects). The constant `Faults` says which may occur and `MaxFaults` how many do in a
  behaviour; a crash leaves Redis as it is, and a pause already sent may still be applied
  (`PauseLands`).
* BullMQ, Redis and ioredis are modelled from how the code uses them: `Fetch`, `Complete`,
  `Promote`, `Removed`, `SourceChanges`, `WorkerStops`, `RunStarts` and a few more are marked
  external in the map. MGET of a cache batch is one command and each PTTL another.
* Definitions commented "Seeded bug" are never part of a specification. Each is the form a plausible
  mistake would give the definition next to it, and is kept to show that the property it is listed
  with can fail.

### Migration.tla

A job has the queue and state it begins with (`Home`, `First`; `absent` if an application adds it
later) and the id BullMQ gave it (`Id`), which is unique within a queue only: ids are counters of
each queue. `Held` is what `getJob` finds under an id, and an add under an id that is taken is
ignored.

Both entry points, `executeMigration` and `startMigration` (the constant `Background`), share one
structure: take the lease of the source (`Acquire`), read both pause flags, pause both queues at
once (`ReadPaused`, `IssuePauses`, `PauseLands`, `PauseRejected`, `BothPaused`), refuse active jobs
(`CountActive`, `UndoTarget`, `UndoSource`), walk the states and their jobs (`NextState`,
`ListJobs`, `NextJob`, `Park`, `SleepOver`), transfer a job (`Refresh`, `GetSource`, `GetTarget`,
`Add`, `Remove`, `Rollback`), and leave through the `finally` block (`RestoreTarget`,
`RestoreSource`, `Release`). Around it: `Cancel`, `Pause`, `Resume`, `Destroy` (shutdown),
`LeaseExpires`, `Crash`, BullMQ's workers and delayed jobs, the applications that add jobs meanwhile
(`Produce`), and the operator's pause switch. `copy[q][j]` is the BullMQ state of job j in queue q,
`was` what the run found the flags to be, `guard` whether there is something to restore,
`intervention` whether the queues have to stay paused for an inspection.

`SafeMigration.tla` adds the four conditions and the invariant of the proof, and `JobHandoff.tla` is
the abstract specification: once submitted a job is in one place, or in two while it is handed over,
and reaches a worker only from one place and only once. `HandsOver` says that a migration implements
it, under the mapping of `copy` to the set of queues that have a copy.

### CacheMigration.tla

`scanKeyBatches` is `Scan`, `NextScan`, `NextBatch`: SCAN may return any keys, again or not, and
owes those that were there all the time by the end of the cursor (`unseen`). The loop's body is
`Top`, `ReadValues`, `ReadTtl`, `AllRead`, `WriteKey`, `EndBatch`, `SleepOver`. A page is a set: two
equal keys within one answer of SCAN are one. `status.errors` takes `MaxErrors` errors (100 in the
code); the keys of later ones are only counted (`failed`), and the history variable `unlisted` names
them. Lifetimes are reduced to "the key exists"; `live` is the set of keys whose PTTL was not -2.
`limit: 0` does not reach the code (the controller rejects it), and 0 stands for an absent limit.
`totalMigrated` and the progress figures are left out.

### QueueProcessor.tla

`armed` counts the timeouts the event loop holds, `timer` says whether the field names one; they
differ if one is forgotten. A call of `worker.run()` counts as `starting` until it starts the worker
and as one of `runs` until its promise settles, which may be long after the worker stopped again. It
may also resolve without having started anything, as BullMQ's does while the worker is closing or
paused: the code takes it for a restart (processor:549-551, `RunReturnsIdle`). With
`WorkerMayBeMissing` the timer may find no worker, and nobody tries again (537-540). `letGo` records
that an attempt ended in one of these two ways. A heartbeat that throws after it logged its
throughput (`LogThrows`) leaves the window as it is, because the reset comes last (640-645, catch
656-658); `again` counts what such heartbeats reported. The model begins at the end of
`onModuleInit`. The delay of the timer, the connection status and the duration samples are left out.

### JobStats.tla and Workers.tla

`JobStats` has the two collectors as values and operators: the bounded sample buffer with its totals
and the windows (`Record`, `Prune`, `getWindowSamples`, `calculatePercentile`), and the registry's
cumulative buckets, recent jobs and verdicts (`recordMetrics`, `assignCounts`, `Rate`,
`calculateHealth`, `calculateTrend`, `calculatePerformanceScore`). The array of samples is a
function from the number of a job to its sample, so that `slice` and `filter` restrict it, and a
percentile is the value at its rank whatever the order. A job name beyond the bound is recorded as
`Other` (`Label`, `Tracked`).

`Workers` composes `QueuebertBullMQService`, its `QueuebertQueue`s and `QueuebertWorker`s, the
wrapped processor and the collectors. A handle is one object; creating a second one under the same
name needs the first to be gone from the map. `close()` of a handle is one promise that all callers
share (`Closing`, `CloseSettles`, `CloseFails`), and the callers that wait for it (`awaited`) go on
to forget the name, also when the handle was closed already by the shutdown (`NameForgotten`). A
`maxSamples` of 0 keeps every sample, as `slice(-0)` does. A rejected close keeps the name, whose
statistics are unregistered by then. BullMQ's `pause` waits for active jobs unless the worker is
paused already or `doNotWaitActive` is set. The shutdown (`onModuleDestroy`, `WorkersSettled`,
`QueuesSettled`) does not keep anybody from creating: `inTime` marks the handles it can know of. A
job goes through `TakeJob`, `ProcessorCalled`, `Finish` and `ListenersSettled`; `history` has the
jobs of each worker in the order in which they finished, and `cleared` how many of them a `clear` of
the registry has forgotten. The registry is fed by the listener an application installs; a queue
that is absent from it and one without metrics are the same. The prune timer may fire at any time
while it lives. Handles close through the service only, and `on`/`off` of listeners are left out.

### QueueConfig.tla, QueueRates.tla and QueueAdmin.tla

`QueueConfig` is what the parts derive from the options: validation (endpoints, empty and repeated
names and ids), where the provider takes a queue from (`Origin`), the instance it is on, for the
service (`getRedisInstanceId`) and for the controller (`LookupId`), and what a request by name and
instance is given. `QueueRates` is the arithmetic of the rates and of the performance figures.

`QueueAdmin` composes them with the module, the controller's requests and the service. A request is
answered at once (`Refuse`) or walks through its awaits: the counts before, the command, the counts
after for statistics, clean and drain (`AskCounts`, `ReadCount`, `Sample`, `discoverJobTypes`,
`Act`); the commands and then the reasons of a control of one or of all queues, all in flight at
once (`AskControl`, `Command`, `SetReason`, `ControlFails`); the lookup, work and closing of a
migration request (`AskMigration`, `AskCache`, `WorkEnds`, `Closes`, `CloseRejects`). A migration of
jobs pauses both of its queues and gives them back, on the very flag the controls use
(service:1318-1392, 1458-2328): it takes the lease (`NoLease` when it is refused), asks both flags
(`pauseQueuesForMigration`, `IsPaused`), pauses both (`Pause`), refuses active jobs (`CountActive`),
moves (`MoveJob`, `MoveEnds`) and restores or fails (`Restore`, `RunFails`). `hold` says what a
migration has under way to each flag. How the jobs are moved one by one is in `Migration` and how
keys are copied in `CacheMigration`. The statistics of one queue end with the memory of its Redis,
which may fail (`ReadMemory`, with `includeRedisStats`). The provider and the service have a
shutdown hook each: the one closes the owned queues (`CloseOwned`, `ProviderDestroyed`), the other
waits for the migrations it found (`ServiceDestroyed`). The two lookups of a migration have no await
in between, so they are one step. Jobs arrive, are taken, counted and completed; a processor handles
all the jobs of its queue. Requests may come during the shutdown. Failed and delayed counts, which
are read and reported like the others, are left out.

## 3. What is checked

Every property of a passing run has a seeded bug that violates it in that run.

| Run | Instance | What it shows |
|---|---|---|
| `migration_single` | 1 background run with fairness, 3 jobs (waiting, delayed, an unsupported failed one), batches of 1, any command but add and remove lost or any command rejected, 2 faults, a crash, room for 1 error, an operator on the target, a lease that may run out while the run is parked, every control at every point | `TypeOK`; `CleanExitRestores`: a clean exit gives back as found the queues operators keep away from; `ReportMatchesQueues`: jobs counted as migrated moved, jobs reported with an error stayed; `ParkedCanBeResumed`, `CancelTerminates`, `RunSettles`, `TerminalIsFinal`: no wake-up is lost, runs end, final statuses stay |
| `migration_retry` | a background and a synchronous run over the same pair; a waiting, a delayed and a failed job, a failed one the filter excludes, and a job the target has of its own under the id of the third; limit 1, 2 failing removals or rollbacks, both may crash | `PausedWhileMoving`, `DuplicatesStayPaused`: a job that is in two queues is in paused ones; `LimitRespected`; `SafeInv`; `HandsOver` |
| `migration_expiry` | 3 runs over 3 queues, one of them parked longer than its lease, a job an application adds at any time, a failing add, removal or rollback | `NoJobLost`, `OneMoverPerSource`: the refresh before each job stops the run that lost its lease |
| `cache_migration` | 3 keys, one written by applications, pages of any keys, 2 SCANs, batches of 2, limit absent or 2, 2 faults, room for 1 error, with fairness | `TypeOK`, `CompletedCopiesAll`, `LimitRespected`, `ParkedCanBeResumed`, `NoReadAfterCancel`, `CancelTerminates` |
| `queue_processor` | 3 stops, 2 attempts, 1 `ready`, 1 restart by hand, 2 completions, 1 heartbeat that throws, a worker that may be missing, with fairness | `TypeOK`, `OneTimer`, `QuietAfterShutdown`, `PursuedOrReported`, `NothingReportedTwice`, `RecoverySettles` |
| `workers` | five budgets: 3 jobs of one worker over 4 ticks; 2 jobs with pushes and clears; 1 worker with a job, paused, resumed, closed; a second object beside it; 3 objects around the shutdown | `StatsAreLive`: statistics are registered exactly while a worker is open under its name, and one worker at a time consumes a queue; `ShutdownClosesAll`; `JobsCountedOnce`: totals, totals by name and buckets; `WindowsExact`: buffer, window, durations and throughput against the jobs that finished; `SnapshotSound`: percentiles and verdicts |
| `queue_admin` | twenty-two scenarios of options and requests: up to 3 requests at once over up to 3 queues on 1 to 3 instances, migrations that hold the queues operators control, failing commands, shutdown, 2 jobs, 2 ticks of which 75 make a minute, so that rates are rounded | `TemporariesClosed`, `OnlyOwnClosed`: which queues are closed; `RightInstance`; `RatesAddUp`: what the rounded rates amount to against the completions counted; `ControlsHold`; `PerformanceAgrees` |

Five runs end in a counterexample; they are findings about the code:

* `migration_shared_target`. The lease names the source only (service:1323). Two runs into one
  target overlap, the second finds the target paused by the first, and the first resumes it at its
  end (service:1386) while the second still adds jobs. `nest/README.md:216-218` promises that both
  queues are paused during a migration.
* `migration_lost_reply`. `job.remove()` is applied, its reply is lost, and the rollback
  (service:1431) deletes the copy in the target: the job is gone. `nest/CHANGELOG.md:6` calls the
  migrations fail-safe.
* `migration_colliding_ids`. Ids are counters of each queue, so two sources have equal ones. Two
  fault-free runs from different sources into one target, under leases of their own, are both told
  that the id is free (service:1412-1415); BullMQ ignores the second add (1428), and the second job
  is removed from its source all the same (1430): it is nowhere. Against the same line of the
  changelog.
* `processor_idle_restart`. A `run()` that resolves without having started the worker is logged as a
  restart and resets the attempts (processor:549-551): the worker stays closed, no timer is armed,
  nothing is reported. The class promises "automatic recovery on unexpected close" (processor:52);
  the test of the restart (`bullmq/src/lib/base-queue-processor.spec.ts:267-294`) has `isRunning()`
  answer false throughout.
* `listed_queues`. With the options of the documented example, where the first queue does not name
  its instance, the listing puts it on the first instance (service), and the lookup of the same name
  on that instance ends in a 404 (controller:479), because the controller takes an entry without an
  instance to be on the one called `default`.

**Bounds.** Two runs are needed for anything that concerns the lease or retries, three for an
expired lease and a chain. Two jobs separate "the job in hand" from "another one"; the three of
`migration_single` are one for each state, the last of which is refused, and the five of
`migration_retry` add one the filter skips and one that holds an id in the target. One fault is
enough for each single error path; two give a failed rollback after a failed removal. In the cache,
three keys and batches of two leave a remainder on a page; two SCANs allow a repetition; two faults
against room for one error leave one that is only counted. Three stops with two attempts reach the
exhaustion. `Workers` and `QueueAdmin` bound each behaviour by a budget or a scenario chosen in the
initial state, so that each hazard gets the room it needs without the product of all: two handles
under one name for a worker that is replaced while it closes, a third for a queue beside them; three
samples against a buffer of two and a second name against a bound of one, for what falls out; three
overlapping statistics requests, so that one sample is replaced twice; opposite controls of one
queue and of all; two queues of which only one command fails; an operator's controls before, during
and after one migration and beside two that share a queue. Bounded in the other modules are only the
counts of faults, SCANs, stops, `ready` events, restarts by hand, completions and heartbeats that
throw, each by a constant of that name. `CHECK_DEADLOCK FALSE` is set because runs end and
processors shut down.

**Restrictions of single properties and runs.** In the following cases the code does not keep the
property.

* `migration_retry` leaves out expiry and a lost answer of `add`: with them a job can be left in two
  queues that are both resumed, as the hazards say, so `DuplicatesStayPaused` and `HandsOver` are
  about rejections and crashes only. It also has no operator who resumes a queue under a running
  migration.
* The properties about lost jobs are checked, and proved, for jobs whose ids do not collide on the
  way in (`DistinctArrivals`, section 4); `migration_colliding_ids` is what happens otherwise.
* `CleanExitRestores` speaks of queues operators keep away from: "as found" has no meaning for the
  others.
* `ReportMatchesQueues` is checked with waiting jobs listed before delayed ones: the other way
  round, a delayed job that could not be moved, fell due and was then moved as a waiting one is
  reported as an error and as migrated.
* `ControlsHold` leaves out controls that cross an opposite one, or a migration that has its hand on
  the flag, on the same queue. Of migrations that come later it says that they never resume a paused
  queue, and pause a resumed one only while they hold it; after one that fails, or leaves its queues
  paused for an inspection, no control of these queues is taken to hold.
* `CompletedCopiesAll` speaks of keys nobody wrote, and counts those whose error found the list
  full.
* `PursuedOrReported` and `RecoverySettles` exempt the two ways in which the code lets go of a
  worker, and `NothingReportedTwice` what a heartbeat logged before it threw.
* `StatsAreLive` leaves out the paused flag after a resume that overtook a pause,
  `PerformanceAgrees` the verdicts an adapter provides and a `sampleSize` of 0, and `RightInstance`
  for queues the options whose default instance is not the first.

**Fairness.** `FairSpec` of `Migration` makes each started run take its next step as long as it has
one, which is what ioredis (every command is answered or rejected) and the event loop give. The
expiry of a lease is not fair: nothing checked here waits for it. A parked run has no step: nobody
is obliged to resume it, and `RunSettles` lists `parked` as an end. `CacheMigration` is the same.
`QueueProcessor` assumes that timers fire, that BullMQ emits the `closed` event of a worker that
stopped, and that a call of `run()` starts the worker, returns without doing so, or rejects; a call
that started the worker may never settle. Starting, steering, stopping and crashing are never fair.
`Workers` and `QueueAdmin` state safety only.

**Observations.** Things the models make visible and that no statement of the repository rules out,
so that no run lists them as findings:

* a resume that overtakes a pause in flight leaves `isPaused` set on a running worker, until the
  next call (`bullmq/.../queuebert-worker.ts:166`); crossed pauses and resumes of a queue can leave
  a pause reason on a running one (service:1040);
* an operator who pauses a queue that a migration holds paused is answered, and the restore of the
  migration resumes it nevertheless, with the reason left set (service:1389);
* completions between the heartbeat's read of its window and the reset, with Redis awaited in
  between, are in no heartbeat's throughput (processor:645); those of a heartbeat that throws in
  between are in the next one too (640);
* a cache migration with more than 100 errors does not say which keys it could not copy
  (service:2618);
* with `sampleSize` 0 the types of jobs are read from the whole queue (service:492), and with
  `maxSamples` 0 the window of samples is bounded by the prune timer only;
* a `closeWorker` that is still waiting when the shutdown has closed its handle deletes the name,
  whatever was created under it meanwhile (`bullmq/.../queuebert-bullmq.service.ts:208`);
* handles created after the shutdown read its map are cleared from it, not closed; owned queues of a
  module whose initialisation throws stay open;
* the temporary queue of the target stays open when the close of the source's rejects
  (controller:549);
* what `drain` reports as removed is the difference of two counts, between which jobs come and go;
* counts pushed to the registry overwrite the ones it kept itself, and rates are lost when two
  samples fall on one tick, or when `clean` removes what a queue without a processor is measured by;
  such a queue also counts completions twice when requests overlap;
* without a context an adapter calls a queue with a backlog idle and excellent, and that verdict
  replaces the service's own;
* of two processors with one cache, the listing shows the last and a request is given the first;
* a queue is listed under its statistics key and looked up by its queue name;
* a target that is the first instance, named by its id, is not recognised as the registered queue
  without an instance, so that a temporary queue on the very same queue passes the check for
  distinct queues;
* the comment at service:268 has the samples in Redis; they are in the process (603-606).

## 4. What is proved

All theorems hold for every value of the constants under the named assumptions of the modules, which
TLC evaluates in the runs. Most say of which kind a constant is. These say more than the code
ensures, or name a limit of the model, and a theorem holds no further than they do:

* `RunsAssumption` and `JobsAssumption`: a run has two different queues (the service refuses
  others), and no two jobs a queue has to begin with share an id (BullMQ).
* `DistinctArrivals` (`SafeMigration`): no two jobs that come into a queue, moved by runs or added
  by applications while the migrations are under way, have the same id. **The code does not ensure
  this, and the default ids of BullMQ, counters of each queue, do not either.** It is true of any
  runs over one pair of queues whose target nobody adds to, and of ids that applications choose to
  be unique. Jobs that a target has from the beginning may have any ids: the check of
  service:1412-1415 is for these. Without the assumption `migration_colliding_ids` loses a job.
* `PromptTransfers`, `NoChains`, `HonestRemoval` (`SafeMigration`): the transfer of one job is over
  within the TTL of the lease refreshed just before it; no queue is the source of one run and the
  target of another; a removal reported as failed did not happen. The last cannot be dropped either:
  `migration_lost_reply` is the counterexample. `NoChains` is a condition of the proof;
  `migration_expiry` checks `NoJobLost` with a chain.
* `AdminAssumption`: the queues of the options are a sequence, a given or injected queue is on the
  instance the options say (nothing checks what an application injects), and neither `statsKey` nor
  `redis` is the empty string.
* Thresholds, sample sizes, windows and buffers are any natural numbers, zero included
  (`SampleAssumption`, `StatsAssumption`); the widths of time buckets and windows of the registry
  are positive.

**MigrationProofs.** `TypeCorrect`: `Spec => []TypeOK`. `SafeAlways`, `JobsNeverLost` and
`OneMover`: `SafeInv`, `NoJobLost` and `OneMoverPerSource` hold for any number of runs, queues,
jobs, arrivals, faults and crashes, under the four conditions of `SafeMigration`.

`NoJobLost` alone is not inductive: a step that deletes a copy preserves it only if another copy
exists. `SafeInv` adds what is known at such a step. A run that moves jobs holds the lease of its
source (`LeaseHeld`), so the leases make it the only one to delete copies there; its source keeps
the copy until its own removal (`SourceKeeps`); the target has one by then (`TargetHas`), and nobody
else deletes it, since the target is no run's source; and a job is in one source queue only
(`OneSource`), so the copy a rollback deletes is not another run's source. An add or a rollback
works on an id, not on a job. `InPlace` and `Listed` say where a job can be, which with
`DistinctArrivals` leaves only the target's own jobs to collide with, and `TargetFree` that from the
answer of the target on no such job is there: so the add is not ignored and the rollback removes the
copy that was made. The proof goes action by action: most fall under `StepOutside` (the run moves no
job afterwards, leases and copies of others untouched), `StepInto` or `StepAside`; `Add`, `Remove`,
`Rollback` and `Produce` have proofs of their own.

**MigrationRunProofs.** What holds of a run whatever the others do. Its first lemma, `OtherRuns`, is
that a step of one run leaves the state of the others alone, so that runs meet in the pause flags
and the lease only; each invariant is then one of a single run.

* `WaitingIsResumable` (`ParkedCanBeResumed`) and `FinalStatus` (`TerminalIsFinal`), from
  `ControlOf`: until its catch block a run is running or paused, and `isPaused` says which.
* `MigrationLimit` (`LimitRespected`), from `LimitOf`: a run that is on its way to a removal has not
  used up its limit, and has counted each job it reports as moved.
* `QueuesStayPaused` (`PausedWhileMoving`), if operators keep away, no lease runs out under a run
  (`LongWaits = {}`), and two runs share their source or have no queue in common. By `HoldsLease`
  the lease then keeps others away from the queues of a run, and `KeepsOf` follows the flags from
  the answers of `isPaused` to the loop. `migration_shared_target` is the counterexample without the
  condition on shared queues; without the one on leases, a run that lost its lease resumes the
  queues of its successor when it is cancelled (service:1388).
* `QueuesGivenBack` (`CleanExitRestores`), if operators keep away and no two runs have a queue in
  common; leases may be lost. `GuardOf` adds to `KeepsOf` that a guard exists from the loop on and
  that no pause is in flight then. Runs that share a queue are excluded because a pause that was
  still in flight when an earlier run failed may land after the resume of a later one.

**HandoffProofs.** `DuplicatesPaused` (`DuplicatesStayPaused`) and `MigrationHandsOver`
(`HandsOver`, the refinement of `JobHandoff`), under the assumptions of `SafeMigration`, if
operators keep away, no lease runs out under a run, two runs go between the same two queues the same
way or have none in common (`OwnPairs`), and no add is applied and reported as failed (such an add
leaves a copy nobody knows of: no rollback follows it). The first property is not inductive, because
a run that resumes its queues must know of the jobs earlier runs left in both. `HandInv` says why it
does. A job is in one queue or in the two of a run (`CopiesInPair`), and then both are paused
(`TwicePaused`). A run with such a job is excused from giving its queues back (`Excused`): it is on
its way to the removal or rollback of the only one, it is to be inspected, or it found both queues
paused, as every later run on the pair does, and resumes only what it found running (`ResumesOf`).
For the refinement, the jobs ahead of a run are in its source and have not run (`Ready`), because
what is listed has not run (`Unrun`) and the source has no workers until the run is done. An
application's add is then a Submit, an add of a run that changes something an Offer, a removal or a
rollback a Settle, a worker's fetch a HandToWorker, and every other step a stutter.

`MigratedStays` and `ReportIsTrue` (`ReportMatchesQueues`) need none of these conditions but those
of `SafeMigration`. The first says of every state what the report says of the end: a job that was
counted is in the target and in no source (`MovedInv`), since it comes into no source again, and who
would take it out of the target again rolls back a job that is still in a source, or another one
under its id, which `TargetFree` excludes. The other half of the report follows a job with an error
(`ErrorsOf`): it is in the source in a state the run is past (`Past`), and comes back into no state
that is still to be listed. That needs `ListedOnce`, no state twice in `params.states` and not
delayed before waiting (as in the default, service:1207), for a delayed job that falls due is
waiting; and `Alone`, no lease runs out under a run or no two runs share their source, for a run
that has lost its lease shares its source with the next one, which may move the job.

**CacheProofs.** `CacheTypeCorrect` and `CompletedIsComplete` (`Spec => []CompletedCopiesAll`). The
property only speaks of the end, and `CacheInv` follows every steady key there: it is copied,
listed, counted beyond the room of `status.errors` (`unlisted`, of which there are no more than
`failed` exceeds `MaxErrors`), or ahead of the run, that is owed by SCAN, on the page, in the batch
and not yet dealt with; what was read of it is what it holds; SCAN owes nothing once its cursor is
back at 0; a page is empty when the next is asked for. `ParkedIsResumable`, from `ParkInv` (flag and
status agree until the end), and `CacheLimit`, from `LimitInv`: the batch in hand is within what is
left of the limit. `CancelStopsReads` (`NoReadAfterCancel`, an action property) uses `ParkInv` at
the one step where the code does not look at the signal, the resume: no cancelled run waits for one.

**QueueProcessorProofs.** `NeverAbandoned`, `ShutdownIsQuiet`, `ReportedOnce`, `OneTimeout` and
`ProcessorTypes`, from `ProcessorInv`, which is proved together with the types: that the count of
timeouts is a natural number needs `OneTimer`. A failing restart keeps `PursuedOrReported` because
it arms the timer or reports the end, a firing timer because `OneTimer` makes it the one of the
field and it leaves a call of `run()` behind, unless there is no worker; what else ends a recovery
is a `run()` that resolves. `ReportedOnce` needs that what the heartbeat read is still in the window
(`counted <= window`), and sets aside what was logged before a throw (`again`).

**AdminProofs.** `AdminTypes`, `AdminTemporaries`, `AdminOwnership`, `AdminPlaces` and
`AdminControls` (`TypeOK`, `TemporariesClosed`, `OnlyOwnClosed`, `RightInstance`, `ControlsHold`),
from `AdminInv`, for any scenarios within `AdminAssumption`. A step of one request moves that
request alone, so that each part is again proved request by request: a temporary queue is open only
while the request that opened it works or closes (`TemporaryInv`), only owned queues are closed by
the shutdown (`OwnInv`). `ControlsHold` speaks of answered controls; `ControlInv` says why they
hold: on a queue with a control that nothing crossed, every control in flight is of the same kind,
no migration has its hand on the flag (`Touched`), and what it has done so far agrees with it. After
the answer a migration may come. `GuardInv` says what it can have under way in which phase, and
`ControlInv` that on a queue that is to stay paused it has found the pause, so that it neither sets
nor resumes anything (`Seized`), that a resumed queue is paused only while a migration holds it
(`HeldPaused`), and that no pause of a failed migration is still to land (`Stray`). `RightInstance`
compares the four places that derive the instance of a queue (service, controller, provider,
listings). `PlacesInv` keeps what the lookup found as long as the request works (`LookupFits`,
`CacheFits`), and the options then make its name and instance those of the request. The lookups take
a first or last position; `MinOf` and `MaxOf`, by well-foundedness, say that it is one of those
found.

**StatsProofs.** `StatsRates` (`RatesAddUp`) is about the rates the code answers with, which
`calculateRatesFromCounters` rounds to whole jobs per minute. `RateInv` follows, from sample to
sample, the completions counted, the time they took, and the completions that the rounded rates
amount to over that time. `RoundClose` bounds the error of one rate by half a job a minute, and
`AddsOn` shows that the errors of any number of rates stay within half a job for each minute that
they cover. For this the samples need not be in the order of their requests, only in that of the
clock. `StatsPerformance` (`PerformanceAgrees`) rests on a lemma about the arithmetic: rates are
monotone in the backlog, through rounding and integer division, so that a growing backlog gets a
higher rate of arrivals than of completions. The threshold and the size of a sample of jobs are any
numbers, as the options are.

**WorkersProofs.** `WorkersTypes`, `WorkersStatsLive` (`StatsAreLive`) and `ShutdownComplete`
(`ShutdownClosesAll`), `JobsCounted` (`JobsCountedOnce`), `WindowsAreExact` (`WindowsExact`),
`SnapshotIsSound` (`SnapshotSound`) and its part `VerdictsAgree`, for any number of objects, names
and jobs. `InMaps` is what makes the shutdown complete: until it has closed, an object is the one
the map has under its name, although closing forgets a name only after an await and names are used
again. `ForgottenInv` says that a close that forgets a name late does so after the shutdown has read
the maps, not before. `ShutdownInv` follows what the shutdown has read of the maps, `PauseInv`
relates the flag of a worker to the one of BullMQ and `RunningInv` the other flag to the prune
timer; `JobInv` makes the counter of active jobs the number of jobs whose processor has not
returned. `JobsCountedOnce` speaks of sets of jobs, so that a counter is proved to be a cardinality:
`CollectorInv` for the jobs of a worker, `RegistryInv` for those a registry has seen since it was
cleared, and `NamesInv` for the labels, where a name that came too late for a counter stays under
the common one because names are never dropped. Counters of the registry are those of the jobs only
until a push overwrites them. `VerdictsAgree` holds for every rate, not only the current one.

`WindowsExact` is not inductive: the buffer is cut by count when a job is recorded and by age when
the prune timer fires, and a sample that was dropped for one reason must never be owed for the
other. `WindowsInv` says why it never is. By `TimesInv` the history of a worker is in the order of
the ends, so that whatever is dropped is a prefix. By `BufferInv` the buffer is the rest, and a job
it lacks is beyond the last `MaxSamples` (none is when that is 0) or older than the window; the cut
of the timer is at twice the window and so never deeper than that. By `RecentInv` a time bucket
holds as many jobs as ended in it, and a job whose bucket is gone had its bucket out of the window.
The throughput is then the number of jobs whose bucket is in the window (`SumFibres`: the sizes of
the fibres add up, by a bijection), which are those that ended in it but for the bucket its edge
cuts (`TimeBucketIs`). `SumInv` adds up durations (`SumPut`), and `LongestInv` follows the longest.
All of it rests on a clock that does not go back, as `Tick` has it. For the percentiles,
`RegistryInv` makes a bucket's counter the number of durations that fit it; `RankIs` shows that the
nearest rank is the first place that p percent of the jobs reach, `PercentileIs` that the percentile
exists, and `BucketsAgree` that a bucket holds enough jobs exactly when it is not below the
percentile; beyond the last bucket the code answers with the longest duration.

**Only model-checked.** Liveness (`CancelTerminates`, `RunSettles`, `RecoverySettles`), which needs
fairness and ENABLED. Every invariant and every action property of the passing runs is a theorem
above, under the assumptions stated there. Sums and percentiles are stated through cardinalities and
a choice, not through folds, so that no theorem needs an induction over data: the sum of a function
is the number of pairs under its graph, and the percentile is the value that enough others do not
exceed, and fewer than that are below.

## 5. What is not modelled

Left out: HTTP, formatting, parsing of parameters and of `INFO`, logging, build scripts, and
anything inside BullMQ and Redis beyond what the code relies on. Of the modelled components:

* queue and cache migrations: the samples of a preview, progress figures (`progress.percent` of a
  queue migration is not capped and may pass 100 when jobs arrive after the estimate, service:2072),
  the registry of runs and its one-hour cleanup, which only decide which id a later request finds;
* the payload, options and name of a job, which `add` copies as they are;
* module: the asynchronous registration and the guards of the controller, which is wiring of NestJS;
* processor: the status of its Redis connection, the duration samples (they are those of
  `JobStats`), the hooks of subclasses;
* adapter and registry: the conversion of figures from one record to another, and the instruments of
  an OpenTelemetry SDK;
* collectors: the aggregation over workers, a sum of what `Workers` checks per worker.

Not modelled at all: the integration registry, a map nothing depends on; the instrumentation of
`otel`, which forwards to an SDK; types and errors, but for the conditions they stand for; the
scripts.
