-------------------------------- MODULE Workers --------------------------------
(***************************************************************************)
(* QueuebertBullMQService with its queues, its QueuebertWorkers and the    *)
(* global statistics: creation, pause, resume, close and the shutdown of   *)
(* the module, around wrapProcessor, which runs the jobs and feeds the     *)
(* worker's collector and, through the listener an application installs,   *)
(* the OpenTelemetry registry.                                             *)
(* A handle is one QueuebertQueue or QueuebertWorker object; a job is its  *)
(* place in the order in which the workers took them.                      *)
(***************************************************************************)
EXTENDS JobStats

CONSTANTS
  Handles,       \* bound: the objects that are created
  Names,         \* the queue names
  None,
  Concurrency,   \* bound: the jobs a worker runs at once
  Budgets,       \* bounds of a behaviour: handles, jobs, ticks, and what is called
  WaitingCounts  \* the waiting jobs a push of queue counts may report

ASSUME WorkersAssumption == None \notin Handles /\ WaitingCounts \subseteq Nat

VARIABLES
  budget,         \* chosen in Init
  now,            \* the clock
  kind, name,     \* what a handle is
  st,             \* "none", "open", "closing", "closed" or "failed": the promise of close()
  force,          \* the closing worker does not wait for its jobs
  awaited,        \* closeQueue or closeWorker waits for the handle
  inTime,         \* history: created before the shutdown read its map
  isRunning,      \* QueuebertWorker._isRunning
  queues, workers,\* the maps of the service
  registered,     \* GlobalStatsCollector.workers
  phase,          \* of onModuleDestroy: "up", "workers", "queues", "down"
  snapshot,       \* the handles the shutdown waits for
  paused,         \* BullMQ's worker is paused
  isPaused,       \* QueuebertWorker._isPaused
  pending,        \* calls of pause() that have not settled
  crossed,        \* history: a resume overtook a pause in flight
  job,            \* the jobs taken, in order
  history,        \* history: the jobs of a worker in the order they finished
  activeJobCount, jobNameSet, coll,  \* of a worker: its counter, names and collector
  otel,           \* MetricsRegistry.queues
  cleared,        \* history: how many of them had when the registry was cleared
  pushed          \* history: queue counts were pushed since

boundVars  == <<budget, now>>
handleVars == <<kind, name, st, force, awaited, inTime, isRunning>>
mapVars    == <<queues, workers, registered>>
lifeVars   == <<phase, snapshot>>
pauseVars  == <<paused, isPaused, pending, crossed>>
jobVars    == <<job, history>>
statVars   == <<activeJobCount, jobNameSet, coll>>
otelVars   == <<otel, cleared, pushed>>
vars == <<boundVars, handleVars, mapVars, lifeVars, pauseVars, jobVars, statVars, otelVars>>

Init ==
  /\ budget \in Budgets /\ now = 0
  /\ kind = [h \in Handles |-> "none"] /\ name = [h \in Handles |-> None]
  /\ st = [h \in Handles |-> "none"]
  /\ force = [h \in Handles |-> FALSE] /\ awaited = [h \in Handles |-> FALSE]
  /\ inTime = [h \in Handles |-> FALSE] /\ isRunning = [h \in Handles |-> FALSE]
  /\ queues = [n \in Names |-> None] /\ workers = [n \in Names |-> None]
  /\ registered = [n \in Names |-> None]
  /\ phase = "up" /\ snapshot = {}
  /\ paused = [h \in Handles |-> FALSE] /\ isPaused = [h \in Handles |-> FALSE]
  /\ pending = [h \in Handles |-> {}] /\ crossed = [h \in Handles |-> FALSE]
  /\ job = <<>> /\ history = [h \in Handles |-> <<>>]
  /\ activeJobCount = [h \in Handles |-> 0] /\ jobNameSet = [h \in Handles |-> {}]
  /\ coll = [h \in Handles |-> EmptyCollector]
  /\ otel = [n \in Names |-> EmptyMetrics] /\ cleared = [h \in Handles |-> 0] /\ pushed = FALSE

------------------------------------------------------------------------------
(* Creation. Nothing looks at the shutdown. *)

MayCreate(h) ==
  /\ kind[h] = "none"
  /\ Cardinality({o \in Handles : kind[o] # "none"}) < budget.handles

Created(h, n, k, early) ==
  /\ kind' = [kind EXCEPT ![h] = k] /\ name' = [name EXCEPT ![h] = n]
  /\ st' = [st EXCEPT ![h] = "open"] /\ inTime' = [inTime EXCEPT ![h] = early]
  /\ isRunning' = [isRunning EXCEPT ![h] = k = "worker"]
  /\ UNCHANGED <<force, awaited>>

createQueue(h, n) ==
  /\ MayCreate(h) /\ queues[n] = None
  /\ Created(h, n, "queue", phase \in {"up", "workers"})
  /\ queues' = [queues EXCEPT ![n] = h]
  /\ UNCHANGED <<boundVars, workers, registered, lifeVars, pauseVars, jobVars, statVars, otelVars>>

createWorker(h, n) ==
  /\ MayCreate(h) /\ workers[n] = None
  /\ Created(h, n, "worker", phase = "up")
  /\ workers' = [workers EXCEPT ![n] = h]
  /\ registered' = [registered EXCEPT ![n] = h]
  /\ UNCHANGED <<boundVars, queues, lifeVars, pauseVars, jobVars, statVars, otelVars>>

------------------------------------------------------------------------------
(* Closing *)

Settled(h) == st[h] \in {"closed", "failed"}

\* close() of the handles hs: a second call shares the promise of the first.
Closing(hs, forced) ==
  /\ st' = [h \in Handles |-> IF h \in hs /\ st[h] = "open" THEN "closing" ELSE st[h]]
  /\ force' = [h \in Handles |-> IF h \in hs /\ st[h] = "open" THEN forced ELSE force[h]]
  /\ isRunning' = [h \in Handles |-> isRunning[h] /\ h \notin hs]
  /\ coll' = [h \in Handles |-> IF h \in hs THEN [coll[h] EXCEPT !.pruning = FALSE] ELSE coll[h]]
  /\ UNCHANGED <<kind, name, inTime, activeJobCount, jobNameSet>>

\* Seeded bug: the statistics of a worker that closes stay registered.
UnregisteredNever(n) == UNCHANGED registered
Unregistered(n) == registered' = [registered EXCEPT ![n] = None]

closeQueue(n) ==
  LET h == queues[n] IN
  /\ "close" \in budget.calls /\ h # None
  /\ Closing({h}, FALSE) /\ awaited' = [awaited EXCEPT ![h] = st[h] # "failed"]
  /\ UNCHANGED <<boundVars, mapVars, lifeVars, pauseVars, jobVars, otelVars>>

closeWorker(n, forced) ==
  LET h == workers[n] IN
  /\ "close" \in budget.calls /\ h # None
  /\ Unregistered(n)
  /\ Closing({h}, forced) /\ awaited' = [awaited EXCEPT ![h] = st[h] # "failed"]
  /\ UNCHANGED <<boundVars, queues, workers, lifeVars, pauseVars, jobVars, otelVars>>

\* The jobs BullMQ considers active: until the wrapped processor has returned.
BullActive(h) == {i \in DOMAIN job : job[i].w = h /\ job[i].st # "done"}

Forgotten(map, h, k) ==
  IF awaited[h] /\ kind[h] = k THEN [map EXCEPT ![name[h]] = None] ELSE map

\* BullMQ has closed the handle: the callers go on and forget the name.
CloseSettles(h) ==
  /\ st[h] = "closing"
  /\ kind[h] = "worker" => force[h] \/ BullActive(h) = {}
  /\ st' = [st EXCEPT ![h] = "closed"] /\ awaited' = [awaited EXCEPT ![h] = FALSE]
  /\ queues' = Forgotten(queues, h, "queue") /\ workers' = Forgotten(workers, h, "worker")
  /\ UNCHANGED <<kind, name, force, inTime, isRunning, registered>>
  /\ UNCHANGED <<boundVars, lifeVars, pauseVars, jobVars, statVars, otelVars>>

\* A close called when the shutdown had closed the handle: the name is forgotten,
\* whatever handle has it by then.
NameForgotten(h) ==
  /\ st[h] = "closed" /\ awaited[h] /\ awaited' = [awaited EXCEPT ![h] = FALSE]
  /\ queues' = Forgotten(queues, h, "queue") /\ workers' = Forgotten(workers, h, "worker")
  /\ UNCHANGED <<kind, name, st, force, inTime, isRunning, registered>>
  /\ UNCHANGED <<boundVars, lifeVars, pauseVars, jobVars, statVars, otelVars>>

\* The promise rejects: the callers leave the name in the map.
CloseFails(h) ==
  /\ st[h] = "closing"
  /\ st' = [st EXCEPT ![h] = "failed"] /\ awaited' = [awaited EXCEPT ![h] = FALSE]
  /\ UNCHANGED <<kind, name, force, inTime, isRunning>>
  /\ UNCHANGED <<boundVars, mapVars, lifeVars, pauseVars, jobVars, statVars, otelVars>>

------------------------------------------------------------------------------
(* Pause and resume *)

\* A pause of a worker that is already paused does not wait for its jobs.
pauseWorker(n, doNotWaitActive) ==
  LET h    == workers[n]
      call == IF paused[h] \/ doNotWaitActive THEN "now" ELSE "wait" IN
  /\ "pause" \in budget.calls /\ h # None /\ call \notin pending[h]
  /\ paused' = [paused EXCEPT ![h] = TRUE]
  /\ pending' = [pending EXCEPT ![h] = @ \cup {call}]
  /\ UNCHANGED <<isPaused, crossed>>
  /\ UNCHANGED <<boundVars, handleVars, mapVars, lifeVars, jobVars, statVars, otelVars>>

PauseSettles(h, call) ==
  /\ call \in pending[h] /\ (call = "wait" => BullActive(h) = {})
  /\ pending' = [pending EXCEPT ![h] = @ \ {call}]
  /\ isPaused' = [isPaused EXCEPT ![h] = TRUE]
  /\ UNCHANGED <<paused, crossed>>
  /\ UNCHANGED <<boundVars, handleVars, mapVars, lifeVars, jobVars, statVars, otelVars>>

resumeWorker(n) ==
  LET h == workers[n] IN
  /\ "pause" \in budget.calls /\ h # None /\ (paused[h] \/ isPaused[h])
  /\ paused' = [paused EXCEPT ![h] = FALSE] /\ isPaused' = [isPaused EXCEPT ![h] = FALSE]
  /\ crossed' = [crossed EXCEPT ![h] = pending[h] # {}]
  /\ UNCHANGED pending
  /\ UNCHANGED <<boundVars, handleVars, mapVars, lifeVars, jobVars, statVars, otelVars>>

------------------------------------------------------------------------------
(* The shutdown *)

Values(map) == {map[n] : n \in Names} \ {None}
EmptyMap == [n \in Names |-> None]

onModuleDestroy ==
  /\ "close" \in budget.calls /\ phase = "up" /\ phase' = "workers"
  /\ snapshot' = Values(workers) /\ Closing(Values(workers), FALSE)
  /\ UNCHANGED <<boundVars, awaited, mapVars, pauseVars, jobVars, otelVars>>

\* Seeded bug: the queues are not waited for, and not closed.
WorkersSettledOnly ==
  /\ phase = "workers" /\ \A h \in snapshot : Settled(h)
  /\ phase' = "queues" /\ workers' = EmptyMap /\ snapshot' = {}
  /\ UNCHANGED <<boundVars, handleVars, queues, registered, pauseVars, jobVars, statVars, otelVars>>

\* allSettled(workers): the map is cleared, the queues are closed.
WorkersSettled ==
  /\ phase = "workers" /\ \A h \in snapshot : Settled(h)
  /\ phase' = "queues" /\ workers' = EmptyMap
  /\ snapshot' = Values(queues) /\ Closing(Values(queues), FALSE)
  /\ UNCHANGED <<boundVars, awaited, queues, registered, pauseVars, jobVars, otelVars>>

QueuesSettled ==
  /\ phase = "queues" /\ \A h \in snapshot : Settled(h)
  /\ phase' = "down" /\ queues' = EmptyMap /\ snapshot' = {}
  /\ UNCHANGED <<boundVars, handleVars, workers, registered, pauseVars, jobVars, statVars, otelVars>>

------------------------------------------------------------------------------
(* Jobs: wrapProcessor *)

TakeJob(h, jobName) ==
  /\ kind[h] = "worker" /\ st[h] = "open" /\ ~paused[h]
  /\ Cardinality(BullActive(h)) < Concurrency /\ Len(job) < budget.jobs
  /\ job' = Append(job, [w |-> h, name |-> jobName, label |-> Label(jobNameSet[h], jobName),
                         st |-> "starting", start |-> now, end |-> now, ok |-> FALSE])
  /\ jobNameSet' = [jobNameSet EXCEPT ![h] = Tracked(@, jobName)]
  /\ activeJobCount' = [activeJobCount EXCEPT ![h] = @ + 1]
  /\ UNCHANGED <<boundVars, history, coll, handleVars, mapVars, lifeVars, pauseVars, otelVars>>

\* The listeners of 'job:started' have settled and the processor is called.
ProcessorCalled(i) ==
  /\ job[i].st = "starting" /\ job' = [job EXCEPT ![i].st = "running"]
  /\ UNCHANGED <<boundVars, history, handleVars, mapVars, lifeVars, pauseVars, statVars, otelVars>>

\* Seeded bug: a job that ends after its worker began to close is not recorded.
FinishOpen(i, success) ==
  LET j == job[i] IN
  /\ j.st = "running"
  /\ job' = [job EXCEPT ![i].st = "reporting", ![i].end = now, ![i].ok = success]
  /\ history' = [history EXCEPT ![j.w] = Append(@, i)]
  /\ activeJobCount' = [activeJobCount EXCEPT ![j.w] = @ - 1]
  /\ coll' = IF isRunning[j.w]
             THEN [coll EXCEPT ![j.w] = Record(@, j.label, now, now - j.start, success)] ELSE coll
  /\ otel' = [otel EXCEPT ![name[j.w]] = recordMetrics(@, j.name, now, now - j.start, success)]
  /\ UNCHANGED <<boundVars, jobNameSet, cleared, pushed, handleVars, mapVars, lifeVars, pauseVars>>

\* The processor returned or threw: the counter, the collector, and the
\* listeners of 'job:completed' or 'job:failed', which start in the same tick.
Finish(i, success) ==
  LET j == job[i] IN
  /\ j.st = "running"
  /\ job' = [job EXCEPT ![i].st = "reporting", ![i].end = now, ![i].ok = success]
  /\ history' = [history EXCEPT ![j.w] = Append(@, i)]
  /\ activeJobCount' = [activeJobCount EXCEPT ![j.w] = @ - 1]
  /\ coll' = [coll EXCEPT ![j.w] = Record(@, j.label, now, now - j.start, success)]
  /\ otel' = [otel EXCEPT ![name[j.w]] = recordMetrics(@, j.name, now, now - j.start, success)]
  /\ UNCHANGED <<boundVars, jobNameSet, cleared, pushed, handleVars, mapVars, lifeVars, pauseVars>>

\* Seeded bug: the counter is decremented by the event as well.
ListenersSettledTwice(i) ==
  /\ job[i].st = "reporting" /\ job' = [job EXCEPT ![i].st = "done"]
  /\ activeJobCount' = [activeJobCount EXCEPT ![job[i].w] = @ - 1]
  /\ UNCHANGED <<boundVars, history, handleVars, mapVars, lifeVars, pauseVars, jobNameSet, coll, otelVars>>

\* Its listeners have settled; BullMQ sees the job end.
ListenersSettled(i) ==
  /\ job[i].st = "reporting" /\ job' = [job EXCEPT ![i].st = "done"]
  /\ UNCHANGED <<boundVars, history, handleVars, mapVars, lifeVars, pauseVars, statVars, otelVars>>

------------------------------------------------------------------------------
(* The clock, the prune timers and the registry *)

Tick ==
  /\ now < budget.ticks /\ now' = now + 1
  /\ UNCHANGED <<budget, handleVars, mapVars, lifeVars, pauseVars, jobVars, statVars, otelVars>>

PruneTimer(h) ==
  /\ kind[h] = "worker" /\ coll[h].pruning
  /\ coll' = [coll EXCEPT ![h] = Prune(@, now)]
  /\ UNCHANGED <<activeJobCount, jobNameSet, handleVars, mapVars, lifeVars, pauseVars>>
  /\ UNCHANGED <<boundVars, jobVars, otelVars>>

\* The application pushes the counts of the queue; it may keep finished jobs or not.
updateQueueCounts(n) ==
  /\ "metrics" \in budget.calls /\ ~pushed /\ pushed' = TRUE
  /\ \E waiting \in WaitingCounts, kept \in BOOLEAN :
       otel' = [otel EXCEPT ![n] = assignCounts(@,
         [waiting |-> waiting, active |-> 0, delayed |-> 0,
          completed |-> IF kept THEN @.completed ELSE 0, failed |-> @.failed])]
  /\ UNCHANGED <<boundVars, cleared, handleVars, mapVars, lifeVars, pauseVars, jobVars, statVars>>

\* clear() by the application or by the registry's destroy().
clearMetrics ==
  /\ "metrics" \in budget.calls /\ \E h \in Handles : cleared[h] < Len(history[h])
  /\ otel' = [n \in Names |-> EmptyMetrics]
  /\ cleared' = [h \in Handles |-> Len(history[h])] /\ pushed' = FALSE
  /\ UNCHANGED <<boundVars, handleVars, mapVars, lifeVars, pauseVars, jobVars, statVars>>

------------------------------------------------------------------------------

Lifecycle ==
  \/ \E h \in Handles, n \in Names : createQueue(h, n)
  \/ \E h \in Handles, n \in Names : createWorker(h, n)
  \/ \E n \in Names : closeQueue(n)
  \/ \E n \in Names, forced \in BOOLEAN : closeWorker(n, forced)
  \/ \E h \in Handles : CloseSettles(h)
  \/ \E h \in Handles : NameForgotten(h)
  \/ \E h \in Handles : CloseFails(h)
  \/ onModuleDestroy
  \/ WorkersSettled
  \/ QueuesSettled

Controls ==
  \/ \E n \in Names, doNotWaitActive \in BOOLEAN : pauseWorker(n, doNotWaitActive)
  \/ \E h \in Handles, call \in {"now", "wait"} : PauseSettles(h, call)
  \/ \E n \in Names : resumeWorker(n)

JobStep ==
  \/ \E h \in Handles, jobName \in JobNames : TakeJob(h, jobName)
  \/ \E i \in DOMAIN job : ProcessorCalled(i)
  \/ \E i \in DOMAIN job, success \in BOOLEAN : Finish(i, success)
  \/ \E i \in DOMAIN job : ListenersSettled(i)

Metrics ==
  \/ \E h \in Handles : PruneTimer(h)
  \/ \E n \in Names : updateQueueCounts(n)
  \/ clearMetrics

Next == Lifecycle \/ Controls \/ JobStep \/ Metrics \/ Tick

Spec == Init /\ [][Next]_vars

------------------------------------------------------------------------------
(* Properties *)

States == {"none", "open", "closing", "closed", "failed"}
Flags ==
  /\ force \in [Handles -> BOOLEAN] /\ awaited \in [Handles -> BOOLEAN]
  /\ inTime \in [Handles -> BOOLEAN] /\ isRunning \in [Handles -> BOOLEAN]
Registry ==
  /\ kind \in [Handles -> {"none", "queue", "worker"}]
  /\ name \in [Handles -> Names \cup {None}] /\ st \in [Handles -> States]
  /\ queues \in [Names -> Handles \cup {None}] /\ workers \in [Names -> Handles \cup {None}]
  /\ registered \in [Names -> Handles \cup {None}]
  /\ phase \in {"up", "workers", "queues", "down"} /\ snapshot \subseteq Handles
  /\ \A h \in Handles : kind[h] # "none" => name[h] \in Names /\ st[h] # "none"

\* The type invariant: the maps hold handles of their kind under their own
\* names, and a worker never counts fewer than zero active jobs.
TypeOK ==
  /\ Flags /\ Registry
  /\ \A n \in Names :
       /\ queues[n] # None => kind[queues[n]] = "queue" /\ name[queues[n]] = n
       /\ workers[n] # None => kind[workers[n]] = "worker" /\ name[workers[n]] = n
  /\ activeJobCount \in [Handles -> Nat]

\* The statistics while the service is up (createWorker, closeWorker): a worker
\* is in the global statistics exactly as long as it is open under its name; a
\* second worker never consumes a queue whose first worker has not closed; the
\* prune timer lives as long as the worker runs; and the flag that getStats
\* reports agrees with BullMQ unless a resume overtook a pause.
StatsAreLive == phase = "up" =>
  /\ \A n \in Names, h \in Handles :
       registered[n] = h <=> workers[n] = h /\ st[h] = "open"
  /\ \A h, o \in Handles :
       (kind[h] = "worker" /\ kind[o] = "worker" /\ name[h] = name[o]
          /\ st[h] # "closed" /\ st[o] # "closed") => h = o
  /\ \A h \in Handles : kind[h] = "worker" =>
       /\ isRunning[h] <=> st[h] = "open"
       /\ coll[h].pruning <=> isRunning[h]
       /\ pending[h] = {} /\ ~crossed[h] => isPaused[h] = paused[h]

\* onModuleDestroy: when it is over, every queue and worker that existed before
\* the shutdown read its map has closed or failed to close, whatever else was
\* closed or created meanwhile; and no queue is closed by the shutdown before
\* every such worker has settled.
ShutdownClosesAll ==
  /\ \A h \in Handles : inTime[h] /\ ~Settled(h) =>
       /\ phase # "down"
       /\ kind[h] = "worker" => phase \in {"up", "workers"}
  /\ phase \in {"up", "workers"} => \A h \in Handles : kind[h] = "queue" /\ ~awaited[h] => st[h] # "closing"

Duration(i) == job[i].end - job[i].start

\* A worker's finished jobs, and the jobs of a queue name that the registry has
\* seen since it was cleared.
Finished(h) == {i \in DOMAIN job : job[i].w = h /\ job[i].st \in {"reporting", "done"}}
SinceClear(h) == {history[h][k] : k \in cleared[h] + 1 .. Len(history[h])}
SeenJobs(n) == UNION {SinceClear(h) : h \in {o \in Handles : name[o] = n}}

\* Every job is counted once (wrapProcessor, record, resolveJobName): active
\* while its processor runs, then in the totals; the names a worker or the
\* registry tracks are bounded and their counters miss no job of that name,
\* whatever jobs overlap, close or clear in between; and a duration bucket of the
\* registry counts every job that was no longer.
JobsCountedOnce ==
  /\ \A h \in Handles :
       LET c == coll[h] tracked == jobNameSet[h] IN
       /\ activeJobCount[h] =
            Cardinality({i \in BullActive(h) : job[i].st \in {"starting", "running"}})
       /\ c.totals.processed = Cardinality(Finished(h))
       /\ c.totals.completed = Cardinality({i \in Finished(h) : job[i].ok})
       /\ c.totals.failed = Cardinality({i \in Finished(h) : ~job[i].ok})
       /\ Cardinality(tracked) <= MaxJobNameEntries
       /\ \A l \in tracked : c.byName[l].processed = Cardinality({i \in Finished(h) : job[i].name = l})
       /\ c.byName[Other].processed = Cardinality({i \in Finished(h) : job[i].name \notin tracked})
  /\ \A n \in Names :
       LET q == otel[n] IN
       /\ q.durationCount = Cardinality(SeenJobs(n))
       /\ ~pushed => q.completed + q.failed = Cardinality(SeenJobs(n))
       /\ \A b \in Buckets : q.bucketCounts[b] = Cardinality({i \in SeenJobs(n) : Duration(i) <= b})
       /\ Cardinality(q.tracked) <= MaxJobNameEntries
       /\ \A l \in q.tracked : q.byJobName[l].count = Cardinality({i \in SeenJobs(n) : job[i].name = l})

\* Whether the k-th of n samples is one that maxSamples leaves.
InLatest(k, n) == MaxSamples = 0 \/ k > n - MaxSamples

\* The rolling windows (getWindowSamples, prune, recentBuckets): the collector's
\* buffer is bounded, unless maxSamples is 0, and its window holds exactly the
\* jobs that finished in it, or the maxSamples latest of them, while the durations
\* of a job name go on adding up; the registry's counts no job that left the
\* window, and misses at most those of the time bucket its edge cuts.
WindowsExact ==
  /\ \A h \in Handles :
       LET done   == history[h]
           window == {k \in DOMAIN done :
                        InLatest(k, Len(done)) /\ job[done[k]].end >= now - WindowMs}
           sample(i) == [completedAt |-> job[i].end, duration |-> Duration(i)] IN
       /\ MaxSamples > 0 => Cardinality(DOMAIN coll[h].samples) <= MaxSamples
       /\ getWindowSamples(coll[h], now) = [k \in window |-> sample(done[k])]
       /\ \A l \in Labels : coll[h].byName[l].durationTotalMs =
            SumOf([i \in {i \in Finished(h) : job[i].label = l} |-> Duration(i)])
  /\ \A n \in Names :
       LET later(t) == Cardinality({i \in SeenJobs(n) : job[i].end >= t}) IN
       /\ JobsInWindow(otel[n], now) <= later(now - ThroughputWindowMs)
       /\ JobsInWindow(otel[n], now) >= later(now - ThroughputWindowMs + BucketMs - 1)

\* The derived figures (transformOTelToQueuebert): a percentile read from the
\* cumulative buckets is the exact nearest-rank percentile rounded up to a
\* bucket; and the verdicts agree: a queue called excellent always scores above
\* one called critical, and one whose clear time is unknown falls behind.
SnapshotSound == \A n \in Names :
  LET q == otel[n]
      rate == Rate(q, now)
      durations == [i \in SeenJobs(n) |-> Duration(i)]
      score == calculatePerformanceScore(q, rate) IN
  /\ \A p \in {50, 95, 99} : SeenJobs(n) # {} =>
       LET exact == calculatePercentile(durations, p)
           above == {b \in Buckets : b >= exact} IN
       PercentileFromBuckets(q, p) = IF above = {} THEN Max(Range(durations)) ELSE Min(above)
  /\ calculateHealth(q) = "excellent" => score > 80
  /\ calculateHealth(q) = "critical" => score <= 80
  /\ calculateEstimatedClearTime(q, rate) = -1 => calculateTrend(q, rate) = "falling_behind"
===============================================================================
