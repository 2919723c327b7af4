------------------------------- MODULE JobStats -------------------------------
(***************************************************************************)
(* The statistics of finished jobs, as values and operators on them:       *)
(*  - DurationStatsCollector of @queuebert/bullmq: a bounded buffer of     *)
(*    samples beside lifetime totals;                                      *)
(*  - QueueMetricsData of @queuebert/otel: cumulative duration buckets, a  *)
(*    throughput window kept in whole time buckets, counters that a push   *)
(*    of queue counts overwrites, and the verdicts derived from them.      *)
(* A duration or a time is a number of clock ticks; a rate is in           *)
(* hundredths of a job per minute, rounded as the code rounds it. The      *)
(* array of samples is a function from the number of the job, in the order *)
(* in which they were recorded, to its sample.                             *)
(***************************************************************************)
EXTENDS Integers, Sequences, FiniteSets, FiniteSetsExt, Functions

CONSTANTS
  JobNames,            \* the names of the jobs
  Other,               \* OTHER_JOB_NAME
  WindowMs,            \* statsWindow.windowMs
  MaxSamples,          \* statsWindow.maxSamples
  MaxJobNameEntries,   \* options.maxJobNameEntries, and config.maxJobNames
  Buckets,             \* config.durationBuckets
  ThroughputWindowMs,  \* config.throughputWindowMs
  BucketMs,            \* the second a recent job is filed under
  TicksPerMinute

ASSUME StatsAssumption ==
  /\ Other \notin JobNames
  /\ WindowMs \in Nat /\ MaxSamples \in Nat /\ MaxJobNameEntries \in Nat
  /\ Buckets \subseteq Nat \ {0} /\ IsFiniteSet(Buckets)
  /\ ThroughputWindowMs \in Nat \ {0} /\ BucketMs \in Nat \ {0} /\ TicksPerMinute \in Nat \ {0}

Labels == JobNames \cup {Other}

\* getStatsJobName and resolveJobName: the first names keep their own entry.
Label(tracked, jobName) ==
  IF jobName \in tracked \/ Cardinality(tracked) < MaxJobNameEntries THEN jobName ELSE Other

Tracked(tracked, jobName) == tracked \cup ({Label(tracked, jobName)} \ {Other})

One(b) == IF b THEN 1 ELSE 0

Put(f, x, v) == [y \in DOMAIN f \cup {x} |-> IF y = x THEN v ELSE f[y]]

\* The sum of the values of a function: how many pairs lie under its graph.
SumOf(f) == Cardinality(UNION {{x} \X (1 .. f[x]) : x \in DOMAIN f})

------------------------------------------------------------------------------
(* DurationStatsCollector *)

NoTotals == [processed |-> 0, completed |-> 0, failed |-> 0]
NoNameTotals ==
  [processed |-> 0, completed |-> 0, failed |-> 0, durationTotalMs |-> 0, durationCount |-> 0]

EmptyCollector ==
  [samples |-> <<>>, totals |-> NoTotals, byName |-> [l \in Labels |-> NoNameTotals],
   pruning |-> TRUE]

Counted(totals, success) ==
  [totals EXCEPT !.processed = @ + 1, !.completed = @ + One(success), !.failed = @ + One(~success)]

Timed(totals, duration) ==
  [totals EXCEPT !.durationTotalMs = @ + duration, !.durationCount = @ + 1]

\* Seeded bug: the oldest samples are the ones kept.
LatestOldest(s) ==
  Restrict(s, {k \in DOMAIN s : Cardinality({m \in DOMAIN s : m <= k}) <= MaxSamples})

\* slice(-maxSamples), which for 0 is the whole array
Latest(s) ==
  Restrict(s, {k \in DOMAIN s : MaxSamples = 0 \/ Cardinality({m \in DOMAIN s : m >= k}) <= MaxSamples})

Record(c, label, at, duration, success) ==
  LET number == c.totals.processed + 1
      sample == [completedAt |-> at, duration |-> duration]
  IN [c EXCEPT !.samples = Latest(Put(@, number, sample)),
               !.totals = Counted(@, success),
               !.byName[label] = Timed(Counted(@, success), duration)]

Since(s, cutoff) == Restrict(s, {k \in DOMAIN s : s[k].completedAt >= cutoff})

getWindowSamples(c, now) == Since(c.samples, now - WindowMs)

\* What is older than twice the window.
Prune(c, now) == [c EXCEPT !.samples = Since(@, now - 2 * WindowMs)]

\* calculatePercentile, nearest rank: the value at place ceil(p / 100 * n), and at
\* least the first, when the n values are sorted.
calculatePercentile(values, p) ==
  LET rank == Max({1, (p * Cardinality(DOMAIN values) + 99) \div 100}) IN
  CHOOSE v \in Range(values) :
    /\ Cardinality({k \in DOMAIN values : values[k] < v}) < rank
    /\ rank <= Cardinality({k \in DOMAIN values : values[k] <= v})

------------------------------------------------------------------------------
(* QueueMetricsData *)

EmptyMetrics ==
  [completed |-> 0, failed |-> 0, waiting |-> 0, active |-> 0, delayed |-> 0,
   totalDuration |-> 0, durationCount |-> 0, maxDuration |-> 0,
   bucketCounts |-> [b \in Buckets |-> 0],
   recent |-> <<>>, tracked |-> {}, byJobName |-> [l \in Labels |-> [count |-> 0, errors |-> 0]]]

TimeBucket(now) == (now \div BucketMs) * BucketMs

pruneRecent(recent, now) ==
  Restrict(recent, {t \in DOMAIN recent : t >= now - ThroughputWindowMs})

\* Seeded bug: only in the smallest bucket it fits.
InBucketsSmallest(counts, duration) ==
  [b \in Buckets |-> counts[b] + One(duration <= b /\ \A o \in Buckets : duration <= o => b <= o)]

\* The buckets are cumulative: a duration counts in every bucket it fits.
InBuckets(counts, duration) == [b \in Buckets |-> counts[b] + One(duration <= b)]

recordMetrics(q, jobName, now, duration, success) ==
  LET bucket == TimeBucket(now)
      before == IF bucket \in DOMAIN q.recent THEN q.recent[bucket] ELSE 0
      label  == Label(q.tracked, jobName)
  IN [q EXCEPT !.completed = @ + One(success), !.failed = @ + One(~success),
               !.totalDuration = @ + duration, !.durationCount = @ + 1,
               !.maxDuration = Max({@, duration}),
               !.bucketCounts = InBuckets(@, duration),
               !.recent = pruneRecent(Put(@, bucket, before + 1), now),
               !.tracked = Tracked(@, jobName),
               !.byJobName[label] = [count |-> @.count + 1, errors |-> @.errors + One(~success)]]

\* updateQueueCounts: the counters of the registry are overwritten with those of the queue.
assignCounts(q, counts) ==
  [q EXCEPT !.waiting = counts.waiting, !.active = counts.active, !.delayed = counts.delayed,
            !.completed = counts.completed, !.failed = counts.failed]

\* getThroughput: the jobs of the remaining time buckets, and their rate.
JobsInWindow(q, now) == SumOf(pruneRecent(q.recent, now))
Rate(q, now) ==
  (200 * JobsInWindow(q, now) * TicksPerMinute + ThroughputWindowMs) \div (2 * ThroughputWindowMs)

\* calculatePercentileFromBuckets
PercentileFromBuckets(q, p) ==
  LET enough == {b \in Buckets : 100 * q.bucketCounts[b] >= p * q.durationCount}
  IN IF enough = {} THEN q.maxDuration ELSE Min(enough)

------------------------------------------------------------------------------
(* The verdicts of transformOTelToQueuebert *)

Total(q) == q.completed + q.failed

\* errorRate > percent / 100; a queue without jobs has error rate 0.
ErrorRateOver(q, percent) == 100 * q.failed > percent * Total(q)

calculateHealth(q) ==
  IF ErrorRateOver(q, 50) THEN "critical"
  ELSE IF ErrorRateOver(q, 20) THEN "poor"
  ELSE IF ErrorRateOver(q, 10) \/ q.waiting > 1000 THEN "fair"
  ELSE IF ErrorRateOver(q, 5) \/ q.waiting > 100 THEN "good"
  ELSE "excellent"

calculateTrend(q, rate) ==
  IF rate = 0 THEN (IF q.waiting = 0 THEN "idle" ELSE "falling_behind")
  ELSE IF 10 * q.waiting > rate THEN "falling_behind"
  ELSE IF 100 * q.waiting < rate THEN "catching_up"
  ELSE "stable"

Backlog(q) ==
  IF q.waiting > 1000 THEN 20 ELSE IF q.waiting > 100 THEN 10 ELSE IF q.waiting > 10 THEN 5 ELSE 0

calculatePerformanceScore(q, rate) ==
  LET n    == Max({1, Total(q)})
      base == 100 - Backlog(q) + (IF rate > 10000 THEN 5 ELSE IF rate < 100 THEN -10 ELSE 0)
      raw  == (2 * (base * n - 50 * q.failed) + n) \div (2 * n)
  IN Max({0, Min({100, raw})})

\* calculateEstimatedClearTime, null is -1
calculateEstimatedClearTime(q, rate) ==
  IF q.waiting = 0 THEN 0
  ELSE IF rate = 0 THEN -1
  ELSE (200 * q.waiting * TicksPerMinute + rate) \div (2 * rate)
===============================================================================
