----------------------------- MODULE StatsProofs -----------------------------
(***************************************************************************)
(* Proofs about the statistics of QueueAdmin for any options, requests,    *)
(* queues, jobs and reports of the processors: the rates add up to the     *)
(* completions, and a verdict agrees with the counts it is given for.      *)
(***************************************************************************)
EXTENDS AdminProofs

------------------------------------------------------------------------------
(* The rates add up *)

\* Rounding is off by a half at most.
LEMMA RoundClose ==
  ASSUME NEW a \in Int, NEW b \in Nat \ {0}
  PROVE  /\ Round(a, b) \in Int /\ 2 * (Round(a, b) * b - a) \in -b..b
         /\ a >= 0 => Round(a, b) >= 0
  <1> DEFINE x == (2 * a + b) \div (2 * b)
  <1>1. x \in Int /\ (2 * b) * x <= 2 * a + b /\ 2 * a + b < (2 * b) * x + 2 * b
    OBVIOUS
  <1> HIDE DEF x
  <1>2. (2 * b) * x = 2 * (x * b) /\ x * b \in Int
    BY <1>1
  <1>3. 2 * (x * b - a) \in -b..b
    BY <1>1, <1>2
  <1>4. a >= 0 => x >= 0
    <2> SUFFICES ASSUME a >= 0, x <= -1 PROVE FALSE
      BY <1>1
    <2> DEFINE z == -1 - x
    <2>1. z \in Nat /\ x = -1 - z
      BY <1>1
    <2> HIDE DEF z
    <2>2. x * b = -b - z * b /\ z * b >= 0 /\ z * b \in Int
      BY <2>1
    <2>3. QED
      BY <1>1, <1>2, <2>2
  <1>5. QED
    BY <1>1, <1>3, <1>4 DEF Round, x

\* What the rates of a queue have counted, and what they say of it.
RateRecord == [before : Int, counted : Int, lost : Int, time : Nat, answered : Int]
Adds(h) == 2 * (h.answered - h.counted * TicksPerMinute) \in -h.time..h.time

\* A sample of a queue with a processor is what it has completed so far, split
\* over the first sample, the rates and the losses, and the rates are right.
RateInv ==
  /\ done \in [Slots -> Nat] /\ DOMAIN rate = Slots /\ DOMAIN rateSamples = Slots
  /\ \A i \in Slots : Processed(i) =>
       /\ rate[i] \in RateRecord /\ Adds(rate[i])
       /\ rateSamples[i] # NoSample =>
            /\ rateSamples[i].completed \in 0..done[i] /\ rateSamples[i].timestamp \in Int
            /\ rateSamples[i].completed = rate[i].before + rate[i].counted + rate[i].lost

\* No rates add up.
LEMMA NoRatesAdd == NoRates \in RateRecord /\ Adds(NoRates)
  BY SampleAssumption DEF NoRates, RateRecord, Adds

\* Initially there is no sample.
LEMMA RateInit == Init => RateInv
  BY NoRatesAdd DEF Init, RateInv

\* A step that neither samples nor counts keeps RateInv.
LEMMA RateStutter ==
  ASSUME RateInv, UNCHANGED <<scenario, done, rate, rateSamples>>
  PROVE  RateInv'
  BY DEF RateInv, Processed, ProcessorOf, Options

\* What a rate of d completions in a time dt adds.
Added(h, d, dt, perMinute) == [h EXCEPT !.counted = @ + d, !.time = @ + dt, !.answered = @ + perMinute * dt]

\* A rate of completions that is rounded keeps the sum within the rounding.
LEMMA AddsOn ==
  ASSUME NEW h \in RateRecord, Adds(h), NEW d \in Nat, NEW dt \in Nat \ {0}, NEW perMinute \in Int,
         perMinute = Round(d * TicksPerMinute, dt)
  PROVE  LET next == Added(h, d, dt, perMinute) IN
         /\ next \in RateRecord /\ Adds(next)
         /\ next.before = h.before /\ next.counted = h.counted + d /\ next.lost = h.lost
  <1> DEFINE next == Added(h, d, dt, perMinute)
             more == d * TicksPerMinute
             said == perMinute * dt
             old == h.counted * TicksPerMinute
  <1>1. TicksPerMinute \in Nat /\ more \in Int /\ said \in Int /\ old \in Int
    BY SampleAssumption DEF RateRecord
  <1>2. 2 * (said - more) \in -dt..dt
    <2>1. 2 * (Round(more, dt) * dt - more) \in -dt..dt
      BY <1>1, RoundClose
    <2>2. QED
      BY <2>1
  <1>3. 2 * (h.answered - old) \in -h.time..h.time
    BY DEF Adds
  <1>4. (h.counted + d) * TicksPerMinute = old + more
    BY SampleAssumption DEF RateRecord
  <1>n. next = [h EXCEPT !.counted = @ + d, !.time = @ + dt, !.answered = @ + said]
    BY DEF Added
  <1> HIDE DEF next, more, said, old
  <1>5. /\ next.before = h.before /\ next.lost = h.lost /\ next.counted = h.counted + d
        /\ next.time = h.time + dt /\ next.answered = h.answered + said /\ next \in RateRecord
    <2> DEFINE c == h.counted + d
               t == h.time + dt
               a == h.answered + said
    <2>1. /\ h \in RateRecord /\ c \in Int /\ t \in Nat /\ a \in Int
          /\ next = [h EXCEPT !.counted = c, !.time = t, !.answered = a]
      BY <1>1, <1>n DEF RateRecord
    <2> HIDE DEF c, t, a
    <2>2. /\ next.before = h.before /\ next.lost = h.lost /\ next.counted = c
          /\ next.time = t /\ next.answered = a /\ next \in RateRecord
      BY <2>1 DEF RateRecord
    <2>3. QED
      BY <2>2 DEF c, t, a
  <1>6. Adds(next)
    <2>1. h.answered \in Int /\ h.time \in Nat
      BY DEF RateRecord
    <2>2. 2 * ((h.answered + said) - (old + more)) \in -(h.time + dt)..(h.time + dt)
      BY <1>1, <1>2, <1>3, <2>1
    <2>3. QED
      BY <1>4, <1>5, <2>2 DEF Adds
  <1>7. QED
    BY <1>5, <1>6 DEF next

\* A sample moves what was completed since the previous one to the rates, or to what they lost.
LEMMA RateSampleStep ==
  ASSUME RateInv, now \in Nat, NEW r \in Requests, NEW i \in Slots, NEW reported, Sample(r, i, reported)
  PROVE  RateInv'
  <1> DEFINE current == SampleOf(r, i)
             previous == rateSamples[i]
             h == rate[i]
             d == current.completed - previous.completed
             dt == current.timestamp - previous.timestamp
  <1>1. UNCHANGED <<scenario, done>> /\ rateSamples' = [rateSamples EXCEPT ![i] = current]
    BY DEF Sample, boundVars, jobVars
  <1>2. PICK perMinute :
           /\ previous # NoSample => perMinute = calculateRatesFromCounters(current, previous).throughputPerMin
           /\ rate' = [rate EXCEPT ![i] = RateAfter(@, perMinute, current, previous)]
    BY Zenon DEF Sample
  <1>3. /\ Processed(i) => current.completed = done[i] /\ current.completed \in Nat
        /\ current.timestamp \in Nat
    BY DEF SampleOf, RateInv
  <1> HIDE DEF current
  <1>4. /\ DOMAIN rate' = Slots /\ \A j \in Slots \ {i} : rate'[j] = rate[j]
        /\ rate'[i] = RateAfter(h, perMinute, current, previous)
    BY <1>2 DEF RateInv
  <1>5. ASSUME Processed(i)
        PROVE  /\ rate'[i] \in RateRecord /\ Adds(rate'[i])
               /\ current.completed = rate'[i].before + rate'[i].counted + rate'[i].lost
    <2>1. CASE previous = NoSample
      <3>1. rate'[i] = [before |-> current.completed, counted |-> 0, lost |-> 0, time |-> 0, answered |-> 0]
        BY <1>4, <2>1 DEF RateAfter, NoRates
      <3>2. QED
        BY <1>3, <1>5, <3>1, SampleAssumption DEF RateRecord, Adds
    <2>2. previous # NoSample =>
            /\ d \in Nat /\ previous.completed \in Nat /\ d = current.completed - previous.completed /\ dt \in Int
            /\ h \in RateRecord /\ Adds(h) /\ previous.completed = h.before + h.counted + h.lost
      BY <1>3, <1>5 DEF RateInv
    <2>3. CASE previous # NoSample /\ dt <= 0
      <3>1. rate'[i] = [h EXCEPT !.lost = @ + d]
        BY <1>4, <2>3 DEF RateAfter
      <3> HIDE DEF d, dt, h
      <3>2. QED
        BY <1>3, <1>5, <2>2, <2>3, <3>1 DEF RateRecord, Adds
    <2>4. CASE previous # NoSample /\ ~(dt <= 0)
      <3>1. rate'[i] = Added(h, d, dt, perMinute)
        BY <1>4, <2>4 DEF RateAfter, Added
      <3>2. dt \in Nat \ {0} /\ d * TicksPerMinute \in Int /\ d * TicksPerMinute >= 0
        BY <2>2, <2>4, SampleAssumption
      <3>3. perMinute = Round(d * TicksPerMinute, dt) /\ perMinute \in Int
        <4>1. perMinute = Most(0, Round(d * TicksPerMinute, dt))
          BY <1>2, <2>4 DEF calculateRatesFromCounters
        <4>2. PICK x \in Int : x = Round(d * TicksPerMinute, dt) /\ x >= 0
          BY <3>2, RoundClose
        <4>3. perMinute = x
          BY <4>1, <4>2 DEF Most
        <4>4. QED
          BY <4>2, <4>3
      <3> HIDE DEF d, dt, h
      <3>4. /\ rate'[i] \in RateRecord /\ Adds(rate'[i]) /\ rate'[i].before = h.before
            /\ rate'[i].counted = h.counted + d /\ rate'[i].lost = h.lost
        <4>1. h \in RateRecord /\ Adds(h) /\ d \in Nat
          BY <2>2, <2>4
        <4> HIDE DEF Adds
        <4>2. LET n == Added(h, d, dt, perMinute) IN
              n \in RateRecord /\ Adds(n) /\ n.before = h.before /\ n.counted = h.counted + d /\ n.lost = h.lost
          BY <3>2, <3>3, <4>1, AddsOn
        <4>3. QED
          BY <3>1, <4>2
      <3>5. QED
        BY <1>3, <1>5, <2>2, <2>4, <3>4 DEF RateRecord
    <2>5. QED
      BY <2>1, <2>3, <2>4
  <1>6. QED
    BY <1>1, <1>3, <1>4, <1>5 DEF RateInv, Processed, ProcessorOf, Options

\* Every step preserves RateInv.
LEMMA RateNext == scenario \in Scenarios /\ now \in Nat /\ RateInv /\ [Next]_vars => RateInv'
  <1> SUFFICES ASSUME scenario \in Scenarios, now \in Nat, RateInv, [Next]_vars PROVE RateInv'
    OBVIOUS
  <1>1. CASE Module
    <2>1. CASE onModuleInit
      BY <2>1, RateStutter DEF onModuleInit, boundVars, readVars, jobVars
    <2>2. CASE onModuleDestroy
      BY <2>2, RateStutter DEF onModuleDestroy, boundVars, readVars, jobVars
    <2>3. ASSUME NEW i \in Slots, CloseOwned(i) PROVE RateInv'
      BY <2>3, RateStutter DEF CloseOwned, boundVars, readVars, jobVars
    <2>4. CASE ProviderDestroyed
      BY <2>4, RateStutter DEF ProviderDestroyed, HookEnds, boundVars, readVars, jobVars
    <2>5. CASE ServiceDestroyed
      BY <2>5, NoRatesAdd DEF ServiceDestroyed, HookEnds, boundVars, jobVars, RateInv, Processed, ProcessorOf, Options
    <2>6. QED
      BY <1>1, <2>1, <2>2, <2>3, <2>4, <2>5 DEF Module
  <1>2. CASE Asked
    <2>1. ASSUME NEW r \in Requests, NEW a \in scenario.asks, Refuse(r, a) PROVE RateInv'
      BY <2>1, RateStutter DEF Refuse, boundVars, readVars, jobVars
    <2>2. ASSUME NEW r \in Requests, NEW a \in scenario.asks, AskCounts(r, a) PROVE RateInv'
      BY <2>2, RateStutter DEF AskCounts, boundVars, readVars, jobVars
    <2>3. ASSUME NEW r \in Requests, NEW a \in scenario.asks, AskControl(r, a) PROVE RateInv'
      BY <2>3, RateStutter DEF AskControl, boundVars, readVars, jobVars
    <2>4. ASSUME NEW r \in Requests, NEW a \in scenario.asks, AskMigration(r, a) PROVE RateInv'
      BY <2>4, RateStutter DEF AskMigration, boundVars, readVars, jobVars
    <2>5. ASSUME NEW r \in Requests, NEW a \in scenario.asks, AskCache(r, a) PROVE RateInv'
      BY <2>5, RateStutter DEF AskCache, boundVars, readVars, jobVars
    <2>6. QED
      BY <1>2, <2>1, <2>2, <2>3, <2>4, <2>5 DEF Asked
  <1>3. CASE Migrating
    <2>1. ASSUME NEW r \in Requests, NEW ok \in BOOLEAN, WorkEnds(r, ok) PROVE RateInv'
      BY <2>1, RateStutter DEF WorkEnds, boundVars, readVars, jobVars
    <2>2. ASSUME NEW r \in Requests, Closes(r) PROVE RateInv'
      BY <2>2, RateStutter DEF Closes, boundVars, readVars, jobVars
    <2>3. ASSUME NEW r \in Requests, CloseRejects(r) PROVE RateInv'
      BY <2>3, RateStutter DEF CloseRejects, boundVars, readVars, jobVars
    <2>4. QED
      BY <1>3, <2>1, <2>2, <2>3 DEF Migrating
  <1>4. CASE Stats
    <2>1. ASSUME NEW r \in Requests, NEW i \in Slots, ReadCount(r, i) PROVE RateInv'
      BY <2>1, RateStutter, SMTT(30) DEF ReadCount, boundVars, jobVars
    <2>2. ASSUME NEW r \in Requests, NEW i \in Slots,
              NEW reported \in scenario.reported \cup {NothingReported}, Sample(r, i, reported)
         PROVE  RateInv'
      BY <2>2, RateSampleStep, ZenonT(60) DEF Sample
    <2>3. ASSUME NEW r \in Requests, NEW i \in Slots, discoverJobTypes(r, i) PROVE RateInv'
      BY <2>3, RateStutter DEF discoverJobTypes, boundVars, jobVars
    <2>4. ASSUME NEW r \in Requests, NEW i \in Slots, ReadFails(r, i) PROVE RateInv'
      BY <2>4, RateStutter DEF ReadFails, boundVars, readVars, jobVars
    <2>5. ASSUME NEW r \in Requests, NEW i \in Slots, Act(r, i) PROVE RateInv'
      BY <2>5, RateStutter DEF Act, boundVars, readVars
    <2>6. ASSUME NEW r \in Requests, NEW i \in Slots, ActFails(r, i) PROVE RateInv'
      BY <2>6, RateStutter DEF ActFails, boundVars, readVars, jobVars
    <2>7. ASSUME NEW r \in Requests, NEW i \in Slots, ReadMemory(r, i) PROVE RateInv'
      BY <2>7, RateStutter DEF ReadMemory, boundVars, readVars, jobVars
    <2>8. QED
      BY <1>4, <2>1, <2>2, <2>3, <2>4, <2>5, <2>6, <2>7 DEF Stats
  <1>5. CASE Controlled
    <2>1. ASSUME NEW r \in Requests, NEW i \in Slots, Command(r, i) PROVE RateInv'
      BY <2>1, RateStutter DEF Command, boundVars, readVars
    <2>2. ASSUME NEW r \in Requests, NEW i \in Slots, SetReason(r, i) PROVE RateInv'
      BY <2>2, RateStutter DEF SetReason, boundVars, readVars, jobVars
    <2>3. ASSUME NEW r \in Requests, NEW i \in Slots, ControlFails(r, i) PROVE RateInv'
      BY <2>3, RateStutter DEF ControlFails, boundVars, readVars, jobVars
    <2>4. QED
      BY <1>5, <2>1, <2>2, <2>3 DEF Controlled
  <1>6. CASE Jobs
    <2>1. ASSUME NEW i \in DOMAIN Options.queues, JobArrives(i) PROVE RateInv'
      BY <2>1, RateStutter DEF JobArrives, Job, boundVars, readVars
    <2>2. ASSUME NEW i \in DOMAIN Options.queues, JobTaken(i) PROVE RateInv'
      BY <2>2, RateStutter DEF JobTaken, Job, boundVars, readVars
    <2>3. ASSUME NEW i \in DOMAIN Options.queues, JobCounted(i) PROVE RateInv'
      <3>1. i \in Slots
        BY AdminAssumption, scenario \in Scenarios DEF Options
      <3>2. done' = [done EXCEPT ![i] = done[i] + 1] /\ UNCHANGED <<scenario, rate, rateSamples>>
        BY <2>3 DEF JobCounted, boundVars, readVars
      <3>3. QED
        BY <3>1, <3>2 DEF RateInv, Processed, ProcessorOf, Options
    <2>4. ASSUME NEW i \in DOMAIN Options.queues, JobCompletes(i) PROVE RateInv'
      BY <2>4, RateStutter DEF JobCompletes, Job, boundVars, readVars
    <2>5. ASSUME NEW i \in DOMAIN Options.queues, NEW added \in {0, TicksPerMinute}, updateQueueContext(i, added)
         PROVE  RateInv'
      BY <2>5, RateStutter DEF updateQueueContext, boundVars, readVars
    <2>6. QED
      BY <1>6, <2>1, <2>2, <2>3, <2>4, <2>5 DEF Jobs
  <1>7. CASE Tick
    BY <1>7, RateStutter DEF Tick, readVars, jobVars
  <1>8. CASE UNCHANGED vars
    BY <1>8, RateStutter DEF vars, boundVars, readVars, jobVars
  <1>9. CASE Guarding
    BY <1>9, GuardingBeside, RateStutter DEF Beside, boundVars, readVars
  <1>10. QED
    BY <1>1, <1>2, <1>3, <1>4, <1>5, <1>6, <1>7, <1>8, <1>9 DEF Next
------------------------------------------------------------------------------
(* The verdict agrees with the rates, and the rates with the backlog *)

\* Integer division grows with the dividend.
LEMMA DivMono ==
  ASSUME NEW a \in Int, NEW c \in Int, NEW b \in Nat \ {0}, a <= c
  PROVE  a \div b <= c \div b /\ a \div b \in Int
  <1> DEFINE x == a \div b
             y == c \div b
  <1>1. x \in Int /\ y \in Int /\ b * x <= a /\ c < b * y + b
    OBVIOUS
  <1> HIDE DEF x, y
  <1>2. b * x < b * y + b /\ b * y + b = b * (y + 1)
    BY <1>1
  <1>3. ~(x >= y + 1)
    <2> SUFFICES ASSUME x >= y + 1 PROVE FALSE
      OBVIOUS
    <2> DEFINE z == x - (y + 1)
    <2>1. z \in Nat /\ x = (y + 1) + z
      BY <1>1
    <2> HIDE DEF z
    <2>2. b * x = b * (y + 1) + b * z /\ b * z >= 0
      BY <1>1, <2>1
    <2>3. QED
      BY <1>1, <1>2, <2>2
  <1>4. x <= y
    BY <1>1, <1>3
  <1>5. QED
    BY <1>1, <1>4 DEF x, y

\* So does rounding.
LEMMA RoundMono ==
  ASSUME NEW a \in Int, NEW c \in Int, NEW b \in Nat \ {0}, a <= c
  PROVE  Round(a, b) <= Round(c, b) /\ Round(a, b) \in Int
  BY DivMono DEF Round

\* The trend follows the rates, and a queue that is idle has nothing to clear.
LEMMA VerdictSound ==
  ASSUME NEW throughput \in Nat, NEW added \in Nat, NEW backlog \in Int, NEW avgMs, NEW failurePercent,
         NEW isPaused
  PROVE  LET v == calculatePerformanceMetrics(throughput, added, backlog, avgMs, failurePercent, isPaused) IN
         /\ v.trend = "idle" => backlog = 0
         /\ v.trend = "falling_behind" => throughput < added
         /\ v.trend = "catching_up" => throughput > added
         /\ v.clear >= 0 => v.trend # "idle"
  <1> DEFINE delta == throughput - added
             clear == ClearTime(throughput, delta, backlog)
             trend == Trend(delta, added, backlog, clear)
  <1>1. /\ trend = "idle" => backlog = 0
        /\ trend = "falling_behind" => throughput < added
        /\ trend = "catching_up" => throughput > added
    BY DEF Trend
  <1>2. backlog = 0 => clear = -1
    BY DEF ClearTime
  <1> HIDE DEF clear, trend
  <1>3. QED
    BY <1>1, <1>2 DEF calculatePerformanceMetrics, clear, trend

\* A sample of a queue
SampleRecord == [completed : Int, backlog : Int, timestamp : Int]

\* A queue to which more is added than is done grew since the last sample.
LEMMA RatesSound ==
  ASSUME NEW current \in SampleRecord, NEW previous \in SampleRecord
  PROVE  LET rates == calculateRatesFromCounters(current, previous) IN
         /\ rates.throughputPerMin \in Nat /\ rates.addedPerMin \in Nat
         /\ rates.throughputPerMin < rates.addedPerMin => current.backlog > previous.backlog
         /\ rates.throughputPerMin > rates.addedPerMin => current.backlog < previous.backlog
  <1> DEFINE dt == current.timestamp - previous.timestamp
             c == current.completed - previous.completed
             rise == current.backlog - previous.backlog
             a == c + current.backlog - previous.backlog
  <1>1. dt \in Int /\ c \in Int /\ rise \in Int /\ a = c + rise /\ a \in Int
    BY DEF SampleRecord
  <1>2. CASE dt <= 0
    BY <1>2 DEF calculateRatesFromCounters
  <1>3. CASE dt > 0
    <2>1. calculateRatesFromCounters(current, previous) =
            [throughputPerMin |-> Most(0, Round(c * TicksPerMinute, dt)),
             addedPerMin |-> Most(0, Round(a * TicksPerMinute, dt))]
      BY <1>1, <1>3 DEF calculateRatesFromCounters
    <2>2. rise >= 0 <=> current.backlog >= previous.backlog
      BY DEF SampleRecord
    <2>3. rise <= 0 <=> current.backlog <= previous.backlog
      BY DEF SampleRecord
    <2> HIDE DEF dt, c, rise, a
    <2>4. TicksPerMinute \in Nat /\ dt \in Nat \ {0} /\ c * TicksPerMinute \in Int /\ a * TicksPerMinute \in Int
      BY <1>1, <1>3, SampleAssumption
    <2>5. rise >= 0 => c * TicksPerMinute <= a * TicksPerMinute
      <3>1. a * TicksPerMinute = c * TicksPerMinute + rise * TicksPerMinute
        BY <1>1, <2>4
      <3>2. rise >= 0 => rise * TicksPerMinute >= 0
        BY <1>1, <2>4
      <3>3. rise * TicksPerMinute \in Int
        BY <1>1, <2>4
      <3>4. QED
        BY <2>4, <3>1, <3>2, <3>3
    <2>6. rise <= 0 => a * TicksPerMinute <= c * TicksPerMinute
      <3>1. a * TicksPerMinute = c * TicksPerMinute + rise * TicksPerMinute
        BY <1>1, <2>4
      <3>2. rise <= 0 => rise * TicksPerMinute <= 0
        BY <1>1, <2>4
      <3>3. rise * TicksPerMinute \in Int
        BY <1>1, <2>4
      <3>4. QED
        BY <2>4, <3>1, <3>2, <3>3
    <2>7. /\ Round(c * TicksPerMinute, dt) \in Int /\ Round(a * TicksPerMinute, dt) \in Int
          /\ rise >= 0 => Round(c * TicksPerMinute, dt) <= Round(a * TicksPerMinute, dt)
          /\ rise <= 0 => Round(a * TicksPerMinute, dt) <= Round(c * TicksPerMinute, dt)
      BY <2>4, <2>5, <2>6, RoundMono
    <2>8. QED
      <3> DEFINE x == Round(c * TicksPerMinute, dt)
                 y == Round(a * TicksPerMinute, dt)
      <3>1. x \in Int /\ y \in Int /\ (rise >= 0 => x <= y) /\ (rise <= 0 => y <= x)
        BY <2>7
      <3> HIDE DEF x, y
      <3>2. Most(0, x) \in Nat /\ Most(0, y) \in Nat
        BY <3>1 DEF Most
      <3>3. Most(0, x) < Most(0, y) => ~(rise <= 0)
        BY <3>1 DEF Most
      <3>4. Most(0, x) > Most(0, y) => ~(rise >= 0)
        BY <3>1 DEF Most
      <3>5. /\ current.backlog \in Int /\ previous.backlog \in Int
        BY DEF SampleRecord
      <3>6. QED
        BY <2>1, <2>2, <2>3, <3>2, <3>3, <3>4, <3>5 DEF x, y
  <1>4. QED
    BY <1>1, <1>2, <1>3
------------------------------------------------------------------------------
(* What a request shows of a queue *)

\* The figures agree with a backlog, as PerformanceAgrees demands.
Verdict(f, backlog) ==
  /\ ~f.provided =>
       /\ f.trend = "idle" => backlog = 0
       /\ f.trend = "falling_behind" => f.rise > 0
       /\ f.trend = "catching_up" /\ ~f.estimated => f.rise < 0
  /\ f.clear >= 0 => f.trend # "idle"
  /\ backlog <= Threshold => f.types <= backlog + 2
  /\ backlog > Threshold /\ SampleSize > 0 => f.types <= 2 * SampleSize

\* The jobs the request has counted
Backlog(r, i) == seen[r][i].waiting + seen[r][i].active

\* The figures of a sample
FigureRecord(f) == DOMAIN f = {"trend", "health", "clear", "rise", "estimated", "provided", "types"}

\* The types of what the statistics read.
PerformanceTypes ==
  /\ now \in Nat /\ rateSamples \in [Slots -> SampleRecord]
  /\ seen \in [Requests -> [Slots -> QueueRecord]]
  /\ DOMAIN figures = Requests /\ \A r \in Requests : DOMAIN figures[r] = Slots
  /\ done \in [Slots -> Nat] /\ DOMAIN context = Slots
  /\ \A i \in Slots : context[i].backlog \in Int /\ context[i].added \in Nat

\* Only a statistics request samples, and from its sample on its figures agree
\* with the counts it has read.
PerformanceInv == \A r \in Requests, i \in Slots :
  LET f == figures[r][i] IN
  /\ f # NoFigures \/ cmd[r][i] \in {"paused", "sample", "types"} =>
       stage[r] # "idle" /\ ask[r].kind \in Counting \ {"metrics"}
  /\ cmd[r][i] = "types" => f # NoFigures /\ f.types = 0
  /\ f # NoFigures => FigureRecord(f)
  /\ f # NoFigures /\ cmd[r][i] \in {"types", "memory", "done"} => Verdict(f, Backlog(r, i))

\* Initially nothing was counted, and nothing is shown.
LEMMA PerformanceInit == Init => PerformanceTypes /\ PerformanceInv
  <1> SUFFICES ASSUME Init PROVE PerformanceTypes /\ PerformanceInv
    OBVIOUS
  <1>1. PerformanceTypes
    BY DEF Init, PerformanceTypes, SampleRecord, NoSample, QueueRecord
  <1>2. PerformanceInv
    BY DEF Init, PerformanceInv
  <1>3. QED
    BY <1>1, <1>2

\* Every step preserves the types of what the statistics read.
LEMMA PerformanceTypesNext ==
  RequestTypes /\ QueueTypes /\ PerformanceTypes /\ [Next]_vars => PerformanceTypes'
  <1> SUFFICES ASSUME RequestTypes, QueueTypes, PerformanceTypes, [Next]_vars
               PROVE  PerformanceTypes'
    OBVIOUS
  <1> USE DEF PerformanceTypes, boundVars, readVars, jobVars
  <1>1. CASE Module
    <2>1. CASE onModuleInit
      BY <2>1 DEF onModuleInit
    <2>2. CASE onModuleDestroy
      BY <2>2 DEF onModuleDestroy
    <2>3. ASSUME NEW i \in Slots, CloseOwned(i) PROVE PerformanceTypes'
      BY <2>3 DEF CloseOwned
    <2>4. CASE ProviderDestroyed
      BY <2>4 DEF ProviderDestroyed, HookEnds, NoSample, SampleRecord
    <2>5. CASE ServiceDestroyed
      BY <2>5 DEF ServiceDestroyed, HookEnds, NoSample, SampleRecord
    <2>6. QED
      BY <1>1, <2>1, <2>2, <2>3, <2>4, <2>5 DEF Module
  <1>2. CASE Asked
    <2>1. ASSUME NEW r \in Requests, NEW a \in scenario.asks, Refuse(r, a) PROVE PerformanceTypes'
      BY <2>1 DEF Refuse
    <2>2. ASSUME NEW r \in Requests, NEW a \in scenario.asks, AskCounts(r, a)
         PROVE  PerformanceTypes'
      BY <2>2 DEF AskCounts
    <2>3. ASSUME NEW r \in Requests, NEW a \in scenario.asks, AskControl(r, a)
         PROVE  PerformanceTypes'
      BY <2>3 DEF AskControl
    <2>4. ASSUME NEW r \in Requests, NEW a \in scenario.asks, AskMigration(r, a)
         PROVE  PerformanceTypes'
      BY <2>4 DEF AskMigration
    <2>5. ASSUME NEW r \in Requests, NEW a \in scenario.asks, AskCache(r, a) PROVE PerformanceTypes'
      BY <2>5 DEF AskCache
    <2>6. QED
      BY <1>2, <2>1, <2>2, <2>3, <2>4, <2>5 DEF Asked
  <1>3. CASE Migrating
    <2>1. ASSUME NEW r \in Requests, NEW ok \in BOOLEAN, WorkEnds(r, ok) PROVE PerformanceTypes'
      BY <2>1 DEF WorkEnds
    <2>2. ASSUME NEW r \in Requests, Closes(r) PROVE PerformanceTypes'
      BY <2>2 DEF Closes
    <2>3. ASSUME NEW r \in Requests, CloseRejects(r) PROVE PerformanceTypes'
      BY <2>3 DEF CloseRejects
    <2>4. QED
      BY <1>3, <2>1, <2>2, <2>3 DEF Migrating
  <1>4. CASE Stats
    <2>1. ASSUME NEW r \in Requests, NEW i \in Slots, ReadCount(r, i) PROVE PerformanceTypes'
      <3>1. cmd[r][i] \in {"waiting", "active", "completed", "paused"}
        BY <2>1 DEF ReadCount, Counts
      <3>2. q[i] \in QueueRecord /\ seen[r][i] \in QueueRecord
        BY DEF QueueTypes
      <3>3. [seen[r][i] EXCEPT ![cmd[r][i]] = q[i][cmd[r][i]]] \in QueueRecord
        <4>1. CASE cmd[r][i] = "waiting"
          BY <3>2, <4>1 DEF QueueRecord
        <4>2. CASE cmd[r][i] = "active"
          BY <3>2, <4>2 DEF QueueRecord
        <4>3. CASE cmd[r][i] = "completed"
          BY <3>2, <4>3 DEF QueueRecord
        <4>4. CASE cmd[r][i] = "paused"
          BY <3>2, <4>4 DEF QueueRecord
        <4>5. QED
          BY <3>1, <4>1, <4>2, <4>3, <4>4
      <3>4. seen' = [seen EXCEPT ![r][i] = [seen[r][i] EXCEPT ![cmd[r][i]] = q[i][cmd[r][i]]]]
        BY <2>1 DEF ReadCount
      <3>5. QED
        BY <2>1, <3>3, <3>4 DEF ReadCount
    <2>2. ASSUME NEW r \in Requests, NEW i \in Slots,
              NEW reported \in scenario.reported \cup {NothingReported}, Sample(r, i, reported)
         PROVE  PerformanceTypes'
      <3>1. SampleOf(r, i) \in SampleRecord
        BY DEF SampleOf, SampleRecord, QueueRecord
      <3>2. /\ rateSamples' = [rateSamples EXCEPT ![i] = SampleOf(r, i)]
            /\ UNCHANGED <<boundVars, seen, done, context>>
        BY <2>2 DEF Sample
      <3>3. \E f : figures' = [figures EXCEPT ![r][i] = f]
        BY <2>2, ZenonT(60) DEF Sample
      <3>4. DOMAIN figures' = Requests /\ \A o \in Requests : DOMAIN figures'[o] = Slots
        BY <3>3
      <3>5. QED
        BY <3>1, <3>2, <3>4
    <2>3. ASSUME NEW r \in Requests, NEW i \in Slots, discoverJobTypes(r, i) PROVE PerformanceTypes'
      BY <2>3 DEF discoverJobTypes
    <2>4. ASSUME NEW r \in Requests, NEW i \in Slots, ReadFails(r, i) PROVE PerformanceTypes'
      BY <2>4 DEF ReadFails
    <2>5. ASSUME NEW r \in Requests, NEW i \in Slots, Act(r, i) PROVE PerformanceTypes'
      BY <2>5 DEF Act
    <2>6. ASSUME NEW r \in Requests, NEW i \in Slots, ActFails(r, i) PROVE PerformanceTypes'
      BY <2>6 DEF ActFails
    <2>7. ASSUME NEW r \in Requests, NEW i \in Slots, ReadMemory(r, i) PROVE PerformanceTypes'
      BY <2>7 DEF ReadMemory
    <2>8. QED
      BY <1>4, <2>1, <2>2, <2>3, <2>4, <2>5, <2>6, <2>7 DEF Stats
  <1>5. CASE Controlled
    <2>1. ASSUME NEW r \in Requests, NEW i \in Slots, Command(r, i) PROVE PerformanceTypes'
      BY <2>1 DEF Command
    <2>2. ASSUME NEW r \in Requests, NEW i \in Slots, SetReason(r, i) PROVE PerformanceTypes'
      BY <2>2 DEF SetReason
    <2>3. ASSUME NEW r \in Requests, NEW i \in Slots, ControlFails(r, i) PROVE PerformanceTypes'
      BY <2>3 DEF ControlFails
    <2>4. QED
      BY <1>5, <2>1, <2>2, <2>3 DEF Controlled
  <1>6. CASE Jobs
    <2>1. ASSUME NEW i \in DOMAIN Options.queues, JobArrives(i) PROVE PerformanceTypes'
      BY <2>1 DEF JobArrives, Job
    <2>2. ASSUME NEW i \in DOMAIN Options.queues, JobTaken(i) PROVE PerformanceTypes'
      BY <2>2 DEF JobTaken, Job
    <2>3. ASSUME NEW i \in DOMAIN Options.queues, JobCounted(i) PROVE PerformanceTypes'
      <3>1. i \in Slots
        BY AdminAssumption DEF Options, RequestTypes
      <3>2. QED
        BY <2>3, <3>1 DEF JobCounted
    <2>4. ASSUME NEW i \in DOMAIN Options.queues, JobCompletes(i) PROVE PerformanceTypes'
      BY <2>4 DEF JobCompletes, Job
    <2>5. ASSUME NEW i \in DOMAIN Options.queues, NEW added \in {0, TicksPerMinute}, updateQueueContext(i, added)
         PROVE  PerformanceTypes'
      <3>1. q[i].waiting + q[i].active \in Int /\ added \in Nat /\ i \in Slots
        BY AdminAssumption, SampleAssumption DEF QueueTypes, QueueRecord, Options, RequestTypes
      <3>2. QED
        BY <2>5, <3>1 DEF updateQueueContext
    <2>6. QED
      BY <1>6, <2>1, <2>2, <2>3, <2>4, <2>5 DEF Jobs
  <1>7. CASE Tick
    BY <1>7 DEF Tick
  <1>8. CASE UNCHANGED vars
    BY <1>8 DEF vars
  <1>9. CASE Guarding
    <2>1. UNCHANGED <<boundVars, readVars, done, context>>
      BY <1>9, GuardingBeside DEF Beside
    <2>2. QED
      BY <2>1
  <1>10. QED
    BY <1>1, <1>2, <1>3, <1>4, <1>5, <1>6, <1>7, <1>8, <1>9 DEF Next

\* A step that neither reads nor samples keeps PerformanceInv.
LEMMA PerformanceQuiet ==
  ASSUME PerformanceInv, UNCHANGED <<seen, figures>>,
         \A r \in Requests : stage[r] # "idle" => stage'[r] # "idle" /\ ask'[r] = ask[r],
         \A r \in Requests, i \in Slots :
           \/ cmd'[r][i] = cmd[r][i]
           \/ cmd'[r][i] \notin {"paused", "sample", "types", "memory", "done"}
           \/ cmd'[r][i] = "done" /\ (figures[r][i] = NoFigures \/ cmd[r][i] = "memory")
  PROVE  PerformanceInv'
  <1> SUFFICES ASSUME NEW r \in Requests, NEW i \in Slots
      PROVE (LET f == figures[r][i] IN
  /\ f # NoFigures \/ cmd[r][i] \in {"paused", "sample", "types"} =>
       stage[r] # "idle" /\ ask[r].kind \in Counting \ {"metrics"}
  /\ cmd[r][i] = "types" => f # NoFigures /\ f.types = 0
  /\ f # NoFigures => FigureRecord(f)
  /\ f # NoFigures /\ cmd[r][i] \in {"types", "memory", "done"} => Verdict(f, Backlog(r, i)))'
    BY DEF PerformanceInv
  <1> QED
    BY DEF PerformanceInv, Backlog

\* The request goes on: its commands are those given, or what follows them.
LEMMA ProceedCommands ==
  ASSUME RequestTypes, NEW r \in Requests, NEW cmds \in [Slots -> Commands], Reading(r), Proceed(r, cmds)
  PROVE  /\ stage'[r] # "idle" /\ \A i \in Slots : cmd'[r][i] = cmds[i] \/ cmd'[r][i] \in {"act", "none"}
         /\ \A o \in Requests \ {r} : stage'[o] = stage[o] /\ cmd'[o] = cmd[o]
  BY DEF RequestTypes, Reading, Proceed, Answer

\* A count is read: what was figured out of the old ones no longer counts.
LEMMA ReadCountStep ==
  ASSUME RequestTypes, QueueTypes, AskedFor, PerformanceTypes, PerformanceInv, NEW r \in Requests, NEW i \in Slots,
         ReadCount(r, i)
  PROVE  PerformanceInv'
  <1> DEFINE what == cmd[r][i]
             next == NextRead(what, ask[r].kind)
  <1>1. /\ Reading(r) /\ what \in Counts \cup {"paused"} /\ UNCHANGED <<ask, figures>>
        /\ seen' = [seen EXCEPT ![r][i][what] = q[i][what]]
        /\ Proceed(r, [cmd[r] EXCEPT ![i] = next])
    BY DEF ReadCount
  <1>2. /\ next \in Commands /\ next \notin {"types", "memory"}
        /\ next = "done" => ask[r].kind = "metrics"
        /\ next \in {"paused", "sample"} => ask[r].kind # "metrics" \/ what = "paused"
    BY <1>1 DEF NextRead, Counts, Commands
  <1> HIDE DEF next
  <1>3. [cmd[r] EXCEPT ![i] = next] \in [Slots -> Commands]
    BY <1>2 DEF RequestTypes
  <1>4. /\ stage'[r] # "idle"
        /\ \A j \in Slots \ {i} : cmd'[r][j] = cmd[r][j] \/ cmd'[r][j] \in {"act", "none"}
        /\ cmd'[r][i] = next \/ cmd'[r][i] \in {"act", "none"}
        /\ \A o \in Requests \ {r} : stage'[o] = stage[o] /\ cmd'[o] = cmd[o]
    BY <1>1, <1>3, ProceedCommands, ZenonT(60) DEF RequestTypes
  <1>5. \A o \in Requests, j \in Slots : o # r \/ j # i => Backlog(o, j)' = Backlog(o, j)
    BY <1>1 DEF Backlog, PerformanceTypes
  <1>6. ask[r].kind \in Counting /\ stage[r] # "idle"
    BY <1>1 DEF Reading, AskedFor
  <1>7. ask[r].kind = "metrics" => figures[r][i] = NoFigures /\ what # "paused"
    BY DEF PerformanceInv
  <1>8. ASSUME NEW o \in Requests, NEW j \in Slots, o # r \/ j # i
        PROVE  LET f == figures[o][j] IN
               /\ f # NoFigures \/ cmd'[o][j] \in {"paused", "sample", "types"} =>
                    stage'[o] # "idle" /\ ask[o].kind \in Counting \ {"metrics"}
               /\ cmd'[o][j] = "types" => f # NoFigures /\ f.types = 0
               /\ f # NoFigures => FigureRecord(f)
               /\ f # NoFigures /\ cmd'[o][j] \in {"types", "memory", "done"} => Verdict(f, Backlog(o, j)')
    BY <1>4, <1>5, <1>8 DEF PerformanceInv
  <1>9. LET f == figures[r][i] IN
        /\ f # NoFigures \/ cmd'[r][i] \in {"paused", "sample", "types"} =>
             stage'[r] # "idle" /\ ask[r].kind \in Counting \ {"metrics"}
        /\ cmd'[r][i] = "types" => f # NoFigures /\ f.types = 0
        /\ f # NoFigures => FigureRecord(f)
        /\ f # NoFigures /\ cmd'[r][i] \in {"types", "memory", "done"} => Verdict(f, Backlog(r, i)')
    BY <1>2, <1>4, <1>6, <1>7 DEF PerformanceInv
  <1>10. QED
    BY <1>1, <1>8, <1>9 DEF PerformanceInv

\* A sample is taken: the verdict is on the counts the request has just read.
LEMMA SampleStep ==
  ASSUME RequestTypes, QueueTypes, AskedFor, PerformanceTypes, PerformanceInv, NEW r \in Requests, NEW i \in Slots,

              NEW reported \in scenario.reported \cup {NothingReported}, Sample(r, i, reported)
  PROVE  PerformanceInv'
  <1> DEFINE current    == SampleOf(r, i)
             previous   == rateSamples[i]
             isFirst    == previous = NoSample
             rates      == IF isFirst THEN [throughputPerMin |-> 0, addedPerMin |-> 0]
                           ELSE calculateRatesFromCounters(current, previous)
             throughput == IF rates.throughputPerMin > 0 THEN rates.throughputPerMin ELSE reported.perMinute
             provided   == ProcessorOf(i) = "adapted"
             own        == calculatePerformanceMetrics(throughput, rates.addedPerMin, current.backlog,
                             reported.avgMs, reported.failurePercent, seen[r][i].paused)
             adapted    == calculatePerformanceMetrics(reported.perMinute, context[i].added, context[i].backlog,
                             reported.avgMs, reported.failurePercent, FALSE)
             verdict    == IF provided THEN adapted ELSE own
             rise       == IF isFirst THEN 0 ELSE current.backlog - previous.backlog
             estimated  == rates.throughputPerMin = 0 /\ throughput > 0
             f          == [trend |-> verdict.trend, health |-> verdict.health, clear |-> verdict.clear,
                            rise |-> rise, estimated |-> estimated, provided |-> provided, types |-> 0]
  <1>1. /\ Reading(r) /\ cmd[r][i] = "sample" /\ UNCHANGED <<ask, seen>>
        /\ Proceed(r, [cmd[r] EXCEPT ![i] = "types"])
    BY DEF Sample
  <1>2. figures' = [figures EXCEPT ![r][i] = f]
    BY Zenon DEF Sample
  <1>3. /\ seen[r][i].waiting \in Nat /\ seen[r][i].active \in Nat /\ current.backlog = Backlog(r, i)
        /\ current.backlog \in Nat
    BY DEF PerformanceTypes, QueueRecord, SampleOf, Backlog
  <1>4. current \in SampleRecord /\ previous \in SampleRecord
    BY DEF PerformanceTypes, QueueRecord, SampleOf, SampleRecord
  <1>5. reported.perMinute \in Nat
    BY AdminAssumption DEF RequestTypes, NothingReported
  <1> HIDE DEF current, previous
  <1>6. /\ rates.throughputPerMin \in Nat /\ rates.addedPerMin \in Nat
        /\ rates.throughputPerMin < rates.addedPerMin => rise > 0
        /\ rates.throughputPerMin > rates.addedPerMin => rise < 0
    <2>1. CASE isFirst
      BY <2>1
    <2>2. CASE ~isFirst
      BY <1>4, <2>2, RatesSound DEF SampleRecord
    <2>3. QED
      BY <2>1, <2>2
  <1> HIDE DEF rates, isFirst, rise
  <1>7. /\ throughput \in Nat
        /\ throughput < rates.addedPerMin => rise > 0
        /\ throughput > rates.addedPerMin /\ ~estimated => rise < 0
    BY <1>5, <1>6
  <1>8. /\ own.trend = "idle" => current.backlog = 0
        /\ own.trend = "falling_behind" => throughput < rates.addedPerMin
        /\ own.trend = "catching_up" => throughput > rates.addedPerMin
        /\ own.clear >= 0 => own.trend # "idle"
    BY <1>3, <1>6, <1>7, VerdictSound
  <1>9. adapted.clear >= 0 => adapted.trend # "idle"
    BY <1>5, VerdictSound DEF PerformanceTypes
  <1> HIDE DEF own, adapted, throughput, estimated, provided
  <1>10. Verdict(f, current.backlog) /\ FigureRecord(f) /\ f.types = 0 /\ f # NoFigures
    <2>1. FigureRecord(f) /\ f.types = 0 /\ current.backlog + 2 >= 0
      BY <1>3 DEF FigureRecord
    <2>2. f # NoFigures
      <3>1. f = NoFigures => DOMAIN f = DOMAIN NoFigures
        OBVIOUS
      <3>2. "rise" \in DOMAIN f /\ "rise" \notin DOMAIN NoFigures
        BY DEF NoFigures
      <3>3. QED
        BY <3>1, <3>2
    <2>3. f.trend = verdict.trend /\ f.clear = verdict.clear /\ f.rise = rise
      OBVIOUS
    <2>4. (f.provided <=> provided) /\ (f.estimated <=> estimated)
      BY DEF provided, estimated
    <2> HIDE DEF f
    <2>5. CASE provided
      BY <1>9, <2>1, <2>2, <2>3, <2>4, <2>5, SampleAssumption DEF Verdict
    <2>6. CASE ~provided
      BY <1>7, <1>8, <2>1, <2>2, <2>3, <2>4, <2>6, SampleAssumption DEF Verdict
    <2>7. QED
      BY <2>5, <2>6
  <1> HIDE DEF f
  <1>11. figures'[r][i] = f /\ \A o \in Requests, j \in Slots : o # r \/ j # i => figures'[o][j] = figures[o][j]
    BY <1>2 DEF PerformanceTypes
  <1>12. [cmd[r] EXCEPT ![i] = "types"] \in [Slots -> Commands]
    BY DEF RequestTypes, Commands
  <1>13. /\ stage'[r] # "idle"
         /\ \A j \in Slots \ {i} : cmd'[r][j] = cmd[r][j] \/ cmd'[r][j] \in {"act", "none"}
         /\ cmd'[r][i] = "types" \/ cmd'[r][i] \in {"act", "none"}
         /\ \A o \in Requests \ {r} : stage'[o] = stage[o] /\ cmd'[o] = cmd[o]
    BY <1>1, <1>12, ProceedCommands, ZenonT(60) DEF RequestTypes
  <1>14. ask[r].kind \in Counting \ {"metrics"} /\ stage[r] # "idle"
    BY <1>1 DEF PerformanceInv
  <1>15. QED
    BY <1>1, <1>3, <1>10, <1>11, <1>13, <1>14 DEF PerformanceInv, Backlog

\* The types of jobs are shown: at most one job of each state more than were counted.
LEMMA discoverJobTypesStep ==
  ASSUME RequestTypes, QueueTypes, AskedFor, PerformanceTypes, PerformanceInv, NEW r \in Requests, NEW i \in Slots,
         discoverJobTypes(r, i)
  PROVE  PerformanceInv'
  <1> DEFINE types == Fetched(r, i, "waiting") + Fetched(r, i, "active")
             next == NextRead("types", ask[r].kind)
  <1>1. /\ Reading(r) /\ cmd[r][i] = "types" /\ UNCHANGED <<ask, seen>>
        /\ Proceed(r, [cmd[r] EXCEPT ![i] = next])
        /\ figures' = figures \/ figures' = [figures EXCEPT ![r][i].types = types]
    BY DEF discoverJobTypes
  <1>2. /\ Backlog(r, i) <= Threshold => types <= Backlog(r, i) + 2
        /\ Backlog(r, i) > Threshold /\ SampleSize > 0 => types <= 2 * SampleSize
    <2>1. /\ seen[r][i].waiting \in Nat /\ seen[r][i].active \in Nat
          /\ q[i].waiting \in Nat /\ q[i].active \in Nat
      BY DEF PerformanceTypes, QueueTypes, QueueRecord
    <2>2. QED
      BY <2>1, SampleAssumption DEF Fetched, Least, Backlog
  <1>n. next \in {"memory", "done"}
    BY DEF NextRead
  <1> HIDE DEF types, next
  <1>3. /\ figures'[r][i] = figures[r][i] \/ figures'[r][i] = [figures[r][i] EXCEPT !.types = types]
        /\ \A o \in Requests, j \in Slots : o # r \/ j # i => figures'[o][j] = figures[o][j]
    BY <1>1 DEF PerformanceTypes
  <1>4. figures[r][i] # NoFigures /\ FigureRecord(figures[r][i]) /\ Verdict(figures[r][i], Backlog(r, i))
    BY <1>1 DEF PerformanceInv
  <1>5. FigureRecord(figures'[r][i]) /\ Verdict(figures'[r][i], Backlog(r, i))
    BY <1>2, <1>3, <1>4 DEF FigureRecord, Verdict
  <1>6. figures'[r][i] # NoFigures
    BY <1>5 DEF FigureRecord, NoFigures
  <1>7. [cmd[r] EXCEPT ![i] = next] \in [Slots -> Commands]
    BY <1>n DEF RequestTypes, Commands
  <1>8. /\ stage'[r] # "idle"
        /\ \A j \in Slots \ {i} : cmd'[r][j] = cmd[r][j] \/ cmd'[r][j] \in {"act", "none"}
        /\ cmd'[r][i] = next \/ cmd'[r][i] \in {"act", "none"}
        /\ \A o \in Requests \ {r} : stage'[o] = stage[o] /\ cmd'[o] = cmd[o]
    BY <1>1, <1>7, ProceedCommands, ZenonT(60) DEF RequestTypes
  <1>9. ask[r].kind \in Counting \ {"metrics"} /\ stage[r] # "idle"
    BY <1>1 DEF PerformanceInv
  <1>10. QED
    BY <1>1, <1>n, <1>3, <1>5, <1>6, <1>8, <1>9 DEF PerformanceInv, Backlog

\* Every step preserves PerformanceInv.
LEMMA PerformanceNext ==
  RequestTypes /\ QueueTypes /\ AskedFor /\ PerformanceTypes /\ PerformanceInv /\ [Next]_vars => PerformanceInv'
  <1> SUFFICES ASSUME RequestTypes, QueueTypes, AskedFor, PerformanceTypes, PerformanceInv, [Next]_vars
               PROVE  PerformanceInv'
    OBVIOUS
  <1>1. CASE Module
    <2>1. CASE onModuleInit
      BY <2>1, PerformanceQuiet DEF onModuleInit, readVars
    <2>2. CASE onModuleDestroy
      BY <2>2, PerformanceQuiet DEF onModuleDestroy, readVars
    <2>3. ASSUME NEW i \in Slots, CloseOwned(i) PROVE PerformanceInv'
      BY <2>3, PerformanceQuiet DEF CloseOwned, readVars
    <2>4. CASE ProviderDestroyed
      BY <2>4, PerformanceQuiet DEF ProviderDestroyed, HookEnds, readVars
    <2>5. CASE ServiceDestroyed
      BY <2>5, PerformanceQuiet DEF ServiceDestroyed, HookEnds
    <2>6. QED
      BY <1>1, <2>1, <2>2, <2>3, <2>4, <2>5 DEF Module
  <1>2. CASE Asked
    <2>1. ASSUME NEW r \in Requests, NEW a \in scenario.asks, Refuse(r, a) PROVE PerformanceInv'
      BY <2>1, PerformanceQuiet DEF Refuse, readVars, MayAsk, Answer, RequestTypes
    <2>2. ASSUME NEW r \in Requests, NEW a \in scenario.asks, AskCounts(r, a) PROVE PerformanceInv'
      BY <2>2, PerformanceQuiet DEF AskCounts, readVars, MayAsk, RequestTypes
    <2>3. ASSUME NEW r \in Requests, NEW a \in scenario.asks, AskControl(r, a) PROVE PerformanceInv'
      BY <2>3, PerformanceQuiet DEF AskControl, readVars, MayAsk, RequestTypes
    <2>4. ASSUME NEW r \in Requests, NEW a \in scenario.asks, AskMigration(r, a)
         PROVE  PerformanceInv'
      BY <2>4, PerformanceQuiet DEF AskMigration, readVars, MayAsk, Answer, RequestTypes
    <2>5. ASSUME NEW r \in Requests, NEW a \in scenario.asks, AskCache(r, a) PROVE PerformanceInv'
      BY <2>5, PerformanceQuiet DEF AskCache, readVars, MayAsk, Answer, RequestTypes
    <2>6. QED
      BY <1>2, <2>1, <2>2, <2>3, <2>4, <2>5 DEF Asked
  <1>3. CASE Migrating
    <2>1. ASSUME NEW r \in Requests, NEW ok \in BOOLEAN, WorkEnds(r, ok) PROVE PerformanceInv'
      BY <2>1, PerformanceQuiet DEF WorkEnds, readVars, RequestTypes
    <2>2. ASSUME NEW r \in Requests, Closes(r) PROVE PerformanceInv'
      BY <2>2, PerformanceQuiet DEF Closes, readVars, RequestTypes
    <2>3. ASSUME NEW r \in Requests, CloseRejects(r) PROVE PerformanceInv'
      BY <2>3, PerformanceQuiet DEF CloseRejects, readVars, Answer, RequestTypes
    <2>4. QED
      BY <1>3, <2>1, <2>2, <2>3 DEF Migrating
  <1>4. CASE Stats
    <2>1. ASSUME NEW r \in Requests, NEW i \in Slots, ReadCount(r, i) PROVE PerformanceInv'
      BY <2>1, ReadCountStep DEF ReadCount
    <2>2. ASSUME NEW r \in Requests, NEW i \in Slots,
              NEW reported \in scenario.reported \cup {NothingReported}, Sample(r, i, reported)
         PROVE  PerformanceInv'
      BY <2>2, SampleStep, ZenonT(60) DEF Sample
    <2>3. ASSUME NEW r \in Requests, NEW i \in Slots, discoverJobTypes(r, i) PROVE PerformanceInv'
      BY <2>3, discoverJobTypesStep DEF discoverJobTypes
    <2>4. ASSUME NEW r \in Requests, NEW i \in Slots, ReadFails(r, i) PROVE PerformanceInv'
      <3>1. CASE ask[r].kind = "stats"
        <4>1. [cmd[r] EXCEPT ![i] = "failed"] \in [Slots -> Commands]
          BY DEF RequestTypes, Commands
        <4>2. Reading(r) /\ Proceed(r, [cmd[r] EXCEPT ![i] = "failed"]) /\ UNCHANGED <<ask, seen, figures>>
          BY <2>4, <3>1 DEF ReadFails, readVars
        <4>3. /\ stage'[r] # "idle"
              /\ cmd'[r][i] = "failed" \/ cmd'[r][i] \in {"act", "none"}
              /\ \A j \in Slots \ {i} : cmd'[r][j] = cmd[r][j] \/ cmd'[r][j] \in {"act", "none"}
              /\ \A o \in Requests \ {r} : stage'[o] = stage[o] /\ cmd'[o] = cmd[o]
          BY <4>1, <4>2, ProceedCommands, ZenonT(60) DEF RequestTypes
        <4>4. \A o \in Requests, j \in Slots :
                cmd'[o][j] = cmd[o][j] \/ cmd'[o][j] \notin {"paused", "sample", "types", "memory", "done"}
          BY <4>3
        <4>5. \A o \in Requests : stage[o] # "idle" => stage'[o] # "idle" /\ ask'[o] = ask[o]
          BY <4>2, <4>3
        <4>6. UNCHANGED <<seen, figures>>
          BY <4>2
        <4>7. QED
          BY <4>4, <4>5, <4>6, PerformanceQuiet
      <3>2. CASE ask[r].kind # "stats"
        BY <2>4, <3>2, PerformanceQuiet DEF ReadFails, readVars, Reading, Answer, RequestTypes
      <3>3. QED
        BY <3>1, <3>2
    <2>5. ASSUME NEW r \in Requests, NEW i \in Slots, Act(r, i) PROVE PerformanceInv'
      BY <2>5, PerformanceQuiet DEF Act, readVars, RequestTypes
    <2>6. ASSUME NEW r \in Requests, NEW i \in Slots, ActFails(r, i) PROVE PerformanceInv'
      BY <2>6, PerformanceQuiet DEF ActFails, readVars, Answer, RequestTypes
    <2>7. ASSUME NEW r \in Requests, NEW i \in Slots, ReadMemory(r, i) PROVE PerformanceInv'
      <3>1. [cmd[r] EXCEPT ![i] = "done"] \in [Slots -> Commands]
        BY DEF RequestTypes, Commands
      <3>2. /\ Reading(r) /\ cmd[r][i] = "memory" /\ Proceed(r, [cmd[r] EXCEPT ![i] = "done"])
            /\ UNCHANGED <<ask, seen, figures>>
        BY <2>7 DEF ReadMemory, readVars
      <3>3. /\ stage'[r] # "idle"
            /\ cmd'[r][i] = "done" \/ cmd'[r][i] \in {"act", "none"}
            /\ \A j \in Slots \ {i} : cmd'[r][j] = cmd[r][j] \/ cmd'[r][j] \in {"act", "none"}
            /\ \A o \in Requests \ {r} : stage'[o] = stage[o] /\ cmd'[o] = cmd[o]
        BY <3>1, <3>2, ProceedCommands, ZenonT(60) DEF RequestTypes
      <3>4. \A o \in Requests, j \in Slots :
              \/ cmd'[o][j] = cmd[o][j] \/ cmd'[o][j] \notin {"paused", "sample", "types", "memory", "done"}
              \/ cmd'[o][j] = "done" /\ cmd[o][j] = "memory"
        BY <3>2, <3>3
      <3>5. \A o \in Requests : stage[o] # "idle" => stage'[o] # "idle" /\ ask'[o] = ask[o]
        BY <3>2, <3>3
      <3>6. UNCHANGED <<seen, figures>>
        BY <3>2
      <3>7. QED
        BY <3>4, <3>5, <3>6, PerformanceQuiet
    <2>8. QED
      BY <1>4, <2>1, <2>2, <2>3, <2>4, <2>5, <2>6, <2>7 DEF Stats
  <1>5. CASE Controlled
    <2>1. ASSUME NEW r \in Requests, NEW i \in Slots, Command(r, i) PROVE PerformanceInv'
      <3>1. \A j \in Slots : cmd'[r][j] = cmd[r][j] \/ cmd'[r][j] \in {"commanded", "reason"}
        BY <2>1 DEF Command, AfterCommand, RequestTypes
      <3>2. \A o \in Requests \ {r} : cmd'[o] = cmd[o]
        BY <2>1 DEF Command, RequestTypes
      <3>3. QED
        BY <2>1, <3>1, <3>2, PerformanceQuiet DEF Command, readVars
    <2>2. ASSUME NEW r \in Requests, NEW i \in Slots, SetReason(r, i) PROVE PerformanceInv'
      <3>1. figures[r][i] = NoFigures
        BY <2>2 DEF SetReason, InFlight, PerformanceInv, Controls, Counting
      <3>2. /\ cmd' = [cmd EXCEPT ![r][i] = "done"] /\ UNCHANGED <<ask, seen, figures>>
            /\ stage' = stage \/ stage' = [stage EXCEPT ![r] = "answered"]
        BY <2>2 DEF SetReason, Answer, readVars, RequestTypes
      <3>3. QED
        BY <3>1, <3>2, PerformanceQuiet DEF RequestTypes
    <2>3. ASSUME NEW r \in Requests, NEW i \in Slots, ControlFails(r, i) PROVE PerformanceInv'
      BY <2>3, PerformanceQuiet DEF ControlFails, readVars, Answer, RequestTypes
    <2>4. QED
      BY <1>5, <2>1, <2>2, <2>3 DEF Controlled
  <1>6. CASE Jobs
    <2>1. ASSUME NEW i \in DOMAIN Options.queues, JobArrives(i) PROVE PerformanceInv'
      BY <2>1, PerformanceQuiet DEF JobArrives, Job, readVars
    <2>2. ASSUME NEW i \in DOMAIN Options.queues, JobTaken(i) PROVE PerformanceInv'
      BY <2>2, PerformanceQuiet DEF JobTaken, Job, readVars
    <2>3. ASSUME NEW i \in DOMAIN Options.queues, JobCounted(i) PROVE PerformanceInv'
      BY <2>3, PerformanceQuiet DEF JobCounted, readVars
    <2>4. ASSUME NEW i \in DOMAIN Options.queues, JobCompletes(i) PROVE PerformanceInv'
      BY <2>4, PerformanceQuiet DEF JobCompletes, Job, readVars
    <2>5. ASSUME NEW i \in DOMAIN Options.queues, NEW added \in {0, TicksPerMinute}, updateQueueContext(i, added)
         PROVE  PerformanceInv'
      BY <2>5, PerformanceQuiet DEF updateQueueContext, readVars
    <2>6. QED
      BY <1>6, <2>1, <2>2, <2>3, <2>4, <2>5 DEF Jobs
  <1>7. CASE Tick
    BY <1>7, PerformanceQuiet DEF Tick, readVars
  <1>8. CASE UNCHANGED vars
    BY <1>8, PerformanceQuiet DEF vars, readVars
  <1>9. CASE Guarding
    BY <1>9, GuardingBeside, PerformanceQuiet DEF Beside, readVars
  <1>10. QED
    BY <1>1, <1>2, <1>3, <1>4, <1>5, <1>6, <1>7, <1>8, <1>9 DEF Next
------------------------------------------------------------------------------
(* Theorems *)

\* The rates that were shown add up to the completions between the samples, to
\* within half a job per minute of the time they cover.
THEOREM StatsRates == Spec => []RatesAddUp
  <1>1. AdminInv => scenario \in Scenarios /\ now \in Nat
    BY DEF AdminInv, RequestTypes, ShapeInv
  <1>2. RateInv => RatesAddUp
    BY DEF RateInv, RatesAddUp, Adds
  <1>3. QED
    BY <1>1, <1>2, RateInit, RateNext, AdminInvariant, PTL DEF Spec

\* What is shown of a queue agrees with what was counted in it.
THEOREM StatsPerformance == Spec => []PerformanceAgrees
  <1>1. AdminInv => RequestTypes /\ QueueTypes /\ AskedFor
    BY DEF AdminInv
  <1>2. PerformanceInv => PerformanceAgrees
    BY DEF PerformanceInv, PerformanceAgrees, Verdict, Backlog
  <1>3. RequestTypes /\ QueueTypes /\ AskedFor /\ PerformanceTypes /\ PerformanceInv /\ [Next]_vars
          => PerformanceTypes' /\ PerformanceInv'
    BY PerformanceTypesNext, PerformanceNext
  <1>4. QED
    BY <1>1, <1>2, <1>3, PerformanceInit, AdminInvariant, PTL DEF Spec
==============================================================================
