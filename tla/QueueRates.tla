------------------------------- MODULE QueueRates -------------------------------
(***************************************************************************)
(* The rates and the performance figures QueuebertService derives from two *)
(* samples of a queue's counters. Rates are in jobs per minute, a time is  *)
(* a number of ticks, a failure rate a percentage.                         *)
(***************************************************************************)
EXTENDS Integers

CONSTANT TicksPerMinute

Least(a, b) == IF a < b THEN a ELSE b
Most(a, b) == IF a > b THEN a ELSE b

\* Math.round(a / b), for b > 0
Round(a, b) == (2 * a + b) \div (2 * b)

\* The rates are rounded to whole jobs per minute; none when the clock has not moved.
calculateRatesFromCounters(current, previous) ==
  LET dt        == current.timestamp - previous.timestamp
      completed == current.completed - previous.completed
      added     == completed + current.backlog - previous.backlog
  IN IF dt <= 0 THEN [throughputPerMin |-> 0, addedPerMin |-> 0]
     ELSE [throughputPerMin |-> Most(0, Round(completed * TicksPerMinute, dt)),
           addedPerMin |-> Most(0, Round(added * TicksPerMinute, dt))]

\* null, or the ticks until the backlog is gone
ClearTime(throughput, delta, backlog) ==
  IF backlog = 0 THEN -1
  ELSE IF delta > 0 THEN Round(backlog * TicksPerMinute, delta)
  ELSE IF throughput > 0 THEN Round(backlog * TicksPerMinute, throughput)
  ELSE -1

\* Seeded bug: the sign of the difference is lost.
TrendUnsigned(delta, added, backlog, clear) ==
  IF backlog = 0 /\ added = 0 THEN "idle"
  ELSE IF delta > 50 \/ delta < -50 THEN "catching_up" ELSE "stable"

Trend(delta, added, backlog, clear) ==
  IF backlog = 0 /\ added = 0 THEN "idle"
  ELSE IF delta > 50 THEN "catching_up"
  ELSE IF delta < -50 THEN "falling_behind"
  ELSE IF delta \in -10..10 THEN "stable"
  ELSE IF delta > 0
       THEN IF clear > 0 /\ clear < 10 * TicksPerMinute THEN "catching_up" ELSE "stable"
  ELSE IF backlog > 1000 THEN "falling_behind" ELSE "stable"

Score(delta, backlog, failurePercent, avgMs) ==
  LET base    == 100 - (IF delta < 0 THEN Least(40, (-delta) \div 10) ELSE 0)
      backPen == Least(20, backlog \div 200)
      failPen == Least(20, 2 * failurePercent)
      slowPen == IF avgMs > 500 THEN Least(10, (avgMs - 500) \div 100) ELSE 0
  IN Most(0, base - backPen - failPen - slowPen)

Health(score) ==
  IF score >= 90 THEN "excellent" ELSE IF score >= 70 THEN "good"
  ELSE IF score >= 50 THEN "fair" ELSE IF score >= 25 THEN "poor" ELSE "critical"

calculatePerformanceMetrics(throughput, added, backlog, avgMs, failurePercent, isPaused) ==
  IF isPaused
  THEN [score |-> 0, trend |-> "paused", clear |-> -1, health |-> "poor"]
  ELSE IF throughput = 0 /\ backlog = 0
  THEN [score |-> 100, trend |-> "idle", clear |-> -1, health |-> "excellent"]
  ELSE LET delta == throughput - added
           clear == ClearTime(throughput, delta, backlog)
           score == Score(delta, backlog, failurePercent, avgMs)
       IN [score |-> score, trend |-> Trend(delta, added, backlog, clear), clear |-> clear,
           health |-> Health(score)]
===============================================================================
