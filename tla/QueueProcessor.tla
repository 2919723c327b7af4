---------------------------- MODULE QueueProcessor ----------------------------
(***************************************************************************)
(* BaseQueueProcessor of @queuebert/bullmq after onModuleInit: the restart *)
(* of a worker that closed, with its attempts, its timer and the calls of  *)
(* worker.run() that are in flight; the heartbeat and its throughput       *)
(* window; and the shutdown.                                               *)
(***************************************************************************)
EXTENDS Naturals

CONSTANTS
  MaxRestartAttempts,  \* options.maxWorkerRestartAttempts
  WorkerMayBeMissing,  \* whether getWorkerOrNull may find no worker later on
  MaxStops,            \* bound: how often the worker stops
  MaxReadies,          \* bound: how often the Redis client becomes ready again
  MaxByHand,           \* bound: restarts by somebody else
  MaxJobs,             \* bound: jobs that complete
  MaxThrows            \* bound: heartbeats that throw

ASSUME ProcessorAssumption ==
  /\ MaxRestartAttempts \in Nat /\ MaxStops \in Nat /\ MaxReadies \in Nat
  /\ MaxByHand \in Nat /\ MaxJobs \in Nat /\ MaxThrows \in Nat
  /\ WorkerMayBeMissing \in BOOLEAN

VARIABLES
  life,       \* where the module's life is; isShuttingDown is life # "up"
  worker,     \* "running", "closing" (stopped, 'closed' not yet emitted) or "closed"
  attempts,   \* workerRestartAttempts
  timer,      \* workerRecoveryTimer # null
  armed,      \* the recovery timeouts the event loop holds
  starting,   \* calls of worker.run() that have not started the worker
  runs,       \* calls of worker.run() that did and are still awaited
  gaveUp,     \* history: onWorkerRecoveryExhausted since the worker last started
  letGo,      \* history: an attempt ended as if there were nothing to do, since 'closed'
  completed,  \* jobsCompleted
  window,     \* statsWindow.jobsCompletedInWindow
  logging,    \* statsLogInProgress
  counted,    \* what the heartbeat in progress read from the window
  reported,   \* history: the completions reported by the heartbeats so far
  again,      \* history: those reported by heartbeats that threw before the reset
  stops, readies, byHand, throws  \* the bounded events so far

recoveryVars == <<attempts, timer, armed, gaveUp>>
pursuitVars  == <<recoveryVars, letGo>>
runVars      == <<worker, starting, runs>>
statVars     == <<completed, window, logging, counted, reported, again>>
boundVars    == <<stops, readies, byHand, throws>>
vars == <<life, pursuitVars, runVars, statVars, boundVars>>

Init ==
  /\ life = "up" /\ worker = "running"
  /\ attempts = 0 /\ timer = FALSE /\ armed = 0 /\ gaveUp = FALSE /\ letGo = FALSE
  /\ starting = 0 /\ runs = 0
  /\ completed = 0 /\ window = 0 /\ logging = FALSE /\ counted = 0 /\ reported = 0
  /\ again = 0
  /\ stops = 0 /\ readies = 0 /\ byHand = 0 /\ throws = 0

isShuttingDown == life # "up"

------------------------------------------------------------------------------
(* Recovery *)

\* clearTimeout and null.
Cleared == armed - (IF timer THEN 1 ELSE 0)

\* Seeded bug: the earlier timeout is not cleared.
RearmOver == timer' = TRUE /\ armed' = armed + 1

\* The earlier timeout, if any, is replaced.
Rearm == timer' = TRUE /\ armed' = Cleared + 1

\* Seeded bug: the shutdown is not looked at.
AttemptRecoveryAnytime ==
  /\ attempts' = attempts + 1
  /\ IF attempts' > MaxRestartAttempts
     THEN gaveUp' = TRUE /\ UNCHANGED <<timer, armed>>
     ELSE Rearm /\ UNCHANGED gaveUp

\* attemptWorkerRecovery
AttemptRecovery ==
  IF isShuttingDown THEN UNCHANGED recoveryVars
  ELSE /\ attempts' = attempts + 1
       /\ IF attempts' > MaxRestartAttempts
          THEN gaveUp' = TRUE /\ UNCHANGED <<timer, armed>>
          ELSE Rearm /\ UNCHANGED gaveUp

\* The worker stops, and BullMQ emits 'closed' later.
WorkerStops ==
  /\ worker = "running" /\ stops < MaxStops
  /\ worker' = "closing" /\ stops' = stops + 1
  /\ UNCHANGED <<life, pursuitVars, starting, runs, statVars, readies, byHand, throws>>

Closed ==
  /\ worker = "closing"
  /\ worker' = "closed" /\ letGo' = FALSE
  /\ AttemptRecovery
  /\ UNCHANGED <<life, starting, runs, statVars, boundVars>>

\* The callback of the recovery timeout.  Without a worker it returns, and nobody tries
\* again.
Fire ==
  /\ armed > 0
  /\ armed' = armed - 1 /\ timer' = FALSE
  /\ \/ isShuttingDown /\ UNCHANGED <<attempts, starting, letGo>>
     \/ ~isShuttingDown /\ WorkerMayBeMissing /\ letGo' = TRUE /\ UNCHANGED <<attempts, starting>>
     \/ /\ ~isShuttingDown /\ worker = "running"
        /\ attempts' = 0 /\ UNCHANGED <<starting, letGo>>
     \/ /\ ~isShuttingDown /\ worker # "running"
        /\ starting' = starting + 1 /\ UNCHANGED <<attempts, letGo>>
  /\ UNCHANGED <<life, gaveUp, worker, runs, statVars, boundVars>>

\* worker.run() starts the worker.
RunStarts ==
  /\ starting > 0 /\ worker = "closed"
  /\ worker' = "running" /\ starting' = starting - 1 /\ runs' = runs + 1
  /\ gaveUp' = FALSE
  /\ UNCHANGED <<life, attempts, timer, armed, letGo, statVars, boundVars>>

\* worker.run() returns at once, as BullMQ's does while the worker is closing or paused:
\* the worker is taken for restarted without another look at it.
RunReturnsIdle ==
  /\ starting > 0 /\ worker # "running"
  /\ starting' = starting - 1 /\ attempts' = 0 /\ letGo' = TRUE
  /\ UNCHANGED <<life, timer, armed, gaveUp, worker, runs, statVars, boundVars>>

\* Seeded bug: the promise of run() is taken for resolved as soon as it is there.
RunResolvesEarly ==
  /\ runs + starting > 0
  /\ runs' = runs - 1 /\ attempts' = 0
  /\ UNCHANGED <<life, timer, armed, gaveUp, letGo, worker, starting, statVars, boundVars>>

\* The promise of a run() that started the worker resolves, at any time later: also when
\* the worker has stopped again.
RunResolves ==
  /\ runs > 0
  /\ runs' = runs - 1 /\ attempts' = 0
  /\ UNCHANGED <<life, timer, armed, gaveUp, letGo, worker, starting, statVars, boundVars>>

\* The promise of run() rejects, before the worker was started or later.
Rejected ==
  /\ \/ starting > 0 /\ starting' = starting - 1 /\ UNCHANGED runs
     \/ runs > 0 /\ runs' = runs - 1 /\ UNCHANGED starting
  /\ UNCHANGED <<life, letGo, worker, statVars, boundVars>>

\* Seeded bug: the failure of run() is only logged.
RunRejectsLogged == Rejected /\ UNCHANGED recoveryVars

\* Seeded bug: every failure of run() starts the attempts afresh.
RunRejectsAfresh ==
  /\ Rejected
  /\ IF isShuttingDown THEN UNCHANGED recoveryVars
     ELSE attempts' = 1 /\ Rearm /\ UNCHANGED gaveUp

\* The catch block schedules the next attempt.
RunRejects == Rejected /\ AttemptRecovery

\* The 'ready' event of the Redis client.
Ready ==
  /\ readies < MaxReadies /\ attempts > 0
  /\ attempts' = 0 /\ readies' = readies + 1
  /\ UNCHANGED <<life, timer, armed, gaveUp, letGo, runVars, statVars, stops, byHand, throws>>

\* A subclass or an operator restarts the worker.
RunByHand ==
  /\ worker = "closed" /\ byHand < MaxByHand
  /\ worker' = "running" /\ gaveUp' = FALSE /\ byHand' = byHand + 1
  /\ UNCHANGED <<life, attempts, timer, armed, letGo, starting, runs, statVars, stops, readies,
                 throws>>

------------------------------------------------------------------------------
(* Jobs, heartbeat and shutdown *)

\* process() of a job returns.
JobCompletes ==
  /\ completed < MaxJobs
  /\ completed' = completed + 1 /\ window' = window + 1
  /\ UNCHANGED <<life, pursuitVars, runVars, logging, counted, reported, again, boundVars>>

\* logStats reads the window and waits for the queue's depth.
LogBegins == logging' = TRUE /\ counted' = window

\* The interval of the heartbeat, which the shutdown clears.
Heartbeat ==
  /\ life = "up" /\ ~logging
  /\ LogBegins
  /\ UNCHANGED <<life, pursuitVars, runVars, completed, window, reported, again, boundVars>>

\* logStatsSafely is done; after the shutdown's own call the module is down.
LogOver ==
  /\ logging
  /\ logging' = FALSE
  /\ life' = IF life = "final" THEN "down" ELSE life
  /\ UNCHANGED <<pursuitVars, runVars, completed>>

\* Seeded bug: the window is not reset.
LogEndsUnreset ==
  /\ LogOver
  /\ reported' = reported + counted
  /\ UNCHANGED <<window, counted, again, boundVars>>

\* The depths, or their failure, have arrived: the figures are logged and a new window
\* begins.
LogEnds ==
  /\ LogOver
  /\ reported' = reported + counted /\ window' = 0 /\ counted' = 0
  /\ UNCHANGED <<again, boundVars>>

\* getCustomLogLines throws after the throughput was logged: the catch of logStatsSafely
\* leaves the window as it is.
LogThrows ==
  /\ throws < MaxThrows
  /\ LogOver
  /\ reported' = reported + counted /\ again' = again + counted /\ throws' = throws + 1
  /\ counted' = 0
  /\ UNCHANGED <<window, stops, readies, byHand>>

\* onModuleDestroy up to the subclass's onProcessorDestroy.
Destroy ==
  /\ life = "up" /\ life' = "hook"
  /\ timer' = FALSE /\ armed' = Cleared
  /\ UNCHANGED <<attempts, gaveUp, letGo, runVars, statVars, boundVars>>

\* onModuleDestroy logs the final figures, unless a heartbeat is still in progress or
\* onProcessorDestroy rejects.
HookReturns ==
  /\ life = "hook"
  /\ \/ ~logging /\ life' = "final" /\ LogBegins
     \/ logging /\ life' = "down" /\ UNCHANGED <<logging, counted>>
     \/ life' = "failed" /\ UNCHANGED <<logging, counted>>
  /\ UNCHANGED <<pursuitVars, runVars, completed, window, reported, again, boundVars>>

------------------------------------------------------------------------------

Recovery == Fire \/ RunStarts \/ RunReturnsIdle \/ RunResolves \/ RunRejects
Events   == WorkerStops \/ Closed \/ Ready \/ RunByHand \/ JobCompletes

Next == Recovery \/ Events \/ Heartbeat \/ LogEnds \/ LogThrows \/ Destroy \/ HookReturns

Spec == Init /\ [][Next]_vars

\* Timers fire, BullMQ emits the event it owes, and a call of run() starts the worker,
\* returns without doing so, or rejects.  Nothing makes the worker stop, or a run() return
\* that started it.
FairSpec ==
  /\ Spec
  /\ WF_vars(Closed) /\ WF_vars(Fire)
  /\ WF_vars(starting > 0 /\ (RunStarts \/ RunReturnsIdle \/ RunRejects))

------------------------------------------------------------------------------

Flags == timer \in BOOLEAN /\ gaveUp \in BOOLEAN /\ letGo \in BOOLEAN /\ logging \in BOOLEAN

\* The types.
TypeOK ==
  /\ life \in {"up", "hook", "final", "down", "failed"}
  /\ worker \in {"running", "closing", "closed"}
  /\ Flags
  /\ attempts \in Nat /\ armed \in Nat /\ starting \in Nat /\ runs \in Nat
  /\ completed \in Nat /\ window \in Nat /\ counted \in Nat /\ reported \in Nat
  /\ again \in Nat
  /\ stops \in Nat /\ readies \in Nat /\ byHand \in Nat /\ throws \in Nat

\* The event loop holds the recovery timeout the field names and no other, so that no
\* forgotten one starts the worker a second time.
OneTimer == armed = IF timer THEN 1 ELSE 0

\* Once the shutdown has begun no recovery is scheduled: not by a 'closed' event, and not
\* by a restart that was in flight and fails afterwards.
QuietAfterShutdown == isShuttingDown => armed = 0

\* A worker whose 'closed' event came is being restarted, or will be, or the exhaustion
\* of the attempts was reported, or the code let go of it, which it does for two reasons
\* only: a run() that resolved, or no worker to run.  However late earlier calls of run()
\* settle, and however often Redis was ready or somebody helped in between, nothing else
\* makes the recovery stop.
PursuedOrReported ==
  worker = "closed" /\ ~isShuttingDown => timer \/ starting > 0 \/ gaveUp \/ letGo

\* The "automatic recovery on unexpected close" that the class promises: a worker that
\* closed is pursued until its end was reported.  Refuted: a run() that resolves without
\* starting the worker is logged as a restart.
RecoveredOrReported ==
  worker = "closed" /\ ~isShuttingDown => timer \/ starting > 0 \/ gaveUp

\* No completion is in the throughput of two heartbeats, or in a heartbeat and in the
\* window that the next one will read, unless a heartbeat threw after it had logged it.
NothingReportedTwice == reported + window <= completed + again

\* A recovery comes to an end.
RecoverySettles ==
  worker = "closed" /\ ~isShuttingDown
    ~> worker = "running" \/ gaveUp \/ letGo \/ isShuttingDown

\* The inductive invariant.
ProcessorInv ==
  /\ OneTimer /\ QuietAfterShutdown /\ PursuedOrReported /\ NothingReportedTwice
  /\ counted <= window
==============================================================================
