------------------------------ MODULE Migration ------------------------------
(***************************************************************************)
(* Queue migrations of QueuebertService: jobs move one at a time from a    *)
(* source queue to a target queue, possibly on another Redis, while        *)
(* workers, operators, other migrations, timeouts and crashes interleave.  *)
(*                                                                         *)
(* A run is one call of executeMigration (synchronous) or of               *)
(* startMigration (background).  pc[r] is the await the run is suspended   *)
(* at, and every action is the block between two awaits: the Redis command *)
(* takes effect, its reply arrives, and the code runs up to the next       *)
(* await.  Code between awaits that no other actor can observe in parts    *)
(* (the tops of the loops) has actions of its own, at pc "loop".           *)
(***************************************************************************)
EXTENDS Naturals, Sequences, FiniteSets

CONSTANTS
  Runs,            \* migrations requested of the service
  Background,      \* the runs started by startMigration; the others are executeMigration
  Queues,          \* a queue is a name on a Redis instance
  Source, Target,  \* the two queues of each run
  Jobs,            \* the jobs applications add, before the migrations or meanwhile
  Id,              \* the BullMQ id of each job, unique in a queue and not beyond
  Home,            \* the queue each job is added to
  First,           \* its state there to begin with, "absent" when it is added later
  States,          \* params.states, in the order they are migrated
  Matching,        \* the jobs whose name is params.jobType (all of them without a filter)
  Unsupported,     \* flow and repeatable jobs
  Limit,           \* params.limit, 0 when absent
  BatchSize,       \* params.batchSize, 0 when absent
  BatchDelay,      \* whether delayBetweenBatchesMs > 0
  MaxErrors,       \* MAX_MIGRATION_ERRORS
  Faults,          \* the command outcomes that may occur besides "ok"
  MaxFaults,       \* how many such outcomes one behaviour has
  LongWaits,       \* the awaits that may outlast MIGRATION_LOCK_TTL_MS
  OperatorQueues,  \* the queues operators pause and resume during migrations
  Crashable,       \* the runs whose process may die
  NoRun            \* nobody holds the lease

Sides    == {"source", "target"}
Listable == {"waiting", "delayed", "failed"}
Present  == Listable \cup {"active", "completed"}
Copies   == Present \cup {"absent"}

\* A Redis command is answered, or its promise rejects, and a rejection leaves
\* open whether the command was applied.
Outcomes == {"ok", "rejected", "lost"}
Applied(o) == o # "rejected"

Transfer == {"getSource", "getTarget", "add", "remove", "rollback"}
Commands == Transfer \cup
  {"acquire", "readPause", "pause", "countActive", "undoTarget", "undoSource", "list",
   "refresh", "restoreTarget", "restoreSource", "release"}
Points   == Commands \cup {"idle", "loop", "parked", "sleep", "ended", "crashed"}
Terminal == {"completed", "failed", "cancelled"}
Statuses == Terminal \cup {"pending", "running", "paused"}

\* assertDistinctMigrationTargets refuses a run from a queue to itself.
ASSUME RunsAssumption ==
  /\ Background \subseteq Runs /\ Crashable \subseteq Runs /\ NoRun \notin Runs
  /\ Source \in [Runs -> Queues] /\ Target \in [Runs -> Queues]
  /\ \A r \in Runs : Source[r] # Target[r]

\* A queue has one job under an id.
ASSUME JobsAssumption ==
  /\ Jobs # {}
  /\ Home \in [Jobs -> Queues] /\ First \in [Jobs -> Listable \cup {"absent"}]
  /\ \A j, k \in Jobs :
       First[j] # "absent" /\ First[k] # "absent" /\ Home[j] = Home[k] /\ Id[j] = Id[k] => j = k

ASSUME ParamsAssumption ==
  /\ States \in Seq(Listable)
  /\ Limit \in Nat /\ BatchSize \in Nat /\ MaxErrors \in Nat /\ MaxFaults \in Nat
  /\ BatchDelay \in BOOLEAN
  /\ Faults \subseteq Commands \X {"rejected", "lost"}
  /\ LongWaits \subseteq Points /\ OperatorQueues \subseteq Queues

VARIABLES
  copy,          \* Redis: [Queues -> [Jobs -> Copies]]
  paused,        \* Redis: the pause flag of each queue
  lease,         \* Redis: the holder of queuebert:migration-lock:<redis>:<queue>
  pc,            \* the await each run is suspended at
  was,           \* sourceWasPaused, targetWasPaused of each run
  inflight,      \* members of the run's Promise.all that have no answer yet
  guard,         \* whether queueGuard is defined
  stateIdx,      \* position in params.states
  todo,          \* listed jobs the inner loop has not reached
  cur,           \* jobInfo
  processed,     \* totalProcessed
  batch,         \* currentBatchCount
  moved,         \* the jobs counted as migrated
  errors,        \* the job ids in status.errors
  intervention,  \* requiresIntervention
  status,        \* status.status
  isPaused,      \* migration.isPaused
  aborted,       \* abortController.signal.aborted
  ranIn,         \* history: the queues each job was handed to a worker in
  born,          \* history: the jobs that were added so far
  faults         \* outcomes other than "ok" so far

redisVars   == <<copy, paused, lease>>
setupVars   == <<was, inflight, guard>>
cursorVars  == <<stateIdx, todo, cur, processed, batch>>
resultVars  == <<moved, errors>>
exitVars    == <<intervention, status>>
controlVars == <<isPaused, aborted>>
runVars     == <<setupVars, cursorVars, resultVars, exitVars, controlVars>>
vars == <<redisVars, pc, runVars, ranIn, born, faults>>

QueueOf(r, side) == IF side = "source" THEN Source[r] ELSE Target[r]

Init ==
  /\ copy = [q \in Queues |-> [j \in Jobs |-> IF q = Home[j] THEN First[j] ELSE "absent"]]
  /\ paused \in [Queues -> BOOLEAN]
  /\ lease = [q \in Queues |-> NoRun]
  /\ pc = [r \in Runs |-> "idle"]
  /\ was = [r \in Runs |-> [side \in Sides |-> FALSE]]
  /\ inflight = [r \in Runs |-> {}]
  /\ guard = [r \in Runs |-> FALSE]
  /\ stateIdx = [r \in Runs |-> 0]
  /\ todo = [r \in Runs |-> {}]
  /\ cur = [r \in Runs |-> CHOOSE j \in Jobs : TRUE]
  /\ processed = [r \in Runs |-> 0]
  /\ batch = [r \in Runs |-> 0]
  /\ moved = [r \in Runs |-> {}]
  /\ errors = [r \in Runs |-> {}]
  /\ intervention = [r \in Runs |-> FALSE]
  /\ status = [r \in Runs |-> "pending"]
  /\ isPaused = [r \in Runs |-> FALSE]
  /\ aborted = [r \in Runs |-> FALSE]
  /\ ranIn = [j \in Jobs |-> {}]
  /\ born = {j \in Jobs : First[j] # "absent"}
  /\ faults = 0

------------------------------------------------------------------------------
(* Helpers *)

\* The command of run r at point op is answered with outcome o.
Answer(r, op, o) ==
  /\ pc[r] = op
  /\ \/ o = "ok" /\ UNCHANGED faults
     \/ /\ <<op, o>> \in Faults
        /\ faults < MaxFaults
        /\ faults' = faults + 1

Go(r, point) == pc' = [pc EXCEPT ![r] = point]

\* The job queue q holds under the id of job j.
Held(q, j) == {k \in Jobs : Id[k] = Id[j] /\ copy[q][k] # "absent"}

\* Seeded bug: restore resumes both queues, also the ones it found paused.
RestoreFromBoth(r, side) == IF side = "target" THEN "restoreTarget" ELSE "restoreSource"

\* The resumes guard.restore makes, from the first one that is needed.
RestoreFrom(r, side) ==
  IF side = "target" /\ ~was[r]["target"] THEN "restoreTarget"
  ELSE IF ~was[r]["source"] THEN "restoreSource" ELSE "release"

\* Seeded bug: a run that needs an inspection restores the queues unless it failed.
FinallyUninspected(r, outcome, needsHuman) ==
  /\ status' = [status EXCEPT ![r] = outcome]
  /\ intervention' = [intervention EXCEPT ![r] = needsHuman]
  /\ LET leavePaused == outcome = "failed" /\ r \in Background
     IN  Go(r, IF guard[r] /\ ~leavePaused THEN RestoreFrom(r, "target") ELSE "release")

\* The run's catch block, which sets its final status, and its finally block up to
\* the first await.  Only a background run keeps the queues paused because it failed.
Finally(r, outcome, needsHuman) ==
  /\ status' = [status EXCEPT ![r] = outcome]
  /\ intervention' = [intervention EXCEPT ![r] = needsHuman]
  /\ LET leavePaused == needsHuman \/ (outcome = "failed" /\ r \in Background)
     IN  Go(r, IF guard[r] /\ ~leavePaused THEN RestoreFrom(r, "target") ELSE "release")

Fail(r) == Finally(r, "failed", intervention[r])

\* The inner catch block: the job is reported and the loop goes on.
JobFails(r, needsHuman) ==
  /\ errors' = [errors EXCEPT ![r] =
                  IF Cardinality(@) < MaxErrors THEN @ \cup {cur[r]} ELSE @]
  /\ intervention' = [intervention EXCEPT ![r] = @ \/ needsHuman]
  /\ Go(r, "loop")
  /\ UNCHANGED <<moved, status>>

\* Seeded bug: the comparison lets one job too many through.
LimitExceeded(r) == Limit > 0 /\ processed[r] > Limit

LimitReached(r) == Limit > 0 /\ processed[r] >= Limit
BatchFull(r)    == BatchSize > 0 /\ batch[r] >= BatchSize

------------------------------------------------------------------------------
(* Lease and queue guard *)

\* The call: the run is registered and executes up to the SET NX PX of the lease.
Start(r) ==
  /\ pc[r] = "idle"
  /\ Go(r, "acquire")
  /\ status' = [status EXCEPT ![r] = "running"]
  /\ UNCHANGED <<redisVars, setupVars, cursorVars, resultVars, intervention, controlVars,
                 ranIn, born, faults>>

\* Seeded bug: the SET of the lease has no NX.
AcquireTaken(r, o) ==
  /\ Answer(r, "acquire", o)
  /\ lease' = IF Applied(o) THEN [lease EXCEPT ![Source[r]] = r] ELSE lease
  /\ IF o = "ok"
       THEN /\ Go(r, "readPause")
            /\ inflight' = [inflight EXCEPT ![r] = Sides]
            /\ UNCHANGED status
       ELSE /\ Go(r, "ended")
            /\ status' = [status EXCEPT ![r] = "failed"]
            /\ UNCHANGED inflight
  /\ UNCHANGED <<copy, paused, was, guard, cursorVars, resultVars, intervention,
                 controlVars, ranIn, born>>

\* Refused or rejected, `lease` stays undefined and the run ends with nothing to undo,
\* even when the rejected command did take the lease.
Acquire(r, o) ==
  LET free == lease[Source[r]] = NoRun IN
  /\ Answer(r, "acquire", o)
  /\ lease' = IF free /\ Applied(o) THEN [lease EXCEPT ![Source[r]] = r] ELSE lease
  /\ IF free /\ o = "ok"
       THEN /\ Go(r, "readPause")
            /\ inflight' = [inflight EXCEPT ![r] = Sides]
            /\ UNCHANGED status
       ELSE /\ Go(r, "ended")
            /\ status' = [status EXCEPT ![r] = "failed"]
            /\ UNCHANGED inflight
  /\ UNCHANGED <<copy, paused, was, guard, cursorVars, resultVars, intervention,
                 controlVars, ranIn, born>>

\* One answer of Promise.all([sourceQueue.isPaused(), targetQueue.isPaused()]).
ReadPaused(r, side, o) ==
  /\ Answer(r, "readPause", o)
  /\ side \in inflight[r]
  /\ IF o = "ok"
       THEN /\ was' = [was EXCEPT ![r][side] = paused[QueueOf(r, side)]]
            /\ inflight' = [inflight EXCEPT ![r] = @ \ {side}]
            /\ UNCHANGED <<pc, exitVars>>
       ELSE /\ inflight' = [inflight EXCEPT ![r] = {}]
            /\ Fail(r)
            /\ UNCHANGED was
  /\ UNCHANGED <<redisVars, guard, cursorVars, resultVars, controlVars, ranIn, born>>

\* Seeded bug: only the source is paused.
IssueSourcePause(r) ==
  /\ pc[r] = "readPause" /\ inflight[r] = {}
  /\ inflight' = [inflight EXCEPT ![r] = {side \in {"source"} : ~was[r][side]}]
  /\ Go(r, "pause")
  /\ UNCHANGED <<redisVars, was, guard, cursorVars, resultVars, exitVars, controlVars,
                 ranIn, born, faults>>

\* Both flags are known: pause the queues that were running, at once.
IssuePauses(r) ==
  /\ pc[r] = "readPause" /\ inflight[r] = {}
  /\ inflight' = [inflight EXCEPT ![r] = {side \in Sides : ~was[r][side]}]
  /\ Go(r, "pause")
  /\ UNCHANGED <<redisVars, was, guard, cursorVars, resultVars, exitVars, controlVars,
                 ranIn, born, faults>>

\* A pause of the Promise.all takes effect, possibly after the run failed on the other.
PauseLands(r, side) ==
  /\ pc[r] # "readPause" /\ side \in inflight[r]
  /\ paused' = [paused EXCEPT ![QueueOf(r, side)] = TRUE]
  /\ inflight' = [inflight EXCEPT ![r] = @ \ {side}]
  /\ UNCHANGED <<copy, lease, pc, was, guard, cursorVars, resultVars, exitVars, controlVars,
                 ranIn, born, faults>>

PauseRejected(r, side, o) ==
  /\ Answer(r, "pause", o) /\ o # "ok"
  /\ side \in inflight[r]
  /\ paused' = IF Applied(o) THEN [paused EXCEPT ![QueueOf(r, side)] = TRUE] ELSE paused
  /\ inflight' = [inflight EXCEPT ![r] = @ \ {side}]
  /\ Fail(r)
  /\ UNCHANGED <<copy, lease, was, guard, cursorVars, resultVars, controlVars, ranIn, born>>

BothPaused(r) ==
  /\ pc[r] = "pause" /\ inflight[r] = {}
  /\ Go(r, "countActive")
  /\ UNCHANGED <<redisVars, runVars, ranIn, born, faults>>

\* A source with active jobs is refused, after undoing the pauses; otherwise the
\* guard exists and the migration loop begins.
CountActive(r, o) ==
  LET busy == \E j \in Jobs : copy[Source[r]][j] = "active" IN
  /\ Answer(r, "countActive", o)
  /\ IF o # "ok" \/ (busy /\ RestoreFrom(r, "target") = "release")
       THEN Fail(r) /\ UNCHANGED guard
       ELSE /\ guard' = [guard EXCEPT ![r] = ~busy]
            /\ Go(r, IF ~busy THEN "loop"
                     ELSE IF ~was[r]["target"] THEN "undoTarget" ELSE "undoSource")
            /\ UNCHANGED exitVars
  /\ UNCHANGED <<redisVars, was, inflight, cursorVars, resultVars, controlVars, ranIn, born>>

\* resume() of one of the two queues.
ResumeSide(r, side, o) ==
  /\ paused' = IF Applied(o) THEN [paused EXCEPT ![QueueOf(r, side)] = FALSE] ELSE paused
  /\ UNCHANGED <<copy, lease, setupVars, cursorVars, resultVars, controlVars, ranIn, born>>

UndoTarget(r, o) ==
  /\ Answer(r, "undoTarget", o)
  /\ ResumeSide(r, "target", o)
  /\ IF o = "ok" /\ ~was[r]["source"]
       THEN Go(r, "undoSource") /\ UNCHANGED exitVars
       ELSE Fail(r)

UndoSource(r, o) ==
  /\ Answer(r, "undoSource", o)
  /\ ResumeSide(r, "source", o)
  /\ Fail(r)

------------------------------------------------------------------------------
(* The loops over states and jobs *)

\* The outer loop runs out of states, or its limit is used up: the run completes.
Finish(r) ==
  /\ pc[r] = "loop" /\ todo[r] = {}
  /\ \/ stateIdx[r] = Len(States)
     \/ ~aborted[r] /\ LimitReached(r)
  /\ Finally(r, "completed", intervention[r])
  /\ UNCHANGED <<redisVars, setupVars, cursorVars, resultVars, controlVars, ranIn, born, faults>>

\* Both loops look at the abort signal first.
CancelSeen(r) ==
  /\ pc[r] = "loop" /\ aborted[r]
  /\ todo[r] # {} \/ stateIdx[r] < Len(States)
  /\ Finally(r, "cancelled", intervention[r])
  /\ UNCHANGED <<redisVars, setupVars, cursorVars, resultVars, controlVars, ranIn, born, faults>>

\* Seeded bug: the loop runs one step past the end of params.states.
NextStatePastEnd(r) ==
  /\ pc[r] = "loop" /\ todo[r] = {} /\ ~aborted[r]
  /\ stateIdx[r] <= Len(States) /\ ~LimitReached(r)
  /\ stateIdx' = [stateIdx EXCEPT ![r] = @ + 1]
  /\ Go(r, "list")
  /\ UNCHANGED <<redisVars, setupVars, todo, cur, processed, batch, resultVars, exitVars,
                 controlVars, ranIn, born, faults>>

\* Seeded bug: the same state is listed until it has no jobs left.
NextStateAgain(r) ==
  /\ pc[r] = "loop" /\ todo[r] = {} /\ ~aborted[r]
  /\ stateIdx[r] < Len(States) /\ ~LimitReached(r)
  /\ stateIdx' = [stateIdx EXCEPT ![r] =
                    IF @ > 0 /\ \E j \in Jobs : copy[Source[r]][j] = States[@] THEN @ ELSE @ + 1]
  /\ Go(r, "list")
  /\ UNCHANGED <<redisVars, setupVars, todo, cur, processed, batch, resultVars, exitVars,
                 controlVars, ranIn, born, faults>>

NextState(r) ==
  /\ pc[r] = "loop" /\ todo[r] = {} /\ ~aborted[r]
  /\ stateIdx[r] < Len(States) /\ ~LimitReached(r)
  /\ stateIdx' = [stateIdx EXCEPT ![r] = @ + 1]
  /\ Go(r, "list")
  /\ UNCHANGED <<redisVars, setupVars, todo, cur, processed, batch, resultVars, exitVars,
                 controlVars, ranIn, born, faults>>

\* getJobsByState: at most the remaining limit of jobs is read, then filtered by name.
ListJobs(r, o) ==
  LET inState == {j \in Jobs : copy[Source[r]][j] = States[stateIdx[r]]} IN
  /\ Answer(r, "list", o)
  /\ IF o = "ok"
       THEN /\ \E page \in SUBSET inState :
                 /\ IF Limit = 0 \/ processed[r] >= Limit \/ Cardinality(inState) <= Limit - processed[r]
                      THEN page = inState
                      ELSE Cardinality(page) = Limit - processed[r]
                 /\ todo' = [todo EXCEPT ![r] = page \cap Matching]
            /\ Go(r, "loop")
            /\ UNCHANGED exitVars
       ELSE Fail(r) /\ UNCHANGED todo
  /\ UNCHANGED <<redisVars, setupVars, stateIdx, cur, processed, batch, resultVars,
                 controlVars, ranIn, born>>

\* The run notices that it is paused and waits for a resumeResolver.
Park(r) ==
  /\ pc[r] = "loop" /\ todo[r] # {} /\ ~aborted[r] /\ isPaused[r]
  /\ Go(r, "parked")
  /\ UNCHANGED <<redisVars, runVars, ranIn, born, faults>>

\* The rest of the loop's head: stop at the limit, or take a job, after a delay when
\* the batch is full.
Proceed(r) ==
  IF LimitReached(r)
    THEN /\ todo' = [todo EXCEPT ![r] = {}]
         /\ Go(r, "loop")
         /\ UNCHANGED <<cur, batch>>
    ELSE /\ \E j \in todo[r] :
              /\ cur' = [cur EXCEPT ![r] = j]
              /\ todo' = [todo EXCEPT ![r] = @ \ {j}]
         /\ batch' = IF BatchFull(r) THEN [batch EXCEPT ![r] = 0] ELSE batch
         /\ Go(r, IF BatchFull(r) /\ BatchDelay THEN "sleep" ELSE "refresh")

NextJob(r) ==
  /\ pc[r] = "loop" /\ todo[r] # {} /\ ~aborted[r] /\ ~isPaused[r]
  /\ Proceed(r)
  /\ UNCHANGED <<redisVars, setupVars, stateIdx, processed, resultVars, exitVars, controlVars,
                 ranIn, born, faults>>

\* The timer of the delay between batches fires; isPaused is not looked at again.
SleepOver(r) ==
  /\ pc[r] = "sleep"
  /\ Go(r, "refresh")
  /\ UNCHANGED <<redisVars, runVars, ranIn, born, faults>>

------------------------------------------------------------------------------
(* One job: lease.refresh and migrateJob *)

\* Seeded bug: the refresh does not compare the token of the lease.
RefreshAny(r, o) ==
  /\ Answer(r, "refresh", o)
  /\ IF o # "ok" THEN JobFails(r, r \notin Background)
     ELSE IF lease[Source[r]] # NoRun
       THEN Go(r, "getSource") /\ UNCHANGED <<resultVars, exitVars>>
     ELSE Finally(r, "failed", TRUE) /\ UNCHANGED resultVars
  /\ UNCHANGED <<redisVars, setupVars, cursorVars, controlVars, ranIn, born>>

\* Only a lease that is known to be lost ends the run.  A rejected refresh is an error
\* of the job like any other, which the synchronous run also takes as a reason to keep
\* the queues paused.
Refresh(r, o) ==
  /\ Answer(r, "refresh", o)
  /\ IF o # "ok" THEN JobFails(r, r \notin Background)
     ELSE IF lease[Source[r]] = r THEN Go(r, "getSource") /\ UNCHANGED <<resultVars, exitVars>>
     ELSE Finally(r, "failed", TRUE) /\ UNCHANGED resultVars
  /\ UNCHANGED <<redisVars, setupVars, cursorVars, controlVars, ranIn, born>>

\* A command of migrateJob whose failure is the job's: go on to `next` if it succeeds.
JobStep(r, success, next) ==
  /\ IF success THEN Go(r, next) /\ UNCHANGED <<resultVars, exitVars>> ELSE JobFails(r, FALSE)
  /\ UNCHANGED <<paused, lease, setupVars, cursorVars, controlVars, ranIn, born>>

\* getJob by id: the job that is found need not be the one that was listed.
GetSource(r, o) ==
  LET found == Held(Source[r], cur[r]) IN
  /\ Answer(r, "getSource", o)
  /\ IF o = "ok" /\ found # {} /\ found \cap Unsupported = {}
       THEN /\ \E j \in found : cur' = [cur EXCEPT ![r] = j]
            /\ Go(r, "getTarget")
            /\ UNCHANGED <<resultVars, exitVars>>
       ELSE JobFails(r, FALSE) /\ UNCHANGED cur
  /\ UNCHANGED <<redisVars, setupVars, stateIdx, todo, processed, batch, controlVars, ranIn, born>>

GetTarget(r, o) ==
  /\ Answer(r, "getTarget", o)
  /\ JobStep(r, o = "ok" /\ Held(Target[r], cur[r]) = {}, "add")
  /\ UNCHANGED copy

\* Seeded bug: the job is removed from the source although the add was rejected.
AddUnchecked(r, o) ==
  LET added == IF States[stateIdx[r]] = "delayed" THEN "delayed" ELSE "waiting" IN
  /\ Answer(r, "add", o)
  /\ copy' = IF Applied(o) /\ Held(Target[r], cur[r]) = {}
               THEN [copy EXCEPT ![Target[r]][cur[r]] = added] ELSE copy
  /\ JobStep(r, TRUE, "remove")

\* A delayed job keeps its delay, any other becomes a waiting job.  BullMQ ignores an
\* add under an id the queue already has.
Add(r, o) ==
  LET added == IF States[stateIdx[r]] = "delayed" THEN "delayed" ELSE "waiting" IN
  /\ Answer(r, "add", o)
  /\ copy' = IF Applied(o) /\ Held(Target[r], cur[r]) = {}
               THEN [copy EXCEPT ![Target[r]][cur[r]] = added] ELSE copy
  /\ JobStep(r, o = "ok", "remove")

\* A worker has the job that queue q holds under the id of job j.
Locked(q, j) == \E k \in Held(q, j) : copy[q][k] = "active"

\* BullMQ removes the job it has under the id, unless a worker has it.
Removed(q, j, o) ==
  copy' = IF Applied(o) /\ ~Locked(q, j)
            THEN [copy EXCEPT ![q] = [k \in Jobs |-> IF Id[k] = Id[j] THEN "absent" ELSE @[k]]]
            ELSE copy

\* Seeded bug: a job is counted as migrated before its removal is known to have worked.
RemoveCountedFirst(r, o) ==
  /\ Answer(r, "remove", o)
  /\ Removed(Source[r], cur[r], o)
  /\ processed' = [processed EXCEPT ![r] = @ + 1]
  /\ batch' = [batch EXCEPT ![r] = @ + 1]
  /\ moved' = [moved EXCEPT ![r] = @ \cup {cur[r]}]
  /\ Go(r, IF o = "ok" /\ ~Locked(Source[r], cur[r]) THEN "loop" ELSE "rollback")
  /\ UNCHANGED <<paused, lease, setupVars, stateIdx, todo, cur, errors, exitVars, controlVars,
                 ranIn, born>>

Remove(r, o) ==
  /\ Answer(r, "remove", o)
  /\ Removed(Source[r], cur[r], o)
  /\ IF o = "ok" /\ ~Locked(Source[r], cur[r])
       THEN /\ Go(r, "loop")
            /\ processed' = [processed EXCEPT ![r] = @ + 1]
            /\ batch' = [batch EXCEPT ![r] = @ + 1]
            /\ moved' = [moved EXCEPT ![r] = @ \cup {cur[r]}]
       ELSE /\ Go(r, "rollback")
            /\ UNCHANGED <<processed, batch, moved>>
  /\ UNCHANGED <<paused, lease, setupVars, stateIdx, todo, cur, errors, exitVars, controlVars,
                 ranIn, born>>

\* Seeded bug: a rollback that fails is an error like any other.
RollbackUnreported(r, o) ==
  /\ Answer(r, "rollback", o)
  /\ Removed(Target[r], cur[r], o)
  /\ JobFails(r, FALSE)
  /\ UNCHANGED <<paused, lease, setupVars, cursorVars, controlVars, ranIn, born>>

\* The target copy is taken back; when that fails too, the error is a MigrationRollbackError.
Rollback(r, o) ==
  /\ Answer(r, "rollback", o)
  /\ Removed(Target[r], cur[r], o)
  /\ JobFails(r, o # "ok" \/ Locked(Target[r], cur[r]))
  /\ UNCHANGED <<paused, lease, setupVars, cursorVars, controlVars, ranIn, born>>

------------------------------------------------------------------------------
(* The finally block: guard.restore, then lease.release *)

\* A rejection leaves the finally block, and with it the whole run, at once.
Escape(r) ==
  /\ Go(r, "ended")
  /\ status' = IF r \in Background THEN status ELSE [status EXCEPT ![r] = "failed"]

RestoreTarget(r, o) ==
  /\ Answer(r, "restoreTarget", o)
  /\ ResumeSide(r, "target", o)
  /\ IF o = "ok" THEN Go(r, RestoreFrom(r, "source")) /\ UNCHANGED status ELSE Escape(r)
  /\ UNCHANGED intervention

RestoreSource(r, o) ==
  /\ Answer(r, "restoreSource", o)
  /\ ResumeSide(r, "source", o)
  /\ IF o = "ok" THEN Go(r, "release") /\ UNCHANGED status ELSE Escape(r)
  /\ UNCHANGED intervention

Release(r, o) ==
  /\ Answer(r, "release", o)
  /\ lease' = IF Applied(o) /\ lease[Source[r]] = r
                THEN [lease EXCEPT ![Source[r]] = NoRun] ELSE lease
  /\ IF o = "ok" THEN Go(r, "ended") /\ UNCHANGED status ELSE Escape(r)
  /\ UNCHANGED <<copy, paused, setupVars, cursorVars, resultVars, intervention, controlVars,
                 ranIn, born>>

------------------------------------------------------------------------------
(* Controls of a background run *)

\* Seeded bug: the abort does not call resumeResolver.
AbortNoWakeUp(r) ==
  /\ ~aborted[r]
  /\ aborted' = [aborted EXCEPT ![r] = TRUE]
  /\ IF pc[r] = "sleep" THEN Finally(r, "cancelled", intervention[r])
     ELSE UNCHANGED <<pc, exitVars>>
  /\ UNCHANGED <<redisVars, setupVars, cursorVars, resultVars, isPaused, ranIn, born, faults>>

\* abortController.abort() and resumeResolver(): a run that waits ends there and then.
Abort(r) ==
  /\ ~aborted[r]
  /\ aborted' = [aborted EXCEPT ![r] = TRUE]
  /\ IF pc[r] \in {"parked", "sleep"} THEN Finally(r, "cancelled", intervention[r])
     ELSE UNCHANGED <<pc, exitVars>>
  /\ UNCHANGED <<redisVars, setupVars, cursorVars, resultVars, isPaused, ranIn, born, faults>>

Cancel(r) ==
  /\ r \in Background /\ pc[r] # "crashed"
  /\ status[r] \in {"running", "paused"}
  /\ Abort(r)

\* onModuleDestroy aborts whatever the status is, and then waits for the runs to settle.
Destroy(r) ==
  /\ r \in Background /\ pc[r] \notin {"idle", "ended", "crashed"}
  /\ Abort(r)

\* Seeded bug: a migration that is over can be paused.
PauseAnytime(r) ==
  /\ r \in Background /\ pc[r] # "crashed"
  /\ status[r] # "paused" /\ status[r] # "pending"
  /\ isPaused' = [isPaused EXCEPT ![r] = TRUE]
  /\ status' = [status EXCEPT ![r] = "paused"]
  /\ UNCHANGED <<redisVars, pc, setupVars, cursorVars, resultVars, intervention, aborted,
                 ranIn, born, faults>>

Pause(r) ==
  /\ r \in Background /\ pc[r] # "crashed"
  /\ status[r] = "running"
  /\ isPaused' = [isPaused EXCEPT ![r] = TRUE]
  /\ status' = [status EXCEPT ![r] = "paused"]
  /\ UNCHANGED <<redisVars, pc, setupVars, cursorVars, resultVars, intervention, aborted,
                 ranIn, born, faults>>

\* Seeded bug: resume wakes the run but leaves isPaused set.
ResumeStillPaused(r) ==
  /\ r \in Background /\ pc[r] # "crashed"
  /\ status[r] = "paused"
  /\ status' = [status EXCEPT ![r] = "running"]
  /\ IF pc[r] = "parked" THEN Proceed(r) ELSE UNCHANGED <<pc, todo, cur, batch>>
  /\ UNCHANGED <<redisVars, setupVars, stateIdx, processed, resultVars, intervention,
                 controlVars, ranIn, born, faults>>

Resume(r) ==
  /\ r \in Background /\ pc[r] # "crashed"
  /\ status[r] = "paused"
  /\ isPaused' = [isPaused EXCEPT ![r] = FALSE]
  /\ status' = [status EXCEPT ![r] = "running"]
  /\ IF pc[r] = "parked" THEN Proceed(r) ELSE UNCHANGED <<pc, todo, cur, batch>>
  /\ UNCHANGED <<redisVars, setupVars, stateIdx, processed, resultVars, intervention, aborted,
                 ranIn, born, faults>>

------------------------------------------------------------------------------
(* The world around a run *)

\* The TTL of the lease passes while its holder waits somewhere, or is gone.
LeaseExpires(q) ==
  /\ lease[q] # NoRun
  /\ pc[lease[q]] \in LongWaits \cup {"ended", "crashed"}
  /\ lease' = [lease EXCEPT ![q] = NoRun]
  /\ UNCHANGED <<copy, paused, pc, runVars, ranIn, born, faults>>

\* The process of a run dies; commands it has sent may still be applied.
Crash(r) ==
  /\ r \in Crashable /\ pc[r] \notin {"idle", "ended", "crashed"}
  /\ Go(r, "crashed")
  /\ UNCHANGED <<redisVars, runVars, ranIn, born, faults>>

\* An application adds a job, under an id the queue does not have.
Produce(q, j) ==
  /\ Home[j] = q /\ j \notin born /\ Held(q, j) = {}
  /\ \E added \in {"waiting", "delayed"} : copy' = [copy EXCEPT ![q][j] = added]
  /\ born' = born \cup {j}
  /\ UNCHANGED <<paused, lease, pc, runVars, ranIn, faults>>

\* BullMQ: a delayed job is due.
Promote(q, j) ==
  /\ copy[q][j] = "delayed"
  /\ copy' = [copy EXCEPT ![q][j] = "waiting"]
  /\ UNCHANGED <<paused, lease, pc, runVars, ranIn, born, faults>>

\* BullMQ: a worker takes a waiting job of a queue that is not paused.
Fetch(q, j) ==
  /\ ~paused[q] /\ copy[q][j] = "waiting"
  /\ copy' = [copy EXCEPT ![q][j] = "active"]
  /\ ranIn' = [ranIn EXCEPT ![j] = @ \cup {q}]
  /\ UNCHANGED <<paused, lease, pc, runVars, born, faults>>

\* BullMQ: the worker is done; the completed job stays in the queue.
Complete(q, j) ==
  /\ copy[q][j] = "active"
  /\ copy' = [copy EXCEPT ![q][j] = "completed"]
  /\ UNCHANGED <<paused, lease, pc, runVars, ranIn, born, faults>>

\* The pause and resume endpoints for single queues.
OperatorToggles(q) ==
  /\ q \in OperatorQueues
  /\ paused' = [paused EXCEPT ![q] = ~@]
  /\ UNCHANGED <<copy, lease, pc, runVars, ranIn, born, faults>>

------------------------------------------------------------------------------

Setup(r) ==
  \/ Start(r) \/ IssuePauses(r) \/ BothPaused(r)
  \/ \E o \in Outcomes :
       \/ Acquire(r, o) \/ CountActive(r, o) \/ UndoTarget(r, o) \/ UndoSource(r, o)
       \/ \E side \in Sides : ReadPaused(r, side, o) \/ PauseRejected(r, side, o)
  \/ \E side \in Sides : PauseLands(r, side)

Loop(r) ==
  \/ Finish(r) \/ CancelSeen(r) \/ NextState(r) \/ Park(r) \/ NextJob(r) \/ SleepOver(r)
  \/ \E o \in Outcomes : ListJobs(r, o)

MoveJob(r) ==
  \E o \in Outcomes :
    \/ Refresh(r, o) \/ GetSource(r, o) \/ GetTarget(r, o)
    \/ Add(r, o) \/ Remove(r, o) \/ Rollback(r, o)

Exit(r) ==
  \E o \in Outcomes : RestoreTarget(r, o) \/ RestoreSource(r, o) \/ Release(r, o)

Control(r) == Cancel(r) \/ Destroy(r) \/ Pause(r) \/ Resume(r)

Queue(q) ==
  \/ LeaseExpires(q) \/ OperatorToggles(q)
  \/ \E j \in Jobs : Produce(q, j) \/ Promote(q, j) \/ Fetch(q, j) \/ Complete(q, j)

RunStep(r) == Setup(r) \/ Loop(r) \/ MoveJob(r) \/ Exit(r)

Next ==
  \/ \E r \in Runs : RunStep(r) \/ Control(r) \/ Crash(r)
  \/ \E q \in Queues : Queue(q)

Spec == Init /\ [][Next]_vars

\* Every Redis command is answered or rejected in the end, and timers fire.  Nobody is
\* obliged to start, steer or crash runs.
Fairness == \A r \in Runs : WF_vars(pc[r] # "idle" /\ RunStep(r))

FairSpec == Spec /\ Fairness

------------------------------------------------------------------------------

TypeOK ==
  /\ copy \in [Queues -> [Jobs -> Copies]]
  /\ paused \in [Queues -> BOOLEAN]
  /\ lease \in [Queues -> Runs \cup {NoRun}]
  /\ pc \in [Runs -> Points]
  /\ was \in [Runs -> [Sides -> BOOLEAN]]
  /\ inflight \in [Runs -> SUBSET Sides]
  /\ guard \in [Runs -> BOOLEAN]
  /\ stateIdx \in [Runs -> 0..Len(States)]
  /\ todo \in [Runs -> SUBSET Jobs]
  /\ cur \in [Runs -> Jobs]
  /\ processed \in [Runs -> Nat]
  /\ batch \in [Runs -> Nat]
  /\ moved \in [Runs -> SUBSET Jobs]
  /\ errors \in [Runs -> SUBSET Jobs]
  /\ intervention \in [Runs -> BOOLEAN]
  /\ status \in [Runs -> Statuses]
  /\ isPaused \in [Runs -> BOOLEAN]
  /\ aborted \in [Runs -> BOOLEAN]
  /\ ranIn \in [Jobs -> SUBSET Queues]
  /\ born \in SUBSET Jobs
  /\ faults \in 0..MaxFaults

------------------------------------------------------------------------------
(* Safety *)

\* A migration never loses a job: whatever fails or crashes, every job that was added still
\* exists in some queue (the add-remove-rollback order of migrateJob).
NoJobLost == \A j \in born : \E q \in Queues : copy[q][j] # "absent"

\* Two runs never move jobs out of the same source queue at the same time, even when a
\* lease expired under a run that waited (the lease is refreshed before every job).
OneMoverPerSource ==
  \A r1, r2 \in Runs :
    pc[r1] \in Transfer /\ pc[r2] \in Transfer /\ Source[r1] = Source[r2] => r1 = r2

\* While a run moves a job no worker is served by either of its queues
\* (pauseQueuesForMigration, and the restore that comes only after the last job).
PausedWhileMoving ==
  \A r \in Runs : pc[r] \in Transfer => paused[Source[r]] /\ paused[Target[r]]

\* A job that exists twice, be it in transit, after a crash or after a failed rollback,
\* is in paused queues only, so that nobody runs it twice.
DuplicatesStayPaused ==
  \A j \in Jobs : \A p, q \in Queues :
    p # q /\ copy[p][j] # "absent" /\ copy[q][j] # "absent" => paused[p] /\ paused[q]

\* A run that completed or was cancelled, and has nothing to be inspected, has given its
\* queues back as it found them when it releases the lease (guard.restore), but for those
\* an operator pauses and resumes as well.
CleanExitRestores ==
  \A r \in Runs :
    pc[r] = "release" /\ status[r] \in {"completed", "cancelled"} /\ ~intervention[r]
      => \A side \in Sides :
           QueueOf(r, side) \notin OperatorQueues => paused[QueueOf(r, side)] = was[r][side]

\* What a completed run reports is true of the queues: a job counted as migrated has left
\* the source and is in the target, a job reported with an error is still in the source.
ReportMatchesQueues ==
  \A r \in Runs : pc[r] = "release" /\ status[r] = "completed" =>
    /\ \A j \in moved[r] : copy[Source[r]][j] = "absent" /\ copy[Target[r]][j] # "absent"
    /\ \A j \in errors[r] : copy[Source[r]][j] # "absent"

\* params.limit bounds the whole run, across states and pages that the filter thinned out.
LimitRespected ==
  \A r \in Runs : Limit > 0 => processed[r] <= Limit /\ Cardinality(moved[r]) <= Limit

\* The final status of a background run is never overwritten, however late a pause, a
\* resume or a cancellation arrives.
TerminalIsFinal ==
  [][\A r \in Background : status[r] \in Terminal => status'[r] = status[r]]_vars

\* A run that waits to be resumed is one that resumeMigration and cancelMigration accept:
\* no order of pauses, resumes and cancellations loses the wake-up.
ParkedCanBeResumed ==
  \A r \in Runs : pc[r] = "parked" => status[r] = "paused" /\ isPaused[r] /\ ~aborted[r]

\* A migration implements the handover of every job.
Handoff == INSTANCE JobHandoff
             WITH places <- [j \in Jobs |-> {q \in Queues : copy[q][j] # "absent"}]
HandsOver == Handoff!Spec

------------------------------------------------------------------------------
(* Liveness *)

\* An aborted run comes to its end, also when it was paused or between two batches.
CancelTerminates == \A r \in Runs : aborted[r] ~> pc[r] \in {"ended", "crashed"}

\* A started run ends, unless it is left paused.
RunSettles ==
  \A r \in Runs : pc[r] = "acquire" ~> pc[r] \in {"ended", "crashed", "parked"}

==============================================================================
