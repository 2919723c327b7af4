---------------------------- MODULE CacheMigration ----------------------------
(***************************************************************************)
(* A cache migration of QueuebertService: the keys of a cache are scanned  *)
(* on one Redis and copied to another one in batches, while applications   *)
(* write to the source and an operator pauses, resumes and cancels.        *)
(*                                                                         *)
(* pc is the await of runCacheMigrationInBackground the run is suspended   *)
(* at; "next" (the generator is asked for a batch) and "top" (the top of   *)
(* the loop's body) stand for the code between two awaits.                 *)
(***************************************************************************)
EXTENDS Naturals, FiniteSets

CONSTANTS
  Keys,        \* the keys that match the pattern
  Written,     \* the keys applications write meanwhile, or that expire
  Contents,    \* what a key may hold
  Limits,      \* the values of params.limit, 0 for an absent one
  BatchSize,   \* params.batchSize
  BatchDelay,  \* whether delayBetweenBatchesMs > 0
  MaxErrors,   \* how many errors status.errors holds
  MaxScans,    \* bound: the SCAN calls after which the cursor is back at 0
  MaxFaults    \* bound: the commands that reject

\* What a key holds that does not exist: mget answers null and pttl -2.
Missing == "missing"

ASSUME CacheAssumption ==
  /\ Limits \subseteq Nat /\ BatchSize \in Nat \ {0} /\ BatchDelay \in BOOLEAN
  /\ MaxErrors \in Nat /\ MaxScans \in Nat \ {0} /\ MaxFaults \in Nat
  /\ Missing \notin Contents /\ IsFiniteSet(Keys) /\ Written \subseteq Keys

Terminal == {"completed", "failed", "cancelled"}
Points   == {"idle", "next", "scan", "top", "parked", "read", "ttls", "write", "sleep", "ended"}

VARIABLES
  source, target,  \* the two Redis instances
  limit,           \* params.limit
  pc,
  open,            \* the SCAN cursor is not back at 0
  unseen,          \* the keys SCAN still has to return, being there all the time
  scans,           \* SCAN calls so far
  page,            \* keys returned by SCAN and not yet yielded
  batch,           \* the keys of the batch in hand
  todo,            \* those of them the current step of the body has not come to
  values, live,    \* the answers of mget, and the keys whose pttl was not -2
  processed,       \* totalProcessed
  errors,          \* the keys in status.errors
  failed,          \* totalFailed
  status,          \* status.status
  isPaused,        \* migration.isPaused
  aborted,         \* abortController.signal.aborted
  steady,          \* history: the keys nobody wrote since the start
  unlisted,        \* history: the keys whose error found status.errors full
  faults           \* rejected commands so far

redisVars   == <<source, target, steady>>
scanVars    == <<open, unseen, scans>>
batchVars   == <<page, batch, todo, values, live>>
countVars   == <<processed, errors, failed, unlisted>>
controlVars == <<isPaused, aborted>>
vars == <<redisVars, limit, pc, scanVars, batchVars, countVars, status, controlVars, faults>>

Init ==
  /\ source \in [Keys -> Contents \cup {Missing}]
  /\ target = [k \in Keys |-> Missing]
  /\ limit \in Limits
  /\ pc = "idle"
  /\ open = FALSE /\ unseen = {} /\ scans = 0
  /\ page = {} /\ batch = {} /\ todo = {}
  /\ values = [k \in Keys |-> Missing] /\ live = {}
  /\ processed = 0 /\ errors = {} /\ failed = 0 /\ unlisted = {}
  /\ status = "pending" /\ isPaused = FALSE /\ aborted = FALSE
  /\ steady = Keys
  /\ faults = 0

------------------------------------------------------------------------------

End(outcome) == pc' = "ended" /\ status' = outcome

\* A command rejects.
Reject == faults < MaxFaults /\ faults' = faults + 1

LimitReached == limit > 0 /\ processed >= limit

\* The run begins with the first SCAN.
Start ==
  /\ pc = "idle"
  /\ pc' = "scan" /\ status' = "running"
  /\ open' = TRUE
  /\ unseen' = {k \in Keys : source[k] # Missing}
  /\ UNCHANGED <<redisVars, limit, scans, batchVars, countVars, controlVars, faults>>

\* The answer of SCAN: any keys, again or for the first time.  When the cursor is back
\* at 0, every key that was there all the time has been returned.
Scan ==
  /\ pc = "scan"
  /\ scans' = scans + 1
  /\ \E returned \in SUBSET Keys :
       /\ open' \in BOOLEAN
       /\ open' => scans + 1 < MaxScans
       /\ ~open' => unseen \subseteq returned
       /\ page' = returned
       /\ unseen' = unseen \ returned
  /\ pc' = "next"
  /\ UNCHANGED <<redisVars, limit, batch, todo, values, live, countVars, status, controlVars,
                 faults>>

\* SCAN, mget or a pttl rejects, and the run fails.
ReadFails ==
  /\ pc \in {"scan", "read", "ttls"}
  /\ Reject
  /\ End("failed")
  /\ UNCHANGED <<redisVars, limit, scanVars, batchVars, countVars, controlVars>>

\* Seeded bug: the slice ignores the rest of the limit.
WholeSlice == BatchSize

\* How many keys the generator yields at once.
SliceSize ==
  IF limit > 0 /\ limit - processed < BatchSize THEN limit - processed ELSE BatchSize

\* Seeded bug: the generator yields one slice of every page.
NextBatchOnce ==
  /\ pc = "next" /\ ~LimitReached /\ page # {}
  /\ \E slice \in SUBSET page :
       /\ Cardinality(slice) = IF Cardinality(page) < SliceSize THEN Cardinality(page)
                               ELSE SliceSize
       /\ batch' = slice
       /\ page' = {}
  /\ pc' = "top"
  /\ UNCHANGED <<redisVars, limit, scanVars, todo, values, live, countVars, status,
                 controlVars, faults>>

\* scanKeyBatches is asked for the next batch: a slice of the page it has, no more than
\* batchSize keys and the rest of the limit, or another SCAN, or the end.
NextBatch ==
  /\ pc = "next" /\ ~LimitReached /\ page # {}
  /\ \E slice \in SUBSET page :
       /\ Cardinality(slice) = IF Cardinality(page) < SliceSize THEN Cardinality(page)
                               ELSE SliceSize
       /\ batch' = slice
       /\ page' = page \ slice
  /\ pc' = "top"
  /\ UNCHANGED <<redisVars, limit, scanVars, todo, values, live, countVars, status,
                 controlVars, faults>>

NextScan ==
  /\ pc = "next" /\ ~LimitReached /\ page = {} /\ open
  /\ pc' = "scan"
  /\ UNCHANGED <<redisVars, limit, scanVars, batchVars, countVars, status, controlVars, faults>>

Complete ==
  /\ pc = "next"
  /\ LimitReached \/ (page = {} /\ ~open)
  /\ End("completed")
  /\ UNCHANGED <<redisVars, limit, scanVars, batchVars, countVars, controlVars, faults>>

\* Seeded bug: the pause is looked at before the abort signal.
TopPausedFirst ==
  /\ pc = "top"
  /\ IF ~isPaused /\ aborted THEN End("cancelled")
     ELSE pc' = (IF isPaused THEN "parked" ELSE "read") /\ UNCHANGED status
  /\ UNCHANGED <<redisVars, limit, scanVars, batchVars, countVars, controlVars, faults>>

\* Seeded bug: the abort signal is not looked at between two batches.
TopUnchecked ==
  /\ pc = "top"
  /\ pc' = (IF isPaused THEN "parked" ELSE "read")
  /\ UNCHANGED <<redisVars, limit, scanVars, batchVars, countVars, status, controlVars, faults>>

\* The top of the loop's body: cancelled, paused, or the reads of the batch are sent.
Top ==
  /\ pc = "top"
  /\ IF aborted THEN End("cancelled")
     ELSE pc' = (IF isPaused THEN "parked" ELSE "read") /\ UNCHANGED status
  /\ UNCHANGED <<redisVars, limit, scanVars, batchVars, countVars, controlVars, faults>>

------------------------------------------------------------------------------
(* A batch *)

\* mget reads all the values at once, and after it each pttl is answered on its own.
ReadValues ==
  /\ pc = "read"
  /\ values' = [k \in Keys |-> IF k \in batch THEN source[k] ELSE Missing]
  /\ live' = {} /\ todo' = batch
  /\ pc' = "ttls"
  /\ UNCHANGED <<redisVars, limit, scanVars, page, batch, countVars, status, controlVars,
                 faults>>

ReadTtl(k) ==
  /\ pc = "ttls" /\ k \in todo
  /\ live' = IF source[k] = Missing THEN live ELSE live \cup {k}
  /\ todo' = todo \ {k}
  /\ UNCHANGED <<redisVars, limit, pc, scanVars, page, batch, values, countVars, status,
                 controlVars, faults>>

\* Seeded bug: the loop over the keys runs to the end of the page.
AllReadOfPage ==
  /\ pc = "ttls" /\ todo = {}
  /\ pc' = "write" /\ todo' = batch \cup page
  /\ UNCHANGED <<redisVars, limit, scanVars, page, batch, values, live, countVars, status,
                 controlVars, faults>>

AllRead ==
  /\ pc = "ttls" /\ todo = {}
  /\ pc' = "write" /\ todo' = batch
  /\ UNCHANGED <<redisVars, limit, scanVars, page, batch, values, live, countVars, status,
                 controlVars, faults>>

Copyable(k) == values[k] # Missing /\ k \in live

\* A key that was gone for mget or for pttl is skipped, any other is set or psetex on the
\* target.  A rejection, which leaves open whether the target has the value, is an error
\* of the key, counted always and listed while the list has room.
WriteKey(k) ==
  /\ pc = "write" /\ k \in todo
  /\ \/ /\ ~Copyable(k)
        /\ UNCHANGED <<target, errors, failed, unlisted, faults>>
     \/ /\ Copyable(k)
        /\ target' = [target EXCEPT ![k] = values[k]]
        /\ UNCHANGED <<errors, failed, unlisted, faults>>
     \/ /\ Copyable(k)
        /\ Reject
        /\ target' \in {target, [target EXCEPT ![k] = values[k]]}
        /\ failed' = failed + 1
        /\ IF failed < MaxErrors THEN errors' = errors \cup {k} /\ UNCHANGED unlisted
           ELSE unlisted' = unlisted \cup {k} /\ UNCHANGED errors
  /\ todo' = todo \ {k}
  /\ processed' = processed + 1
  /\ UNCHANGED <<source, steady, limit, pc, scanVars, page, batch, values, live, status,
                 controlVars>>

\* The batch goes out of scope.  The delay after it rejects at once when the run is
\* already cancelled.
EndBatch ==
  /\ pc = "write" /\ todo = {}
  /\ batch' = {} /\ live' = {} /\ values' = [k \in Keys |-> Missing]
  /\ IF BatchDelay /\ aborted THEN End("cancelled")
     ELSE pc' = (IF BatchDelay THEN "sleep" ELSE "next") /\ UNCHANGED status
  /\ UNCHANGED <<redisVars, limit, scanVars, page, todo, countVars, controlVars, faults>>

SleepOver ==
  /\ pc = "sleep"
  /\ pc' = "next"
  /\ UNCHANGED <<redisVars, limit, scanVars, batchVars, countVars, status, controlVars, faults>>

------------------------------------------------------------------------------
(* Controls *)

\* Seeded bug: the abort does not call resumeResolver.
AbortNoWakeUp ==
  /\ ~aborted /\ aborted' = TRUE
  /\ IF pc = "sleep" THEN End("cancelled") ELSE UNCHANGED <<pc, status>>
  /\ UNCHANGED <<redisVars, limit, scanVars, batchVars, countVars, isPaused, faults>>

\* The abort ends the wait for a resume and the delay between batches.
Abort ==
  /\ ~aborted /\ aborted' = TRUE
  /\ IF pc \in {"parked", "sleep"} THEN End("cancelled") ELSE UNCHANGED <<pc, status>>
  /\ UNCHANGED <<redisVars, limit, scanVars, batchVars, countVars, isPaused, faults>>

Cancel == status \in {"running", "paused"} /\ Abort

\* onModuleDestroy
Destroy == pc \notin {"idle", "ended"} /\ Abort

Pause ==
  /\ status = "running"
  /\ isPaused' = TRUE /\ status' = "paused"
  /\ UNCHANGED <<redisVars, limit, pc, scanVars, batchVars, countVars, aborted, faults>>

Resume ==
  /\ status = "paused"
  /\ isPaused' = FALSE /\ status' = "running"
  /\ pc' = IF pc = "parked" THEN "read" ELSE pc
  /\ UNCHANGED <<redisVars, limit, scanVars, batchVars, countVars, aborted, faults>>

------------------------------------------------------------------------------

\* An application writes or deletes a key of the source, or the key expires.  SCAN owes
\* nobody a key that was not there all the time.
SourceChanges(k) ==
  /\ \E v \in (Contents \cup {Missing}) \ {source[k]} :
       /\ source' = [source EXCEPT ![k] = v]
       /\ unseen' = IF v = Missing THEN unseen \ {k} ELSE unseen
  /\ steady' = steady \ {k}
  /\ UNCHANGED <<target, limit, pc, open, scans, batchVars, countVars, status, controlVars,
                 faults>>

RunStep ==
  \/ Scan \/ ReadFails \/ NextBatch \/ NextScan \/ Complete \/ Top
  \/ ReadValues \/ AllRead \/ EndBatch \/ SleepOver
  \/ \E k \in Keys : ReadTtl(k) \/ WriteKey(k)

Control == Cancel \/ Destroy \/ Pause \/ Resume

Next == Start \/ RunStep \/ Control \/ \E k \in Written : SourceChanges(k)

Spec == Init /\ [][Next]_vars

\* Redis answers or the command rejects, timers fire, and a SCAN comes to its end.
FairSpec == Spec /\ WF_vars(RunStep)

------------------------------------------------------------------------------

\* The types; the bodies of the loops over a batch only look at its keys.
TypeOK ==
  /\ source \in [Keys -> Contents \cup {Missing}]
  /\ target \in [Keys -> Contents \cup {Missing}]
  /\ limit \in Nat
  /\ pc \in Points
  /\ open \in BOOLEAN
  /\ unseen \subseteq Keys
  /\ scans \in Nat
  /\ page \subseteq Keys /\ batch \subseteq Keys /\ todo \subseteq batch
  /\ todo # {} => pc \in {"ttls", "write", "ended"}
  /\ values \in [Keys -> Contents \cup {Missing}]
  /\ live \subseteq Keys
  /\ processed \in Nat
  /\ errors \subseteq Keys /\ unlisted \subseteq Keys /\ failed \in Nat
  /\ status \in Terminal \cup {"pending", "running", "paused"}
  /\ isPaused \in BOOLEAN /\ aborted \in BOOLEAN
  /\ steady \subseteq Keys
  /\ faults \in 0..MaxFaults

\* The keys nobody wrote meanwhile that are neither copied nor in status.errors.
Unreported ==
  {k \in steady : source[k] # Missing /\ target[k] # source[k] /\ k \notin errors}

\* The errors status.errors had no room for.
Beyond == IF failed > MaxErrors THEN failed - MaxErrors ELSE 0

\* A completed cache migration that no limit cut short has copied every key nobody wrote
\* meanwhile, or lists its error; and of the keys that are in neither place there are no
\* more than progress.failed counts beyond the list.  Whatever SCAN repeats, however its
\* answers are sliced into batches, and however the run was paused in between.
CompletedCopiesAll ==
  status = "completed" /\ ~LimitReached => Cardinality(Unreported) <= Beyond

\* Where a key is on its way to the target.
Ahead(k) ==
  \/ k \in unseen \/ k \in page
  \/ pc \in {"top", "parked", "read"} /\ k \in batch
  \/ pc = "ttls" /\ k \in batch /\ (k \in todo \/ k \in live)
  \/ pc = "write" /\ k \in todo /\ k \in live

Accounted(k) == target[k] = source[k] \/ k \in errors \/ k \in unlisted

\* The inductive invariant behind CompletedCopiesAll: SCAN owes nothing when its cursor is
\* back at 0, what was read of a steady key is what it holds, every steady key is copied,
\* an error or on its way, the errors that are not listed are counted, and a run is over
\* when its status is final.
CacheInv ==
  /\ pc \in {"idle", "scan"} => page = {}
  /\ ~open => unseen = {}
  /\ pc \in {"ttls", "write"} => \A k \in batch \cap steady : values[k] = source[k]
  /\ pc \notin {"idle", "ended"} =>
       \A k \in steady : source[k] # Missing => Accounted(k) \/ Ahead(k)
  /\ status = "completed" /\ ~LimitReached =>
       \A k \in steady : source[k] # Missing => Accounted(k)
  /\ Cardinality(unlisted) <= Beyond
  /\ status \in Terminal <=> pc = "ended"

\* params.limit bounds the keys a run looks at, also when SCAN returns more at once.
LimitRespected == limit > 0 => processed <= limit

\* A run that waits to be resumed is one that resumeCacheMigration accepts, and one that
\* was cancelled does not wait.
ParkedCanBeResumed == pc = "parked" => status = "paused" /\ isPaused /\ ~aborted

\* A cancelled run reads no further batch, wherever it was when the abort came: at the
\* most the batch in hand is still written.
NoReadAfterCancel == [][aborted /\ pc # "read" => pc' # "read"]_vars

\* An aborted run ends, also when it was paused or between two batches.
CancelTerminates == aborted ~> pc = "ended"

==============================================================================
