---------------------------- MODULE SafeMigration ----------------------------
(***************************************************************************)
(* The conditions under which migrations lose no job whatever the number   *)
(* of runs, queues and jobs, and the invariant that shows it.              *)
(***************************************************************************)
EXTENDS Migration

\* A run moves one job within MIGRATION_LOCK_TTL_MS of refreshing its lease.
ASSUME PromptTransfers == LongWaits \cap Transfer = {}

\* No queue is drained by one run while another one fills it.
ASSUME NoChains == \A r1, r2 \in Runs : Source[r1] # Target[r2]

\* A removal that is reported as failed did not take place.
ASSUME HonestRemoval == <<"remove", "lost">> \notin Faults

\* Job j may come into queue q from outside: with a run, or added by an application.
Arrives(j, q) ==
  \/ \E r \in Runs : Source[r] = Home[j] /\ Target[r] = q
  \/ Home[j] = q /\ First[j] = "absent"

\* No two jobs that come into a queue have the same id.  The jobs that a target has to
\* begin with may have the ids of jobs that a run brings.
ASSUME DistinctArrivals ==
  \A q \in Queues : \A j, k \in Jobs :
    Arrives(j, q) /\ Arrives(k, q) /\ Id[j] = Id[k] => j = k

------------------------------------------------------------------------------

\* A run moves jobs only under a lease that is its own.
LeaseHeld == \A r \in Runs : pc[r] \in Transfer => lease[Source[r]] = r

\* The source keeps its copy of the job in transfer until the run removes it.
SourceKeeps ==
  \A r \in Runs :
    pc[r] \in {"getTarget", "add", "remove", "rollback"} => copy[Source[r]][cur[r]] # "absent"

\* When the run is about to remove it, the target's copy exists.
TargetHas == \A r \in Runs : pc[r] = "remove" => copy[Target[r]][cur[r]] # "absent"

\* No job is in two source queues.
OneSource ==
  \A j \in Jobs : \A r1, r2 \in Runs :
    copy[Source[r1]][j] # "absent" /\ copy[Source[r2]][j] # "absent" => Source[r1] = Source[r2]

\* A job is where it was added or where a run may have brought it, and only once it was
\* added.
InPlace ==
  \A j \in Jobs :
    /\ First[j] # "absent" => j \in born
    /\ \A q \in Queues : copy[q][j] # "absent" => j \in born /\ (q = Home[j] \/ Arrives(j, q))

\* From where a run takes a job to the answer of the last command about it.
AtJob == Transfer \cup {"sleep", "refresh"}

\* What a run has listed, or is looking at, was added to its source; and it lists the jobs
\* in a state of params.states.
Listed ==
  \A r \in Runs :
    /\ \A j \in todo[r] : Home[j] = Source[r]
    /\ pc[r] \in AtJob => Home[cur[r]] = Source[r]
    /\ pc[r] = "list" => stateIdx[r] # 0

\* From the answer of the target until the job is through, the target holds no other job
\* under its id: so an add is not ignored, and a rollback removes no other job.
TargetFree ==
  \A r \in Runs : pc[r] \in {"add", "remove", "rollback"} =>
    \A j \in Jobs \ {cur[r]} : Id[j] = Id[cur[r]] => copy[Target[r]][j] = "absent"

\* The inductive invariant behind NoJobLost and OneMoverPerSource: whoever deletes a copy
\* of a job holds the lease of its source and knows of the other copy, and deletes no other
\* job that has the same id.
SafeInv ==
  /\ LeaseHeld /\ SourceKeeps /\ TargetHas /\ OneSource
  /\ InPlace /\ Listed /\ TargetFree
  /\ NoJobLost

==============================================================================
