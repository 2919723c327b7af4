------------------------------ MODULE JobHandoff ------------------------------
(***************************************************************************)
(* What a migration promises about every single job, whatever happens to   *)
(* the run that moves it: once added the job is always in some queue, it   *)
(* is in two queues only while it is being handed over, a worker gets it   *)
(* only when it is in one place, and a job a worker has got is not handed  *)
(* over.                                                                   *)
(***************************************************************************)
CONSTANTS Jobs, Queues

VARIABLES
  places,  \* the queues that hold a copy of the job
  ranIn    \* the queues in which a worker got the job

vars == <<places, ranIn>>

Init ==
  /\ places \in [Jobs -> {{}} \cup {{q} : q \in Queues}]
  /\ ranIn = [j \in Jobs |-> {}]

\* An application adds the job to a queue.
Submit(j) ==
  \E q \in Queues :
    /\ places[j] = {} /\ ranIn[j] = {}
    /\ places' = [places EXCEPT ![j] = {q}]
    /\ UNCHANGED ranIn

\* A second copy is made elsewhere.
Offer(j) ==
  \E q, t \in Queues :
    /\ places[j] = {q} /\ q # t /\ ranIn[j] = {}
    /\ places' = [places EXCEPT ![j] = {q, t}]
    /\ UNCHANGED ranIn

\* The handover ends with one of the two copies, or is undone with the other.
Settle(j) ==
  \E q, t \in Queues :
    /\ places[j] = {q, t} /\ q # t /\ ranIn[j] = {}
    /\ places' = [places EXCEPT ![j] = {t}]
    /\ UNCHANGED ranIn

HandToWorker(j) ==
  \E q \in Queues :
    /\ places[j] = {q} /\ ranIn[j] = {}
    /\ ranIn' = [ranIn EXCEPT ![j] = {q}]
    /\ UNCHANGED places

Next == \E j \in Jobs : Submit(j) \/ Offer(j) \/ Settle(j) \/ HandToWorker(j)

Spec == Init /\ [][Next]_vars

==============================================================================
