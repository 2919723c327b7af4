--------------------------- MODULE MigrationProofs ---------------------------
(***************************************************************************)
(* Proofs about Migration for any runs, queues and jobs.  The first part   *)
(* is type correctness; the second shows that SafeInv of SafeMigration is  *)
(* inductive.  Most actions leave the copies alone and end with their run  *)
(* outside the transfer of a job: StepOutside and StepAside settle those   *)
(* once and for all.  What is left are the commands of migrateJob, which    *)
(* name jobs by their ids: AddAlone and RemovedAlone show that a run finds *)
(* no other job under the id of the one it moves.                          *)
(***************************************************************************)
EXTENDS SafeMigration, TLAPS

\* An answer counts at most one fault more, and only below the bound.
LEMMA AnswerType ==
  ASSUME TypeOK, NEW r, NEW op, NEW o, Answer(r, op, o)
  PROVE  faults' \in 0..MaxFaults
  BY ParamsAssumption DEF TypeOK, Answer

\* Moving a run to a point of the code keeps pc a function into the points.
LEMMA GoType ==
  ASSUME TypeOK, NEW r \in Runs, NEW point \in Points, Go(r, point)
  PROVE  pc' \in [Runs -> Points]
  BY DEF TypeOK, Go

\* The catch and finally blocks of a run set a status and go to a point of the exit path.
LEMMA FinallyType ==
  ASSUME TypeOK, NEW r \in Runs, NEW outcome \in Terminal, NEW needsHuman \in BOOLEAN,
         Finally(r, outcome, needsHuman)
  PROVE  /\ pc' \in [Runs -> Points]
         /\ status' \in [Runs -> Statuses]
         /\ intervention' \in [Runs -> BOOLEAN]
  BY DEF TypeOK, Finally, RestoreFrom, Go, Points, Commands, Statuses

\* The same of the catch block of an error that is not the loss of the lease.
LEMMA FailType ==
  ASSUME TypeOK, NEW r \in Runs, Fail(r)
  PROVE  /\ pc' \in [Runs -> Points]
         /\ status' \in [Runs -> Statuses]
         /\ intervention' \in [Runs -> BOOLEAN]
  <1>1. intervention[r] \in BOOLEAN /\ "failed" \in Terminal
    BY DEF TypeOK, Terminal
  <1>2. QED
    BY <1>1, FinallyType DEF Fail

\* The inner catch block adds a job to the reported ones and returns to the loop.
LEMMA JobFailsType ==
  ASSUME TypeOK, NEW r \in Runs, NEW needsHuman \in BOOLEAN, JobFails(r, needsHuman)
  PROVE  /\ pc' \in [Runs -> Points]
         /\ moved' \in [Runs -> SUBSET Jobs]
         /\ errors' \in [Runs -> SUBSET Jobs]
         /\ status' \in [Runs -> Statuses]
         /\ intervention' \in [Runs -> BOOLEAN]
  BY DEF TypeOK, JobFails, Go, Points

\* The head of the job loop takes a listed job, or drops the rest of the page.
LEMMA ProceedType ==
  ASSUME TypeOK, NEW r \in Runs, Proceed(r)
  PROVE  /\ pc' \in [Runs -> Points]
         /\ todo' \in [Runs -> SUBSET Jobs]
         /\ cur' \in [Runs -> Jobs]
         /\ batch' \in [Runs -> Nat]
  <1>1. /\ pc \in [Runs -> Points]
        /\ todo \in [Runs -> SUBSET Jobs]
        /\ cur \in [Runs -> Jobs]
        /\ batch \in [Runs -> Nat]
    BY DEF TypeOK
  <1>2. CASE LimitReached(r)
    BY <1>1, <1>2 DEF Proceed, Go, Points
  <1>3. CASE ~LimitReached(r)
    <2>1. PICK j \in todo[r] : /\ cur' = [cur EXCEPT ![r] = j]
                               /\ todo' = [todo EXCEPT ![r] = @ \ {j}]
      BY <1>3 DEF Proceed
    <2>2. batch' = [batch EXCEPT ![r] = 0] \/ batch' = batch
      BY <1>3 DEF Proceed
    <2>3. pc' = [pc EXCEPT ![r] = "sleep"] \/ pc' = [pc EXCEPT ![r] = "refresh"]
      BY <1>3 DEF Proceed, Go
    <2>4. QED
      BY <1>1, <2>1, <2>2, <2>3 DEF Points, Commands
  <1>4. QED
    BY <1>2, <1>3

\* BullMQ's removal of a job leaves every other copy as it is.
LEMMA RemovedType ==
  ASSUME TypeOK, NEW q \in Queues, NEW j \in Jobs, NEW o, Removed(q, j, o)
  PROVE  copy' \in [Queues -> [Jobs -> Copies]]
  <1>1. Removed(q, j, o) => copy' = copy \/
          copy' = [copy EXCEPT ![q] = [k \in Jobs |-> IF Id[k] = Id[j] THEN "absent" ELSE copy[q][k]]]
    BY DEF Removed
  <1>2. copy \in [Queues -> [Jobs -> Copies]] /\ "absent" \in Copies
    BY DEF TypeOK, Copies
  <1>3. QED
    BY <1>1, <1>2

\* Both sides of a run are queues.
LEMMA QueueOfType ==
  ASSUME NEW r \in Runs, NEW side
  PROVE  QueueOf(r, side) \in Queues
  BY RunsAssumption DEF QueueOf


\* Every step preserves the types.
LEMMA TypeNext == TypeOK /\ [Next]_vars => TypeOK'
  <1> SUFFICES ASSUME TypeOK, [Next]_vars PROVE TypeOK'
    OBVIOUS
  <1> USE DEF redisVars, setupVars, cursorVars, resultVars, exitVars, controlVars, runVars
  <1>1. ASSUME NEW r \in Runs, Start(r) PROVE TypeOK'
    BY <1>1, GoType DEF TypeOK, Start, Points, Commands, Statuses
  <1>2. ASSUME NEW r \in Runs, NEW o \in Outcomes, Acquire(r, o) PROVE TypeOK'
    <2>1. lease' \in [Queues -> Runs \cup {NoRun}]
      BY <1>2, RunsAssumption DEF TypeOK, Acquire
    <2>2. /\ pc' \in [Runs -> Points]
          /\ status' \in [Runs -> Statuses]
          /\ inflight' \in [Runs -> SUBSET Sides]
      <3>1. CASE lease[Source[r]] = NoRun /\ o = "ok"
        BY <1>2, <3>1, GoType DEF TypeOK, Acquire, Points, Commands
      <3>2. CASE ~(lease[Source[r]] = NoRun /\ o = "ok")
        BY <1>2, <3>2, GoType DEF TypeOK, Acquire, Points, Statuses, Terminal
      <3>3. QED
        BY <3>1, <3>2
    <2>3. faults' \in 0..MaxFaults
      BY <1>2, AnswerType DEF Acquire
    <2>4. QED
      BY <1>2, <2>1, <2>2, <2>3 DEF TypeOK, Acquire
  <1>3. ASSUME NEW r \in Runs, NEW side \in Sides, NEW o \in Outcomes, ReadPaused(r, side, o) PROVE TypeOK'
    <2>1. paused[QueueOf(r, side)] \in BOOLEAN
      BY QueueOfType DEF TypeOK
    <2>2. was' \in [Runs -> [Sides -> BOOLEAN]]
      <3>1. was' = [was EXCEPT ![r][side] = paused[QueueOf(r, side)]] \/ was' = was
        BY <1>3 DEF ReadPaused
      <3>2. was \in [Runs -> [Sides -> BOOLEAN]]
        BY DEF TypeOK
      <3>3. QED
        BY <2>1, <3>1, <3>2
    <2>3. /\ pc' \in [Runs -> Points]
          /\ status' \in [Runs -> Statuses]
          /\ intervention' \in [Runs -> BOOLEAN]
      BY <1>3, FailType DEF TypeOK, ReadPaused
    <2>4. inflight' \in [Runs -> SUBSET Sides]
      <3>1. \/ inflight' = [inflight EXCEPT ![r] = @ \ {side}]
            \/ inflight' = [inflight EXCEPT ![r] = {}]
        BY <1>3 DEF ReadPaused
      <3>2. inflight \in [Runs -> SUBSET Sides]
        BY DEF TypeOK
      <3>3. QED
        BY <3>1, <3>2
    <2>5. faults' \in 0..MaxFaults
      BY <1>3, AnswerType DEF ReadPaused
    <2>6. QED
      BY <1>3, <2>2, <2>3, <2>4, <2>5 DEF TypeOK, ReadPaused
  <1>4. ASSUME NEW r \in Runs, IssuePauses(r) PROVE TypeOK'
    BY <1>4, GoType DEF TypeOK, IssuePauses, Points, Commands
  <1>5. ASSUME NEW r \in Runs, NEW side \in Sides, PauseLands(r, side) PROVE TypeOK'
    BY <1>5, QueueOfType DEF TypeOK, PauseLands
  <1>6. ASSUME NEW r \in Runs, NEW side \in Sides, NEW o \in Outcomes, PauseRejected(r, side, o) PROVE TypeOK'
    BY <1>6, AnswerType, FailType, QueueOfType DEF TypeOK, PauseRejected
  <1>7. ASSUME NEW r \in Runs, BothPaused(r) PROVE TypeOK'
    BY <1>7, GoType DEF TypeOK, BothPaused, Points, Commands
  <1>8. ASSUME NEW r \in Runs, NEW o \in Outcomes, CountActive(r, o) PROVE TypeOK'
    BY <1>8, AnswerType, GoType, FailType DEF TypeOK, CountActive, Points, Commands
  <1>9. ASSUME NEW r \in Runs, NEW o \in Outcomes, UndoTarget(r, o) PROVE TypeOK'
    BY <1>9, AnswerType, GoType, FailType, QueueOfType DEF TypeOK, UndoTarget, ResumeSide,
       Points, Commands
  <1>10. ASSUME NEW r \in Runs, NEW o \in Outcomes, UndoSource(r, o) PROVE TypeOK'
    BY <1>10, AnswerType, FailType, QueueOfType DEF TypeOK, UndoSource, ResumeSide
  <1>11. ASSUME NEW r \in Runs, Finish(r) PROVE TypeOK'
    BY <1>11, FinallyType DEF TypeOK, Finish, Terminal
  <1>12. ASSUME NEW r \in Runs, CancelSeen(r) PROVE TypeOK'
    BY <1>12, FinallyType DEF TypeOK, CancelSeen, Terminal
  <1>13. ASSUME NEW r \in Runs, NextState(r) PROVE TypeOK'
    BY <1>13, ParamsAssumption, GoType, SMTT(60) DEF TypeOK, NextState, Points, Commands
  <1>14. ASSUME NEW r \in Runs, NEW o \in Outcomes, ListJobs(r, o) PROVE TypeOK'
    <2>1. /\ pc' \in [Runs -> Points]
          /\ status' \in [Runs -> Statuses]
          /\ intervention' \in [Runs -> BOOLEAN]
      BY <1>14, GoType, FailType DEF TypeOK, ListJobs, Points
    <2>2. todo' \in [Runs -> SUBSET Jobs]
      <3>1. CASE o = "ok"
        <4>1. PICK page \in SUBSET Jobs : todo' = [todo EXCEPT ![r] = page \cap Matching]
          BY <1>14, <3>1 DEF ListJobs
        <4>2. QED
          BY <4>1 DEF TypeOK
      <3>2. CASE o # "ok"
        BY <1>14, <3>2 DEF TypeOK, ListJobs
      <3>3. QED
        BY <3>1, <3>2
    <2>3. faults' \in 0..MaxFaults
      BY <1>14, AnswerType DEF ListJobs
    <2>4. QED
      BY <1>14, <2>1, <2>2, <2>3 DEF TypeOK, ListJobs
  <1>15. ASSUME NEW r \in Runs, Park(r) PROVE TypeOK'
    BY <1>15, GoType DEF TypeOK, Park, Points, Commands
  <1>16. ASSUME NEW r \in Runs, NextJob(r) PROVE TypeOK'
    BY <1>16, ProceedType DEF TypeOK, NextJob
  <1>17. ASSUME NEW r \in Runs, SleepOver(r) PROVE TypeOK'
    BY <1>17, GoType DEF TypeOK, SleepOver, Points, Commands
  <1>18. ASSUME NEW r \in Runs, NEW o \in Outcomes, Refresh(r, o) PROVE TypeOK'
    BY <1>18, AnswerType, GoType, JobFailsType, FinallyType DEF TypeOK, Refresh, Terminal,
       Transfer, Points, Commands
  <1>19. ASSUME NEW r \in Runs, NEW o \in Outcomes, GetSource(r, o) PROVE TypeOK'
    <2>1. cur' \in [Runs -> Jobs]
      <3>1. cur' = cur \/ \E j \in Held(Source[r], cur[r]) : cur' = [cur EXCEPT ![r] = j]
        BY <1>19 DEF GetSource
      <3>2. cur \in [Runs -> Jobs] /\ Held(Source[r], cur[r]) \subseteq Jobs
        BY DEF TypeOK, Held
      <3>3. QED
        BY <3>1, <3>2
    <2>2. faults' \in 0..MaxFaults
      BY <1>19, AnswerType DEF GetSource
    <2>3. /\ pc' \in [Runs -> Points]
          /\ moved' \in [Runs -> SUBSET Jobs]
          /\ errors' \in [Runs -> SUBSET Jobs]
          /\ status' \in [Runs -> Statuses]
          /\ intervention' \in [Runs -> BOOLEAN]
      BY <1>19, GoType, JobFailsType DEF TypeOK, GetSource, Transfer, Points, Commands
    <2>4. QED
      BY <1>19, <2>1, <2>2, <2>3 DEF TypeOK, GetSource
  <1>20. ASSUME NEW r \in Runs, NEW o \in Outcomes, GetTarget(r, o) PROVE TypeOK'
    BY <1>20, AnswerType, GoType, JobFailsType DEF TypeOK, GetTarget, JobStep, Transfer,
       Points, Commands
  <1>21. ASSUME NEW r \in Runs, NEW o \in Outcomes, Add(r, o) PROVE TypeOK'
    BY <1>21, RunsAssumption, AnswerType, GoType, JobFailsType DEF TypeOK, Add, JobStep,
       Copies, Present, Listable, Transfer, Points, Commands
  <1>22. ASSUME NEW r \in Runs, NEW o \in Outcomes, Remove(r, o) PROVE TypeOK'
    <2>1. copy' \in [Queues -> [Jobs -> Copies]]
      <3>1. Source[r] \in Queues /\ cur[r] \in Jobs
        BY RunsAssumption DEF TypeOK
      <3>2. QED
        BY <1>22, <3>1, RemovedType DEF Remove
    <2>2. pc' \in [Runs -> Points]
      BY <1>22, GoType DEF Remove, Points, Commands, Transfer
    <2>3. /\ processed' \in [Runs -> Nat]
          /\ batch' \in [Runs -> Nat]
          /\ moved' \in [Runs -> SUBSET Jobs]
      <3>1. \/ /\ processed' = [processed EXCEPT ![r] = @ + 1]
               /\ batch' = [batch EXCEPT ![r] = @ + 1]
               /\ moved' = [moved EXCEPT ![r] = @ \cup {cur[r]}]
            \/ UNCHANGED <<processed, batch, moved>>
        BY <1>22 DEF Remove
      <3>2. /\ cur[r] \in Jobs
            /\ processed \in [Runs -> Nat]
            /\ batch \in [Runs -> Nat]
            /\ moved \in [Runs -> SUBSET Jobs]
        BY DEF TypeOK
      <3>3. QED
        BY <3>1, <3>2
    <2>4. faults' \in 0..MaxFaults
      BY <1>22, AnswerType DEF Remove
    <2>5. QED
      BY <1>22, <2>1, <2>2, <2>3, <2>4 DEF TypeOK, Remove
  <1>23. ASSUME NEW r \in Runs, NEW o \in Outcomes, Rollback(r, o) PROVE TypeOK'
    BY <1>23, RunsAssumption, AnswerType, RemovedType, JobFailsType DEF TypeOK, Rollback
  <1>24. ASSUME NEW r \in Runs, NEW o \in Outcomes, RestoreTarget(r, o) PROVE TypeOK'
    BY <1>24, AnswerType, GoType, QueueOfType DEF TypeOK, RestoreTarget, ResumeSide,
       RestoreFrom, Escape, Statuses, Terminal, Points, Commands
  <1>25. ASSUME NEW r \in Runs, NEW o \in Outcomes, RestoreSource(r, o) PROVE TypeOK'
    BY <1>25, AnswerType, GoType, QueueOfType DEF TypeOK, RestoreSource, ResumeSide,
       Escape, Statuses, Terminal, Points, Commands
  <1>26. ASSUME NEW r \in Runs, NEW o \in Outcomes, Release(r, o) PROVE TypeOK'
    BY <1>26, RunsAssumption, AnswerType, GoType DEF TypeOK, Release, Escape, Statuses,
       Terminal, Points, Commands
  <1>27. ASSUME NEW r \in Runs, Cancel(r) PROVE TypeOK'
    BY <1>27, FinallyType DEF TypeOK, Cancel, Abort, Terminal
  <1>28. ASSUME NEW r \in Runs, Destroy(r) PROVE TypeOK'
    BY <1>28, FinallyType DEF TypeOK, Destroy, Abort, Terminal
  <1>29. ASSUME NEW r \in Runs, Pause(r) PROVE TypeOK'
    BY <1>29 DEF TypeOK, Pause, Statuses
  <1>30. ASSUME NEW r \in Runs, Resume(r) PROVE TypeOK'
    BY <1>30, ProceedType DEF TypeOK, Resume, Statuses
  <1>31. ASSUME NEW r \in Runs, Crash(r) PROVE TypeOK'
    BY <1>31, GoType DEF TypeOK, Crash, Points, Commands
  <1>32. ASSUME NEW q \in Queues, LeaseExpires(q) PROVE TypeOK'
    BY <1>32 DEF TypeOK, LeaseExpires
  <1>33. ASSUME NEW q \in Queues, OperatorToggles(q) PROVE TypeOK'
    BY <1>33 DEF TypeOK, OperatorToggles
  <1>34. ASSUME NEW q \in Queues, NEW j \in Jobs, Promote(q, j) PROVE TypeOK'
    BY <1>34 DEF TypeOK, Promote, Copies, Present, Listable
  <1>35. ASSUME NEW q \in Queues, NEW j \in Jobs, Fetch(q, j) PROVE TypeOK'
    BY <1>35 DEF TypeOK, Fetch, Copies, Present
  <1>36. ASSUME NEW q \in Queues, NEW j \in Jobs, Complete(q, j) PROVE TypeOK'
    BY <1>36 DEF TypeOK, Complete, Copies, Present
  <1>37. CASE UNCHANGED vars
    BY <1>37 DEF TypeOK, vars
  <1>38. ASSUME NEW q \in Queues, NEW j \in Jobs, Produce(q, j) PROVE TypeOK'
    BY <1>38, JobsAssumption DEF TypeOK, Produce, Copies, Present, Listable
  <1>39. QED
    BY <1>1, <1>2, <1>3, <1>4, <1>5, <1>6, <1>7, <1>8, <1>9, <1>10, <1>11, <1>12, <1>13,
       <1>14, <1>15, <1>16, <1>17, <1>18, <1>19, <1>20, <1>21, <1>22, <1>23, <1>24, <1>25,
       <1>26, <1>27, <1>28, <1>29, <1>30, <1>31, <1>32, <1>33, <1>34, <1>35, <1>36, <1>37,
       <1>38
       DEF Next, RunStep, Setup, Loop, MoveJob, Exit, Control, Queue

\* The initial state has the right types.
LEMMA TypeInit == Init => TypeOK
  <1> SUFFICES ASSUME Init PROVE TypeOK
    OBVIOUS
  <1>1. copy \in [Queues -> [Jobs -> Copies]]
    BY JobsAssumption DEF Init, Copies, Present
  <1>2. cur \in [Runs -> Jobs]
    BY JobsAssumption DEF Init
  <1>3. /\ pc \in [Runs -> Points]
        /\ status \in [Runs -> Statuses]
    BY DEF Init, Points, Statuses
  <1>4. /\ stateIdx \in [Runs -> 0..Len(States)]
        /\ faults \in 0..MaxFaults
    BY ParamsAssumption DEF Init
  <1>5. QED
    BY <1>1, <1>2, <1>3, <1>4 DEF Init, TypeOK

\* The state of a migration always has the types the code's data structures have: in
\* particular the cursor into params.states never leaves it and the final statuses are
\* the ones of MigrationStatus.
THEOREM TypeCorrect == Spec => []TypeOK
  BY TypeInit, TypeNext, PTL DEF Spec

------------------------------------------------------------------------------

\* Go moves one run.
LEMMA GoMoves ==
  ASSUME TypeOK, NEW r \in Runs, NEW point, Go(r, point)
  PROVE  pc'[r] = point /\ \A x \in Runs \ {r} : pc'[x] = pc[x]
  BY DEF TypeOK, Go

\* The exit blocks move one run, to a point where it moves no job.
LEMMA FinallyMoves ==
  ASSUME TypeOK, NEW r \in Runs, NEW outcome, NEW needsHuman, Finally(r, outcome, needsHuman)
  PROVE  pc'[r] \notin AtJob \cup {"list"} /\ \A x \in Runs \ {r} : pc'[x] = pc[x]
  BY DEF TypeOK, Finally, RestoreFrom, Go, AtJob, Transfer

\* The same of an error that ends the run.
LEMMA FailMoves ==
  ASSUME TypeOK, NEW r \in Runs, Fail(r)
  PROVE  pc'[r] \notin AtJob \cup {"list"} /\ \A x \in Runs \ {r} : pc'[x] = pc[x]
  BY FinallyMoves DEF Fail

\* The inner catch block returns one run to the loop.
LEMMA JobFailsMoves ==
  ASSUME TypeOK, NEW r \in Runs, NEW needsHuman, JobFails(r, needsHuman)
  PROVE  pc'[r] = "loop" /\ \A x \in Runs \ {r} : pc'[x] = pc[x]
  BY GoMoves DEF JobFails

\* The head of the job loop moves one run and the job it looks at.
LEMMA ProceedMoves ==
  ASSUME TypeOK, NEW r \in Runs, Proceed(r)
  PROVE  /\ pc'[r] \in {"loop", "sleep", "refresh"}
         /\ pc'[r] \in {"sleep", "refresh"} => cur'[r] \in todo[r]
         /\ \A x \in Runs \ {r} : pc'[x] = pc[x] /\ cur'[x] = cur[x]
         /\ \A x \in Runs : todo'[x] \subseteq todo[x]
  <1>1. pc \in [Runs -> Points] /\ cur \in [Runs -> Jobs] /\ todo \in [Runs -> SUBSET Jobs]
    BY DEF TypeOK
  <1>2. CASE LimitReached(r)
    BY <1>1, <1>2 DEF Proceed, Go
  <1>3. CASE ~LimitReached(r)
    <2>1. PICK j \in todo[r] : /\ cur' = [cur EXCEPT ![r] = j]
                               /\ todo' = [todo EXCEPT ![r] = @ \ {j}]
      BY <1>3 DEF Proceed
    <2>2. \E p \in {"sleep", "refresh"} : pc' = [pc EXCEPT ![r] = p]
      BY <1>3 DEF Proceed, Go
    <2>3. QED
      BY <1>1, <2>1, <2>2
  <1>4. QED
    BY <1>2, <1>3

\* Which queues hold which jobs.
SamePlaces ==
  \A q \in Queues : \A j \in Jobs : copy'[q][j] = "absent" <=> copy[q][j] = "absent"

\* What is in a source queue was added there: nothing is brought into it.
LEMMA AtHome ==
  ASSUME TypeOK, InPlace, NEW r \in Runs, NEW j \in Jobs, copy[Source[r]][j] # "absent"
  PROVE  Home[j] = Source[r]
  BY NoChains, RunsAssumption DEF InPlace, Arrives

\* So no job is in two of them.
LEMMA OneSourceEach == TypeOK /\ InPlace => OneSource
  BY AtHome DEF OneSource

\* Two jobs added to the source of a run that have the same id are the same job.
LEMMA SameId ==
  ASSUME NEW r \in Runs, NEW j \in Jobs, NEW k \in Jobs,
         Home[j] = Source[r], Home[k] = Source[r], Id[j] = Id[k]
  PROVE  j = k
  BY DistinctArrivals, RunsAssumption DEF Arrives

\* The parts of the invariant about where jobs are, for a step that brings no job anywhere
\* and after which run r looks at no job or at one it had listed.
LEMMA PlacesKept ==
  ASSUME TypeOK, SafeInv, NEW r \in Runs, SamePlaces, UNCHANGED born,
         pc'[r] \in AtJob => Home[cur'[r]] = Source[r],
         pc'[r] \notin {"add", "remove", "rollback"},
         \A x \in Runs \ {r} : pc'[x] = pc[x] /\ cur'[x] = cur[x] /\ stateIdx'[x] = stateIdx[x],
         pc'[r] = "list" => stateIdx'[r] # 0,
         \A x \in Runs : \A j \in todo'[x] : j \in todo[x] \/ Home[j] = Source[x]
  PROVE  InPlace' /\ Listed' /\ TargetFree' /\ OneSource' /\ NoJobLost'
  <1>1. \A x \in Runs : Source[x] \in Queues /\ Target[x] \in Queues /\ cur[x] \in Jobs
    BY RunsAssumption DEF TypeOK
  <1>2. InPlace'
    BY DEF SafeInv, InPlace, SamePlaces, Arrives
  <1>3. Listed'
    BY DEF SafeInv, Listed
  <1>4. TargetFree'
    BY <1>1 DEF SafeInv, TargetFree, SamePlaces
  <1>5. OneSource'
    BY <1>1 DEF SafeInv, OneSource, SamePlaces
  <1>6. NoJobLost'
    BY DEF SafeInv, NoJobLost, SamePlaces, TypeOK
  <1>7. QED
    BY <1>2, <1>3, <1>4, <1>5, <1>6

\* A step after which run r moves no job, and that changes no lease but a free one or r's,
\* preserves the invariant.
LEMMA StepOutside ==
  ASSUME TypeOK, SafeInv, NEW r \in Runs, SamePlaces, UNCHANGED born, pc'[r] \notin Transfer,
         pc'[r] \in AtJob => Home[cur'[r]] = Source[r],
         \A x \in Runs \ {r} : pc'[x] = pc[x] /\ cur'[x] = cur[x] /\ stateIdx'[x] = stateIdx[x],
         pc'[r] = "list" => stateIdx'[r] # 0,
         \A x \in Runs : \A j \in todo'[x] : j \in todo[x] \/ Home[j] = Source[x],
         \A q \in Queues : lease'[q] = lease[q] \/ lease[q] \in {NoRun, r}
  PROVE  SafeInv'
  <1>1. \A x \in Runs :
           Source[x] \in Queues /\ Target[x] \in Queues /\ cur[x] \in Jobs /\ x # NoRun
    BY RunsAssumption DEF TypeOK
  <1>2. LeaseHeld'
    BY <1>1 DEF SafeInv, LeaseHeld
  <1>3. SourceKeeps'
    BY <1>1 DEF SafeInv, SourceKeeps, SamePlaces, Transfer
  <1>4. TargetHas'
    BY <1>1 DEF SafeInv, TargetHas, SamePlaces, Transfer
  <1>5. InPlace' /\ Listed' /\ TargetFree' /\ OneSource' /\ NoJobLost'
    BY PlacesKept DEF Transfer
  <1>6. QED
    BY <1>2, <1>3, <1>4, <1>5 DEF SafeInv

\* A step that moves no run and no copy preserves the invariant.
LEMMA StepAside ==
  ASSUME TypeOK, SafeInv, SamePlaces, UNCHANGED <<pc, cur, lease, todo, stateIdx, born>>
  PROVE  SafeInv'
  <1>1. \A x \in Runs : Source[x] \in Queues /\ Target[x] \in Queues /\ cur[x] \in Jobs
    BY RunsAssumption DEF TypeOK
  <1>2. LeaseHeld' /\ SourceKeeps' /\ TargetHas'
    BY <1>1 DEF SafeInv, LeaseHeld, SourceKeeps, TargetHas, SamePlaces
  <1>3. OneSource' /\ NoJobLost'
    BY <1>1 DEF SafeInv, OneSource, NoJobLost, SamePlaces, TypeOK
  <1>4. InPlace' /\ Listed'
    BY DEF SafeInv, InPlace, Listed, SamePlaces, Arrives
  <1>5. TargetFree'
    BY <1>1 DEF SafeInv, TargetFree, SamePlaces
  <1>6. QED
    BY <1>2, <1>3, <1>4, <1>5 DEF SafeInv

\* The first two answers of migrateJob, and the refresh before them, move the run one
\* command further with the lease and the copies as they are.
LEMMA StepInto ==
  ASSUME TypeOK, SafeInv, NEW r \in Runs, UNCHANGED <<copy, lease, cur, todo, stateIdx, born>>,
         pc[r] \in AtJob, pc'[r] \in {"getSource", "getTarget", "add"},
         \A x \in Runs \ {r} : pc'[x] = pc[x],
         lease[Source[r]] = r,
         pc'[r] # "getSource" => copy[Source[r]][cur[r]] # "absent",
         pc'[r] = "add" => Held(Target[r], cur[r]) = {}
  PROVE  SafeInv'
  <1>1. LeaseHeld' /\ SourceKeeps' /\ TargetHas'
    BY DEF SafeInv, LeaseHeld, SourceKeeps, TargetHas
  <1>2. OneSource' /\ NoJobLost'
    BY DEF SafeInv, OneSource, NoJobLost
  <1>3. InPlace' /\ Listed'
    BY DEF SafeInv, InPlace, Listed, Arrives
  <1>4. TargetFree'
    BY DEF SafeInv, TargetFree, Held
  <1>5. QED
    BY <1>1, <1>2, <1>3, <1>4 DEF SafeInv

\* Two runs that move jobs out of the same queue are the same run.
LEMMA LeaseExcludes ==
  ASSUME SafeInv, NEW r1 \in Runs, NEW r2 \in Runs,
         pc[r1] \in Transfer, pc[r2] \in Transfer, Source[r1] = Source[r2]
  PROVE  r1 = r2
  BY DEF SafeInv, LeaseHeld

\* getJob finds the job that was listed, or none.
LEMMA GetSourceFinds ==
  ASSUME TypeOK, SafeInv, NEW r \in Runs, NEW o, GetSource(r, o)
  PROVE  /\ UNCHANGED cur
         /\ \/ Go(r, "getTarget") /\ copy[Source[r]][cur[r]] # "absent" /\ UNCHANGED resultVars
            \/ JobFails(r, FALSE)
  <1>1. pc[r] \in AtJob /\ cur \in [Runs -> Jobs] /\ cur[r] \in Jobs
    BY DEF GetSource, Answer, AtJob, Transfer, TypeOK
  <1>2. \A k \in Held(Source[r], cur[r]) : k = cur[r] /\ copy[Source[r]][k] # "absent"
    BY <1>1, AtHome, SameId DEF Held, SafeInv, Listed
  <1>3. CASE JobFails(r, FALSE) /\ UNCHANGED cur
    BY <1>3
  <1>4. CASE /\ \E j \in Held(Source[r], cur[r]) : cur' = [cur EXCEPT ![r] = j]
             /\ Go(r, "getTarget") /\ UNCHANGED <<resultVars, exitVars>>
    BY <1>1, <1>2, <1>4
  <1>5. QED
    BY <1>3, <1>4 DEF GetSource

\* What an add does when the queue holds no other job under the id.
LEMMA AddAlone ==
  ASSUME TypeOK, SafeInv, NEW r \in Runs, pc[r] = "add"
  PROVE  Held(Target[r], cur[r]) = {} <=> copy[Target[r]][cur[r]] = "absent"
  BY DEF SafeInv, TargetFree, Held, TypeOK

\* The removal of job j and of nothing else.
RemovedOnly(q, j, o) ==
  copy' = IF Applied(o) /\ copy[q][j] # "active" THEN [copy EXCEPT ![q][j] = "absent"] ELSE copy

\* What a removal does when the queue holds no other job under the id.
LEMMA RemovedAlone ==
  ASSUME TypeOK, NEW q \in Queues, NEW j \in Jobs, NEW o, Removed(q, j, o),
         \A k \in Jobs \ {j} : Id[k] = Id[j] => copy[q][k] = "absent"
  PROVE  RemovedOnly(q, j, o) /\ (Locked(q, j) <=> copy[q][j] = "active")
  <1>1. copy \in [Queues -> [Jobs -> Copies]]
    BY DEF TypeOK
  <1>2. Locked(q, j) <=> copy[q][j] = "active"
    BY DEF Locked, Held
  <1>3. [k \in Jobs |-> IF Id[k] = Id[j] THEN "absent" ELSE copy[q][k]]
          = [copy[q] EXCEPT ![j] = "absent"]
    BY <1>1
  <1>4. QED
    BY <1>1, <1>2, <1>3 DEF Removed, RemovedOnly

\* A run takes the job it moves out of its source, and no other one.
LEMMA RemoveAlone ==
  ASSUME TypeOK, SafeInv, NEW r \in Runs, NEW o, Remove(r, o)
  PROVE  /\ RemovedOnly(Source[r], cur[r], o)
         /\ Locked(Source[r], cur[r]) <=> copy[Source[r]][cur[r]] = "active"
  <1>1. pc[r] \in AtJob /\ cur[r] \in Jobs /\ Source[r] \in Queues
    BY RunsAssumption DEF Remove, Answer, AtJob, Transfer, TypeOK
  <1>2. \A k \in Jobs \ {cur[r]} : Id[k] = Id[cur[r]] => copy[Source[r]][k] = "absent"
    BY <1>1, AtHome, SameId DEF SafeInv, Listed
  <1>3. QED
    BY <1>1, <1>2, RemovedAlone DEF Remove

\* A rollback takes back the copy the run made, and no other one.
LEMMA RollbackAlone ==
  ASSUME TypeOK, SafeInv, NEW r \in Runs, NEW o, Rollback(r, o)
  PROVE  /\ RemovedOnly(Target[r], cur[r], o)
         /\ Locked(Target[r], cur[r]) <=> copy[Target[r]][cur[r]] = "active"
  <1>1. cur[r] \in Jobs /\ Target[r] \in Queues
    BY RunsAssumption DEF TypeOK
  <1>2. \A k \in Jobs \ {cur[r]} : Id[k] = Id[cur[r]] => copy[Target[r]][k] = "absent"
    BY DEF Rollback, Answer, SafeInv, TargetFree
  <1>3. QED
    BY <1>1, <1>2, RemovedAlone DEF Rollback

\* Every step preserves the invariant: one step per action, of which only the six commands
\* that move a job are more than a move outside the transfer.
LEMMA SafeNext == TypeOK /\ SafeInv /\ [Next]_vars => SafeInv'
  <1> SUFFICES ASSUME TypeOK, SafeInv, [Next]_vars PROVE SafeInv'
    OBVIOUS
  <1> USE DEF redisVars, setupVars, cursorVars, resultVars, exitVars, controlVars, runVars,
              AtJob
  <1>1. ASSUME NEW r \in Runs, Start(r)
       PROVE  SafeInv'
    BY <1>1, StepOutside, GoMoves DEF SamePlaces, Start, Transfer
  <1>2. ASSUME NEW r \in Runs, NEW o \in Outcomes, Acquire(r, o)
       PROVE  SafeInv'
    <2>1. pc'[r] \notin AtJob \cup {"list"} /\ \A x \in Runs \ {r} : pc'[x] = pc[x]
      BY <1>2, GoMoves DEF Acquire, Transfer
    <2>2. \A q \in Queues : lease'[q] = lease[q] \/ lease[q] = NoRun
      BY <1>2 DEF Acquire, TypeOK
    <2>3. QED
      BY <1>2, <2>1, <2>2, StepOutside DEF Acquire, SamePlaces
  <1>3. ASSUME NEW r \in Runs, NEW side \in Sides, NEW o \in Outcomes, ReadPaused(r, side, o)
       PROVE  SafeInv'
    <2>1. CASE o = "ok"
      BY <1>3, <2>1, StepAside DEF ReadPaused, SamePlaces
    <2>2. CASE o # "ok"
      BY <1>3, <2>2, StepOutside, FailMoves DEF ReadPaused, SamePlaces
    <2>3. QED
      BY <2>1, <2>2
  <1>4. ASSUME NEW r \in Runs, IssuePauses(r)
       PROVE  SafeInv'
    BY <1>4, StepOutside, GoMoves DEF SamePlaces, IssuePauses, Transfer
  <1>5. ASSUME NEW r \in Runs, NEW side \in Sides, PauseLands(r, side)
       PROVE  SafeInv'
    BY <1>5, StepAside DEF PauseLands, SamePlaces
  <1>6. ASSUME NEW r \in Runs, NEW side \in Sides, NEW o \in Outcomes, PauseRejected(r, side, o)
       PROVE  SafeInv'
    BY <1>6, StepOutside, FailMoves DEF SamePlaces, PauseRejected
  <1>7. ASSUME NEW r \in Runs, BothPaused(r)
       PROVE  SafeInv'
    BY <1>7, StepOutside, GoMoves DEF SamePlaces, BothPaused, Transfer
  <1>8. ASSUME NEW r \in Runs, NEW o \in Outcomes, CountActive(r, o)
       PROVE  SafeInv'
    <2>1. pc'[r] \notin AtJob \cup {"list"} /\ \A x \in Runs \ {r} : pc'[x] = pc[x]
      BY <1>8, GoMoves, FailMoves DEF CountActive, Transfer
    <2>2. QED
      BY <1>8, <2>1, StepOutside DEF CountActive, SamePlaces
  <1>9. ASSUME NEW r \in Runs, NEW o \in Outcomes, UndoTarget(r, o)
       PROVE  SafeInv'
    <2>1. pc'[r] \notin AtJob \cup {"list"} /\ \A x \in Runs \ {r} : pc'[x] = pc[x]
      BY <1>9, GoMoves, FailMoves DEF UndoTarget, Transfer
    <2>2. QED
      BY <1>9, <2>1, StepOutside DEF UndoTarget, ResumeSide, SamePlaces
  <1>10. ASSUME NEW r \in Runs, NEW o \in Outcomes, UndoSource(r, o)
       PROVE  SafeInv'
    BY <1>10, StepOutside, FailMoves DEF SamePlaces, UndoSource, ResumeSide
  <1>11. ASSUME NEW r \in Runs, Finish(r)
       PROVE  SafeInv'
    BY <1>11, StepOutside, FinallyMoves DEF SamePlaces, Finish
  <1>12. ASSUME NEW r \in Runs, CancelSeen(r)
       PROVE  SafeInv'
    BY <1>12, StepOutside, FinallyMoves DEF SamePlaces, CancelSeen
  <1>13. ASSUME NEW r \in Runs, NextState(r)
       PROVE  SafeInv'
    <2>1. stateIdx'[r] # 0 /\ \A x \in Runs \ {r} : stateIdx'[x] = stateIdx[x]
      BY <1>13, ParamsAssumption DEF NextState, TypeOK
    <2>2. QED
      BY <1>13, <2>1, StepOutside, GoMoves DEF SamePlaces, NextState, Transfer
  <1>14. ASSUME NEW r \in Runs, NEW o \in Outcomes, ListJobs(r, o)
       PROVE  SafeInv'
    <2>1. pc'[r] \notin AtJob \cup {"list"} /\ \A x \in Runs \ {r} : pc'[x] = pc[x]
      BY <1>14, GoMoves, FailMoves DEF ListJobs, Transfer
    <2>2. \A x \in Runs : \A j \in todo'[x] : j \in todo[x] \/ Home[j] = Source[x]
      <3>1. CASE UNCHANGED todo
        BY <3>1
      <3>2. CASE o = "ok"
        <4>1. PICK page \in SUBSET {j \in Jobs : copy[Source[r]][j] = States[stateIdx[r]]} :
                 todo' = [todo EXCEPT ![r] = page \cap Matching]
          BY <1>14, <3>2 DEF ListJobs
        <4>2. \A j \in page : j \in Jobs /\ copy[Source[r]][j] # "absent"
          <5>1. pc[r] = "list" /\ SafeInv
            BY <1>14 DEF ListJobs, Answer
          <5>2. stateIdx[r] \in 1..Len(States)
            BY <5>1, ParamsAssumption DEF SafeInv, Listed, TypeOK
          <5>3. QED
            BY <4>1, <5>2, ParamsAssumption DEF Listable
        <4>3. \A j \in page : Home[j] = Source[r]
          BY <4>2, AtHome DEF SafeInv
        <4>4. QED
          BY <4>1, <4>3 DEF TypeOK
      <3>3. QED
        BY <1>14, <3>1, <3>2 DEF ListJobs
    <2>3. QED
      BY <1>14, <2>1, <2>2, StepOutside DEF ListJobs, SamePlaces
  <1>15. ASSUME NEW r \in Runs, Park(r)
       PROVE  SafeInv'
    BY <1>15, StepOutside, GoMoves DEF SamePlaces, Park, Transfer
  <1>16. ASSUME NEW r \in Runs, NextJob(r)
       PROVE  SafeInv'
    BY <1>16, StepOutside, ProceedMoves DEF SamePlaces, NextJob, SafeInv, Listed, Transfer
  <1>17. ASSUME NEW r \in Runs, SleepOver(r)
       PROVE  SafeInv'
    BY <1>17, StepOutside, GoMoves DEF SamePlaces, SleepOver, Transfer, SafeInv, Listed
  <1>18. ASSUME NEW r \in Runs, NEW o \in Outcomes, Refresh(r, o)
       PROVE  SafeInv'
    <2>1. CASE o = "ok" /\ lease[Source[r]] = r
      BY <1>18, <2>1, StepInto, GoMoves DEF Refresh, Answer, Transfer
    <2>2. CASE ~(o = "ok" /\ lease[Source[r]] = r)
      <3>1. pc'[r] \notin AtJob \cup {"list"} /\ \A x \in Runs \ {r} : pc'[x] = pc[x]
        BY <1>18, <2>2, JobFailsMoves, FinallyMoves DEF Refresh, Transfer
      <3>2. QED
        BY <1>18, <3>1, StepOutside DEF Refresh, SamePlaces
    <2>3. QED
      BY <2>1, <2>2
  <1>19. ASSUME NEW r \in Runs, NEW o \in Outcomes, GetSource(r, o)
       PROVE  SafeInv'
    <2>1. pc[r] \in Transfer /\ lease[Source[r]] = r
      BY <1>19 DEF GetSource, Answer, Transfer, SafeInv, LeaseHeld
    <2>2. UNCHANGED <<copy, lease, todo, stateIdx, born, cur>>
      BY <1>19, GetSourceFinds DEF GetSource
    <2>3. CASE Go(r, "getTarget") /\ copy[Source[r]][cur[r]] # "absent"
      BY <2>1, <2>2, <2>3, StepInto, GoMoves
    <2>4. CASE JobFails(r, FALSE)
      BY <2>2, <2>4, StepOutside, JobFailsMoves DEF SamePlaces, Transfer
    <2>5. QED
      BY <1>19, <2>3, <2>4, GetSourceFinds
  <1>20. ASSUME NEW r \in Runs, NEW o \in Outcomes, GetTarget(r, o)
       PROVE  SafeInv'
    <2>1. pc[r] \in Transfer /\ lease[Source[r]] = r
      BY <1>20 DEF GetTarget, Answer, Transfer, SafeInv, LeaseHeld
    <2>2. CASE o = "ok" /\ Held(Target[r], cur[r]) = {}
      BY <1>20, <2>1, <2>2, StepInto, GoMoves DEF GetTarget, JobStep, Answer, SafeInv, SourceKeeps
    <2>3. CASE ~(o = "ok" /\ Held(Target[r], cur[r]) = {})
      BY <1>20, <2>3, StepOutside, JobFailsMoves DEF GetTarget, JobStep, SamePlaces, Transfer
    <2>4. QED
      BY <2>2, <2>3
  <1>21. ASSUME NEW r \in Runs, NEW o \in Outcomes, Add(r, o)
       PROVE  SafeInv'
    <2>1. /\ pc[r] = "add" /\ lease[Source[r]] = r
          /\ copy[Source[r]][cur[r]] # "absent"
      BY <1>21 DEF Add, Answer, Transfer, SafeInv, LeaseHeld, SourceKeeps
    <2>2. /\ Source[r] \in Queues /\ Target[r] \in Queues /\ cur[r] \in Jobs
          /\ \A x \in Runs : Source[x] \in Queues /\ Target[x] \in Queues /\ cur[x] \in Jobs
          /\ copy \in [Queues -> [Jobs -> Copies]]
      BY RunsAssumption DEF TypeOK
    <2>3. \A q \in Queues : \A j \in Jobs :
             /\ copy[q][j] # "absent" => copy'[q][j] # "absent"
             /\ ~(q = Target[r] /\ j = cur[r]) => copy'[q][j] = copy[q][j]
      BY <1>21, <2>1, <2>2, AddAlone DEF Add
    <2>4. o = "ok" => copy'[Target[r]][cur[r]] # "absent"
      BY <1>21, <2>1, <2>2, AddAlone DEF Add, Applied
    <2>5. pc'[r] \in {"remove", "loop"} /\ \A x \in Runs \ {r} : pc'[x] = pc[x]
      BY <1>21, GoMoves, JobFailsMoves DEF Add, JobStep
    <2>6. (pc'[r] = "remove" => o = "ok") /\ UNCHANGED <<lease, cur, todo, stateIdx, born>>
      BY <1>21, JobFailsMoves DEF Add, JobStep, cursorVars
    <2>7. LeaseHeld'
      BY <2>1, <2>5, <2>6 DEF SafeInv, LeaseHeld
    <2>8. SourceKeeps'
      BY <2>1, <2>2, <2>3, <2>5, <2>6 DEF SafeInv, SourceKeeps
    <2>9. TargetHas'
      BY <2>2, <2>3, <2>4, <2>5, <2>6 DEF SafeInv, TargetHas
    <2>10. OneSource'
      BY <2>2, <2>3, NoChains DEF SafeInv, OneSource
    <2>11. NoJobLost'
      BY <2>3, <2>6 DEF SafeInv, NoJobLost, TypeOK
    <2>12. \A x \in Runs : pc[x] \in Transfer => Home[cur[x]] = Source[x]
      BY DEF SafeInv, Listed
    <2>13. Arrives(cur[r], Target[r]) /\ cur[r] \in born
      BY <2>1, <2>2, <2>12 DEF Arrives, SafeInv, InPlace, Transfer
    <2>14. InPlace'
      BY <2>3, <2>6, <2>13 DEF SafeInv, InPlace, Arrives
    <2>15. Listed'
      BY <2>1, <2>5, <2>6 DEF SafeInv, Listed, Transfer
    <2>16. TargetFree'
      <3>1. ASSUME NEW x \in Runs, pc'[x] \in {"add", "remove", "rollback"},
                   NEW j \in Jobs \ {cur[x]}, Id[j] = Id[cur[x]]
            PROVE  copy'[Target[x]][j] = "absent"
        <4>1. pc[x] \in {"add", "remove", "rollback"}
          BY <2>1, <2>5, <3>1
        <4>2. copy[Target[x]][j] = "absent"
          BY <3>1, <4>1 DEF SafeInv, TargetFree
        <4>3. ~(Target[x] = Target[r] /\ j = cur[r])
          <5>1. Arrives(cur[x], Target[x])
            BY <2>12, <4>1 DEF Arrives, Transfer
          <5>2. QED
            BY <2>2, <2>13, <3>1, <5>1, DistinctArrivals
        <4>4. QED
          BY <2>2, <2>3, <4>2, <4>3
      <3>2. QED
        BY <2>6, <3>1 DEF TargetFree
    <2>17. QED
      BY <2>7, <2>8, <2>9, <2>10, <2>11, <2>14, <2>15, <2>16 DEF SafeInv
  <1>22. ASSUME NEW r \in Runs, NEW o \in Outcomes, Remove(r, o)
       PROVE  SafeInv'
    <2>1. /\ pc[r] = "remove" /\ pc[r] \in Transfer /\ lease[Source[r]] = r
          /\ copy[Source[r]][cur[r]] # "absent" /\ copy[Target[r]][cur[r]] # "absent"
      BY <1>22 DEF Remove, Answer, Transfer, SafeInv, LeaseHeld, SourceKeeps, TargetHas
    <2>2. /\ cur[r] \in Jobs /\ copy \in [Queues -> [Jobs -> Copies]]
          /\ \A x \in Runs : Source[x] \in Queues /\ Target[x] \in Queues /\ cur[x] \in Jobs
          /\ Source[r] # Target[r]
      BY RunsAssumption DEF TypeOK
    <2>3. \A q \in Queues : \A j \in Jobs :
             ~(q = Source[r] /\ j = cur[r]) => copy'[q][j] = copy[q][j]
      <3>1. RemovedOnly(Source[r], cur[r], o)
        BY <1>22, RemoveAlone
      <3>2. QED
        BY <2>2, <3>1 DEF RemovedOnly
    <2>4. \/ pc'[r] = "loop"
          \/ pc'[r] = "rollback" /\ copy' = copy
      <3>1. o \in {"ok", "rejected"}
        BY <1>22, HonestRemoval DEF Remove, Answer, Outcomes
      <3>2. CASE o = "ok" /\ ~Locked(Source[r], cur[r])
        BY <1>22, <3>2, GoMoves DEF Remove
      <3>3. CASE ~(o = "ok" /\ ~Locked(Source[r], cur[r]))
        BY <1>22, <3>1, <3>3, GoMoves DEF Remove, Removed, Applied
      <3>4. QED
        BY <3>2, <3>3
    <2>5. (\A x \in Runs \ {r} : pc'[x] = pc[x]) /\ UNCHANGED <<lease, cur, todo, stateIdx, born>>
      BY <1>22, GoMoves DEF Remove
    <2>6. LeaseHeld'
      BY <2>1, <2>4, <2>5 DEF SafeInv, LeaseHeld, Transfer
    <2>7. SourceKeeps'
      <3>1. ASSUME NEW x \in Runs, pc'[x] \in {"getTarget", "add", "remove", "rollback"}
            PROVE  copy'[Source[x]][cur[x]] # "absent"
        <4>1. CASE x = r
          BY <2>1, <2>4, <3>1, <4>1
        <4>2. CASE x # r
          <5>1. pc[x] = pc'[x] /\ pc[x] \in Transfer
            BY <2>5, <3>1, <4>2 DEF Transfer
          <5>2. Source[x] # Source[r]
            BY <2>1, <4>2, <5>1, LeaseExcludes
          <5>3. QED
            BY <2>2, <2>3, <3>1, <5>1, <5>2 DEF SafeInv, SourceKeeps
        <4>3. QED
          BY <4>1, <4>2
      <3>2. QED
        BY <2>5, <3>1 DEF SourceKeeps
    <2>8. TargetHas'
      BY <2>2, <2>3, <2>4, <2>5, NoChains DEF SafeInv, TargetHas
    <2>9. OneSource'
      BY <2>1, <2>2, <2>3 DEF SafeInv, OneSource
    <2>10. NoJobLost'
      <3>1. born' \subseteq Jobs /\ NoJobLost
        BY <2>5 DEF TypeOK, SafeInv
      <3>2. copy'[Target[r]][cur[r]] # "absent"
        BY <2>1, <2>2, <2>3
      <3>3. QED
        BY <2>2, <2>3, <2>5, <3>1, <3>2 DEF NoJobLost
    <2>11. \A q \in Queues : \A j \in Jobs : copy[q][j] = "absent" => copy'[q][j] = "absent"
      BY <2>1, <2>2, <2>3
    <2>12. InPlace' /\ Listed'
      BY <2>1, <2>4, <2>5, <2>11 DEF SafeInv, InPlace, Listed, Arrives, Transfer
    <2>13. TargetFree'
      BY <2>1, <2>2, <2>4, <2>5, <2>11 DEF SafeInv, TargetFree
    <2>14. QED
      BY <2>6, <2>7, <2>8, <2>9, <2>10, <2>12, <2>13 DEF SafeInv
  <1>23. ASSUME NEW r \in Runs, NEW o \in Outcomes, Rollback(r, o)
       PROVE  SafeInv'
    <2>1. /\ pc[r] \in Transfer /\ lease[Source[r]] = r
          /\ copy[Source[r]][cur[r]] # "absent"
      BY <1>23 DEF Rollback, Answer, Transfer, SafeInv, LeaseHeld, SourceKeeps
    <2>2. /\ cur[r] \in Jobs /\ copy \in [Queues -> [Jobs -> Copies]]
          /\ \A x \in Runs : Source[x] \in Queues /\ Target[x] \in Queues /\ cur[x] \in Jobs
          /\ Source[r] # Target[r]
      BY RunsAssumption DEF TypeOK
    <2>3. \A q \in Queues : \A j \in Jobs :
             /\ ~(q = Target[r] /\ j = cur[r]) => copy'[q][j] = copy[q][j]
             /\ copy[q][j] = "absent" => copy'[q][j] = "absent"
      <3>1. RemovedOnly(Target[r], cur[r], o)
        BY <1>23, RollbackAlone
      <3>2. QED
        BY <2>2, <3>1 DEF RemovedOnly
    <2>4. /\ pc'[r] = "loop" /\ \A x \in Runs \ {r} : pc'[x] = pc[x]
          /\ UNCHANGED <<lease, cur, todo, stateIdx, born>>
      BY <1>23, JobFailsMoves DEF Rollback
    <2>5. LeaseHeld'
      BY <2>4 DEF SafeInv, LeaseHeld, Transfer
    <2>6. SourceKeeps'
      BY <2>2, <2>3, <2>4, NoChains DEF SafeInv, SourceKeeps
    <2>7. TargetHas'
      <3>1. ASSUME NEW x \in Runs, pc'[x] = "remove"
            PROVE  copy'[Target[x]][cur[x]] # "absent"
        <4>1. x # r /\ pc[x] = "remove" /\ pc[x] \in Transfer
          BY <2>4, <3>1 DEF Transfer
        <4>2. copy[Source[x]][cur[x]] # "absent" /\ copy[Target[x]][cur[x]] # "absent"
          BY <4>1 DEF SafeInv, SourceKeeps, TargetHas
        <4>3. Source[x] # Source[r]
          BY <2>1, <4>1, LeaseExcludes
        <4>4. cur[x] # cur[r]
          BY <2>1, <2>2, <4>2, <4>3 DEF SafeInv, OneSource
        <4>5. QED
          BY <2>2, <2>3, <4>2, <4>4
      <3>2. QED
        BY <2>4, <3>1 DEF TargetHas
    <2>8. OneSource'
      BY <2>2, <2>3, NoChains DEF SafeInv, OneSource
    <2>9. NoJobLost'
      <3>1. born' \subseteq Jobs /\ NoJobLost
        BY <2>4 DEF TypeOK, SafeInv
      <3>2. copy'[Source[r]][cur[r]] # "absent"
        BY <2>1, <2>2, <2>3
      <3>3. QED
        BY <2>2, <2>3, <2>4, <3>1, <3>2 DEF NoJobLost
    <2>10. \A q \in Queues : \A j \in Jobs : copy[q][j] = "absent" => copy'[q][j] = "absent"
      BY <2>3
    <2>11. InPlace' /\ Listed'
      BY <2>4, <2>10 DEF SafeInv, InPlace, Listed, Arrives, Transfer
    <2>12. TargetFree'
      BY <2>2, <2>4, <2>10 DEF SafeInv, TargetFree
    <2>13. QED
      BY <2>5, <2>6, <2>7, <2>8, <2>9, <2>11, <2>12 DEF SafeInv
  <1>24. ASSUME NEW r \in Runs, NEW o \in Outcomes, RestoreTarget(r, o)
       PROVE  SafeInv'
    <2>1. pc'[r] \notin AtJob \cup {"list"} /\ \A x \in Runs \ {r} : pc'[x] = pc[x]
      BY <1>24, GoMoves DEF RestoreTarget, Escape, RestoreFrom, Transfer
    <2>2. QED
      BY <1>24, <2>1, StepOutside DEF RestoreTarget, ResumeSide, SamePlaces
  <1>25. ASSUME NEW r \in Runs, NEW o \in Outcomes, RestoreSource(r, o)
       PROVE  SafeInv'
    <2>1. pc'[r] \notin AtJob \cup {"list"} /\ \A x \in Runs \ {r} : pc'[x] = pc[x]
      BY <1>25, GoMoves DEF RestoreSource, Escape, Transfer
    <2>2. QED
      BY <1>25, <2>1, StepOutside DEF RestoreSource, ResumeSide, SamePlaces
  <1>26. ASSUME NEW r \in Runs, NEW o \in Outcomes, Release(r, o)
       PROVE  SafeInv'
    <2>1. pc'[r] \notin AtJob \cup {"list"} /\ \A x \in Runs \ {r} : pc'[x] = pc[x]
      BY <1>26, GoMoves DEF Release, Escape, Transfer
    <2>2. \A q \in Queues : lease'[q] = lease[q] \/ lease[q] = r
      BY <1>26 DEF Release, TypeOK
    <2>3. QED
      BY <1>26, <2>1, <2>2, StepOutside DEF Release, SamePlaces
  <1>27. ASSUME NEW r \in Runs, Abort(r)
       PROVE  SafeInv'
    <2>1. CASE pc[r] \in {"parked", "sleep"}
      BY <1>27, <2>1, StepOutside, FinallyMoves DEF Abort, SamePlaces
    <2>2. CASE pc[r] \notin {"parked", "sleep"}
      BY <1>27, <2>2, StepAside DEF Abort, SamePlaces
    <2>3. QED
      BY <2>1, <2>2
  <1>28. ASSUME NEW r \in Runs, Pause(r)
       PROVE  SafeInv'
    BY <1>28, StepAside DEF Pause, SamePlaces
  <1>29. ASSUME NEW r \in Runs, Resume(r)
       PROVE  SafeInv'
    <2>1. CASE pc[r] = "parked"
      BY <1>29, <2>1, StepOutside, ProceedMoves DEF Resume, SamePlaces, SafeInv, Listed,
         Transfer
    <2>2. CASE pc[r] # "parked"
      BY <1>29, <2>2, StepAside DEF Resume, SamePlaces
    <2>3. QED
      BY <2>1, <2>2
  <1>30. ASSUME NEW r \in Runs, Crash(r)
       PROVE  SafeInv'
    BY <1>30, StepOutside, GoMoves DEF SamePlaces, Crash, Transfer
  <1>31. ASSUME NEW q \in Queues, LeaseExpires(q)
       PROVE  SafeInv'
    <2>1. lease[q] \in Runs /\ pc[lease[q]] \notin Transfer
      BY <1>31, PromptTransfers DEF LeaseExpires, TypeOK, Transfer
    <2>2. \A p \in Queues : lease'[p] = lease[p] \/ lease[p] = lease[q]
      BY <1>31 DEF LeaseExpires, TypeOK
    <2>3. QED
      BY <1>31, <2>1, <2>2, StepOutside DEF LeaseExpires, SamePlaces, SafeInv, Listed
  <1>32. ASSUME NEW q \in Queues, OperatorToggles(q)
       PROVE  SafeInv'
    BY <1>32, StepAside DEF OperatorToggles, SamePlaces
  <1>33. ASSUME NEW q \in Queues, NEW j \in Jobs, Promote(q, j)
       PROVE  SafeInv'
    <2>1. SamePlaces
      BY <1>33 DEF Promote, SamePlaces, TypeOK
    <2>2. QED
      BY <1>33, <2>1, StepAside DEF Promote
  <1>34. ASSUME NEW q \in Queues, NEW j \in Jobs, Fetch(q, j)
       PROVE  SafeInv'
    <2>1. SamePlaces
      BY <1>34 DEF Fetch, SamePlaces, TypeOK
    <2>2. QED
      BY <1>34, <2>1, StepAside DEF Fetch
  <1>35. ASSUME NEW q \in Queues, NEW j \in Jobs, Complete(q, j)
       PROVE  SafeInv'
    <2>1. SamePlaces
      BY <1>35 DEF Complete, SamePlaces, TypeOK
    <2>2. QED
      BY <1>35, <2>1, StepAside DEF Complete
  <1>36. CASE UNCHANGED vars
    BY <1>36, StepAside DEF vars, SamePlaces
  <1>37. ASSUME NEW p \in Queues, NEW k \in Jobs, Produce(p, k)
       PROVE  SafeInv'
    <2>1. /\ k \notin born /\ born' = born \cup {k} /\ UNCHANGED <<pc, lease, cur, todo, stateIdx>>
          /\ \E added \in {"waiting", "delayed"} : copy' = [copy EXCEPT ![Home[k]][k] = added]
      BY <1>37 DEF Produce
    <2>2. /\ copy \in [Queues -> [Jobs -> Copies]] /\ Home[k] \in Queues /\ born \subseteq Jobs
          /\ \A x \in Runs : Source[x] \in Queues /\ Target[x] \in Queues /\ cur[x] \in Jobs
      BY RunsAssumption, JobsAssumption DEF TypeOK
    <2>3. /\ copy'[Home[k]][k] # "absent"
          /\ \A q \in Queues : \A j \in Jobs :
               ~(q = Home[k] /\ j = k) => copy'[q][j] = copy[q][j]
      BY <2>1, <2>2
    <2>4. \A q \in Queues : \A j \in Jobs : copy[q][j] # "absent" => copy'[q][j] # "absent"
      BY <2>3
    <2>5. LeaseHeld' /\ SourceKeeps' /\ TargetHas'
      BY <2>1, <2>2, <2>4 DEF SafeInv, LeaseHeld, SourceKeeps, TargetHas
    <2>6. InPlace'
      BY <2>1, <2>3 DEF SafeInv, InPlace, Arrives
    <2>7. OneSource'
      BY <2>2, <2>6, NoChains, RunsAssumption DEF InPlace, Arrives, OneSource
    <2>8. Listed'
      BY <2>1 DEF SafeInv, Listed
    <2>9. TargetFree'
      <3>1. ASSUME NEW x \in Runs, pc[x] \in {"add", "remove", "rollback"},
                   NEW j \in Jobs \ {cur[x]}, Id[j] = Id[cur[x]]
            PROVE  copy'[Target[x]][j] = "absent"
        <4>1. copy[Target[x]][j] = "absent"
          BY <3>1 DEF SafeInv, TargetFree
        <4>2. ~(Target[x] = Home[k] /\ j = k)
          <5>1. Arrives(cur[x], Target[x])
            BY <3>1 DEF SafeInv, Listed, Arrives, Transfer
          <5>2. Arrives(k, Home[k])
            BY <2>1 DEF SafeInv, InPlace, Arrives
          <5>3. QED
            BY <2>2, <3>1, <5>1, <5>2, DistinctArrivals
        <4>3. QED
          BY <2>2, <2>3, <4>1, <4>2
      <3>2. QED
        BY <2>1, <3>1 DEF TargetFree
    <2>10. NoJobLost'
      BY <2>1, <2>2, <2>3, <2>4 DEF SafeInv, NoJobLost
    <2>11. QED
      BY <2>5, <2>6, <2>7, <2>8, <2>9, <2>10 DEF SafeInv
  <1>38. QED
    BY <1>1, <1>2, <1>3, <1>4, <1>5, <1>6, <1>7, <1>8, <1>9, <1>10, <1>11, <1>12,
       <1>13, <1>14, <1>15, <1>16, <1>17, <1>18, <1>19, <1>20, <1>21, <1>22, <1>23,
       <1>24, <1>25, <1>26, <1>27, <1>28, <1>29, <1>30, <1>31, <1>32, <1>33, <1>34,
       <1>35, <1>36, <1>37
       DEF Next, RunStep, Setup, Loop, MoveJob, Exit, Control, Cancel, Destroy, Queue

\* To begin with no run moves a job and every job is in one queue, or is still to be added.
LEMMA SafeInit == Init => SafeInv
  <1> SUFFICES ASSUME Init PROVE SafeInv
    OBVIOUS
  <1>1. LeaseHeld /\ SourceKeeps /\ TargetHas
    BY DEF Init, LeaseHeld, SourceKeeps, TargetHas, Transfer
  <1>2. \A q \in Queues : \A j \in Jobs :
           copy[q][j] = IF q = Home[j] THEN First[j] ELSE "absent"
    BY DEF Init
  <1>3. OneSource
    BY <1>2, RunsAssumption DEF OneSource
  <1>4. NoJobLost
    BY <1>2, JobsAssumption DEF Init, NoJobLost
  <1>5. InPlace
    BY <1>2 DEF Init, InPlace
  <1>6. Listed /\ TargetFree
    BY DEF Init, Listed, TargetFree, AtJob, Transfer
  <1>7. QED
    BY <1>1, <1>3, <1>4, <1>5, <1>6 DEF SafeInv

\* The invariant holds of any number of runs over any queues and jobs.
THEOREM SafeAlways == Spec => []SafeInv
  BY TypeCorrect, SafeInit, SafeNext, PTL DEF Spec

\* Whatever fails, crashes, is cancelled or expires between two jobs, migrations lose no
\* job, provided that a failed removal removed nothing, that a job is moved within the
\* lease, that no queue is both the source of a run and the target of another, and that
\* no two jobs that come into a queue have the same id.
THEOREM JobsNeverLost == Spec => []NoJobLost
  BY SafeAlways, PTL DEF SafeInv

\* The lease admits one run at a time to the transfer of jobs out of a source queue.
THEOREM OneMover == Spec => []OneMoverPerSource
  <1>1. SafeInv => OneMoverPerSource
    BY LeaseExcludes DEF OneMoverPerSource
  <1>2. QED
    BY <1>1, SafeAlways, PTL
==============================================================================
