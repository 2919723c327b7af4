----------------------------- MODULE HandoffProofs -----------------------------
(***************************************************************************)
(* The proof that migrations implement JobHandoff, and that a job which    *)
(* exists twice is in paused queues.  It builds on the invariants of the   *)
(* two modules before it: SafeInv says where a job in transfer is, MoveInv *)
(* that the queues of a run are its own while it is under way.  What is    *)
(* added here is why nobody resumes the queues of a job that was left in   *)
(* both of them, by the run that left it or by a later one.  Last comes    *)
(* the proof that the report of a run is true of the queues.               *)
(***************************************************************************)
EXTENDS MigrationRunProofs

\* Two runs go from the same source to the same target, or have nothing in common.
OwnPairs == \A r, x \in Runs :
  \/ Source[r] = Source[x] /\ Target[r] = Target[x]
  \/ Disjoint(r, x)

\* A step of a run that changes copies, or counts a job as migrated, is one of the last
\* three commands of migrateJob; none of its steps hands a job to a worker.
LEMMA CopySteps ==
  ASSUME NEW r \in Runs, RunAction(r)
  PROVE  /\ UNCHANGED <<ranIn, born>>
         /\ \/ UNCHANGED <<copy, moved>>
            \/ \E o \in Outcomes : Add(r, o) \/ Remove(r, o) \/ Rollback(r, o)
  <1> USE DEF redisVars, setupVars, cursorVars, resultVars, exitVars, controlVars, runVars
  <1> DEFINE P == /\ UNCHANGED <<ranIn, born>>
                  /\ \/ UNCHANGED <<copy, moved>>
                     \/ \E o \in Outcomes : Add(r, o) \/ Remove(r, o) \/ Rollback(r, o)
  <1>1. ASSUME Start(r) PROVE P
    BY <1>1 DEF Start
  <1>2. ASSUME NEW o \in Outcomes, Acquire(r, o) PROVE P
    BY <1>2 DEF Acquire
  <1>3. ASSUME NEW side \in Sides, NEW o \in Outcomes, ReadPaused(r, side, o) PROVE P
    BY <1>3 DEF ReadPaused
  <1>4. ASSUME IssuePauses(r) PROVE P
    BY <1>4 DEF IssuePauses
  <1>5. ASSUME NEW side \in Sides, PauseLands(r, side) PROVE P
    BY <1>5 DEF PauseLands
  <1>6. ASSUME NEW side \in Sides, NEW o \in Outcomes, PauseRejected(r, side, o) PROVE P
    BY <1>6 DEF PauseRejected
  <1>7. ASSUME BothPaused(r) PROVE P
    BY <1>7 DEF BothPaused
  <1>8. ASSUME NEW o \in Outcomes, CountActive(r, o) PROVE P
    BY <1>8 DEF CountActive
  <1>9. ASSUME NEW o \in Outcomes, UndoTarget(r, o) PROVE P
    BY <1>9 DEF UndoTarget, ResumeSide
  <1>10. ASSUME NEW o \in Outcomes, UndoSource(r, o) PROVE P
    BY <1>10 DEF UndoSource, ResumeSide
  <1>11. ASSUME Finish(r) PROVE P
    BY <1>11 DEF Finish
  <1>12. ASSUME CancelSeen(r) PROVE P
    BY <1>12 DEF CancelSeen
  <1>13. ASSUME NextState(r) PROVE P
    BY <1>13 DEF NextState
  <1>14. ASSUME NEW o \in Outcomes, ListJobs(r, o) PROVE P
    BY <1>14 DEF ListJobs
  <1>15. ASSUME Park(r) PROVE P
    BY <1>15 DEF Park
  <1>16. ASSUME NextJob(r) PROVE P
    BY <1>16 DEF NextJob
  <1>17. ASSUME SleepOver(r) PROVE P
    BY <1>17 DEF SleepOver
  <1>18. ASSUME NEW o \in Outcomes, Refresh(r, o) PROVE P
    BY <1>18 DEF Refresh, JobFails
  <1>19. ASSUME NEW o \in Outcomes, GetSource(r, o) PROVE P
    BY <1>19 DEF GetSource, JobStep, JobFails
  <1>20. ASSUME NEW o \in Outcomes, GetTarget(r, o) PROVE P
    BY <1>20 DEF GetTarget, JobStep, JobFails
  <1>21. ASSUME NEW o \in Outcomes, Add(r, o) PROVE P
    BY <1>21 DEF Add, JobStep, JobFails
  <1>22. ASSUME NEW o \in Outcomes, Remove(r, o) PROVE P
    BY <1>22 DEF Remove
  <1>23. ASSUME NEW o \in Outcomes, Rollback(r, o) PROVE P
    BY <1>23 DEF Rollback
  <1>24. ASSUME NEW o \in Outcomes, RestoreTarget(r, o) PROVE P
    BY <1>24 DEF RestoreTarget, ResumeSide, Escape
  <1>25. ASSUME NEW o \in Outcomes, RestoreSource(r, o) PROVE P
    BY <1>25 DEF RestoreSource, ResumeSide, Escape
  <1>26. ASSUME NEW o \in Outcomes, Release(r, o) PROVE P
    BY <1>26 DEF Release, Escape
  <1>27. ASSUME Cancel(r) PROVE P
    BY <1>27 DEF Cancel, Abort
  <1>28. ASSUME Destroy(r) PROVE P
    BY <1>28 DEF Destroy, Abort
  <1>29. ASSUME Pause(r) PROVE P
    BY <1>29 DEF Pause
  <1>30. ASSUME Resume(r) PROVE P
    BY <1>30 DEF Resume
  <1>31. ASSUME Crash(r) PROVE P
    BY <1>31 DEF Crash
  <1>32. QED
    BY <1>1, <1>2, <1>3, <1>4, <1>5, <1>6, <1>7, <1>8, <1>9, <1>10, <1>11, <1>12, <1>13, <1>14,
       <1>15, <1>16, <1>17, <1>18, <1>19, <1>20, <1>21, <1>22, <1>23, <1>24, <1>25, <1>26,
       <1>27, <1>28, <1>29, <1>30, <1>31
       DEF RunAction, RunStep, Setup, Loop, MoveJob, Exit, Control

\* A step of one run leaves the lists of the others as they are.
LEMMA OtherLists ==
  ASSUME TypeOK, SafeInv, NEW r \in Runs, RunAction(r)
  PROVE  \A x \in Runs \ {r} : /\ todo'[x] = todo[x] /\ cur'[x] = cur[x]
                               /\ stateIdx'[x] = stateIdx[x] /\ errors'[x] = errors[x]
  <1> USE DEF redisVars, setupVars, cursorVars, resultVars, exitVars, controlVars, runVars
  <1> DEFINE P == \A x \in Runs \ {r} :
                    /\ todo'[x] = todo[x] /\ cur'[x] = cur[x]
                    /\ stateIdx'[x] = stateIdx[x] /\ errors'[x] = errors[x]
  <1>1. ASSUME Start(r) PROVE P
    BY <1>1 DEF Start, TypeOK
  <1>2. ASSUME NEW o \in Outcomes, Acquire(r, o) PROVE P
    BY <1>2 DEF Acquire, TypeOK
  <1>3. ASSUME NEW side \in Sides, NEW o \in Outcomes, ReadPaused(r, side, o) PROVE P
    BY <1>3 DEF ReadPaused, TypeOK
  <1>4. ASSUME IssuePauses(r) PROVE P
    BY <1>4 DEF IssuePauses, TypeOK
  <1>5. ASSUME NEW side \in Sides, PauseLands(r, side) PROVE P
    BY <1>5 DEF PauseLands, TypeOK
  <1>6. ASSUME NEW side \in Sides, NEW o \in Outcomes, PauseRejected(r, side, o) PROVE P
    BY <1>6 DEF PauseRejected, TypeOK
  <1>7. ASSUME BothPaused(r) PROVE P
    BY <1>7 DEF BothPaused, TypeOK
  <1>8. ASSUME NEW o \in Outcomes, CountActive(r, o) PROVE P
    BY <1>8 DEF CountActive, TypeOK
  <1>9. ASSUME NEW o \in Outcomes, UndoTarget(r, o) PROVE P
    BY <1>9 DEF UndoTarget, ResumeSide, TypeOK
  <1>10. ASSUME NEW o \in Outcomes, UndoSource(r, o) PROVE P
    BY <1>10 DEF UndoSource, ResumeSide, TypeOK
  <1>11. ASSUME Finish(r) PROVE P
    BY <1>11 DEF Finish, TypeOK
  <1>12. ASSUME CancelSeen(r) PROVE P
    BY <1>12 DEF CancelSeen, TypeOK
  <1>13. ASSUME NextState(r) PROVE P
    BY <1>13 DEF NextState, TypeOK
  <1>14. ASSUME NEW o \in Outcomes, ListJobs(r, o) PROVE P
    BY <1>14 DEF ListJobs, TypeOK
  <1>15. ASSUME Park(r) PROVE P
    BY <1>15 DEF Park, TypeOK
  <1>16. ASSUME NextJob(r) PROVE P
    BY <1>16 DEF NextJob, TypeOK, Proceed
  <1>17. ASSUME SleepOver(r) PROVE P
    BY <1>17 DEF SleepOver, TypeOK
  <1>18. ASSUME NEW o \in Outcomes, Refresh(r, o) PROVE P
    BY <1>18 DEF Refresh, JobFails, TypeOK
  <1>19. ASSUME NEW o \in Outcomes, GetSource(r, o) PROVE P
    BY <1>19, GetSourceFinds DEF GetSource, JobFails, TypeOK
  <1>20. ASSUME NEW o \in Outcomes, GetTarget(r, o) PROVE P
    BY <1>20 DEF GetTarget, JobStep, JobFails, TypeOK
  <1>21. ASSUME NEW o \in Outcomes, Add(r, o) PROVE P
    BY <1>21 DEF Add, JobStep, JobFails, TypeOK
  <1>22. ASSUME NEW o \in Outcomes, Remove(r, o) PROVE P
    BY <1>22 DEF Remove, TypeOK
  <1>23. ASSUME NEW o \in Outcomes, Rollback(r, o) PROVE P
    BY <1>23 DEF Rollback, JobFails, TypeOK
  <1>24. ASSUME NEW o \in Outcomes, RestoreTarget(r, o) PROVE P
    BY <1>24 DEF RestoreTarget, ResumeSide, Escape, TypeOK
  <1>25. ASSUME NEW o \in Outcomes, RestoreSource(r, o) PROVE P
    BY <1>25 DEF RestoreSource, ResumeSide, Escape, TypeOK
  <1>26. ASSUME NEW o \in Outcomes, Release(r, o) PROVE P
    BY <1>26 DEF Release, Escape, TypeOK
  <1>27. ASSUME Cancel(r) PROVE P
    BY <1>27 DEF Cancel, Abort, TypeOK
  <1>28. ASSUME Destroy(r) PROVE P
    BY <1>28 DEF Destroy, Abort, TypeOK
  <1>29. ASSUME Pause(r) PROVE P
    BY <1>29 DEF Pause, TypeOK
  <1>30. ASSUME Resume(r) PROVE P
    BY <1>30 DEF Resume, TypeOK, Proceed
  <1>31. ASSUME Crash(r) PROVE P
    BY <1>31 DEF Crash, TypeOK
  <1>32. QED
    BY <1>1, <1>2, <1>3, <1>4, <1>5, <1>6, <1>7, <1>8, <1>9, <1>10, <1>11, <1>12, <1>13, <1>14,
       <1>15, <1>16, <1>17, <1>18, <1>19, <1>20, <1>21, <1>22, <1>23, <1>24, <1>25, <1>26,
       <1>27, <1>28, <1>29, <1>30, <1>31
       DEF RunAction, RunStep, Setup, Loop, MoveJob, Exit, Control

\* A pause flag is cleared only on the way out of the guard or of a refused migration.
LEMMA ResumeSteps ==
  ASSUME TypeOK, NEW r \in Runs, RunAction(r)
  PROVE  \/ \A q \in Queues : paused[q] => paused'[q]
         \/ /\ pc[r] \in {"undoTarget", "undoSource", "restoreTarget", "restoreSource"}
            /\ UNCHANGED copy
  <1> USE DEF redisVars, setupVars, cursorVars, resultVars, exitVars, controlVars, runVars
  <1> DEFINE P == \/ \A q \in Queues : paused[q] => paused'[q]
                  \/ /\ pc[r] \in {"undoTarget", "undoSource", "restoreTarget", "restoreSource"}
                     /\ UNCHANGED copy
  <1>1. ASSUME Start(r) PROVE P
    BY <1>1 DEF Start
  <1>2. ASSUME NEW o \in Outcomes, Acquire(r, o) PROVE P
    BY <1>2 DEF Acquire
  <1>3. ASSUME NEW side \in Sides, NEW o \in Outcomes, ReadPaused(r, side, o) PROVE P
    BY <1>3 DEF ReadPaused
  <1>4. ASSUME IssuePauses(r) PROVE P
    BY <1>4 DEF IssuePauses
  <1>5. ASSUME NEW side \in Sides, PauseLands(r, side) PROVE P
    BY <1>5 DEF PauseLands, TypeOK
  <1>6. ASSUME NEW side \in Sides, NEW o \in Outcomes, PauseRejected(r, side, o) PROVE P
    BY <1>6 DEF PauseRejected, TypeOK
  <1>7. ASSUME BothPaused(r) PROVE P
    BY <1>7 DEF BothPaused
  <1>8. ASSUME NEW o \in Outcomes, CountActive(r, o) PROVE P
    BY <1>8 DEF CountActive
  <1>9. ASSUME NEW o \in Outcomes, UndoTarget(r, o) PROVE P
    BY <1>9 DEF UndoTarget, ResumeSide, Answer
  <1>10. ASSUME NEW o \in Outcomes, UndoSource(r, o) PROVE P
    BY <1>10 DEF UndoSource, ResumeSide, Answer
  <1>11. ASSUME Finish(r) PROVE P
    BY <1>11 DEF Finish
  <1>12. ASSUME CancelSeen(r) PROVE P
    BY <1>12 DEF CancelSeen
  <1>13. ASSUME NextState(r) PROVE P
    BY <1>13 DEF NextState
  <1>14. ASSUME NEW o \in Outcomes, ListJobs(r, o) PROVE P
    BY <1>14 DEF ListJobs
  <1>15. ASSUME Park(r) PROVE P
    BY <1>15 DEF Park
  <1>16. ASSUME NextJob(r) PROVE P
    BY <1>16 DEF NextJob
  <1>17. ASSUME SleepOver(r) PROVE P
    BY <1>17 DEF SleepOver
  <1>18. ASSUME NEW o \in Outcomes, Refresh(r, o) PROVE P
    BY <1>18 DEF Refresh
  <1>19. ASSUME NEW o \in Outcomes, GetSource(r, o) PROVE P
    BY <1>19 DEF GetSource, JobStep
  <1>20. ASSUME NEW o \in Outcomes, GetTarget(r, o) PROVE P
    BY <1>20 DEF GetTarget, JobStep
  <1>21. ASSUME NEW o \in Outcomes, Add(r, o) PROVE P
    BY <1>21 DEF Add, JobStep
  <1>22. ASSUME NEW o \in Outcomes, Remove(r, o) PROVE P
    BY <1>22 DEF Remove
  <1>23. ASSUME NEW o \in Outcomes, Rollback(r, o) PROVE P
    BY <1>23 DEF Rollback
  <1>24. ASSUME NEW o \in Outcomes, RestoreTarget(r, o) PROVE P
    BY <1>24 DEF RestoreTarget, ResumeSide, Escape, Answer
  <1>25. ASSUME NEW o \in Outcomes, RestoreSource(r, o) PROVE P
    BY <1>25 DEF RestoreSource, ResumeSide, Escape, Answer
  <1>26. ASSUME NEW o \in Outcomes, Release(r, o) PROVE P
    BY <1>26 DEF Release, Escape
  <1>27. ASSUME Cancel(r) PROVE P
    BY <1>27 DEF Cancel, Abort
  <1>28. ASSUME Destroy(r) PROVE P
    BY <1>28 DEF Destroy, Abort
  <1>29. ASSUME Pause(r) PROVE P
    BY <1>29 DEF Pause, TypeOK
  <1>30. ASSUME Resume(r) PROVE P
    BY <1>30 DEF Resume
  <1>31. ASSUME Crash(r) PROVE P
    BY <1>31 DEF Crash
  <1>32. QED
    BY <1>1, <1>2, <1>3, <1>4, <1>5, <1>6, <1>7, <1>8, <1>9, <1>10, <1>11, <1>12, <1>13, <1>14,
       <1>15, <1>16, <1>17, <1>18, <1>19, <1>20, <1>21, <1>22, <1>23, <1>24, <1>25, <1>26,
       <1>27, <1>28, <1>29, <1>30, <1>31
       DEF RunAction, RunStep, Setup, Loop, MoveJob, Exit, Control

------------------------------------------------------------------------------
(* What a command does to the copies *)

\* An add that is not applied and reported as failed changes nothing; one that works adds
\* the job to the target, where it was not.
LEMMA AddCopies ==
  ASSUME TypeOK, SafeInv, <<"add", "lost">> \notin Faults, NEW r \in Runs, NEW o \in Outcomes, Add(r, o)
  PROVE  /\ pc[r] = "add" /\ UNCHANGED <<paused, lease, was, todo, cur, ranIn, intervention>>
         /\ \/ o = "ok" /\ pc'[r] = "remove"
            \/ o # "ok" /\ pc'[r] = "loop" /\ UNCHANGED copy
         /\ \A q \in Queues, j \in Jobs : copy'[q][j] # copy[q][j] =>
              /\ q = Target[r] /\ j = cur[r] /\ copy[q][j] = "absent" /\ copy'[q][j] \in Listable
  <1> DEFINE added == IF States[stateIdx[r]] = "delayed" THEN "delayed" ELSE "waiting"
  <1>1. /\ pc[r] = "add" /\ UNCHANGED <<paused, lease, was, todo, cur, ranIn>>
        /\ o # "lost"
    BY DEF Add, Answer, JobStep, setupVars, cursorVars
  <1>2. copy' = IF Applied(o) /\ copy[Target[r]][cur[r]] = "absent"
                  THEN [copy EXCEPT ![Target[r]][cur[r]] = added] ELSE copy
    BY <1>1, AddAlone DEF Add
  <1>3. added \in Listable
    BY DEF Listable
  <1>4. Target[r] \in Queues /\ cur[r] \in Jobs
    BY RunsAssumption DEF TypeOK
  <1>5. \A q \in Queues, j \in Jobs : copy'[q][j] # copy[q][j] =>
          /\ q = Target[r] /\ j = cur[r] /\ copy[q][j] = "absent" /\ copy'[q][j] \in Listable
    <2>1. CASE Applied(o) /\ copy[Target[r]][cur[r]] = "absent"
      <3> HIDE DEF added
      <3>1. copy' = [copy EXCEPT ![Target[r]][cur[r]] = added]
        BY <1>2, <2>1
      <3>2. \A q \in Queues, j \in Jobs :
              copy'[q][j] = IF q = Target[r] /\ j = cur[r] THEN added ELSE copy[q][j]
        BY <3>1, <1>4 DEF TypeOK
      <3>3. QED
        BY <3>2, <1>3, <2>1
    <2>2. CASE ~(Applied(o) /\ copy[Target[r]][cur[r]] = "absent")
      BY <1>2, <2>2
    <2>3. QED
      BY <2>1, <2>2
  <1>6. CASE o = "ok"
    <2>1. pc'[r] = "remove" /\ UNCHANGED intervention
      BY <1>6, GoMoves DEF Add, JobStep, exitVars
    <2>2. QED
      BY <1>1, <1>5, <1>6, <2>1
  <1>7. CASE o # "ok"
    <2>1. JobFails(r, FALSE)
      BY <1>7 DEF Add, JobStep
    <2>2. pc'[r] = "loop" /\ UNCHANGED intervention
      <3>1. intervention' = [intervention EXCEPT ![r] = @ \/ FALSE] /\ Go(r, "loop")
        BY <2>1 DEF JobFails
      <3>2. intervention \in [Runs -> BOOLEAN]
        BY DEF TypeOK
      <3>3. QED
        BY <3>1, <3>2, GoMoves
    <2>3. UNCHANGED copy
      BY <1>1, <1>2, <1>7 DEF Applied, Outcomes
    <2>4. QED
      BY <1>1, <1>5, <1>7, <2>2, <2>3
  <1>8. QED
    BY <1>6, <1>7

\* BullMQ's removal takes one copy away, or none.
LEMMA RemovedCopies ==
  ASSUME TypeOK, NEW q \in Queues, NEW j \in Jobs, NEW o, RemovedOnly(q, j, o)
  PROVE  /\ \A p \in Queues, i \in Jobs : copy'[p][i] # copy[p][i] =>
              p = q /\ i = j /\ copy'[p][i] = "absent"
         /\ Applied(o) /\ copy[q][j] # "active" => copy'[q][j] = "absent"
         /\ ~(Applied(o) /\ copy[q][j] # "active") => UNCHANGED copy
  BY DEF RemovedOnly, TypeOK

\* The removal from the source: it worked, or it changed nothing.
LEMMA RemoveCopies ==
  ASSUME TypeOK, SafeInv, NEW r \in Runs, NEW o \in Outcomes, Remove(r, o)
  PROVE  /\ pc[r] = "remove" /\ UNCHANGED <<paused, lease, was, todo, cur, ranIn, intervention>>
         /\ \A p \in Queues, i \in Jobs : copy'[p][i] # copy[p][i] =>
              p = Source[r] /\ i = cur[r] /\ copy'[p][i] = "absent"
         /\ \/ pc'[r] = "loop" /\ copy'[Source[r]][cur[r]] = "absent"
            \/ pc'[r] = "rollback" /\ UNCHANGED copy
  <1>1. /\ pc[r] = "remove" /\ UNCHANGED <<paused, lease, was, todo, cur, ranIn, intervention>>
        /\ o # "lost" /\ RemovedOnly(Source[r], cur[r], o)
        /\ Locked(Source[r], cur[r]) <=> copy[Source[r]][cur[r]] = "active"
    BY HonestRemoval, RemoveAlone DEF Remove, Answer, setupVars, exitVars
  <1>2. Source[r] \in Queues /\ cur[r] \in Jobs
    BY RunsAssumption DEF TypeOK
  <1>3. Applied(o) <=> o = "ok"
    BY <1>1 DEF Applied, Outcomes
  <1>4. CASE o = "ok" /\ copy[Source[r]][cur[r]] # "active"
    BY <1>1, <1>2, <1>3, <1>4, RemovedCopies, GoMoves DEF Remove
  <1>5. CASE ~(o = "ok" /\ copy[Source[r]][cur[r]] # "active")
    BY <1>1, <1>2, <1>3, <1>5, RemovedCopies, GoMoves DEF Remove
  <1>6. QED
    BY <1>4, <1>5

\* The rollback: the copy of the target is gone, or somebody has to look.
LEMMA RollbackCopies ==
  ASSUME TypeOK, SafeInv, NEW r \in Runs, NEW o \in Outcomes, Rollback(r, o)
  PROVE  /\ pc[r] = "rollback" /\ pc'[r] = "loop" /\ UNCHANGED <<paused, lease, was, todo, cur, ranIn>>
         /\ \A p \in Queues, i \in Jobs : copy'[p][i] # copy[p][i] =>
              p = Target[r] /\ i = cur[r] /\ copy'[p][i] = "absent"
         /\ intervention[r] => intervention'[r]
         /\ copy'[Target[r]][cur[r]] = "absent" \/ intervention'[r]
  <1> DEFINE needsHuman == o # "ok" \/ copy[Target[r]][cur[r]] = "active"
  <1>1. /\ pc[r] = "rollback" /\ UNCHANGED <<paused, lease, was, todo, cur, ranIn>>
        /\ RemovedOnly(Target[r], cur[r], o) /\ JobFails(r, needsHuman)
    BY RollbackAlone DEF Rollback, Answer, setupVars, cursorVars
  <1>2. Target[r] \in Queues /\ cur[r] \in Jobs /\ intervention \in [Runs -> BOOLEAN]
    BY RunsAssumption DEF TypeOK
  <1>3. pc'[r] = "loop" /\ intervention' = [intervention EXCEPT ![r] = @ \/ needsHuman]
    BY <1>1, GoMoves DEF JobFails
  <1>4. intervention'[r] = (intervention[r] \/ needsHuman)
    BY <1>2, <1>3
  <1>5. \A p \in Queues, i \in Jobs : copy'[p][i] # copy[p][i] =>
          p = Target[r] /\ i = cur[r] /\ copy'[p][i] = "absent"
    BY <1>1, <1>2, RemovedCopies
  <1>6. needsHuman \/ copy'[Target[r]][cur[r]] = "absent"
    BY <1>1, <1>2, RemovedCopies DEF Applied
  <1>7. QED
    BY <1>1, <1>3, <1>4, <1>5, <1>6

\* A step of a run changes copies of its own queues only, and while it moves a job.
LEMMA CopyStep ==
  ASSUME TypeOK, SafeInv, <<"add", "lost">> \notin Faults, NEW r \in Runs, RunAction(r)
  PROVE  \A q \in Queues, j \in Jobs : copy'[q][j] # copy[q][j] =>
           q \in {Source[r], Target[r]} /\ pc[r] \in Transfer
  <1>1. CASE UNCHANGED copy
    BY <1>1
  <1>2. ASSUME NEW o \in Outcomes, Add(r, o) \/ Remove(r, o) \/ Rollback(r, o)
        PROVE  \A q \in Queues, j \in Jobs : copy'[q][j] # copy[q][j] =>
                 q \in {Source[r], Target[r]} /\ pc[r] \in Transfer
    BY <1>2, AddCopies, RemoveCopies, RollbackCopies DEF Transfer
  <1>3. QED
    BY <1>1, <1>2, CopySteps

------------------------------------------------------------------------------
(* What a run will resume *)

Early == {"idle", "acquire", "readPause", "pause", "countActive", "undoTarget", "undoSource"}

\* There is no guard before the loop, and each resume ahead is of a queue that was running.
ResumesOf(r) ==
  /\ pc[r] \in Early => ~guard[r] /\ todo[r] = {}
  /\ pc[r] \in {"undoTarget", "restoreTarget"} => ~was[r]["target"]
  /\ pc[r] \in {"undoSource", "restoreSource"} => ~was[r]["source"]

\* The finally block goes to a resume that is needed, or past it.
LEMMA FinallyResumes ==
  ASSUME TypeOK, NEW r \in Runs, NEW outcome, NEW needsHuman, Finally(r, outcome, needsHuman),
         UNCHANGED was
  PROVE  ResumesOf(r)'
  <1>1. \/ pc'[r] = "release"
        \/ pc'[r] = "restoreTarget" /\ ~was[r]["target"]
        \/ pc'[r] = "restoreSource" /\ ~was[r]["source"]
    BY DEF Finally, RestoreFrom, Go, TypeOK
  <1>2. QED
    BY <1>1 DEF ResumesOf, Early

\* Nothing is to be known elsewhere, and what is known stays as long as the run does.
LEMMA ResumesKept ==
  ASSUME NEW r \in Runs, ResumesOf(r),
         \/ pc'[r] \notin Early \cup {"restoreTarget", "restoreSource"}
         \/ /\ UNCHANGED <<guard, todo>>
            /\ pc[r] \in Early /\ pc'[r] \in {"acquire", "readPause", "pause", "countActive"}
         \/ UNCHANGED <<pc, guard, todo, was>>
  PROVE  ResumesOf(r)'
  BY DEF ResumesOf, Early

\* A step of a run preserves it.
LEMMA ResumesOfNext ==
  ASSUME TypeOK, NEW r \in Runs, ResumesOf(r), RunAction(r)
  PROVE  ResumesOf(r)'
  <1> USE DEF redisVars, setupVars, cursorVars, resultVars, exitVars, controlVars, runVars
  <1>1. ASSUME Start(r) PROVE ResumesOf(r)'
    <2>1. /\ UNCHANGED <<guard, todo>>
          /\ pc[r] \in Early /\ pc'[r] \in {"acquire", "readPause", "pause", "countActive"}
      BY <1>1, GoMoves DEF Start, Early
    <2>2. QED
      BY <2>1, ResumesKept
  <1>2. ASSUME NEW o \in Outcomes, Acquire(r, o) PROVE ResumesOf(r)'
    <2>1. /\ UNCHANGED <<guard, todo>>
          /\ pc[r] \in Early /\ pc'[r] \in {"readPause", "ended"}
      BY <1>2, GoMoves DEF Acquire, Answer, Early
    <2>2. QED
      BY <2>1, ResumesKept DEF Early
  <1>3. ASSUME NEW side \in Sides, NEW o \in Outcomes, ReadPaused(r, side, o) PROVE ResumesOf(r)'
    <2>1. CASE o = "ok"
      <3>1. pc[r] = "readPause" /\ UNCHANGED <<pc, guard, todo>>
        BY <1>3, <2>1 DEF ReadPaused, Answer
      <3>2. QED
        BY <3>1, ResumesKept DEF Early
    <2>2. CASE o # "ok"
      BY <1>3, <2>2, FinallyResumes DEF ReadPaused, Fail
    <2>3. QED
      BY <2>1, <2>2
  <1>4. ASSUME IssuePauses(r) PROVE ResumesOf(r)'
    <2>1. /\ UNCHANGED <<guard, todo>>
          /\ pc[r] \in Early /\ pc'[r] \in {"acquire", "readPause", "pause", "countActive"}
      BY <1>4, GoMoves DEF IssuePauses, Early
    <2>2. QED
      BY <2>1, ResumesKept
  <1>5. ASSUME NEW side \in Sides, PauseLands(r, side) PROVE ResumesOf(r)'
    BY <1>5, ResumesKept DEF PauseLands
  <1>6. ASSUME NEW side \in Sides, NEW o \in Outcomes, PauseRejected(r, side, o) PROVE ResumesOf(r)'
    BY <1>6, FinallyResumes DEF PauseRejected, Fail
  <1>7. ASSUME BothPaused(r) PROVE ResumesOf(r)'
    <2>1. /\ UNCHANGED <<guard, todo>>
          /\ pc[r] \in Early /\ pc'[r] \in {"acquire", "readPause", "pause", "countActive"}
      BY <1>7, GoMoves DEF BothPaused, Early
    <2>2. QED
      BY <2>1, ResumesKept
  <1>8. ASSUME NEW o \in Outcomes, CountActive(r, o) PROVE ResumesOf(r)'
    <2>1. CASE Fail(r)
      BY <1>8, <2>1, FinallyResumes DEF CountActive, Fail
    <2>2. CASE ~Fail(r)
      <3>1. pc[r] = "countActive" /\ UNCHANGED <<was, todo>>
        BY <1>8 DEF CountActive, Answer
      <3>2. \/ pc'[r] = "loop"
            \/ guard'[r] = FALSE /\ pc'[r] = "undoTarget" /\ ~was[r]["target"]
            \/ guard'[r] = FALSE /\ pc'[r] = "undoSource" /\ ~was[r]["source"]
        BY <1>8, <2>2, GoMoves DEF CountActive, RestoreFrom, TypeOK
      <3>3. QED
        BY <3>1, <3>2 DEF ResumesOf, Early
    <2>3. QED
      BY <2>1, <2>2
  <1>9. ASSUME NEW o \in Outcomes, UndoTarget(r, o) PROVE ResumesOf(r)'
    <2>1. CASE Fail(r)
      BY <1>9, <2>1, FinallyResumes DEF UndoTarget, ResumeSide, Fail
    <2>2. CASE ~Fail(r)
      <3>1. /\ pc[r] = "undoTarget" /\ UNCHANGED <<was, todo, guard>>
            /\ pc'[r] = "undoSource" /\ ~was[r]["source"]
        BY <1>9, <2>2, GoMoves DEF UndoTarget, ResumeSide, Answer
      <3>2. QED
        BY <3>1 DEF ResumesOf, Early
    <2>3. QED
      BY <2>1, <2>2
  <1>10. ASSUME NEW o \in Outcomes, UndoSource(r, o) PROVE ResumesOf(r)'
    BY <1>10, FinallyResumes DEF UndoSource, ResumeSide, Fail
  <1>11. ASSUME Finish(r) PROVE ResumesOf(r)'
    BY <1>11, FinallyResumes DEF Finish
  <1>12. ASSUME CancelSeen(r) PROVE ResumesOf(r)'
    BY <1>12, FinallyResumes DEF CancelSeen
  <1>13. ASSUME NextState(r) PROVE ResumesOf(r)'
    <2>1. pc'[r] \notin Early \cup {"restoreTarget", "restoreSource"}
      BY <1>13, GoMoves DEF NextState, Early, Transfer
    <2>2. QED
      BY <2>1, ResumesKept
  <1>14. ASSUME NEW o \in Outcomes, ListJobs(r, o) PROVE ResumesOf(r)'
    <2>1. CASE o = "ok"
      <3>1. pc'[r] = "loop"
        BY <1>14, <2>1, GoMoves DEF ListJobs
      <3>2. QED
        BY <3>1, ResumesKept DEF Early
    <2>2. CASE o # "ok"
      BY <1>14, <2>2, FinallyResumes DEF ListJobs, Fail
    <2>3. QED
      BY <2>1, <2>2
  <1>15. ASSUME Park(r) PROVE ResumesOf(r)'
    <2>1. pc'[r] \notin Early \cup {"restoreTarget", "restoreSource"}
      BY <1>15, GoMoves DEF Park, Early, Transfer
    <2>2. QED
      BY <2>1, ResumesKept
  <1>16. ASSUME NextJob(r) PROVE ResumesOf(r)'
    <2>1. pc'[r] \notin Early \cup {"restoreTarget", "restoreSource"}
      BY <1>16, ProceedOne DEF NextJob, Early, Transfer
    <2>2. QED
      BY <2>1, ResumesKept
  <1>17. ASSUME SleepOver(r) PROVE ResumesOf(r)'
    <2>1. pc'[r] \notin Early \cup {"restoreTarget", "restoreSource"}
      BY <1>17, GoMoves DEF SleepOver, Early, Transfer
    <2>2. QED
      BY <2>1, ResumesKept
  <1>18. ASSUME NEW o \in Outcomes, Refresh(r, o) PROVE ResumesOf(r)'
    <2>1. CASE Finally(r, "failed", TRUE)
      BY <1>18, <2>1, FinallyResumes DEF Refresh
    <2>2. CASE ~Finally(r, "failed", TRUE)
      <3>1. pc'[r] \in {"loop", "getSource"}
        BY <1>18, <2>2, GoMoves DEF Refresh, JobFails
      <3>2. QED
        BY <3>1, ResumesKept DEF Early
    <2>3. QED
      BY <2>1, <2>2
  <1>19. ASSUME NEW o \in Outcomes, GetSource(r, o) PROVE ResumesOf(r)'
    <2>1. pc'[r] \notin Early \cup {"restoreTarget", "restoreSource"}
      BY <1>19, GoMoves DEF GetSource, JobStep, JobFails, Early, Transfer
    <2>2. QED
      BY <2>1, ResumesKept
  <1>20. ASSUME NEW o \in Outcomes, GetTarget(r, o) PROVE ResumesOf(r)'
    <2>1. pc'[r] \notin Early \cup {"restoreTarget", "restoreSource"}
      BY <1>20, GoMoves DEF GetTarget, JobStep, JobFails, Early, Transfer
    <2>2. QED
      BY <2>1, ResumesKept
  <1>21. ASSUME NEW o \in Outcomes, Add(r, o) PROVE ResumesOf(r)'
    <2>1. pc'[r] \notin Early \cup {"restoreTarget", "restoreSource"}
      BY <1>21, GoMoves DEF Add, JobStep, JobFails, Early, Transfer
    <2>2. QED
      BY <2>1, ResumesKept
  <1>22. ASSUME NEW o \in Outcomes, Remove(r, o) PROVE ResumesOf(r)'
    <2>1. pc'[r] \notin Early \cup {"restoreTarget", "restoreSource"}
      BY <1>22, GoMoves DEF Remove, Early, Transfer
    <2>2. QED
      BY <2>1, ResumesKept
  <1>23. ASSUME NEW o \in Outcomes, Rollback(r, o) PROVE ResumesOf(r)'
    <2>1. pc'[r] \notin Early \cup {"restoreTarget", "restoreSource"}
      BY <1>23, GoMoves DEF Rollback, JobFails, Early, Transfer
    <2>2. QED
      BY <2>1, ResumesKept
  <1>24. ASSUME NEW o \in Outcomes, RestoreTarget(r, o) PROVE ResumesOf(r)'
    <2>1. \/ pc'[r] \in {"ended", "release"}
          \/ pc'[r] = "restoreSource" /\ ~was[r]["source"] /\ UNCHANGED was
      BY <1>24, GoMoves DEF RestoreTarget, ResumeSide, RestoreFrom, Escape
    <2>2. QED
      BY <2>1 DEF ResumesOf, Early
  <1>25. ASSUME NEW o \in Outcomes, RestoreSource(r, o) PROVE ResumesOf(r)'
    <2>1. pc'[r] \notin Early \cup {"restoreTarget", "restoreSource"}
      BY <1>25, GoMoves DEF RestoreSource, ResumeSide, Escape, Early, Transfer
    <2>2. QED
      BY <2>1, ResumesKept
  <1>26. ASSUME NEW o \in Outcomes, Release(r, o) PROVE ResumesOf(r)'
    <2>1. pc'[r] \notin Early \cup {"restoreTarget", "restoreSource"}
      BY <1>26, GoMoves DEF Release, Escape, Early, Transfer
    <2>2. QED
      BY <2>1, ResumesKept
  <1>27. ASSUME Cancel(r) PROVE ResumesOf(r)'
    <2>1. UNCHANGED <<guard, todo, was>>
      BY <1>27 DEF Cancel, Abort
    <2>2. Finally(r, "cancelled", intervention[r]) \/ UNCHANGED pc
      BY <1>27 DEF Cancel, Abort
    <2>3. QED
      BY <2>1, <2>2, FinallyResumes, ResumesKept
  <1>28. ASSUME Destroy(r) PROVE ResumesOf(r)'
    <2>1. UNCHANGED <<guard, todo, was>>
      BY <1>28 DEF Destroy, Abort
    <2>2. Finally(r, "cancelled", intervention[r]) \/ UNCHANGED pc
      BY <1>28 DEF Destroy, Abort
    <2>3. QED
      BY <2>1, <2>2, FinallyResumes, ResumesKept
  <1>29. ASSUME Pause(r) PROVE ResumesOf(r)'
    BY <1>29, ResumesKept DEF Pause
  <1>30. ASSUME Resume(r) PROVE ResumesOf(r)'
    <2>1. CASE pc[r] = "parked"
      <3>1. pc'[r] \in {"loop", "sleep", "refresh"}
        BY <1>30, <2>1, ProceedOne DEF Resume
      <3>2. QED
        BY <3>1, ResumesKept DEF Early
    <2>2. CASE pc[r] # "parked"
      BY <1>30, <2>2, ResumesKept DEF Resume
    <2>3. QED
      BY <2>1, <2>2
  <1>31. ASSUME Crash(r) PROVE ResumesOf(r)'
    <2>1. pc'[r] \notin Early \cup {"restoreTarget", "restoreSource"}
      BY <1>31, GoMoves DEF Crash, Early, Transfer
    <2>2. QED
      BY <2>1, ResumesKept
  <1>32. QED
    BY <1>1, <1>2, <1>3, <1>4, <1>5, <1>6, <1>7, <1>8, <1>9, <1>10, <1>11, <1>12, <1>13, <1>14,
       <1>15, <1>16, <1>17, <1>18, <1>19, <1>20, <1>21, <1>22, <1>23, <1>24, <1>25, <1>26,
       <1>27, <1>28, <1>29, <1>30, <1>31
       DEF RunAction, RunStep, Setup, Loop, MoveJob, Exit, Control

------------------------------------------------------------------------------
(* Jobs that are in both queues of a run *)

Twice(r) == {j \in Jobs : copy[Source[r]][j] # "absent" /\ copy[Target[r]][j] # "absent"}

BothQueuesPaused(r) == paused[Source[r]] /\ paused[Target[r]]

\* If there are any, the run is not under way, or it is the one that made the only one
\* and can still take it back, or it leaves the queues for an inspection, or it found both
\* of them paused.
Excused(r) == Twice(r) # {} =>
  \/ pc[r] \in Outside \cup {"release"}
  \/ pc[r] \in {"remove", "rollback"} /\ Twice(r) \subseteq {cur[r]}
  \/ pc[r] \in Body /\ intervention[r]
  \/ \A side \in Sides : was[r][side] \/ (pc[r] = "readPause" /\ side \in inflight[r])

\* Which jobs these are depends on who has which job, and on nothing else.
LEMMA TwiceSame ==
  ASSUME NEW r \in Runs, \A q \in {Source[r], Target[r]}, j \in Jobs :
                           copy'[q][j] = "absent" <=> copy[q][j] = "absent"
  PROVE  Twice(r)' = Twice(r)
  BY DEF Twice

\* A run stays excused when it ends, goes on, or leaves a point where it can only have
\* found both queues paused.
LEMMA ExcusedKept ==
  ASSUME NEW r \in Runs, Excused(r), Twice(r)' = Twice(r),
         \/ pc'[r] \in Outside \cup {"release"}
         \/ /\ was'[r] = was[r] /\ (intervention[r] => intervention'[r])
            /\ pc[r] \in Body \ {"remove", "rollback"} /\ pc'[r] \in Body
         \/ /\ was'[r] = was[r] /\ (pc[r] = "readPause" => inflight[r] = {})
            /\ pc[r] \notin Body \cup Outside \cup {"release"}
         \/ /\ UNCHANGED <<pc, was, cur, intervention>>
            /\ pc[r] # "readPause" \/ UNCHANGED inflight
  PROVE  Excused(r)'
  BY DEF Excused, Outside, Body, Transfer

\* The finally block resumes no queue when there is such a job.
LEMMA ExcusedFinally ==
  ASSUME TypeOK, NEW r \in Runs, Excused(r), ResumesOf(r), UNCHANGED <<copy, was>>,
         pc[r] \notin {"ended", "crashed", "release", "remove", "rollback"},
         NEW outcome, NEW needsHuman, Finally(r, outcome, needsHuman),
         intervention[r] => needsHuman
  PROVE  Excused(r)'
  <1>1. Twice(r)' = Twice(r)
    BY TwiceSame
  <1>2. CASE pc'[r] = "release"
    BY <1>2 DEF Excused
  <1>3. CASE pc'[r] # "release" /\ Twice(r) # {}
    <2>1. guard[r] /\ ~needsHuman /\ ~(was[r]["target"] /\ was[r]["source"])
      BY <1>3 DEF Finally, RestoreFrom, Go, TypeOK
    <2>2. pc[r] \notin Early
      BY <2>1 DEF ResumesOf
    <2>3. QED
      BY <1>3, <2>1, <2>2 DEF Excused, Sides, Early, Outside
  <1>4. CASE Twice(r) = {}
    BY <1>1, <1>4 DEF Excused
  <1>5. QED
    BY <1>2, <1>3, <1>4

\* A step of a run that holds its queues paused while there is such a job preserves it.
LEMMA ExcusedNext ==
  ASSUME TypeOK, SafeInv, <<"add", "lost">> \notin Faults, NEW r \in Runs, Excused(r), ResumesOf(r),
         Twice(r) # {} => BothQueuesPaused(r), RunAction(r)
  PROVE  Excused(r)'
  <1> USE DEF redisVars, setupVars, cursorVars, resultVars, exitVars, controlVars, runVars
  <1>1. ASSUME Start(r) PROVE Excused(r)'
    <2>1. UNCHANGED copy /\ pc'[r] \in Outside \cup {"release"}
      BY <1>1, GoMoves DEF Start, Outside
    <2>2. QED
      BY <2>1, TwiceSame, ExcusedKept
  <1>2. ASSUME NEW o \in Outcomes, Acquire(r, o) PROVE Excused(r)'
    <2>1. UNCHANGED copy /\ pc'[r] \in {"ended", "readPause"}
      BY <1>2, GoMoves DEF Acquire
    <2>2. pc'[r] = "readPause" => inflight'[r] = Sides
      BY <1>2, GoMoves DEF Acquire, TypeOK
    <2>3. QED
      BY <2>1, <2>2, TwiceSame, ExcusedKept DEF Excused, Outside
  <1>3. ASSUME NEW side \in Sides, NEW o \in Outcomes, ReadPaused(r, side, o) PROVE Excused(r)'
    <2>1. pc[r] = "readPause" /\ UNCHANGED copy
      BY <1>3 DEF ReadPaused, Answer
    <2>2. CASE o = "ok" /\ Twice(r) # {}
      <3>1. /\ was' = [was EXCEPT ![r][side] = paused[QueueOf(r, side)]]
            /\ inflight' = [inflight EXCEPT ![r] = @ \ {side}] /\ UNCHANGED pc
        BY <1>3, <2>2 DEF ReadPaused
      <3>2. /\ was'[r][side] = paused[QueueOf(r, side)]
            /\ \A s \in Sides \ {side} : was'[r][s] = was[r][s] /\ (s \in inflight[r] => s \in inflight'[r])
        BY <3>1 DEF TypeOK
      <3>3. \A s \in Sides : was[r][s] \/ s \in inflight[r]
        BY <2>1, <2>2 DEF Excused, Outside, Body, Transfer
      <3>4. was'[r][side]
        BY <2>2, <3>2 DEF QueueOf, Sides, BothQueuesPaused
      <3>5. \A s \in Sides : was'[r][s] \/ (pc'[r] = "readPause" /\ s \in inflight'[r])
        BY <2>1, <3>1, <3>2, <3>3, <3>4
      <3>6. QED
        BY <3>5 DEF Excused
    <2>3. CASE o # "ok"
      <3>1. Finally(r, "failed", intervention[r]) /\ UNCHANGED was
        BY <1>3, <2>3 DEF ReadPaused, Fail
      <3>2. QED
        BY <2>1, <3>1, ExcusedFinally
    <2>4. CASE Twice(r) = {}
      <3>1. Twice(r)' = {}
        BY <2>1, <2>4, TwiceSame
      <3>2. QED
        BY <3>1 DEF Excused
    <2>5. QED
      BY <2>2, <2>3, <2>4
  <1>4. ASSUME IssuePauses(r) PROVE Excused(r)'
    <2>1. /\ UNCHANGED <<copy, was>> /\ (pc[r] = "readPause" => inflight[r] = {})
          /\ pc[r] \notin Body \cup Outside \cup {"release"}
      BY <1>4 DEF IssuePauses, Answer, Body, Outside, Transfer
    <2>2. QED
      BY <2>1, TwiceSame, ExcusedKept
  <1>5. ASSUME NEW side \in Sides, PauseLands(r, side) PROVE Excused(r)'
    <2>1. UNCHANGED <<copy, pc, was, cur, intervention>> /\ pc[r] # "readPause"
      BY <1>5 DEF PauseLands
    <2>2. QED
      BY <2>1, TwiceSame, ExcusedKept
  <1>6. ASSUME NEW side \in Sides, NEW o \in Outcomes, PauseRejected(r, side, o) PROVE Excused(r)'
    <2>1. /\ UNCHANGED <<copy, was>> /\ (pc[r] = "readPause" => inflight[r] = {})
          /\ pc[r] \notin Body \cup Outside \cup {"release"}
      BY <1>6 DEF PauseRejected, Answer, Body, Outside, Transfer
    <2>2. QED
      BY <2>1, TwiceSame, ExcusedKept
  <1>7. ASSUME BothPaused(r) PROVE Excused(r)'
    <2>1. /\ UNCHANGED <<copy, was>> /\ (pc[r] = "readPause" => inflight[r] = {})
          /\ pc[r] \notin Body \cup Outside \cup {"release"}
      BY <1>7 DEF BothPaused, Answer, Body, Outside, Transfer
    <2>2. QED
      BY <2>1, TwiceSame, ExcusedKept
  <1>8. ASSUME NEW o \in Outcomes, CountActive(r, o) PROVE Excused(r)'
    <2>1. /\ UNCHANGED <<copy, was>> /\ (pc[r] = "readPause" => inflight[r] = {})
          /\ pc[r] \notin Body \cup Outside \cup {"release"}
      BY <1>8 DEF CountActive, Answer, Body, Outside, Transfer
    <2>2. QED
      BY <2>1, TwiceSame, ExcusedKept
  <1>9. ASSUME NEW o \in Outcomes, UndoTarget(r, o) PROVE Excused(r)'
    <2>1. /\ UNCHANGED <<copy, was>> /\ (pc[r] = "readPause" => inflight[r] = {})
          /\ pc[r] \notin Body \cup Outside \cup {"release"}
      BY <1>9 DEF UndoTarget, ResumeSide, Answer, Body, Outside, Transfer
    <2>2. QED
      BY <2>1, TwiceSame, ExcusedKept
  <1>10. ASSUME NEW o \in Outcomes, UndoSource(r, o) PROVE Excused(r)'
    <2>1. /\ UNCHANGED <<copy, was>> /\ (pc[r] = "readPause" => inflight[r] = {})
          /\ pc[r] \notin Body \cup Outside \cup {"release"}
      BY <1>10 DEF UndoSource, ResumeSide, Answer, Body, Outside, Transfer
    <2>2. QED
      BY <2>1, TwiceSame, ExcusedKept
  <1>11. ASSUME Finish(r) PROVE Excused(r)'
    <2>1. UNCHANGED <<copy, was>> /\ pc[r] = "loop" /\ \E outcome : Finally(r, outcome, intervention[r])
      BY <1>11 DEF Finish
    <2>2. QED
      BY <2>1, ExcusedFinally
  <1>12. ASSUME CancelSeen(r) PROVE Excused(r)'
    <2>1. UNCHANGED <<copy, was>> /\ pc[r] = "loop" /\ \E outcome : Finally(r, outcome, intervention[r])
      BY <1>12 DEF CancelSeen
    <2>2. QED
      BY <2>1, ExcusedFinally
  <1>13. ASSUME NextState(r) PROVE Excused(r)'
    <2>1. UNCHANGED <<copy, was>> /\ pc[r] \in Body \ {"remove", "rollback"} /\ pc'[r] \in Body
      BY <1>13, GoMoves DEF NextState, Answer, Body, Transfer
    <2>2. intervention[r] => intervention'[r]
      BY <1>13 DEF NextState
    <2>3. QED
      BY <2>1, <2>2, TwiceSame, ExcusedKept
  <1>14. ASSUME NEW o \in Outcomes, ListJobs(r, o) PROVE Excused(r)'
    <2>1. UNCHANGED <<copy, was>> /\ pc[r] = "list"
      BY <1>14 DEF ListJobs, Answer
    <2>2. CASE o = "ok"
      <3>1. pc'[r] \in Body /\ UNCHANGED intervention
        BY <1>14, <2>2, GoMoves DEF ListJobs, Body
      <3>2. QED
        BY <2>1, <3>1, TwiceSame, ExcusedKept DEF Body
    <2>3. CASE o # "ok"
      BY <1>14, <2>1, <2>3, ExcusedFinally DEF ListJobs, Fail
    <2>4. QED
      BY <2>2, <2>3
  <1>15. ASSUME Park(r) PROVE Excused(r)'
    <2>1. UNCHANGED <<copy, was>> /\ pc[r] \in Body \ {"remove", "rollback"} /\ pc'[r] \in Body
      BY <1>15, GoMoves DEF Park, Answer, Body, Transfer
    <2>2. intervention[r] => intervention'[r]
      BY <1>15 DEF Park
    <2>3. QED
      BY <2>1, <2>2, TwiceSame, ExcusedKept
  <1>16. ASSUME NextJob(r) PROVE Excused(r)'
    <2>1. UNCHANGED <<copy, was>> /\ pc[r] \in Body \ {"remove", "rollback"} /\ pc'[r] \in Body
      BY <1>16, ProceedOne DEF NextJob, Answer, Body, Transfer
    <2>2. intervention[r] => intervention'[r]
      BY <1>16 DEF NextJob
    <2>3. QED
      BY <2>1, <2>2, TwiceSame, ExcusedKept
  <1>17. ASSUME SleepOver(r) PROVE Excused(r)'
    <2>1. UNCHANGED <<copy, was>> /\ pc[r] \in Body \ {"remove", "rollback"} /\ pc'[r] \in Body
      BY <1>17, GoMoves DEF SleepOver, Answer, Body, Transfer
    <2>2. intervention[r] => intervention'[r]
      BY <1>17 DEF SleepOver
    <2>3. QED
      BY <2>1, <2>2, TwiceSame, ExcusedKept
  <1>18. ASSUME NEW o \in Outcomes, Refresh(r, o) PROVE Excused(r)'
    <2>1. UNCHANGED <<copy, was>> /\ pc[r] = "refresh"
      BY <1>18 DEF Refresh, Answer
    <2>2. CASE Finally(r, "failed", TRUE)
      BY <2>1, <2>2, ExcusedFinally
    <2>3. CASE ~Finally(r, "failed", TRUE)
      <3>1. pc'[r] \in Body /\ (intervention[r] => intervention'[r])
        BY <1>18, <2>3, GoMoves DEF Refresh, JobFails, Body, Transfer, TypeOK
      <3>2. QED
        BY <2>1, <3>1, TwiceSame, ExcusedKept DEF Body
    <2>4. QED
      BY <2>2, <2>3
  <1>19. ASSUME NEW o \in Outcomes, GetSource(r, o) PROVE Excused(r)'
    <2>1. UNCHANGED <<copy, was>> /\ pc[r] \in Body \ {"remove", "rollback"} /\ pc'[r] \in Body
      BY <1>19, GoMoves DEF GetSource, JobStep, JobFails, Answer, Body, Transfer
    <2>2. intervention[r] => intervention'[r]
      BY <1>19 DEF GetSource, JobStep, JobFails, TypeOK
    <2>3. QED
      BY <2>1, <2>2, TwiceSame, ExcusedKept
  <1>20. ASSUME NEW o \in Outcomes, GetTarget(r, o) PROVE Excused(r)'
    <2>1. UNCHANGED <<copy, was>> /\ pc[r] \in Body \ {"remove", "rollback"} /\ pc'[r] \in Body
      BY <1>20, GoMoves DEF GetTarget, JobStep, JobFails, Answer, Body, Transfer
    <2>2. intervention[r] => intervention'[r]
      BY <1>20 DEF GetTarget, JobStep, JobFails, TypeOK
    <2>3. QED
      BY <2>1, <2>2, TwiceSame, ExcusedKept
  <1>21. ASSUME NEW o \in Outcomes, Add(r, o) PROVE Excused(r)'
    <2>1. CASE UNCHANGED copy
      <3>1. UNCHANGED <<was, intervention>> /\ pc[r] = "add" /\ pc'[r] \in Body
        BY <1>21, AddCopies DEF Body, Transfer
      <3>2. QED
        BY <2>1, <3>1, TwiceSame, ExcusedKept DEF Body, Transfer
    <2>2. CASE ~UNCHANGED copy
      <3>1. /\ pc[r] = "add" /\ pc'[r] = "remove" /\ UNCHANGED <<was, cur, intervention>>
            /\ \A q \in Queues, j \in Jobs : copy'[q][j] # copy[q][j] => q = Target[r] /\ j = cur[r]
        BY <1>21, <2>2, AddCopies
      <3>2. Twice(r)' \subseteq Twice(r) \cup {cur[r]}
        BY <3>1, RunsAssumption DEF Twice
      <3>3. CASE Twice(r) = {}
        BY <3>1, <3>2, <3>3 DEF Excused
      <3>4. CASE Twice(r) # {}
        BY <3>1, <3>4 DEF Excused, Outside, Body, Transfer
      <3>5. QED
        BY <3>3, <3>4
    <2>3. QED
      BY <2>1, <2>2
  <1>22. ASSUME NEW o \in Outcomes, Remove(r, o) PROVE Excused(r)'
    <2>1. CASE UNCHANGED copy /\ pc'[r] = "rollback"
      <3>1. pc[r] = "remove" /\ UNCHANGED <<was, cur, intervention>> /\ Twice(r)' = Twice(r)
        BY <1>22, <2>1, RemoveCopies, TwiceSame
      <3>2. QED
        BY <2>1, <3>1 DEF Excused, Outside, Body, Transfer
    <2>2. CASE ~(UNCHANGED copy /\ pc'[r] = "rollback")
      <3>1. /\ pc[r] = "remove" /\ pc'[r] = "loop" /\ UNCHANGED <<was, cur, intervention>>
            /\ copy'[Source[r]][cur[r]] = "absent"
            /\ \A q \in Queues, j \in Jobs : copy'[q][j] # copy[q][j] => copy'[q][j] = "absent"
        BY <1>22, <2>2, RemoveCopies
      <3>2. Twice(r)' \subseteq Twice(r) \ {cur[r]}
        BY <3>1, RunsAssumption DEF Twice
      <3>3. QED
        BY <3>1, <3>2 DEF Excused, Outside, Body, Transfer
    <2>3. QED
      BY <2>1, <2>2
  <1>23. ASSUME NEW o \in Outcomes, Rollback(r, o) PROVE Excused(r)'
    <2>1. /\ pc[r] = "rollback" /\ pc'[r] = "loop" /\ UNCHANGED was /\ (intervention[r] => intervention'[r])
          /\ \A q \in Queues, j \in Jobs : copy'[q][j] # copy[q][j] => copy'[q][j] = "absent"
          /\ UNCHANGED cur /\ (copy'[Target[r]][cur[r]] = "absent" \/ intervention'[r])
      BY <1>23, RollbackCopies
    <2>2. CASE intervention'[r]
      BY <2>1, <2>2 DEF Excused, Body
    <2>3. CASE copy'[Target[r]][cur[r]] = "absent"
      <3>1. Twice(r)' \subseteq Twice(r) \ {cur[r]}
        BY <2>1, <2>3, RunsAssumption DEF Twice
      <3>2. QED
        BY <2>1, <3>1 DEF Excused, Outside, Body, Transfer
    <2>4. QED
      BY <2>1, <2>2, <2>3
  <1>24. ASSUME NEW o \in Outcomes, RestoreTarget(r, o) PROVE Excused(r)'
    <2>1. /\ UNCHANGED <<copy, was>> /\ (pc[r] = "readPause" => inflight[r] = {})
          /\ pc[r] \notin Body \cup Outside \cup {"release"}
      BY <1>24 DEF RestoreTarget, ResumeSide, Escape, Answer, Body, Outside, Transfer
    <2>2. QED
      BY <2>1, TwiceSame, ExcusedKept
  <1>25. ASSUME NEW o \in Outcomes, RestoreSource(r, o) PROVE Excused(r)'
    <2>1. /\ UNCHANGED <<copy, was>> /\ (pc[r] = "readPause" => inflight[r] = {})
          /\ pc[r] \notin Body \cup Outside \cup {"release"}
      BY <1>25 DEF RestoreSource, ResumeSide, Escape, Answer, Body, Outside, Transfer
    <2>2. QED
      BY <2>1, TwiceSame, ExcusedKept
  <1>26. ASSUME NEW o \in Outcomes, Release(r, o) PROVE Excused(r)'
    <2>1. UNCHANGED copy /\ pc'[r] \in Outside \cup {"release"}
      BY <1>26, GoMoves DEF Release, Escape, Outside
    <2>2. QED
      BY <2>1, TwiceSame, ExcusedKept
  <1>27. ASSUME Cancel(r) PROVE Excused(r)'
    <2>1. UNCHANGED <<copy, was, cur, inflight>>
      BY <1>27 DEF Cancel, Abort
    <2>2. CASE pc[r] \in {"parked", "sleep"}
      <3>1. Finally(r, "cancelled", intervention[r])
        BY <1>27, <2>2 DEF Cancel, Abort
      <3>2. QED
        BY <2>1, <2>2, <3>1, ExcusedFinally
    <2>3. CASE pc[r] \notin {"parked", "sleep"}
      <3>1. UNCHANGED <<pc, intervention>>
        BY <1>27, <2>3 DEF Cancel, Abort
      <3>2. QED
        BY <2>1, <3>1, TwiceSame, ExcusedKept
    <2>4. QED
      BY <2>2, <2>3
  <1>28. ASSUME Destroy(r) PROVE Excused(r)'
    <2>1. UNCHANGED <<copy, was, cur, inflight>>
      BY <1>28 DEF Destroy, Abort
    <2>2. CASE pc[r] \in {"parked", "sleep"}
      <3>1. Finally(r, "cancelled", intervention[r])
        BY <1>28, <2>2 DEF Destroy, Abort
      <3>2. QED
        BY <2>1, <2>2, <3>1, ExcusedFinally
    <2>3. CASE pc[r] \notin {"parked", "sleep"}
      <3>1. UNCHANGED <<pc, intervention>>
        BY <1>28, <2>3 DEF Destroy, Abort
      <3>2. QED
        BY <2>1, <3>1, TwiceSame, ExcusedKept
    <2>4. QED
      BY <2>2, <2>3
  <1>29. ASSUME Pause(r) PROVE Excused(r)'
    BY <1>29, TwiceSame, ExcusedKept DEF Pause
  <1>30. ASSUME Resume(r) PROVE Excused(r)'
    <2>1. UNCHANGED <<copy, was, inflight, intervention>>
      BY <1>30 DEF Resume
    <2>2. CASE pc[r] = "parked"
      <3>1. pc'[r] \in Body
        BY <1>30, <2>2, ProceedOne DEF Resume, Body
      <3>2. QED
        BY <2>1, <2>2, <3>1, TwiceSame, ExcusedKept DEF Body
    <2>3. CASE pc[r] # "parked"
      BY <1>30, <2>1, <2>3, TwiceSame, ExcusedKept DEF Resume
    <2>4. QED
      BY <2>2, <2>3
  <1>31. ASSUME Crash(r) PROVE Excused(r)'
    <2>1. UNCHANGED copy /\ pc'[r] \in Outside \cup {"release"}
      BY <1>31, GoMoves DEF Crash, Outside
    <2>2. QED
      BY <2>1, TwiceSame, ExcusedKept
  <1>32. QED
    BY <1>1, <1>2, <1>3, <1>4, <1>5, <1>6, <1>7, <1>8, <1>9, <1>10, <1>11, <1>12, <1>13, <1>14,
       <1>15, <1>16, <1>17, <1>18, <1>19, <1>20, <1>21, <1>22, <1>23, <1>24, <1>25, <1>26,
       <1>27, <1>28, <1>29, <1>30, <1>31
       DEF RunAction, RunStep, Setup, Loop, MoveJob, Exit, Control

------------------------------------------------------------------------------
(* The jobs a run has listed *)

\* A job that is not there yet, that a worker could take, or a run list, has not run.
Unrun ==
  /\ \A j \in Jobs : \A q \in Queues : copy[q][j] \in Listable => ranIn[j] = {}
  /\ \A j \in Jobs \ born : ranIn[j] = {}

ReadyJob(r, j) == copy[Source[r]][j] # "absent" /\ ranIn[j] = {}


\* The jobs ahead of a run are in its source and have not run.
Ready(r) == pc[r] \in Body =>
  /\ pc[r] = "list" => stateIdx[r] \in DOMAIN States
  /\ \A j \in todo[r] : ReadyJob(r, j)
  /\ pc[r] \in AtJob => ReadyJob(r, cur[r]) /\ cur[r] \notin todo[r]

\* It stays so while the run goes on with the same jobs.
LEMMA ReadyKept ==
  ASSUME NEW r \in Runs, Ready(r),
         \/ pc'[r] \notin Body
         \/ /\ UNCHANGED <<copy, ranIn, stateIdx, todo, cur>> /\ pc[r] \in Body
            /\ pc'[r] \in AtJob => pc[r] \in AtJob
            /\ pc'[r] = "list" => pc[r] = "list"
  PROVE  Ready(r)'
  BY DEF Ready, ReadyJob

\* The head of the loop takes one of them.
LEMMA ProceedReady ==
  ASSUME TypeOK, NEW r \in Runs, Ready(r), pc[r] \in Body, Proceed(r), UNCHANGED <<copy, ranIn>>
  PROVE  Ready(r)'
  <1>1. CASE LimitReached(r)
    <2>1. pc'[r] = "loop" /\ todo'[r] = {}
      BY <1>1, GoMoves DEF Proceed, TypeOK
    <2>2. QED
      BY <2>1 DEF Ready, AtJob, Transfer
  <1>2. CASE ~LimitReached(r)
    <2>1. PICK j \in todo[r] : /\ cur' = [cur EXCEPT ![r] = j]
                               /\ todo' = [todo EXCEPT ![r] = @ \ {j}]
      BY <1>2 DEF Proceed
    <2>2. pc'[r] \in {"sleep", "refresh"}
      BY <1>2, GoMoves DEF Proceed
    <2>3. cur'[r] = j /\ todo'[r] = todo[r] \ {j}
      BY <2>1 DEF TypeOK
    <2>4. \A i \in todo[r] : ReadyJob(r, i)
      BY DEF Ready
    <2>5. \A i \in todo'[r] : ReadyJob(r, i)'
      BY <2>3, <2>4 DEF ReadyJob
    <2>6. ReadyJob(r, cur[r])' /\ cur'[r] \notin todo'[r]
      BY <2>3, <2>4 DEF ReadyJob
    <2>7. QED
      BY <2>2, <2>5, <2>6 DEF Ready
  <1>3. QED
    BY <1>1, <1>2

\* A step of a run preserves it.
LEMMA ReadyNext ==
  ASSUME TypeOK, SafeInv, Unrun, <<"add", "lost">> \notin Faults, NEW r \in Runs, Ready(r), ResumesOf(r),
         RunAction(r)
  PROVE  Ready(r)'
  <1> USE DEF redisVars, setupVars, cursorVars, resultVars, exitVars, controlVars, runVars
  <1>1. ASSUME Start(r) PROVE Ready(r)'
    <2>1. pc'[r] \notin Body
      BY <1>1, GoMoves DEF Start, Body, Exits, Transfer
    <2>2. QED
      BY <2>1, ReadyKept
  <1>2. ASSUME NEW o \in Outcomes, Acquire(r, o) PROVE Ready(r)'
    <2>1. pc'[r] \notin Body
      BY <1>2, GoMoves DEF Acquire, Body, Exits, Transfer
    <2>2. QED
      BY <2>1, ReadyKept
  <1>3. ASSUME NEW side \in Sides, NEW o \in Outcomes, ReadPaused(r, side, o) PROVE Ready(r)'
    <2>1. pc[r] = "readPause" /\ (pc'[r] = pc[r] \/ pc'[r] \in Exits)
      BY <1>3, FailOne DEF ReadPaused, Answer
    <2>2. QED
      BY <2>1, ReadyKept DEF Body, Exits, Transfer
  <1>4. ASSUME IssuePauses(r) PROVE Ready(r)'
    <2>1. pc'[r] \notin Body
      BY <1>4, GoMoves DEF IssuePauses, Body, Exits, Transfer
    <2>2. QED
      BY <2>1, ReadyKept
  <1>5. ASSUME NEW side \in Sides, PauseLands(r, side) PROVE Ready(r)'
    BY <1>5, ReadyKept DEF PauseLands
  <1>6. ASSUME NEW side \in Sides, NEW o \in Outcomes, PauseRejected(r, side, o) PROVE Ready(r)'
    <2>1. pc'[r] \notin Body
      BY <1>6, FailOne, GoMoves DEF PauseRejected, Body, Exits, Transfer
    <2>2. QED
      BY <2>1, ReadyKept
  <1>7. ASSUME BothPaused(r) PROVE Ready(r)'
    <2>1. pc'[r] \notin Body
      BY <1>7, GoMoves DEF BothPaused, Body, Exits, Transfer
    <2>2. QED
      BY <2>1, ReadyKept
  <1>8. ASSUME NEW o \in Outcomes, CountActive(r, o) PROVE Ready(r)'
    <2>1. pc[r] = "countActive" /\ UNCHANGED todo
      BY <1>8 DEF CountActive, Answer
    <2>2. pc'[r] \in Exits \cup {"loop", "undoTarget", "undoSource"}
      BY <1>8, FailOne, GoMoves DEF CountActive
    <2>3. todo'[r] = {}
      BY <2>1 DEF ResumesOf, Early
    <2>4. QED
      BY <2>2, <2>3 DEF Ready, AtJob, Body, Exits, Transfer
  <1>9. ASSUME NEW o \in Outcomes, UndoTarget(r, o) PROVE Ready(r)'
    <2>1. pc'[r] \notin Body
      BY <1>9, FailOne, GoMoves DEF UndoTarget, ResumeSide, Body, Exits, Transfer
    <2>2. QED
      BY <2>1, ReadyKept
  <1>10. ASSUME NEW o \in Outcomes, UndoSource(r, o) PROVE Ready(r)'
    <2>1. pc'[r] \notin Body
      BY <1>10, FailOne, GoMoves DEF UndoSource, ResumeSide, Body, Exits, Transfer
    <2>2. QED
      BY <2>1, ReadyKept
  <1>11. ASSUME Finish(r) PROVE Ready(r)'
    <2>1. pc'[r] \notin Body
      BY <1>11, FinallyOne DEF Finish, Body, Exits, Transfer
    <2>2. QED
      BY <2>1, ReadyKept
  <1>12. ASSUME CancelSeen(r) PROVE Ready(r)'
    <2>1. pc'[r] \notin Body
      BY <1>12, FinallyOne DEF CancelSeen, Body, Exits, Transfer
    <2>2. QED
      BY <2>1, ReadyKept
  <1>13. ASSUME NextState(r) PROVE Ready(r)'
    <2>1. /\ pc'[r] = "list" /\ UNCHANGED <<copy, ranIn, todo>> /\ pc[r] = "loop"
          /\ stateIdx'[r] = stateIdx[r] + 1 /\ stateIdx[r] < Len(States)
      BY <1>13, GoMoves DEF NextState, TypeOK
    <2>2. stateIdx'[r] \in DOMAIN States
      BY <2>1, ParamsAssumption DEF TypeOK
    <2>3. QED
      BY <2>1, <2>2 DEF Ready, ReadyJob, AtJob, Body, Transfer
  <1>14. ASSUME NEW o \in Outcomes, ListJobs(r, o) PROVE Ready(r)'
    <2>1. CASE o = "ok"
      <3>1. /\ pc[r] = "list" /\ pc'[r] = "loop" /\ UNCHANGED <<copy, ranIn>>
        BY <1>14, <2>1, GoMoves DEF ListJobs, Answer
      <3>2. \A j \in todo'[r] : j \in Jobs /\ copy[Source[r]][j] = States[stateIdx[r]]
        <4>1. PICK page \in SUBSET {j \in Jobs : copy[Source[r]][j] = States[stateIdx[r]]} :
                todo' = [todo EXCEPT ![r] = page \cap Matching]
          BY <1>14, <2>1 DEF ListJobs
        <4>2. todo'[r] = page \cap Matching
          BY <4>1 DEF TypeOK
        <4>3. QED
          BY <4>1, <4>2
      <3>3. States[stateIdx[r]] \in Listable
        BY <3>1, ParamsAssumption DEF Ready, Body
      <3>4. \A j \in todo'[r] : ReadyJob(r, j)'
        BY <3>1, <3>2, <3>3, RunsAssumption DEF Unrun, ReadyJob, Listable
      <3>5. QED
        BY <3>1, <3>4 DEF Ready, AtJob, Transfer
    <2>2. CASE o # "ok"
      <3>1. pc'[r] \in Exits
        BY <1>14, <2>2, FailOne DEF ListJobs
      <3>2. QED
        BY <3>1, ReadyKept DEF Body, Exits, Transfer
    <2>3. QED
      BY <2>1, <2>2
  <1>15. ASSUME Park(r) PROVE Ready(r)'
    <2>1. /\ UNCHANGED <<copy, ranIn, stateIdx, todo, cur>> /\ pc[r] \in Body
          /\ pc'[r] \in AtJob => pc[r] \in AtJob
          /\ pc'[r] = "list" => pc[r] = "list"
      BY <1>15, GoMoves DEF Park, Answer, Body, AtJob, Transfer
    <2>2. QED
      BY <2>1, ReadyKept
  <1>16. ASSUME NextJob(r) PROVE Ready(r)'
    BY <1>16, ProceedReady DEF NextJob, Body
  <1>17. ASSUME SleepOver(r) PROVE Ready(r)'
    <2>1. /\ UNCHANGED <<copy, ranIn, stateIdx, todo, cur>> /\ pc[r] \in Body
          /\ pc'[r] \in AtJob => pc[r] \in AtJob
          /\ pc'[r] = "list" => pc[r] = "list"
      BY <1>17, GoMoves DEF SleepOver, Answer, Body, AtJob, Transfer
    <2>2. QED
      BY <2>1, ReadyKept
  <1>18. ASSUME NEW o \in Outcomes, Refresh(r, o) PROVE Ready(r)'
    <2>1. CASE Finally(r, "failed", TRUE)
      <3>1. pc'[r] \in Exits
        BY <2>1, FinallyOne
      <3>2. QED
        BY <3>1, ReadyKept DEF Body, Exits, Transfer
    <2>2. CASE ~Finally(r, "failed", TRUE)
      <3>1. /\ UNCHANGED <<copy, ranIn, stateIdx, todo, cur>> /\ pc[r] = "refresh"
            /\ pc'[r] \in {"loop", "getSource"}
        BY <1>18, <2>2, GoMoves DEF Refresh, JobFails, Answer
      <3>2. QED
        BY <3>1, ReadyKept DEF Body, AtJob
    <2>3. QED
      BY <2>1, <2>2
  <1>19. ASSUME NEW o \in Outcomes, GetSource(r, o) PROVE Ready(r)'
    <2>1. /\ UNCHANGED <<copy, ranIn, stateIdx, todo, cur>> /\ pc[r] \in Body
          /\ pc'[r] \in AtJob => pc[r] \in AtJob
          /\ pc'[r] = "list" => pc[r] = "list"
      BY <1>19, GetSourceFinds, GoMoves DEF GetSource, JobFails, Answer, Body, AtJob, Transfer
    <2>2. QED
      BY <2>1, ReadyKept
  <1>20. ASSUME NEW o \in Outcomes, GetTarget(r, o) PROVE Ready(r)'
    <2>1. /\ UNCHANGED <<copy, ranIn, stateIdx, todo, cur>> /\ pc[r] \in Body
          /\ pc'[r] \in AtJob => pc[r] \in AtJob
          /\ pc'[r] = "list" => pc[r] = "list"
      BY <1>20, GoMoves DEF GetTarget, JobStep, JobFails, Answer, Body, AtJob, Transfer
    <2>2. QED
      BY <2>1, ReadyKept
  <1>21. ASSUME NEW o \in Outcomes, Add(r, o) PROVE Ready(r)'
    <2>1. /\ pc[r] = "add" /\ pc'[r] \in {"remove", "loop"} /\ UNCHANGED <<todo, cur, ranIn>>
          /\ \A q \in Queues, j \in Jobs : copy'[q][j] # copy[q][j] => q = Target[r]
      BY <1>21, AddCopies
    <2>2. \A j \in Jobs : ReadyJob(r, j) => ReadyJob(r, j)'
      BY <2>1, RunsAssumption DEF ReadyJob
    <2>3. QED
      BY <2>1, <2>2 DEF Ready, AtJob, Body, Transfer, TypeOK
  <1>22. ASSUME NEW o \in Outcomes, Remove(r, o) PROVE Ready(r)'
    <2>1. /\ pc[r] = "remove" /\ UNCHANGED <<todo, cur, ranIn>>
          /\ \/ pc'[r] = "loop"
             \/ pc'[r] = "rollback" /\ UNCHANGED copy
          /\ \A q \in Queues, j \in Jobs : copy'[q][j] # copy[q][j] => j = cur[r]
      BY <1>22, RemoveCopies
    <2>2. \A j \in todo[r] : j \in Jobs /\ j # cur[r] /\ ReadyJob(r, j)
      BY <2>1 DEF Ready, AtJob, Body, Transfer, TypeOK
    <2>3. \A j \in todo[r] : ReadyJob(r, j)'
      BY <2>1, <2>2, RunsAssumption DEF ReadyJob
    <2>4. QED
      BY <2>1, <2>3 DEF Ready, ReadyJob, AtJob, Body, Transfer
  <1>23. ASSUME NEW o \in Outcomes, Rollback(r, o) PROVE Ready(r)'
    <2>1. /\ pc[r] = "rollback" /\ pc'[r] = "loop" /\ UNCHANGED <<todo, cur, ranIn>>
          /\ \A q \in Queues, j \in Jobs : copy'[q][j] # copy[q][j] => q = Target[r]
      BY <1>23, RollbackCopies
    <2>2. \A j \in Jobs : ReadyJob(r, j) => ReadyJob(r, j)'
      BY <2>1, RunsAssumption DEF ReadyJob
    <2>3. QED
      BY <2>1, <2>2 DEF Ready, AtJob, Body, Transfer, TypeOK
  <1>24. ASSUME NEW o \in Outcomes, RestoreTarget(r, o) PROVE Ready(r)'
    <2>1. pc'[r] \notin Body
      BY <1>24, GoMoves DEF RestoreTarget, ResumeSide, Escape, RestoreFrom, Body, Exits, Transfer
    <2>2. QED
      BY <2>1, ReadyKept
  <1>25. ASSUME NEW o \in Outcomes, RestoreSource(r, o) PROVE Ready(r)'
    <2>1. pc'[r] \notin Body
      BY <1>25, GoMoves DEF RestoreSource, ResumeSide, Escape, Body, Exits, Transfer
    <2>2. QED
      BY <2>1, ReadyKept
  <1>26. ASSUME NEW o \in Outcomes, Release(r, o) PROVE Ready(r)'
    <2>1. pc'[r] \notin Body
      BY <1>26, GoMoves DEF Release, Escape, Body, Exits, Transfer
    <2>2. QED
      BY <2>1, ReadyKept
  <1>27. ASSUME Cancel(r) PROVE Ready(r)'
    <2>1. UNCHANGED <<copy, ranIn, stateIdx, todo, cur>>
      BY <1>27 DEF Cancel, Abort
    <2>2. pc'[r] = pc[r] \/ pc'[r] \in Exits
      BY <1>27, FinallyOne DEF Cancel, Abort
    <2>3. QED
      BY <2>1, <2>2, ReadyKept DEF Body, Exits, Transfer
  <1>28. ASSUME Destroy(r) PROVE Ready(r)'
    <2>1. UNCHANGED <<copy, ranIn, stateIdx, todo, cur>>
      BY <1>28 DEF Destroy, Abort
    <2>2. pc'[r] = pc[r] \/ pc'[r] \in Exits
      BY <1>28, FinallyOne DEF Destroy, Abort
    <2>3. QED
      BY <2>1, <2>2, ReadyKept DEF Body, Exits, Transfer
  <1>29. ASSUME Pause(r) PROVE Ready(r)'
    BY <1>29, ReadyKept DEF Pause
  <1>30. ASSUME Resume(r) PROVE Ready(r)'
    <2>1. CASE pc[r] = "parked"
      BY <1>30, <2>1, ProceedReady DEF Resume, Body
    <2>2. CASE pc[r] # "parked"
      <3>1. UNCHANGED <<copy, ranIn, stateIdx, todo, cur, pc>>
        BY <1>30, <2>2 DEF Resume
      <3>2. QED
        BY <3>1, ReadyKept
    <2>3. QED
      BY <2>1, <2>2
  <1>31. ASSUME Crash(r) PROVE Ready(r)'
    <2>1. pc'[r] \notin Body
      BY <1>31, GoMoves DEF Crash, Body, Exits, Transfer
    <2>2. QED
      BY <2>1, ReadyKept
  <1>32. QED
    BY <1>1, <1>2, <1>3, <1>4, <1>5, <1>6, <1>7, <1>8, <1>9, <1>10, <1>11, <1>12, <1>13, <1>14,
       <1>15, <1>16, <1>17, <1>18, <1>19, <1>20, <1>21, <1>22, <1>23, <1>24, <1>25, <1>26,
       <1>27, <1>28, <1>29, <1>30, <1>31
       DEF RunAction, RunStep, Setup, Loop, MoveJob, Exit, Control

------------------------------------------------------------------------------
(* All runs together *)

\* A job is in one queue, or in the two queues of a run.
CopiesInPair ==
  \A j \in Jobs : \A p, q \in Queues :
    p # q /\ copy[p][j] # "absent" /\ copy[q][j] # "absent" =>
      \E r \in Runs : p \in {Source[r], Target[r]} /\ q \in {Source[r], Target[r]}

TwicePaused == \A r \in Runs : Twice(r) # {} => BothQueuesPaused(r)

HandInv ==
  /\ CopiesInPair /\ TwicePaused /\ Unrun
  /\ \A r \in Runs : Excused(r) /\ ResumesOf(r) /\ Ready(r)

\* A step of a run changes no copy of a queue that is not its own.
LEMMA CopiesApart ==
  ASSUME TypeOK, SafeInv, <<"add", "lost">> \notin Faults,
         NEW r \in Runs, NEW x \in Runs, RunAction(r), Disjoint(r, x)
  PROVE  \A q \in {Source[x], Target[x]}, j \in Jobs : copy'[q][j] = copy[q][j]
  <1>1. \A q \in {Source[x], Target[x]} : q \in Queues /\ q \notin {Source[r], Target[r]}
    BY RunsAssumption DEF Disjoint
  <1>2. QED
    BY <1>1, CopyStep

\* While a run is under way no other run changes a copy in its queues.
LEMMA RunsApart ==
  ASSUME TypeOK, SafeInv, MoveInv, OwnPairs, <<"add", "lost">> \notin Faults,
         NEW r \in Runs, NEW x \in Runs \ {r}, RunAction(r), pc[x] \notin Outside
  PROVE  \A q \in {Source[x], Target[x]}, j \in Jobs : copy'[q][j] = copy[q][j]
  <1>1. CASE Disjoint(r, x)
    BY <1>1, CopiesApart
  <1>2. CASE Source[r] = Source[x]
    <2>1. pc[r] \in Outside
      BY <1>2 DEF MoveInv, HoldsLease
    <2>2. QED
      BY <2>1, CopyStep, RunsAssumption DEF Outside, Transfer
  <1>3. QED
    BY <1>1, <1>2 DEF OwnPairs

\* So what is known of the others stays known.
LEMMA OthersKept ==
  ASSUME TypeOK, SafeInv, MoveInv, OwnPairs, <<"add", "lost">> \notin Faults,
         NEW r \in Runs, NEW x \in Runs \ {r}, RunAction(r), Excused(x), ResumesOf(x), Ready(x)
  PROVE  Excused(x)' /\ ResumesOf(x)' /\ Ready(x)'
  <1>1. SameRun(x) /\ UNCHANGED ranIn
    BY OtherRuns, CopySteps
  <1>2. todo'[x] = todo[x] /\ cur'[x] = cur[x] /\ stateIdx'[x] = stateIdx[x]
    BY OtherLists
  <1>3. ResumesOf(x)'
    BY <1>1, <1>2 DEF ResumesOf, SameRun
  <1>4. CASE pc[x] \in Outside
    BY <1>1, <1>3, <1>4 DEF SameRun, Excused, Ready, Outside, Body, Transfer
  <1>5. CASE pc[x] \notin Outside
    <2>1. \A q \in {Source[x], Target[x]}, j \in Jobs : copy'[q][j] = copy[q][j]
      BY <1>5, RunsApart
    <2>2. Twice(x)' = Twice(x)
      BY <2>1, TwiceSame
    <2>3. Excused(x)'
      BY <1>1, <1>2, <2>2 DEF Excused, SameRun
    <2>4. \A j \in Jobs : ReadyJob(x, j) => ReadyJob(x, j)'
      BY <1>1, <2>1 DEF ReadyJob
    <2>5. Ready(x)'
      BY <1>1, <1>2, <2>4 DEF Ready, SameRun, TypeOK
    <2>6. QED
      BY <1>3, <2>3, <2>5
  <1>6. QED
    BY <1>4, <1>5

\* Only the add of a run makes a copy: of a job that is in its source, and has not run.
LEMMA NewCopy ==
  ASSUME TypeOK, SafeInv, HandInv, <<"add", "lost">> \notin Faults,
         NEW r \in Runs, RunAction(r), NEW q \in Queues, NEW j \in Jobs,
         copy'[q][j] # copy[q][j], copy'[q][j] # "absent"
  PROVE  /\ q = Target[r] /\ j = cur[r] /\ pc[r] = "add" /\ UNCHANGED <<paused, ranIn>>
         /\ copy[q][j] = "absent" /\ copy[Source[r]][j] # "absent" /\ ranIn[j] = {}
         /\ \A p \in Queues, i \in Jobs : copy'[p][i] # copy[p][i] => p = q /\ i = j
  <1>1. PICK o \in Outcomes : Add(r, o) \/ Remove(r, o) \/ Rollback(r, o)
    BY CopySteps
  <1>2. Add(r, o)
    BY <1>1, RemoveCopies, RollbackCopies
  <1>3. ReadyJob(r, cur[r])
    BY <1>2, AddCopies DEF HandInv, Ready, AtJob, Body, Transfer
  <1>4. QED
    BY <1>2, <1>3, AddCopies DEF ReadyJob

\* A step of a run preserves where copies may be.
LEMMA PairsStep ==
  ASSUME TypeOK, SafeInv, HandInv, OwnPairs, <<"add", "lost">> \notin Faults,
         NEW r \in Runs, RunAction(r)
  PROVE  CopiesInPair'
  <1> SUFFICES ASSUME NEW j \in Jobs, NEW p \in Queues, NEW q \in Queues, p # q,
                      copy'[p][j] # "absent", copy'[q][j] # "absent"
               PROVE  \E x \in Runs : p \in {Source[x], Target[x]} /\ q \in {Source[x], Target[x]}
    BY DEF CopiesInPair
  <1>1. ASSUME NEW s \in Queues, NEW t \in Queues, s # t, copy[s][j] # "absent",
               copy'[t][j] # copy[t][j], copy'[t][j] # "absent"
        PROVE  s = Source[r] /\ t = Target[r]
    <2>1. t = Target[r] /\ copy[Source[r]][j] # "absent"
      BY <1>1, NewCopy
    <2>2. CASE s # Source[r]
      <3>1. PICK x \in Runs : s \in {Source[x], Target[x]} /\ Source[r] \in {Source[x], Target[x]}
        BY <1>1, <2>1, <2>2, RunsAssumption DEF HandInv, CopiesInPair
      <3>2. Source[r] = Source[x] /\ Target[r] = Target[x]
        BY <3>1 DEF OwnPairs, Disjoint
      <3>3. QED
        BY <1>1, <2>1, <2>2, <3>1, <3>2
    <2>3. QED
      BY <2>1, <2>2
  <1>2. CASE copy'[p][j] = copy[p][j] /\ copy'[q][j] = copy[q][j]
    BY <1>2 DEF HandInv, CopiesInPair
  <1>3. CASE copy'[p][j] # copy[p][j] \/ copy'[q][j] # copy[q][j]
    <2>1. copy'[p][j] = copy[p][j] \/ copy'[q][j] = copy[q][j]
      BY NewCopy
    <2>2. \/ p = Source[r] /\ q = Target[r]
          \/ q = Source[r] /\ p = Target[r]
      BY <1>1, <1>3, <2>1
    <2>3. QED
      BY <2>2
  <1>4. QED
    BY <1>2, <1>3

\* A step of a run resumes no queue of a job that is in both of its queues, and makes
\* such a job in paused queues only.
LEMMA OwnTwicePaused ==
  ASSUME TypeOK, SafeInv, MoveInv, HandInv, <<"add", "lost">> \notin Faults,
         NEW r \in Runs, RunAction(r), Twice(r)' # {}
  PROVE  BothQueuesPaused(r)'
  <1>1. Source[r] \in Queues /\ Target[r] \in Queues
    BY RunsAssumption
  <1>2. CASE Twice(r) # {}
    <2>1. BothQueuesPaused(r) /\ Excused(r) /\ ResumesOf(r)
      BY <1>2 DEF HandInv, TwicePaused
    <2>2. pc[r] \notin {"undoTarget", "undoSource", "restoreTarget", "restoreSource"}
      BY <1>2, <2>1 DEF Excused, ResumesOf, Sides, Outside, Body, Transfer
    <2>3. \A q \in Queues : paused[q] => paused'[q]
      BY <2>2, ResumeSteps
    <2>4. QED
      BY <1>1, <2>1, <2>3 DEF BothQueuesPaused
  <1>3. CASE Twice(r) = {}
    <2>1. PICK j \in Jobs : /\ copy'[Source[r]][j] # "absent" /\ copy'[Target[r]][j] # "absent"
                            /\ copy[Source[r]][j] = "absent" \/ copy[Target[r]][j] = "absent"
      BY <1>3 DEF Twice
    <2>2. pc[r] = "add" /\ UNCHANGED paused
      BY <1>1, <2>1, NewCopy
    <2>3. paused[Source[r]] /\ paused[Target[r]]
      BY <2>2 DEF MoveInv, KeepsOf, QueueOf, Sides, Body, Transfer
    <2>4. QED
      BY <2>2, <2>3 DEF BothQueuesPaused
  <1>4. QED
    BY <1>2, <1>3

\* The same for every run.
LEMMA PausedNext ==
  ASSUME TypeOK, SafeInv, MoveInv, HandInv, OwnPairs, <<"add", "lost">> \notin Faults,
         NEW r \in Runs, RunAction(r)
  PROVE  TwicePaused'
  <1> SUFFICES ASSUME NEW x \in Runs, Twice(x)' # {} PROVE BothQueuesPaused(x)'
    BY DEF TwicePaused
  <1>1. CASE Source[r] = Source[x] /\ Target[r] = Target[x]
    <2>1. Twice(r)' # {}
      BY <1>1 DEF Twice
    <2>2. QED
      BY <1>1, <2>1, OwnTwicePaused DEF BothQueuesPaused
  <1>2. CASE Disjoint(r, x)
    <2>1. \A q \in {Source[x], Target[x]}, j \in Jobs : copy'[q][j] = copy[q][j]
      BY <1>2, CopiesApart
    <2>2. paused'[Source[x]] = paused[Source[x]] /\ paused'[Target[x]] = paused[Target[x]]
      BY <1>2, PausedStep, RunsAssumption DEF Disjoint
    <2>3. Twice(x)' = Twice(x)
      BY <2>1, TwiceSame
    <2>4. QED
      BY <2>2, <2>3 DEF HandInv, TwicePaused, BothQueuesPaused
  <1>3. QED
    BY <1>1, <1>2 DEF OwnPairs

\* A step of a run preserves the invariant.
LEMMA HandRunStep ==
  ASSUME TypeOK, SafeInv, MoveInv, HandInv, OwnPairs, <<"add", "lost">> \notin Faults,
         NEW r \in Runs, RunAction(r)
  PROVE  HandInv'
  <1>1. CopiesInPair' /\ TwicePaused'
    BY PairsStep, PausedNext
  <1>2. Unrun'
    <2> SUFFICES ASSUME NEW j \in Jobs, NEW q \in Queues, copy'[q][j] \in Listable
                 PROVE  ranIn'[j] = {}
      BY CopySteps DEF HandInv, Unrun
    <2>1. CASE copy'[q][j] = copy[q][j]
      BY <2>1, CopySteps DEF HandInv, Unrun
    <2>2. CASE copy'[q][j] # copy[q][j]
      BY <2>2, NewCopy DEF Listable
    <2>3. QED
      BY <2>1, <2>2
  <1>3. Excused(r)' /\ ResumesOf(r)' /\ Ready(r)'
    <2>1. Excused(r)'
      BY ExcusedNext DEF HandInv, TwicePaused
    <2>2. ResumesOf(r)' /\ Ready(r)'
      BY ResumesOfNext, ReadyNext DEF HandInv
    <2>3. QED
      BY <2>1, <2>2
  <1>4. ASSUME NEW x \in Runs \ {r} PROVE Excused(x)' /\ ResumesOf(x)' /\ Ready(x)'
    BY OthersKept DEF HandInv
  <1>5. QED
    BY <1>1, <1>2, <1>3, <1>4 DEF HandInv

\* A worker takes a job that is in no other queue and has not run.
LEMMA FetchAlone ==
  ASSUME TypeOK, HandInv, NEW q \in Queues, NEW j \in Jobs, Fetch(q, j)
  PROVE  ranIn[j] = {} /\ \A p \in Queues \ {q} : copy[p][j] = "absent"
  <1>1. ~paused[q] /\ copy[q][j] = "waiting"
    BY DEF Fetch
  <1>2. ranIn[j] = {}
    BY <1>1 DEF HandInv, Unrun, Listable
  <1>3. ASSUME NEW p \in Queues \ {q}, copy[p][j] # "absent" PROVE FALSE
    <2>1. PICK r \in Runs : p \in {Source[r], Target[r]} /\ q \in {Source[r], Target[r]}
      BY <1>1, <1>3 DEF HandInv, CopiesInPair
    <2>2. j \in Twice(r)
      BY <1>1, <1>3, <2>1 DEF Twice
    <2>3. paused[q]
      BY <2>1, <2>2 DEF HandInv, TwicePaused, BothQueuesPaused
    <2>4. QED
      BY <1>1, <2>3
  <1>4. QED
    BY <1>2, <1>3

\* What BullMQ and the TTLs do.
LEMMA QueueSteps ==
  ASSUME TypeOK, OperatorQueues = {}, NEW q \in Queues, Queue(q)
  PROVE  \/ /\ SamePlaces /\ UNCHANGED <<ranIn, born>>
            /\ \A p \in Queues, j \in Jobs : copy'[p][j] \in Listable => copy[p][j] \in Listable
         \/ SamePlaces /\ \E j \in Jobs : Fetch(q, j)
         \/ \E j \in Jobs : Produce(q, j)
  <1>1. CASE LeaseExpires(q)
    BY <1>1 DEF LeaseExpires, SamePlaces
  <1>2. CASE OperatorToggles(q)
    BY <1>2 DEF OperatorToggles
  <1>3. ASSUME NEW j \in Jobs, Promote(q, j)
        PROVE  /\ SamePlaces /\ UNCHANGED <<ranIn, born>>
               /\ \A p \in Queues, i \in Jobs : copy'[p][i] \in Listable => copy[p][i] \in Listable
    BY <1>3 DEF Promote, SamePlaces, Listable, TypeOK
  <1>4. ASSUME NEW j \in Jobs, Complete(q, j)
        PROVE  /\ SamePlaces /\ UNCHANGED <<ranIn, born>>
               /\ \A p \in Queues, i \in Jobs : copy'[p][i] \in Listable => copy[p][i] \in Listable
    BY <1>4 DEF Complete, SamePlaces, Listable, TypeOK
  <1>5. ASSUME NEW j \in Jobs, Fetch(q, j) PROVE SamePlaces
    BY <1>5 DEF Fetch, SamePlaces, TypeOK
  <1>6. QED
    BY <1>1, <1>2, <1>3, <1>4, <1>5 DEF Queue

\* A job that is added was nowhere, and comes into one queue.
LEMMA ProduceAlone ==
  ASSUME TypeOK, SafeInv, NEW q \in Queues, NEW j \in Jobs, Produce(q, j)
  PROVE  /\ \A p \in Queues : copy[p][j] = "absent" /\ (copy'[p][j] # "absent" <=> p = q)
         /\ \A p \in Queues, i \in Jobs \ {j} : copy'[p][i] = copy[p][i]
         /\ j \notin born /\ born' = born \cup {j}
         /\ UNCHANGED <<paused, pc, runVars, ranIn>>
  <1>1. /\ j \notin born /\ born' = born \cup {j} /\ UNCHANGED <<paused, pc, runVars, ranIn>>
        /\ \E c \in {"waiting", "delayed"} : copy' = [copy EXCEPT ![q][j] = c]
    BY DEF Produce
  <1>2. \A p \in Queues : copy[p][j] = "absent"
    BY <1>1 DEF SafeInv, InPlace
  <1>3. QED
    BY <1>1, <1>2 DEF TypeOK

\* It preserves the invariant: a new job is in no pair of queues and in no run's list.
LEMMA HandProduce ==
  ASSUME TypeOK, SafeInv, HandInv, NEW q \in Queues, NEW j \in Jobs, Produce(q, j)
  PROVE  HandInv'
  <1>1. /\ \A p \in Queues : copy[p][j] = "absent" /\ (copy'[p][j] # "absent" <=> p = q)
        /\ \A p \in Queues, i \in Jobs \ {j} : copy'[p][i] = copy[p][i]
        /\ j \notin born /\ born' = born \cup {j}
        /\ UNCHANGED <<paused, pc, runVars, ranIn>>
    BY ProduceAlone
  <1>2. ASSUME NEW r \in Runs PROVE Twice(r)' = Twice(r)
    <2>1. Source[r] \in Queues /\ Target[r] \in Queues /\ Source[r] # Target[r]
      BY RunsAssumption
    <2>2. QED
      BY <1>1, <2>1 DEF Twice
  <1>3. CopiesInPair'
    BY <1>1 DEF HandInv, CopiesInPair
  <1>4. TwicePaused'
    BY <1>1, <1>2 DEF HandInv, TwicePaused, BothQueuesPaused
  <1>5. \A r \in Runs : Excused(r)' /\ ResumesOf(r)'
    BY <1>1, <1>2 DEF HandInv, Excused, ResumesOf, runVars, setupVars, cursorVars, exitVars
  <1>6. Unrun'
    BY <1>1 DEF HandInv, Unrun
  <1>7. ASSUME NEW r \in Runs PROVE Ready(r)'
    <2>1. \A i \in Jobs : ReadyJob(r, i) => ReadyJob(r, i)'
      BY <1>1, RunsAssumption DEF ReadyJob
    <2>2. QED
      BY <1>1, <2>1 DEF HandInv, Ready, runVars, cursorVars, TypeOK
  <1>8. QED
    BY <1>3, <1>4, <1>5, <1>6, <1>7 DEF HandInv

\* They preserve the invariant: a job that a run has listed is in a paused queue.
LEMMA HandQueueStep ==
  ASSUME TypeOK, SafeInv, MoveInv, HandInv, OperatorQueues = {},
         NEW q \in Queues, Queue(q), SamePlaces,
         \/ /\ UNCHANGED <<ranIn, born>>
            /\ \A p \in Queues, j \in Jobs : copy'[p][j] \in Listable => copy[p][j] \in Listable
         \/ \E j \in Jobs : Fetch(q, j)
  PROVE  HandInv'
  <1>1. UNCHANGED <<paused, pc, runVars>> /\ SamePlaces
    BY QueueKeeps
  <1>2. \A r \in Runs : Twice(r)' = Twice(r)
    BY <1>1, TwiceSame, RunsAssumption DEF SamePlaces
  <1>3. CopiesInPair' /\ TwicePaused'
    <2>1. CopiesInPair'
      BY <1>1 DEF HandInv, CopiesInPair, SamePlaces
    <2>2. TwicePaused'
      BY <1>1, <1>2 DEF HandInv, TwicePaused, BothQueuesPaused
    <2>3. QED
      BY <2>1, <2>2
  <1>4. \A r \in Runs : Excused(r)' /\ ResumesOf(r)'
    BY <1>1, <1>2 DEF HandInv, Excused, ResumesOf, runVars, setupVars, cursorVars, exitVars
  <1>5. CASE /\ UNCHANGED <<ranIn, born>>
             /\ \A p \in Queues, j \in Jobs : copy'[p][j] \in Listable => copy[p][j] \in Listable
    <2>1. Unrun'
      BY <1>5 DEF HandInv, Unrun
    <2>2. ASSUME NEW r \in Runs PROVE Ready(r)'
      <3>1. \A j \in Jobs : ReadyJob(r, j) => ReadyJob(r, j)'
        BY <1>1, <1>5, RunsAssumption DEF ReadyJob, SamePlaces
      <3>2. QED
        BY <1>1, <3>1 DEF HandInv, Ready, runVars, cursorVars, TypeOK
    <2>3. QED
      BY <1>3, <1>4, <2>1, <2>2 DEF HandInv
  <1>6. ASSUME NEW j \in Jobs, Fetch(q, j) PROVE HandInv'
    <2>1. \A p \in Queues \ {q} : copy[p][j] = "absent"
      BY <1>6, FetchAlone
    <2>2. /\ ~paused[q] /\ copy[q][j] = "waiting"
          /\ copy' = [copy EXCEPT ![q][j] = "active"] /\ ranIn' = [ranIn EXCEPT ![j] = @ \cup {q}]
          /\ UNCHANGED born
      BY <1>6 DEF Fetch
    <2>3. /\ \A i \in Jobs \ {j} : ranIn'[i] = ranIn[i] /\ \A p \in Queues : copy'[p][i] = copy[p][i]
          /\ copy'[q][j] = "active" /\ \A p \in Queues \ {q} : copy'[p][j] = copy[p][j]
      BY <2>2 DEF TypeOK
    <2>4. Unrun'
      <3>1. j \in born
        BY <2>2 DEF SafeInv, InPlace
      <3>2. QED
        BY <2>1, <2>2, <2>3, <3>1 DEF HandInv, Unrun, Listable
    <2>5. ASSUME NEW r \in Runs PROVE Ready(r)'
      <3>1. pc[r] \in Body => paused[Source[r]]
        BY DEF MoveInv, KeepsOf, QueueOf, Sides
      <3>2. pc[r] \in Body => copy[Source[r]][j] = "absent"
        BY <2>1, <2>2, <3>1, RunsAssumption
      <3>3. pc[r] \in Body => \A i \in Jobs : ReadyJob(r, i) => ReadyJob(r, i)'
        BY <2>3, <3>2, RunsAssumption DEF ReadyJob
      <3>4. QED
        BY <1>1, <3>3 DEF HandInv, Ready, runVars, cursorVars, TypeOK
    <2>6. QED
      BY <1>3, <1>4, <2>4, <2>5 DEF HandInv
  <1>7. QED
    BY <1>5, <1>6

\* Every step preserves it.
LEMMA HandNext ==
  ASSUME OperatorQueues = {}, OwnPairs, <<"add", "lost">> \notin Faults
  PROVE  TypeOK /\ SafeInv /\ MoveInv /\ HandInv /\ [Next]_vars => HandInv'
  <1> SUFFICES ASSUME TypeOK, SafeInv, MoveInv, HandInv, [Next]_vars PROVE HandInv'
    OBVIOUS
  <1>1. ASSUME NEW r \in Runs, RunAction(r) PROVE HandInv'
    BY <1>1, HandRunStep
  <1>2. ASSUME NEW q \in Queues, Queue(q) PROVE HandInv'
    BY <1>2, QueueSteps, HandQueueStep, HandProduce
  <1>3. ASSUME UNCHANGED vars PROVE HandInv'
    BY <1>3 DEF HandInv, CopiesInPair, TwicePaused, BothQueuesPaused, Unrun, Excused, ResumesOf, Ready,
                ReadyJob, Twice, vars, redisVars, runVars, setupVars, cursorVars, exitVars
  <1>4. QED
    BY <1>1, <1>2, <1>3 DEF Next, RunAction

\* Initially every job is in one queue at most and has not run.
LEMMA HandInit == Init => HandInv
  <1> SUFFICES ASSUME Init PROVE HandInv
    OBVIOUS
  <1>1. /\ \A j \in Jobs : ranIn[j] = {}
        /\ \A q \in Queues : \A j \in Jobs : copy[q][j] # "absent" => q = Home[j]
        /\ \A r \in Runs : pc[r] = "idle" /\ ~guard[r] /\ todo[r] = {}
    BY DEF Init
  <1>2. \A j \in Jobs : \A p, q \in Queues : p # q => copy[p][j] = "absent" \/ copy[q][j] = "absent"
    BY <1>1
  <1>3. CopiesInPair
    BY <1>2 DEF CopiesInPair
  <1>4. \A r \in Runs : Twice(r) = {}
    BY <1>2, RunsAssumption DEF Twice
  <1>5. TwicePaused /\ Unrun /\ \A r \in Runs : Excused(r)
    BY <1>1, <1>4 DEF TwicePaused, Unrun, Excused
  <1>6. \A r \in Runs : ResumesOf(r) /\ Ready(r)
    BY <1>1 DEF ResumesOf, Ready, Body, Transfer
  <1>7. QED
    BY <1>3, <1>5, <1>6 DEF HandInv

------------------------------------------------------------------------------
(* The theorems *)

KnownInv == TypeOK /\ SafeInv /\ MoveInv /\ HandInv

\* All the invariants together.
LEMMA KnownAlways ==
  ASSUME OperatorQueues = {}, LongWaits = {}, OwnPairs, <<"add", "lost">> \notin Faults
  PROVE  Spec => []KnownInv
  <1>1. \A r, x \in Runs : Source[r] = Source[x] \/ Disjoint(r, x)
    BY DEF OwnPairs
  <1>2. Init => KnownInv
    <2>1. Init => MoveInv
      BY DEF Init, MoveInv, HoldsLease, KeepsOf, Outside, Body, Transfer
    <2>2. QED
      BY <2>1, TypeInit, SafeInit, HandInit DEF KnownInv
  <1>3. KnownInv /\ [Next]_vars => KnownInv'
    BY <1>1, TypeNext, SafeNext, MoveNext, HandNext DEF KnownInv
  <1>4. QED
    BY <1>2, <1>3, PTL DEF Spec

\* A job that exists twice, in transit, after a crash or after a failed rollback, is in
\* paused queues only, whatever run comes next: for runs that have their pair of queues
\* to themselves or run after each other on the same pair, with no operator, no lease
\* that runs out under a run, and no add that is applied and reported as failed.
THEOREM DuplicatesPaused ==
  ASSUME OperatorQueues = {}, LongWaits = {}, OwnPairs, <<"add", "lost">> \notin Faults
  PROVE  Spec => []DuplicatesStayPaused
  <1>1. KnownInv => DuplicatesStayPaused
    <2> SUFFICES ASSUME KnownInv, NEW j \in Jobs, NEW p \in Queues, NEW q \in Queues,
                        p # q, copy[p][j] # "absent", copy[q][j] # "absent"
                 PROVE  paused[p] /\ paused[q]
      BY DEF DuplicatesStayPaused
    <2>1. PICK r \in Runs : p \in {Source[r], Target[r]} /\ q \in {Source[r], Target[r]}
      BY DEF KnownInv, HandInv, CopiesInPair
    <2>2. j \in Twice(r)
      BY <2>1 DEF Twice
    <2>3. QED
      BY <2>1, <2>2 DEF KnownInv, HandInv, TwicePaused, BothQueuesPaused
  <1>2. QED
    BY <1>1, KnownAlways, PTL

------------------------------------------------------------------------------
(* The refinement of JobHandoff *)

Hold(j) == {q \in Queues : copy[q][j] # "absent"}
Places  == [j \in Jobs |-> Hold(j)]

\* A step that changes no place.
LEMMA PlacesSame ==
  ASSUME SamePlaces
  PROVE  Places' = Places
  <1>1. \A j \in Jobs : Hold(j)' = Hold(j)
    BY DEF Hold, SamePlaces
  <1>2. QED
    BY <1>1 DEF Places

\* A step that changes the places of one job from A to B.
LEMMA PlacesMove ==
  ASSUME NEW j \in Jobs, NEW A, NEW B \in SUBSET Queues, Hold(j) = A,
         \A q \in Queues : copy'[q][j] # "absent" <=> q \in B,
         \A q \in Queues, i \in Jobs \ {j} : copy'[q][i] = copy[q][i]
  PROVE  Places[j] = A /\ Places' = [Places EXCEPT ![j] = B]
  <1>1. Hold(j)' = B
    BY DEF Hold
  <1>2. \A i \in Jobs \ {j} : Hold(i)' = Hold(i)
    BY DEF Hold
  <1>3. QED
    BY <1>1, <1>2 DEF Places

\* A job that is in the source of a run is besides at most in its target.
LEMMA HeldInPair ==
  ASSUME HandInv, OwnPairs, NEW r \in Runs, NEW j \in Jobs, copy[Source[r]][j] # "absent"
  PROVE  Hold(j) = IF copy[Target[r]][j] # "absent" THEN {Source[r], Target[r]} ELSE {Source[r]}
  <1>1. Source[r] \in Queues /\ Target[r] \in Queues
    BY RunsAssumption
  <1>2. ASSUME NEW q \in Queues, copy[q][j] # "absent", q # Source[r] PROVE q = Target[r]
    <2>1. PICK x \in Runs : q \in {Source[x], Target[x]} /\ Source[r] \in {Source[x], Target[x]}
      BY <1>1, <1>2 DEF HandInv, CopiesInPair
    <2>2. Source[r] = Source[x] /\ Target[r] = Target[x]
      BY <2>1 DEF OwnPairs, Disjoint
    <2>3. QED
      BY <1>2, <2>1, <2>2
  <1>3. QED
    BY <1>1, <1>2 DEF Hold

\* An add that changes something offers the job to the target.
LEMMA AddOffers ==
  ASSUME KnownInv, OwnPairs, <<"add", "lost">> \notin Faults,
         NEW r \in Runs, NEW o \in Outcomes, Add(r, o), ~SamePlaces
  PROVE  \E j \in Jobs : Handoff!Offer(j)
  <1>1. PICK j \in Jobs : j = cur[r]
    BY DEF KnownInv, TypeOK
  <1>2. /\ pc[r] = "add" /\ UNCHANGED ranIn
        /\ \A q \in Queues, i \in Jobs : copy'[q][i] # copy[q][i] =>
             q = Target[r] /\ i = j /\ copy[q][i] = "absent" /\ copy'[q][i] \in Listable
    BY <1>1, AddCopies DEF KnownInv
  <1>3. Source[r] \in Queues /\ Target[r] \in Queues /\ Source[r] # Target[r]
    BY RunsAssumption
  <1>4. copy[Target[r]][j] = "absent" /\ copy'[Target[r]][j] # "absent"
    BY <1>2 DEF SamePlaces, Listable
  <1>5. copy[Source[r]][j] # "absent" /\ ranIn[j] = {}
    BY <1>1, <1>2 DEF KnownInv, HandInv, Ready, ReadyJob, AtJob, Body, Transfer
  <1>6. Hold(j) = {Source[r]}
    BY <1>4, <1>5, HeldInPair DEF KnownInv
  <1>7. \A q \in Queues : copy'[q][j] # "absent" <=> q \in {Source[r], Target[r]}
    BY <1>2, <1>3, <1>4, <1>6 DEF Hold
  <1>8. \A q \in Queues, i \in Jobs \ {j} : copy'[q][i] = copy[q][i]
    BY <1>2
  <1>9. Places[j] = {Source[r]} /\ Places' = [Places EXCEPT ![j] = {Source[r], Target[r]}]
    <2>1. PICK B \in SUBSET Queues : B = {Source[r], Target[r]}
      BY <1>3
    <2>2. \A q \in Queues : copy'[q][j] # "absent" <=> q \in B
      BY <1>7, <2>1
    <2>3. Places[j] = {Source[r]} /\ Places' = [Places EXCEPT ![j] = B]
      BY <1>6, <1>8, <2>2, PlacesMove
    <2>4. QED
      BY <2>1, <2>3
  <1>10. \E q, p \in Queues :
           /\ Places[j] = {q} /\ q # p /\ ranIn[j] = {}
           /\ Places' = [Places EXCEPT ![j] = {q, p}]
           /\ UNCHANGED ranIn
    BY <1>2, <1>3, <1>5, <1>9
  <1>11. QED
    BY <1>10 DEF Handoff!Offer, Places, Hold

\* A removal that changes something settles the job, in the target when the source's copy
\* is removed and in the source when the target's is.
LEMMA RemovalSettles ==
  ASSUME KnownInv, OwnPairs, NEW r \in Runs, NEW o \in Outcomes,
         Remove(r, o) \/ Rollback(r, o), ~SamePlaces
  PROVE  \E j \in Jobs : Handoff!Settle(j)
  <1>1. PICK j \in Jobs : j = cur[r]
    BY DEF KnownInv, TypeOK
  <1>2. PICK s \in Queues, t \in Queues :
                    /\ UNCHANGED ranIn /\ pc[r] \in {"remove", "rollback"}
                    /\ (s = Source[r] /\ t = Target[r]) \/ (s = Target[r] /\ t = Source[r])
                    /\ s # t
                    /\ \A q \in Queues, i \in Jobs : copy'[q][i] # copy[q][i] =>
                         q = s /\ i = j /\ copy'[q][i] = "absent"
                    /\ pc[r] = "remove" => s = Source[r]
                    /\ pc[r] = "rollback" => s = Target[r]
    <2>1. CASE Remove(r, o)
      <3>1. /\ UNCHANGED ranIn /\ pc[r] = "remove"
            /\ \A q \in Queues, i \in Jobs : copy'[q][i] # copy[q][i] =>
                 q = Source[r] /\ i = j /\ copy'[q][i] = "absent"
        BY <1>1, <2>1, RemoveCopies DEF KnownInv
      <3>2. Source[r] \in Queues /\ Target[r] \in Queues /\ Source[r] # Target[r]
        BY RunsAssumption
      <3>3. QED
        BY <3>1, <3>2
    <2>2. CASE Rollback(r, o)
      <3>1. /\ UNCHANGED ranIn /\ pc[r] = "rollback"
            /\ \A q \in Queues, i \in Jobs : copy'[q][i] # copy[q][i] =>
                 q = Target[r] /\ i = j /\ copy'[q][i] = "absent"
        BY <1>1, <2>2, RollbackCopies DEF KnownInv
      <3>2. Source[r] \in Queues /\ Target[r] \in Queues /\ Source[r] # Target[r]
        BY RunsAssumption
      <3>3. QED
        BY <3>1, <3>2
    <2>3. QED
      BY <2>1, <2>2
  <1>3. copy[s][j] # "absent" /\ copy'[s][j] = "absent"
    BY <1>2 DEF SamePlaces
  <1>4. copy[Source[r]][j] # "absent" /\ ranIn[j] = {}
    BY <1>1, <1>2 DEF KnownInv, HandInv, Ready, ReadyJob, AtJob, Body, Transfer
  <1>5. copy[Target[r]][j] # "absent"
    BY <1>1, <1>2, <1>3 DEF KnownInv, SafeInv, TargetHas
  <1>6. Hold(j) = {s, t}
    BY <1>2, <1>4, <1>5, HeldInPair DEF KnownInv
  <1>7. \A q \in Queues : copy'[q][j] # "absent" <=> q \in {t}
    BY <1>2, <1>3, <1>6 DEF Hold
  <1>8. \A q \in Queues, i \in Jobs \ {j} : copy'[q][i] = copy[q][i]
    BY <1>2
  <1>9. Places[j] = {s, t} /\ Places' = [Places EXCEPT ![j] = {t}]
    <2>1. PICK B \in SUBSET Queues : B = {t}
      BY <1>2
    <2>2. \A q \in Queues : copy'[q][j] # "absent" <=> q \in B
      BY <1>7, <2>1
    <2>3. Places[j] = {s, t} /\ Places' = [Places EXCEPT ![j] = B]
      BY <1>6, <1>8, <2>2, PlacesMove
    <2>4. QED
      BY <2>1, <2>3
  <1>10. \E q, p \in Queues :
           /\ Places[j] = {q, p} /\ q # p /\ ranIn[j] = {}
           /\ Places' = [Places EXCEPT ![j] = {p}]
           /\ UNCHANGED ranIn
    BY <1>2, <1>4, <1>9
  <1>11. QED
    BY <1>10 DEF Handoff!Settle, Places, Hold

\* A job that an application adds is submitted.
LEMMA ProduceSubmits ==
  ASSUME KnownInv, NEW q \in Queues, NEW j \in Jobs, Produce(q, j)
  PROVE  Handoff!Submit(j)
  <1>1. /\ \A p \in Queues : copy[p][j] = "absent" /\ (copy'[p][j] # "absent" <=> p = q)
        /\ \A p \in Queues, i \in Jobs \ {j} : copy'[p][i] = copy[p][i]
        /\ j \notin born /\ UNCHANGED ranIn
    BY ProduceAlone DEF KnownInv
  <1>2. ranIn[j] = {}
    BY <1>1 DEF KnownInv, HandInv, Unrun
  <1>3. Hold(j) = {}
    BY <1>1 DEF Hold
  <1>4. PICK A \in SUBSET Queues, B \in SUBSET Queues : A = {} /\ B = {q}
    OBVIOUS
  <1>5. Places[j] = A /\ Places' = [Places EXCEPT ![j] = B]
    <2>1. \A p \in Queues : copy'[p][j] # "absent" <=> p \in B
      BY <1>1, <1>4
    <2>2. QED
      BY <1>1, <1>3, <1>4, <2>1, PlacesMove
  <1>6. QED
    BY <1>1, <1>2, <1>4, <1>5 DEF Handoff!Submit, Places, Hold

\* A worker that fetches a job gets it from the only queue that has it.
LEMMA FetchHands ==
  ASSUME KnownInv, NEW q \in Queues, NEW j \in Jobs, Fetch(q, j), SamePlaces
  PROVE  Handoff!HandToWorker(j)
  <1>1. ranIn[j] = {} /\ \A p \in Queues \ {q} : copy[p][j] = "absent"
    BY FetchAlone DEF KnownInv
  <1>2. copy[q][j] # "absent" /\ ranIn' = [ranIn EXCEPT ![j] = {q}]
    BY <1>1 DEF Fetch
  <1>3. Hold(j) = {q}
    BY <1>1, <1>2 DEF Hold
  <1>4. Places[j] = {q} /\ UNCHANGED Places
    BY <1>3, PlacesSame DEF Places
  <1>5. QED
    BY <1>1, <1>2, <1>4 DEF Handoff!HandToWorker, Places, Hold

\* Every step hands a job over, hands one to a worker, or leaves all where they are.
LEMMA StepHandsOver ==
  ASSUME OperatorQueues = {}, OwnPairs, <<"add", "lost">> \notin Faults
  PROVE  KnownInv /\ [Next]_vars => [Handoff!Next]_Handoff!vars
  <1> SUFFICES ASSUME KnownInv, [Next]_vars PROVE [Handoff!Next]_Handoff!vars
    OBVIOUS
  <1>1. ASSUME SamePlaces, UNCHANGED ranIn PROVE UNCHANGED Handoff!vars
    BY <1>1, PlacesSame DEF Handoff!vars, Places, Hold
  <1>2. ASSUME NEW r \in Runs, RunAction(r) PROVE [Handoff!Next]_Handoff!vars
    <2>1. CASE SamePlaces
      BY <1>1, <1>2, <2>1, CopySteps
    <2>2. CASE ~SamePlaces
      <3>1. PICK o \in Outcomes : Add(r, o) \/ Remove(r, o) \/ Rollback(r, o)
        BY <1>2, <2>2, CopySteps DEF SamePlaces
      <3>2. \E j \in Jobs : Handoff!Offer(j) \/ Handoff!Settle(j)
        BY <2>2, <3>1, AddOffers, RemovalSettles
      <3>3. QED
        BY <3>2 DEF Handoff!Next
    <2>3. QED
      BY <2>1, <2>2
  <1>3. ASSUME NEW q \in Queues, Queue(q) PROVE [Handoff!Next]_Handoff!vars
    <2>1. \/ SamePlaces /\ UNCHANGED ranIn
          \/ SamePlaces /\ \E j \in Jobs : Fetch(q, j)
          \/ \E j \in Jobs : Produce(q, j)
      BY <1>3, QueueSteps DEF KnownInv
    <2>2. ASSUME NEW j \in Jobs, Fetch(q, j), SamePlaces PROVE Handoff!HandToWorker(j)
      BY <2>2, FetchHands
    <2>3. ASSUME NEW j \in Jobs, Produce(q, j) PROVE Handoff!Submit(j)
      BY <2>3, ProduceSubmits
    <2>4. QED
      BY <1>1, <2>1, <2>2, <2>3 DEF Handoff!Next
  <1>4. ASSUME UNCHANGED vars PROVE UNCHANGED Handoff!vars
    BY <1>4 DEF vars, redisVars, Handoff!vars
  <1>5. QED
    BY <1>2, <1>3, <1>4 DEF Next, RunAction

\* Initially every job is in one place, or in none.
LEMMA InitHandsOver == Init => Handoff!Init
  <1> SUFFICES ASSUME Init PROVE Handoff!Init
    OBVIOUS
  <1>1. /\ ranIn = [j \in Jobs |-> {}]
        /\ \A q \in Queues : \A j \in Jobs : copy[q][j] # "absent" => q = Home[j]
    BY DEF Init
  <1>2. \A j \in Jobs : Hold(j) \in {{}} \cup {{q} : q \in Queues}
    <2> SUFFICES ASSUME NEW j \in Jobs, Hold(j) # {} PROVE \E q \in Queues : Hold(j) = {q}
      OBVIOUS
    <2>1. PICK q \in Queues : copy[q][j] # "absent"
      BY DEF Hold
    <2>2. Hold(j) = {q}
      BY <1>1, <2>1 DEF Hold
    <2>3. QED
      BY <2>2
  <1>3. Places \in [Jobs -> {{}} \cup {{q} : q \in Queues}]
    BY <1>2 DEF Places
  <1>4. QED
    BY <1>1, <1>3 DEF Handoff!Init, Places, Hold

\* Migrations implement the handover of every job, JobHandoff: a job is in two queues only
\* between an add and the removal or the rollback that follows it, or for good when both
\* of these failed or the process died; no worker gets it meanwhile, and a job that a
\* worker got is not handed over.  The conditions are those of DuplicatesPaused.
THEOREM MigrationHandsOver ==
  ASSUME OperatorQueues = {}, LongWaits = {}, OwnPairs, <<"add", "lost">> \notin Faults
  PROVE  Spec => HandsOver
  <1>1. Init => Handoff!Init
    BY InitHandsOver
  <1>2. KnownInv /\ [Next]_vars => [Handoff!Next]_Handoff!vars
    BY StepHandsOver
  <1>3. Spec => []KnownInv
    BY KnownAlways
  <1>4. QED
    BY <1>1, <1>2, <1>3, PTL DEF Spec, HandsOver, Handoff!Spec

------------------------------------------------------------------------------
(* The report of a run *)

\* An add changes nothing in a source.
LEMMA AddTargets ==
  ASSUME TypeOK, NEW r \in Runs, NEW o \in Outcomes, Add(r, o), NEW q \in Queues, q # Target[r]
  PROVE  \A j \in Jobs : copy'[q][j] = copy[q][j]
  <1>1. UNCHANGED copy \/ \E c \in Copies : copy' = [copy EXCEPT ![Target[r]][cur[r]] = c]
    BY DEF Add, Copies, Present, Listable
  <1>2. QED
    BY <1>1 DEF TypeOK

\* A step of a run takes jobs out of its own source only, when it removes the one it moved.
LEMMA SourceCopies ==
  ASSUME TypeOK, SafeInv, NEW r \in Runs, RunAction(r), NEW x \in Runs, NEW j \in Jobs,
         copy'[Source[x]][j] # copy[Source[x]][j]
  PROVE  /\ Source[x] = Source[r] /\ j = cur[r] /\ pc[r] = "remove"
         /\ copy'[Source[x]][j] = "absent"
  <1>1. Source[x] \in Queues /\ Source[x] # Target[r]
    BY RunsAssumption, NoChains
  <1>2. ASSUME NEW o \in Outcomes, Add(r, o) PROVE copy'[Source[x]][j] = copy[Source[x]][j]
    BY <1>1, <1>2, AddTargets
  <1>3. ASSUME NEW o \in Outcomes, Remove(r, o)
        PROVE  Source[x] = Source[r] /\ j = cur[r] /\ pc[r] = "remove" /\ copy'[Source[x]][j] = "absent"
    BY <1>1, <1>3, RemoveCopies
  <1>4. ASSUME NEW o \in Outcomes, Rollback(r, o) PROVE copy'[Source[x]][j] = copy[Source[x]][j]
    BY <1>1, <1>4, RollbackCopies
  <1>5. QED
    BY <1>2, <1>3, <1>4, CopySteps

\* It takes jobs out of targets only when it rolls back.
LEMMA TargetCopies ==
  ASSUME TypeOK, SafeInv, NEW r \in Runs, RunAction(r), NEW x \in Runs, NEW j \in Jobs,
         copy[Target[x]][j] # "absent", copy'[Target[x]][j] = "absent"
  PROVE  j = cur[r] /\ pc[r] = "rollback"
  <1>0. copy \in [Queues -> [Jobs -> Copies]]
    BY DEF TypeOK
  <1>1. Target[x] \in Queues /\ Target[x] # Source[r] /\ Target[r] \in Queues /\ cur[r] \in Jobs
    BY RunsAssumption, NoChains DEF TypeOK
  <1>2. ASSUME NEW o \in Outcomes, Add(r, o) PROVE FALSE
    <2>1. PICK c \in {"waiting", "delayed"} :
            UNCHANGED copy \/ copy' = [copy EXCEPT ![Target[r]][cur[r]] = c]
      BY <1>2 DEF Add
    <2>2. copy' = [copy EXCEPT ![Target[r]][cur[r]] = c] => copy'[Target[x]][j] \in {copy[Target[x]][j], c}
      BY <1>1, <1>0
    <2>3. QED
      BY <2>1, <2>2
  <1>3. ASSUME NEW o \in Outcomes, Remove(r, o) PROVE FALSE
    BY <1>1, <1>3, RemoveCopies
  <1>4. ASSUME NEW o \in Outcomes, Rollback(r, o) PROVE j = cur[r] /\ pc[r] = "rollback"
    BY <1>1, <1>4, RollbackCopies
  <1>5. QED
    BY <1>2, <1>3, <1>4, CopySteps

\* A job that is added was not there before; else it changes its state within a queue as
\* BullMQ does it, and stays in that queue.
LEMMA QueueCopies ==
  ASSUME TypeOK, NEW q \in Queues, Queue(q)
  PROVE  /\ UNCHANGED <<pc, runVars>>
         /\ \A p \in Queues, j \in Jobs :
              \/ copy'[p][j] = copy[p][j]
              \/ copy[p][j] = "absent" /\ j \notin born
              \/ <<copy[p][j], copy'[p][j]>> \in
                   {<<"delayed", "waiting">>, <<"waiting", "active">>, <<"active", "completed">>}
  <1>1. UNCHANGED <<pc, runVars>>
    BY DEF Queue, LeaseExpires, OperatorToggles, Produce, Promote, Fetch, Complete
  <1>2. \/ UNCHANGED copy
        \/ \E j \in Jobs, c \in Listable :
             copy[q][j] = "absent" /\ j \notin born /\ copy' = [copy EXCEPT ![q][j] = c]
        \/ \E j \in Jobs : \/ copy[q][j] = "delayed" /\ copy' = [copy EXCEPT ![q][j] = "waiting"]
                           \/ copy[q][j] = "waiting" /\ copy' = [copy EXCEPT ![q][j] = "active"]
                           \/ copy[q][j] = "active" /\ copy' = [copy EXCEPT ![q][j] = "completed"]
    <2>1. ASSUME NEW j \in Jobs, Produce(q, j)
          PROVE  \E c \in Listable :
                   copy[q][j] = "absent" /\ j \notin born /\ copy' = [copy EXCEPT ![q][j] = c]
      BY <2>1 DEF Produce, Held, Listable
    <2>2. QED
      BY <2>1 DEF Queue, LeaseExpires, OperatorToggles, Promote, Fetch, Complete
  <1>3. \A c, d \in Copies, j \in Jobs :
          copy[q][j] = c /\ copy' = [copy EXCEPT ![q][j] = d] =>
            \A p \in Queues, i \in Jobs :
              \/ copy'[p][i] = copy[p][i]
              \/ i = j /\ copy[p][i] = c /\ copy'[p][i] = d
    BY DEF TypeOK
  <1>4. QED
    BY <1>1, <1>2, <1>3 DEF Copies, Present, Listable

\* A job that was counted as migrated is in its target and in no source any more.
MovedInv ==
  \A r \in Runs : \A j \in moved[r] :
    /\ copy[Target[r]][j] # "absent"
    /\ \A x \in Runs : copy[Source[x]][j] = "absent"

\* Every step preserves it: sources gain no jobs, and who would take it out of the target
\* again rolls back a job that is still in a source.
LEMMA MovedNext == TypeOK /\ SafeInv /\ MovedInv /\ [Next]_vars => MovedInv'
  <1> SUFFICES ASSUME TypeOK, SafeInv, MovedInv, [Next]_vars PROVE MovedInv'
    OBVIOUS
  <1>1. \A x \in Runs : Source[x] \in Queues /\ Target[x] \in Queues /\ cur[x] \in Jobs
    BY RunsAssumption DEF TypeOK
  <1>2. \A x \in Runs : moved[x] \subseteq Jobs
    BY DEF TypeOK
  <1>3. ASSUME NEW r \in Runs, RunAction(r) PROVE MovedInv'
    <2>1. ASSUME NEW x \in Runs, NEW j \in moved[x]
          PROVE  copy'[Target[x]][j] # "absent" /\ \A y \in Runs : copy'[Source[y]][j] = "absent"
      <3>1. j \in Jobs /\ copy[Target[x]][j] # "absent" /\ \A y \in Runs : copy[Source[y]][j] = "absent"
        BY <1>2, <2>1 DEF MovedInv
      <3>2. \A y \in Runs : copy'[Source[y]][j] = "absent"
        BY <1>3, <3>1, SourceCopies
      <3>3. pc[r] = "rollback" => cur[r] # j
        BY <3>1 DEF SafeInv, SourceKeeps
      <3>4. copy'[Target[x]][j] # "absent"
        BY <1>3, <3>1, <3>3, TargetCopies
      <3>5. QED
        BY <3>2, <3>4
    <2>2. CASE UNCHANGED moved
      BY <2>1, <2>2 DEF MovedInv
    <2>3. CASE moved' # moved
      <3>1. PICK o \in Outcomes : Remove(r, o)
        <4>1. PICK o \in Outcomes : Add(r, o) \/ Remove(r, o) \/ Rollback(r, o)
          BY <1>3, <2>3, CopySteps
        <4>2. ~Add(r, o) /\ ~Rollback(r, o)
          BY <2>3 DEF Add, Rollback, JobStep, JobFails, resultVars
        <4>3. QED
          BY <4>1, <4>2
      <3>2. /\ pc[r] = "remove" /\ copy'[Source[r]][cur[r]] = "absent"
            /\ \A x \in Runs : moved'[x] = IF x = r THEN moved[r] \cup {cur[r]} ELSE moved[x]
        <4>1. moved' = [moved EXCEPT ![r] = @ \cup {cur[r]}] /\ Go(r, "loop")
          BY <2>3, <3>1 DEF Remove
        <4>2. pc'[r] = "loop"
          BY <4>1, GoMoves
        <4>3. QED
          BY <3>1, <4>1, <4>2, RemoveCopies DEF TypeOK
      <3>3. copy[Source[r]][cur[r]] # "absent" /\ copy[Target[r]][cur[r]] # "absent"
        BY <3>2 DEF SafeInv, SourceKeeps, TargetHas
      <3>4. copy'[Target[r]][cur[r]] # "absent"
        BY <1>1, <1>3, <3>2, <3>3, TargetCopies
      <3>5. ASSUME NEW y \in Runs PROVE copy'[Source[y]][cur[r]] = "absent"
        <4>1. Source[y] = Source[r] \/ copy[Source[y]][cur[r]] = "absent"
          BY <1>1, <3>3 DEF SafeInv, OneSource
        <4>2. QED
          BY <1>1, <1>3, <3>2, <4>1, SourceCopies
      <3>6. QED
        BY <2>1, <3>2, <3>4, <3>5 DEF MovedInv
    <2>4. QED
      BY <2>2, <2>3
  <1>4. ASSUME NEW q \in Queues, Queue(q) PROVE MovedInv'
    <2>1. UNCHANGED moved
      BY <1>4, QueueCopies DEF runVars, resultVars
    <2>2. \A j \in born : \A p \in Queues :
            copy'[p][j] = "absent" <=> copy[p][j] = "absent"
      BY <1>4, QueueCopies DEF TypeOK
    <2>3. \A r \in Runs : moved[r] \subseteq born
      BY <1>1, <1>2 DEF MovedInv, SafeInv, InPlace
    <2>4. QED
      BY <1>1, <2>1, <2>2, <2>3 DEF MovedInv
  <1>5. ASSUME UNCHANGED vars PROVE MovedInv'
    BY <1>5 DEF MovedInv, vars, redisVars, runVars, resultVars
  <1>6. QED
    BY <1>3, <1>4, <1>5 DEF Next, RunAction

Restores == {"restoreTarget", "restoreSource", "release"}

\* The states the run has yet to list, and whether listing one finds a job that is in
\* state c now: a delayed job becomes a waiting one when it is due.
Ahead(r) == {k \in DOMAIN States : IF pc[r] = "list" THEN k >= stateIdx[r] ELSE k > stateIdx[r]}
Finds(k, c) == States[k] = c \/ (c = "delayed" /\ States[k] = "waiting")

\* params.states names no state twice, and does not list waiting jobs after delayed ones.
\* The default, waiting and then delayed, is of this kind.
ListedOnce == \A i, k \in DOMAIN States : i < k => ~Finds(k, States[i])

\* The job is in the source, and the run will not list it any more.
Past(r, j) ==
  copy[Source[r]][j] # "absent" /\ \A k \in Ahead(r) : ~Finds(k, copy[Source[r]][j])

\* The jobs a run has reported, has listed and is at are different ones, and it has seen
\* the last of each.
ErrorsOf(r) ==
  /\ pc[r] = "list" => stateIdx[r] \in DOMAIN States
  /\ pc[r] \in Early => errors[r] = {} /\ todo[r] = {}
  /\ pc[r] \in Body \cup Restores => \A j \in errors[r] : Past(r, j)
  /\ pc[r] \in Body => \A j \in todo[r] : j \notin errors[r] /\ Past(r, j)
  /\ pc[r] \in AtJob => cur[r] \notin errors[r] \cup todo[r] /\ Past(r, cur[r])

\* What the run knows of its jobs stays as long as nobody removes one of them.
LEMMA ErrorsKept ==
  ASSUME TypeOK, NEW r \in Runs, ErrorsOf(r),
         \A j \in Jobs : copy'[Source[r]][j] = copy[Source[r]][j],
         errors'[r] = errors[r], todo'[r] = todo[r], cur'[r] = cur[r], stateIdx'[r] = stateIdx[r],
         \/ pc'[r] = pc[r]
         \/ pc'[r] \in {"ended", "crashed"}
         \/ pc[r] \in Body \cup Early \cup Restores /\ pc'[r] \in Restores
         \/ pc[r] \in Early /\ pc'[r] \in Early \cup {"loop"}
         \/ pc[r] \in Body /\ pc'[r] \in Body \ {"list"} /\ (pc'[r] \in AtJob => pc[r] \in AtJob)
  PROVE  ErrorsOf(r)'
  <1>1. ASSUME pc'[r] = "list" => pc[r] = "list", NEW j \in Jobs, Past(r, j) PROVE Past(r, j)'
    BY <1>1 DEF Past, Ahead, TypeOK
  <1>2. errors[r] \subseteq Jobs /\ todo[r] \subseteq Jobs /\ cur[r] \in Jobs
    BY DEF TypeOK
  <1>3. CASE pc'[r] = pc[r]
    BY <1>1, <1>2, <1>3 DEF ErrorsOf
  <1>4. CASE pc'[r] \in {"ended", "crashed"}
    BY <1>4 DEF ErrorsOf, Early, Body, Restores, AtJob, Transfer
  <1>5. CASE pc[r] \in Body \cup Early \cup Restores /\ pc'[r] \in Restores
    <2>1. \A j \in errors[r] : Past(r, j)
      BY <1>5 DEF ErrorsOf
    <2>2. pc'[r] \notin Early \cup Body \cup AtJob \cup {"list"}
      BY <1>5 DEF Early, Body, Restores, AtJob, Transfer
    <2>3. QED
      BY <1>1, <1>2, <2>1, <2>2 DEF ErrorsOf
  <1>6. CASE pc[r] \in Early /\ pc'[r] \in Early \cup {"loop"}
    BY <1>6 DEF ErrorsOf, Early, Body, AtJob, Transfer
  <1>7. CASE pc[r] \in Body /\ pc'[r] \in Body \ {"list"} /\ (pc'[r] \in AtJob => pc[r] \in AtJob)
    <2>1. pc'[r] \notin Early
      BY <1>7 DEF Early, Body, Transfer
    <2>2. QED
      BY <1>1, <1>2, <1>7, <2>1 DEF ErrorsOf
  <1>8. QED
    BY <1>3, <1>4, <1>5, <1>6, <1>7

\* The inner catch block reports the job the run is at.
LEMMA ErrorsReported ==
  ASSUME TypeOK, NEW r \in Runs, ErrorsOf(r), pc[r] \in AtJob, NEW needsHuman, JobFails(r, needsHuman),
         \A j \in Jobs : copy'[Source[r]][j] = copy[Source[r]][j], UNCHANGED cursorVars
  PROVE  ErrorsOf(r)'
  <1>1. pc'[r] = "loop" /\ errors'[r] \subseteq errors[r] \cup {cur[r]}
    BY GoMoves DEF JobFails, TypeOK
  <1>2. errors[r] \subseteq Jobs /\ todo[r] \subseteq Jobs /\ cur[r] \in Jobs
    BY DEF TypeOK
  <1>3. pc[r] # "list" /\ pc[r] \in Body
    BY DEF AtJob, Body, Transfer
  <1>4. ASSUME NEW j \in Jobs, Past(r, j) PROVE Past(r, j)'
    BY <1>1, <1>3, <1>4 DEF Past, Ahead, cursorVars
  <1>5. /\ \A j \in errors[r] \cup todo[r] \cup {cur[r]} : Past(r, j)
        /\ \A j \in todo[r] : j \notin errors[r] /\ j # cur[r]
    BY <1>3 DEF ErrorsOf
  <1>6. /\ \A j \in errors'[r] : Past(r, j)'
        /\ \A j \in todo[r] : j \notin errors'[r] /\ Past(r, j)'
    BY <1>1, <1>2, <1>4, <1>5
  <1>7. QED
    BY <1>1, <1>6 DEF ErrorsOf, Early, Body, AtJob, Transfer, cursorVars

\* The head of the loop takes a listed job, or drops them at the limit.
LEMMA ErrorsProceed ==
  ASSUME TypeOK, NEW r \in Runs, ErrorsOf(r), pc[r] \in Body \ {"list"}, Proceed(r),
         UNCHANGED <<copy, errors, stateIdx>>
  PROVE  ErrorsOf(r)'
  <1>1. \A j \in Jobs : Past(r, j) => Past(r, j)' \/ pc'[r] = "list"
    BY DEF Past, Ahead
  <1>2. errors[r] \subseteq Jobs /\ todo[r] \subseteq Jobs
    BY DEF TypeOK
  <1>3. CASE LimitReached(r)
    <2>1. pc'[r] = "loop" /\ todo'[r] = {}
      BY <1>3, GoMoves DEF Proceed, TypeOK
    <2>2. QED
      BY <1>1, <1>2, <2>1 DEF ErrorsOf, Early, AtJob, Transfer
  <1>4. CASE ~LimitReached(r)
    <2>1. PICK j \in todo[r] : /\ cur' = [cur EXCEPT ![r] = j]
                               /\ todo' = [todo EXCEPT ![r] = @ \ {j}]
      BY <1>4 DEF Proceed
    <2>2. cur'[r] = j /\ todo'[r] = todo[r] \ {j}
      BY <2>1 DEF TypeOK
    <2>3. pc'[r] \in {"sleep", "refresh"}
      BY <1>4, GoMoves DEF Proceed
    <2>4. /\ \A i \in errors[r] : Past(r, i)
          /\ \A i \in todo[r] : i \notin errors[r] /\ Past(r, i)
      BY DEF ErrorsOf
    <2>5. /\ \A i \in errors[r] : Past(r, i)'
          /\ \A i \in todo[r] : Past(r, i)'
      BY <1>1, <1>2, <2>3, <2>4
    <2>6. QED
      BY <2>2, <2>3, <2>4, <2>5 DEF ErrorsOf, Early
  <1>5. QED
    BY <1>3, <1>4

\* A step of the run preserves what it knows of its jobs.
LEMMA ErrorsOfNext ==
  ASSUME ListedOnce, TypeOK, SafeInv, NEW r \in Runs, ErrorsOf(r), RunAction(r)
  PROVE  ErrorsOf(r)'
  <1> USE DEF redisVars, setupVars, cursorVars, resultVars, exitVars, controlVars, runVars
  <1>1. ASSUME Start(r) PROVE ErrorsOf(r)'
    <2>1. UNCHANGED <<copy, errors, todo, cur, stateIdx>> /\ pc[r] = "idle" /\ pc'[r] = "acquire"
      BY <1>1, GoMoves DEF Start
    <2>2. QED
      BY <2>1, ErrorsKept DEF Early, Body, Restores, Exits, AtJob, Transfer
  <1>2. ASSUME NEW o \in Outcomes, Acquire(r, o) PROVE ErrorsOf(r)'
    <2>1. UNCHANGED <<copy, errors, todo, cur, stateIdx>> /\ pc[r] = "acquire" /\ pc'[r] \in {"readPause", "ended"}
      BY <1>2, GoMoves DEF Acquire, Answer
    <2>2. QED
      BY <2>1, ErrorsKept DEF Early, Body, Restores, Exits, AtJob, Transfer
  <1>3. ASSUME NEW side \in Sides, NEW o \in Outcomes, ReadPaused(r, side, o) PROVE ErrorsOf(r)'
    <2>1. UNCHANGED <<copy, errors, todo, cur, stateIdx>> /\ pc[r] = "readPause" /\ pc'[r] \in {pc[r]} \cup Exits
      BY <1>3, FailOne DEF ReadPaused, Answer
    <2>2. QED
      BY <2>1, ErrorsKept DEF Early, Body, Restores, Exits, AtJob, Transfer
  <1>4. ASSUME IssuePauses(r) PROVE ErrorsOf(r)'
    <2>1. UNCHANGED <<copy, errors, todo, cur, stateIdx>> /\ pc[r] = "readPause" /\ pc'[r] = "pause"
      BY <1>4, GoMoves DEF IssuePauses
    <2>2. QED
      BY <2>1, ErrorsKept DEF Early, Body, Restores, Exits, AtJob, Transfer
  <1>5. ASSUME NEW side \in Sides, PauseLands(r, side) PROVE ErrorsOf(r)'
    <2>1. UNCHANGED <<copy, errors, todo, cur, stateIdx>> /\ UNCHANGED pc
      BY <1>5 DEF PauseLands
    <2>2. QED
      BY <2>1, ErrorsKept DEF Early, Body, Restores, Exits, AtJob, Transfer
  <1>6. ASSUME NEW side \in Sides, NEW o \in Outcomes, PauseRejected(r, side, o) PROVE ErrorsOf(r)'
    <2>1. UNCHANGED <<copy, errors, todo, cur, stateIdx>> /\ pc[r] = "pause" /\ pc'[r] \in Exits
      BY <1>6, FailOne DEF PauseRejected, Answer
    <2>2. QED
      BY <2>1, ErrorsKept DEF Early, Body, Restores, Exits, AtJob, Transfer
  <1>7. ASSUME BothPaused(r) PROVE ErrorsOf(r)'
    <2>1. UNCHANGED <<copy, errors, todo, cur, stateIdx>> /\ pc[r] = "pause" /\ pc'[r] = "countActive"
      BY <1>7, GoMoves DEF BothPaused
    <2>2. QED
      BY <2>1, ErrorsKept DEF Early, Body, Restores, Exits, AtJob, Transfer
  <1>8. ASSUME NEW o \in Outcomes, CountActive(r, o) PROVE ErrorsOf(r)'
    <2>1. UNCHANGED <<copy, errors, todo, cur, stateIdx>> /\ pc[r] = "countActive"
      BY <1>8 DEF CountActive, Answer
    <2>2. pc'[r] \in Exits \cup {"loop", "undoTarget", "undoSource"}
      BY <1>8, FailOne, GoMoves DEF CountActive
    <2>3. QED
      BY <2>1, <2>2, ErrorsKept DEF Early, Body, Restores, Exits, AtJob, Transfer
  <1>9. ASSUME NEW o \in Outcomes, UndoTarget(r, o) PROVE ErrorsOf(r)'
    <2>1. /\ UNCHANGED <<copy, errors, todo, cur, stateIdx>>
          /\ pc[r] = "undoTarget"
          /\ pc'[r] \in {"undoSource"} \cup Exits
      BY <1>9, GoMoves, FailOne DEF UndoTarget, ResumeSide, Answer
    <2>2. QED
      BY <2>1, ErrorsKept DEF Early, Body, Restores, Exits, AtJob, Transfer
  <1>10. ASSUME NEW o \in Outcomes, UndoSource(r, o) PROVE ErrorsOf(r)'
    <2>1. UNCHANGED <<copy, errors, todo, cur, stateIdx>> /\ pc[r] = "undoSource" /\ pc'[r] \in Exits
      BY <1>10, FailOne DEF UndoSource, ResumeSide, Answer
    <2>2. QED
      BY <2>1, ErrorsKept DEF Early, Body, Restores, Exits, AtJob, Transfer
  <1>11. ASSUME Finish(r) PROVE ErrorsOf(r)'
    <2>1. UNCHANGED <<copy, errors, todo, cur, stateIdx>> /\ pc[r] = "loop" /\ pc'[r] \in Exits
      BY <1>11, FinallyOne DEF Finish
    <2>2. QED
      BY <2>1, ErrorsKept DEF Early, Body, Restores, Exits, AtJob, Transfer
  <1>12. ASSUME CancelSeen(r) PROVE ErrorsOf(r)'
    <2>1. UNCHANGED <<copy, errors, todo, cur, stateIdx>> /\ pc[r] = "loop" /\ pc'[r] \in Exits
      BY <1>12, FinallyOne DEF CancelSeen
    <2>2. QED
      BY <2>1, ErrorsKept DEF Early, Body, Restores, Exits, AtJob, Transfer
  <1>13. ASSUME NextState(r) PROVE ErrorsOf(r)'
    <2>1. /\ UNCHANGED <<copy, errors, todo>> /\ pc[r] = "loop" /\ pc'[r] = "list" /\ todo[r] = {}
          /\ stateIdx'[r] = stateIdx[r] + 1 /\ stateIdx[r] \in Nat
      BY <1>13, GoMoves DEF NextState, TypeOK
    <2>2. \A j \in errors[r] : Past(r, j)
      BY <2>1 DEF ErrorsOf, Body
    <2>3. Ahead(r)' = Ahead(r) /\ stateIdx'[r] \in DOMAIN States
      BY <1>13, <2>1, ParamsAssumption DEF Ahead, NextState
    <2>4. \A j \in errors[r] : Past(r, j)'
      BY <2>1, <2>2, <2>3 DEF Past
    <2>5. QED
      BY <2>1, <2>3, <2>4 DEF ErrorsOf, Early, AtJob, Transfer
  <1>14. ASSUME NEW o \in Outcomes, ListJobs(r, o) PROVE ErrorsOf(r)'
    <2>1. UNCHANGED <<copy, errors, cur, stateIdx>> /\ pc[r] = "list" /\ stateIdx[r] \in DOMAIN States
      BY <1>14 DEF ListJobs, Answer, ErrorsOf
    <2>2. \A j \in errors[r] : Past(r, j)
      BY <2>1 DEF ErrorsOf, Body
    <2>3. CASE o = "ok"
      <3>1. pc'[r] = "loop" /\ \A j \in todo'[r] : j \in Jobs /\ copy[Source[r]][j] = States[stateIdx[r]]
        <4>1. PICK page \in SUBSET {j \in Jobs : copy[Source[r]][j] = States[stateIdx[r]]} :
                todo' = [todo EXCEPT ![r] = page \cap Matching]
          BY <1>14, <2>3 DEF ListJobs
        <4>2. todo'[r] = page \cap Matching /\ pc'[r] = "loop"
          BY <1>14, <2>3, <4>1, GoMoves DEF ListJobs, TypeOK
        <4>3. QED
          BY <4>1, <4>2
      <3>2. stateIdx[r] \in Ahead(r)
        BY <2>1 DEF Ahead, TypeOK
      <3>3. Ahead(r)' = {k \in DOMAIN States : stateIdx[r] < k}
        BY <2>1, <3>1 DEF Ahead, TypeOK
      <3>4. \A j \in errors[r] : Past(r, j)' /\ copy[Source[r]][j] # States[stateIdx[r]]
        BY <2>1, <2>2, <3>2, <3>3 DEF Past, Finds, Ahead, TypeOK
      <3>5. States[stateIdx[r]] # "absent"
        BY <2>1, ParamsAssumption DEF Listable
      <3>6. \A j \in todo'[r] : Past(r, j)'
        BY <2>1, <3>1, <3>3, <3>5 DEF Past, ListedOnce
      <3>7. QED
        BY <2>1, <3>1, <3>4, <3>6 DEF ErrorsOf, Early, AtJob, Transfer
    <2>4. CASE o # "ok"
      <3>1. pc'[r] \in Exits /\ UNCHANGED todo
        BY <1>14, <2>4, FailOne DEF ListJobs
      <3>2. QED
        BY <2>1, <3>1, ErrorsKept DEF Early, Body, Restores, Exits, AtJob, Transfer
    <2>5. QED
      BY <2>3, <2>4
  <1>15. ASSUME Park(r) PROVE ErrorsOf(r)'
    <2>1. UNCHANGED <<copy, errors, todo, cur, stateIdx>> /\ pc[r] = "loop" /\ pc'[r] = "parked"
      BY <1>15, GoMoves DEF Park
    <2>2. QED
      BY <2>1, ErrorsKept DEF Early, Body, Restores, Exits, AtJob, Transfer
  <1>16. ASSUME NextJob(r) PROVE ErrorsOf(r)'
    BY <1>16, ErrorsProceed DEF NextJob, Body
  <1>17. ASSUME SleepOver(r) PROVE ErrorsOf(r)'
    <2>1. UNCHANGED <<copy, errors, todo, cur, stateIdx>> /\ pc[r] = "sleep" /\ pc'[r] = "refresh"
      BY <1>17, GoMoves DEF SleepOver
    <2>2. QED
      BY <2>1, ErrorsKept DEF Early, Body, Restores, Exits, AtJob, Transfer
  <1>18. ASSUME NEW o \in Outcomes, Refresh(r, o) PROVE ErrorsOf(r)'
    <2>1. UNCHANGED <<copy, cursorVars>> /\ pc[r] = "refresh"
      BY <1>18 DEF Refresh, Answer
    <2>2. CASE JobFails(r, r \notin Background)
      BY <2>1, <2>2, ErrorsReported DEF AtJob
    <2>3. CASE ~JobFails(r, r \notin Background)
      <3>1. UNCHANGED errors /\ pc'[r] \in {"getSource"} \cup Exits
        BY <1>18, <2>3, FinallyOne, GoMoves DEF Refresh
      <3>2. QED
        BY <2>1, <3>1, ErrorsKept DEF Early, Body, Restores, Exits, AtJob, Transfer
    <2>4. QED
      BY <2>2, <2>3
  <1>19. ASSUME NEW o \in Outcomes, GetSource(r, o) PROVE ErrorsOf(r)'
    <2>1. UNCHANGED cursorVars /\ pc[r] = "getSource"
      BY <1>19, GetSourceFinds DEF GetSource, Answer
    <2>2. \A j \in Jobs : copy'[Source[r]][j] = copy[Source[r]][j]
      BY <1>19 DEF GetSource
    <2>3. CASE JobFails(r, FALSE)
      BY <2>1, <2>2, <2>3, ErrorsReported DEF AtJob, Transfer
    <2>4. CASE ~JobFails(r, FALSE)
      <3>1. UNCHANGED errors /\ pc'[r] = "getTarget"
        BY <1>19, <2>4, GetSourceFinds, GoMoves
      <3>2. QED
        BY <2>1, <2>2, <3>1, ErrorsKept DEF Early, Body, Restores, Exits, AtJob, Transfer
    <2>5. QED
      BY <2>3, <2>4
  <1>20. ASSUME NEW o \in Outcomes, GetTarget(r, o) PROVE ErrorsOf(r)'
    <2>1. UNCHANGED cursorVars /\ pc[r] = "getTarget"
      BY <1>20 DEF GetTarget, Answer, JobStep
    <2>2. \A j \in Jobs : copy'[Source[r]][j] = copy[Source[r]][j]
      BY <1>20 DEF GetTarget
    <2>3. CASE JobFails(r, FALSE)
      BY <2>1, <2>2, <2>3, ErrorsReported DEF AtJob, Transfer
    <2>4. CASE ~JobFails(r, FALSE)
      <3>1. UNCHANGED errors /\ pc'[r] = "add"
        BY <1>20, <2>4, GoMoves DEF GetTarget, JobStep
      <3>2. QED
        BY <2>1, <2>2, <3>1, ErrorsKept DEF Early, Body, Restores, Exits, AtJob, Transfer
    <2>5. QED
      BY <2>3, <2>4
  <1>21. ASSUME NEW o \in Outcomes, Add(r, o) PROVE ErrorsOf(r)'
    <2>1. UNCHANGED cursorVars /\ pc[r] = "add"
      BY <1>21 DEF Add, Answer, JobStep
    <2>2. \A j \in Jobs : copy'[Source[r]][j] = copy[Source[r]][j]
      BY <1>21, AddTargets, RunsAssumption
    <2>3. CASE JobFails(r, FALSE)
      BY <2>1, <2>2, <2>3, ErrorsReported DEF AtJob, Transfer
    <2>4. CASE ~JobFails(r, FALSE)
      <3>1. UNCHANGED errors /\ pc'[r] = "remove"
        BY <1>21, <2>4, GoMoves DEF Add, JobStep
      <3>2. QED
        BY <2>1, <2>2, <3>1, ErrorsKept DEF Early, Body, Restores, Exits, AtJob, Transfer
    <2>5. QED
      BY <2>3, <2>4
  <1>22. ASSUME NEW o \in Outcomes, Remove(r, o) PROVE ErrorsOf(r)'
    <2>1. /\ pc[r] = "remove" /\ pc'[r] \in {"loop", "rollback"}
          /\ UNCHANGED <<errors, todo, cur, stateIdx>>
          /\ \A j \in Jobs : copy'[Source[r]][j] # copy[Source[r]][j] => pc'[r] = "loop" /\ j = cur[r]
      BY <1>22, RemoveCopies, RunsAssumption DEF Remove
    <2>2. CASE pc'[r] = "rollback"
      BY <2>1, <2>2, ErrorsKept DEF Early, Body, Restores, Exits, AtJob, Transfer
    <2>3. CASE pc'[r] = "loop"
      <3>1. ASSUME NEW j \in Jobs, j # cur[r], Past(r, j) PROVE Past(r, j)'
        BY <2>1, <2>3, <3>1 DEF Past, Ahead
      <3>2. /\ \A j \in errors[r] \cup todo[r] : j \in Jobs /\ j # cur[r] /\ Past(r, j)
            /\ \A j \in todo[r] : j \notin errors[r]
        BY <2>1 DEF ErrorsOf, AtJob, Body, Transfer, TypeOK
      <3>3. \A j \in errors[r] \cup todo[r] : Past(r, j)'
        BY <3>1, <3>2
      <3>4. QED
        BY <2>1, <2>3, <3>2, <3>3 DEF ErrorsOf, Early, AtJob, Transfer
    <2>4. QED
      BY <2>1, <2>2, <2>3
  <1>23. ASSUME NEW o \in Outcomes, Rollback(r, o) PROVE ErrorsOf(r)'
    <2>1. UNCHANGED cursorVars /\ pc[r] = "rollback" /\ \E needsHuman : JobFails(r, needsHuman)
      BY <1>23 DEF Rollback, Answer
    <2>2. \A j \in Jobs : copy'[Source[r]][j] = copy[Source[r]][j]
      BY <1>23, RollbackCopies, RunsAssumption
    <2>3. QED
      BY <2>1, <2>2, ErrorsReported DEF AtJob, Transfer
  <1>24. ASSUME NEW o \in Outcomes, RestoreTarget(r, o) PROVE ErrorsOf(r)'
    <2>1. UNCHANGED <<copy, errors, todo, cur, stateIdx>> /\ pc[r] = "restoreTarget" /\ pc'[r] \in Exits
      BY <1>24, GoMoves DEF RestoreTarget, RestoreFrom, ResumeSide, Escape, Answer, Exits
    <2>2. QED
      BY <2>1, ErrorsKept DEF Early, Body, Restores, Exits, AtJob, Transfer
  <1>25. ASSUME NEW o \in Outcomes, RestoreSource(r, o) PROVE ErrorsOf(r)'
    <2>1. UNCHANGED <<copy, errors, todo, cur, stateIdx>> /\ pc[r] = "restoreSource" /\ pc'[r] \in Exits
      BY <1>25, GoMoves DEF RestoreSource, ResumeSide, Escape, Answer, Exits
    <2>2. QED
      BY <2>1, ErrorsKept DEF Early, Body, Restores, Exits, AtJob, Transfer
  <1>26. ASSUME NEW o \in Outcomes, Release(r, o) PROVE ErrorsOf(r)'
    <2>1. UNCHANGED <<copy, errors, todo, cur, stateIdx>> /\ pc'[r] = "ended"
      BY <1>26, GoMoves DEF Release, Escape
    <2>2. QED
      BY <2>1, ErrorsKept DEF Early, Body, Restores, Exits, AtJob, Transfer
  <1>27. ASSUME Cancel(r) PROVE ErrorsOf(r)'
    <2>1. UNCHANGED <<copy, errors, todo, cur, stateIdx>>
      BY <1>27 DEF Cancel, Abort
    <2>2. pc'[r] = pc[r] \/ (pc[r] \in {"parked", "sleep"} /\ pc'[r] \in Exits)
      BY <1>27, FinallyOne DEF Cancel, Abort
    <2>3. QED
      BY <2>1, <2>2, ErrorsKept DEF Early, Body, Restores, Exits, AtJob, Transfer
  <1>28. ASSUME Destroy(r) PROVE ErrorsOf(r)'
    <2>1. UNCHANGED <<copy, errors, todo, cur, stateIdx>>
      BY <1>28 DEF Destroy, Abort
    <2>2. pc'[r] = pc[r] \/ (pc[r] \in {"parked", "sleep"} /\ pc'[r] \in Exits)
      BY <1>28, FinallyOne DEF Destroy, Abort
    <2>3. QED
      BY <2>1, <2>2, ErrorsKept DEF Early, Body, Restores, Exits, AtJob, Transfer
  <1>29. ASSUME Pause(r) PROVE ErrorsOf(r)'
    <2>1. UNCHANGED <<copy, errors, todo, cur, stateIdx>> /\ UNCHANGED pc
      BY <1>29 DEF Pause
    <2>2. QED
      BY <2>1, ErrorsKept DEF Early, Body, Restores, Exits, AtJob, Transfer
  <1>30. ASSUME Resume(r) PROVE ErrorsOf(r)'
    <2>1. CASE pc[r] = "parked"
      BY <1>30, <2>1, ErrorsProceed DEF Resume, Body
    <2>2. CASE pc[r] # "parked"
      <3>1. UNCHANGED <<copy, errors, todo, cur, stateIdx, pc>>
        BY <1>30, <2>2 DEF Resume
      <3>2. QED
        BY <3>1, ErrorsKept
    <2>3. QED
      BY <2>1, <2>2
  <1>31. ASSUME Crash(r) PROVE ErrorsOf(r)'
    <2>1. UNCHANGED <<copy, errors, todo, cur, stateIdx>> /\ pc'[r] = "crashed"
      BY <1>31, GoMoves DEF Crash
    <2>2. QED
      BY <2>1, ErrorsKept DEF Early, Body, Restores, Exits, AtJob, Transfer
  <1>32. QED
    BY <1>1, <1>2, <1>3, <1>4, <1>5, <1>6, <1>7, <1>8, <1>9, <1>10, <1>11, <1>12, <1>13, <1>14,
       <1>15, <1>16, <1>17, <1>18, <1>19, <1>20, <1>21, <1>22, <1>23, <1>24, <1>25, <1>26,
       <1>27, <1>28, <1>29, <1>30, <1>31
       DEF RunAction, RunStep, Setup, Loop, MoveJob, Exit, Control


\* Other runs and queues take no job of the run away: it holds the lease of its source,
\* or nobody else has that source.
Alone == LongWaits = {} \/ \A r, x \in Runs : r # x => Source[r] # Source[x]

HeldInv == LongWaits = {} => \A r \in Runs : HoldsLease(r)

ReportInv == \A r \in Runs : ErrorsOf(r)

\* Every step preserves it.
LEMMA ReportNext ==
  ASSUME ListedOnce, Alone
  PROVE  TypeOK /\ SafeInv /\ HeldInv /\ ReportInv /\ [Next]_vars => ReportInv'
  <1> SUFFICES ASSUME TypeOK, SafeInv, HeldInv, [Next]_vars, NEW r \in Runs, ErrorsOf(r)
               PROVE  ErrorsOf(r)'
    BY DEF ReportInv
  <1>1. ASSUME NEW x \in Runs, RunAction(x) PROVE ErrorsOf(r)'
    <2>1. CASE x = r
      BY <1>1, <2>1, ErrorsOfNext
    <2>2. CASE x # r
      <3>1. /\ SameRun(r) /\ todo'[r] = todo[r] /\ cur'[r] = cur[r]
            /\ stateIdx'[r] = stateIdx[r] /\ errors'[r] = errors[r]
        BY <1>1, <2>2, OtherRuns, OtherLists
      <3>2. CASE pc[r] \in Outside
        BY <3>1, <3>2 DEF SameRun, ErrorsOf, Outside, Early, Body, Restores, AtJob, Transfer
      <3>3. CASE pc[r] \notin Outside
        <4>1. ASSUME NEW j \in Jobs PROVE copy'[Source[r]][j] = copy[Source[r]][j]
          <5>1. CASE LongWaits = {}
            <6>1. lease[Source[r]] = r
              BY <3>3, <5>1 DEF HeldInv, HoldsLease
            <6>2. pc[x] = "remove" => lease[Source[x]] = x
              BY DEF SafeInv, LeaseHeld, Transfer
            <6>3. QED
              BY <1>1, <2>2, <6>1, <6>2, SourceCopies
          <5>2. CASE Source[r] # Source[x]
            BY <1>1, <5>2, SourceCopies
          <5>3. QED
            BY <2>2, <5>1, <5>2 DEF Alone
        <4>2. QED
          BY <3>1, <4>1, ErrorsKept DEF SameRun
      <3>4. QED
        BY <3>2, <3>3
    <2>3. QED
      BY <2>1, <2>2
  <1>2. ASSUME NEW q \in Queues, Queue(q) PROVE ErrorsOf(r)'
    <2>1. UNCHANGED <<pc, errors, todo, cur, stateIdx>>
      BY <1>2, QueueCopies DEF runVars, resultVars, cursorVars
    <2>2. ASSUME NEW j \in Jobs, Past(r, j) PROVE Past(r, j)'
      <3>1. \/ copy'[Source[r]][j] = copy[Source[r]][j]
            \/ <<copy[Source[r]][j], copy'[Source[r]][j]>> \in
                 {<<"delayed", "waiting">>, <<"waiting", "active">>, <<"active", "completed">>}
        BY <1>2, <2>2, QueueCopies, RunsAssumption DEF Past
      <3>2. \A k \in DOMAIN States : States[k] \in Listable
        BY ParamsAssumption
      <3>3. Ahead(r)' = Ahead(r) /\ Ahead(r) \subseteq DOMAIN States
        BY <2>1 DEF Ahead
      <3>4. \A k \in Ahead(r) : ~Finds(k, copy[Source[r]][j]) => ~Finds(k, copy'[Source[r]][j])
        BY <3>1, <3>2, <3>3 DEF Finds, Listable
      <3>5. QED
        BY <2>2, <3>1, <3>3, <3>4 DEF Past
    <2>3. errors[r] \subseteq Jobs /\ todo[r] \subseteq Jobs /\ cur[r] \in Jobs
      BY DEF TypeOK
    <2>4. QED
      BY <2>1, <2>2, <2>3 DEF ErrorsOf
  <1>3. ASSUME UNCHANGED vars PROVE ErrorsOf(r)'
    BY <1>3, ErrorsKept DEF vars, redisVars, runVars, resultVars, cursorVars
  <1>4. QED
    BY <1>1, <1>2, <1>3 DEF Next, RunAction

\* Whatever becomes of a run, a job it counted as migrated is in its target and in no
\* source of a run: nothing a later failure, crash or run does takes the job back.  It is
\* DistinctArrivals that keeps another run with the same id from rolling the copy back.
THEOREM MigratedStays == Spec => []MovedInv
  <1>1. Init => MovedInv
    BY DEF Init, MovedInv
  <1>2. QED
    BY <1>1, TypeInit, SafeInit, TypeNext, SafeNext, MovedNext, PTL DEF Spec

\* The report of a completed run is true of the queues: what it counted has moved, what it
\* reported with an error is still in the source.  No lease runs out under a run, or no two
\* runs have the same source; params.states is one that lists no job twice; and by
\* DistinctArrivals no add is ignored for a job of another run with the same id.
THEOREM ReportIsTrue ==
  ASSUME ListedOnce, Alone
  PROVE  Spec => []ReportMatchesQueues
  <1>1. Init => HeldInv /\ MovedInv /\ ReportInv
    BY DEF Init, HeldInv, HoldsLease, Outside, MovedInv, ReportInv, ErrorsOf, Body, Restores, AtJob, Transfer
  <1>2. TypeOK /\ HeldInv /\ [Next]_vars => HeldInv'
    BY LeasesNext DEF HeldInv
  <1>3. MovedInv /\ ReportInv => ReportMatchesQueues
    BY DEF MovedInv, ReportInv, ErrorsOf, Past, Restores, ReportMatchesQueues
  <1>4. QED
    BY <1>1, <1>2, <1>3, TypeInit, SafeInit, TypeNext, SafeNext, MovedNext, ReportNext, PTL DEF Spec

================================================================================
