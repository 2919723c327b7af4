-------------------------- MODULE MigrationRunProofs --------------------------
(***************************************************************************)
(* Proofs about a single run of Migration: what its controls do to its     *)
(* status, that it respects its limit, and, on conditions about who else   *)
(* uses its queues, that they stay paused while it moves jobs and are      *)
(* given back as found.  Other runs matter only through the pause flags    *)
(* and the lease, which is what OtherRuns says.  The conditions of         *)
(* SafeMigration are not used here.                                        *)
(***************************************************************************)
EXTENDS MigrationProofs, FiniteSetTheorems

RunAction(r) == RunStep(r) \/ Control(r) \/ Crash(r)

\* The state of run x is as before.
SameRun(x) ==
  /\ pc'[x] = pc[x] /\ was'[x] = was[x] /\ inflight'[x] = inflight[x] /\ guard'[x] = guard[x]
  /\ processed'[x] = processed[x] /\ moved'[x] = moved[x] /\ intervention'[x] = intervention[x]
  /\ status'[x] = status[x] /\ isPaused'[x] = isPaused[x] /\ aborted'[x] = aborted[x]

\* A run that is in its catch and finally blocks.
Exits == {"restoreTarget", "restoreSource", "release", "ended"}

\* The catch and finally blocks change one run.
LEMMA FinallyOne ==
  ASSUME TypeOK, NEW r \in Runs, NEW outcome, NEW needsHuman, Finally(r, outcome, needsHuman)
  PROVE  /\ pc'[r] \in Exits /\ status'[r] = outcome /\ intervention'[r] = needsHuman
         /\ \A x \in Runs \ {r} :
              pc'[x] = pc[x] /\ status'[x] = status[x] /\ intervention'[x] = intervention[x]
  BY DEF TypeOK, Finally, RestoreFrom, Go, Exits

\* The same of an error that ends the run.
LEMMA FailOne ==
  ASSUME TypeOK, NEW r \in Runs, Fail(r)
  PROVE  /\ pc'[r] \in Exits /\ status'[r] = "failed" /\ intervention'[r] = intervention[r]
         /\ \A x \in Runs \ {r} :
              pc'[x] = pc[x] /\ status'[x] = status[x] /\ intervention'[x] = intervention[x]
  BY FinallyOne DEF Fail

\* The inner catch block changes one run, which goes on.
LEMMA JobFailsOne ==
  ASSUME TypeOK, NEW r \in Runs, NEW needsHuman, JobFails(r, needsHuman)
  PROVE  /\ pc'[r] = "loop" /\ UNCHANGED <<moved, status>>
         /\ \A x \in Runs \ {r} : pc'[x] = pc[x] /\ intervention'[x] = intervention[x]
  BY GoMoves DEF TypeOK, JobFails

\* The head of the job loop goes to the next job, or back to the loop at the limit.
LEMMA ProceedOne ==
  ASSUME TypeOK, NEW r \in Runs, Proceed(r)
  PROVE  /\ pc'[r] \in {"loop", "sleep", "refresh"}
         /\ pc'[r] # "loop" => ~LimitReached(r)
         /\ \A x \in Runs \ {r} : pc'[x] = pc[x]
  <1>1. pc \in [Runs -> Points]
    BY DEF TypeOK
  <1>2. CASE LimitReached(r)
    BY <1>1, <1>2 DEF Proceed, Go
  <1>3. CASE ~LimitReached(r)
    BY <1>1, <1>3 DEF Proceed, Go
  <1>4. QED
    BY <1>2, <1>3

\* A step of one run leaves the others as they are.
LEMMA OtherRuns ==
  ASSUME TypeOK, NEW r \in Runs, RunAction(r)
  PROVE  \A x \in Runs \ {r} : SameRun(x)
  <1> USE DEF TypeOK, SameRun, redisVars, setupVars, cursorVars, resultVars, exitVars, controlVars, runVars
  <1>1. ASSUME Start(r) PROVE \A x \in Runs \ {r} : SameRun(x)
    BY <1>1, GoMoves DEF Start
  <1>2. ASSUME NEW o \in Outcomes, Acquire(r, o) PROVE \A x \in Runs \ {r} : SameRun(x)
    BY <1>2, GoMoves DEF Acquire
  <1>3. ASSUME NEW side \in Sides, NEW o \in Outcomes, ReadPaused(r, side, o) PROVE \A x \in Runs \ {r} : SameRun(x)
    BY <1>3, FailOne DEF ReadPaused
  <1>4. ASSUME IssuePauses(r) PROVE \A x \in Runs \ {r} : SameRun(x)
    BY <1>4, GoMoves DEF IssuePauses
  <1>5. ASSUME NEW side \in Sides, PauseLands(r, side) PROVE \A x \in Runs \ {r} : SameRun(x)
    BY <1>5 DEF PauseLands
  <1>6. ASSUME NEW side \in Sides, NEW o \in Outcomes, PauseRejected(r, side, o)
        PROVE  \A x \in Runs \ {r} : SameRun(x)
    BY <1>6, FailOne DEF PauseRejected
  <1>7. ASSUME BothPaused(r) PROVE \A x \in Runs \ {r} : SameRun(x)
    BY <1>7, GoMoves DEF BothPaused
  <1>8. ASSUME NEW o \in Outcomes, CountActive(r, o) PROVE \A x \in Runs \ {r} : SameRun(x)
    BY <1>8, GoMoves, FailOne, SMTT(90) DEF CountActive
  <1>9. ASSUME NEW o \in Outcomes, UndoTarget(r, o) PROVE \A x \in Runs \ {r} : SameRun(x)
    BY <1>9, GoMoves, FailOne, SMTT(90) DEF UndoTarget, ResumeSide
  <1>10. ASSUME NEW o \in Outcomes, UndoSource(r, o) PROVE \A x \in Runs \ {r} : SameRun(x)
    BY <1>10, FailOne DEF UndoSource, ResumeSide
  <1>11. ASSUME Finish(r) PROVE \A x \in Runs \ {r} : SameRun(x)
    BY <1>11, FinallyOne DEF Finish
  <1>12. ASSUME CancelSeen(r) PROVE \A x \in Runs \ {r} : SameRun(x)
    BY <1>12, FinallyOne DEF CancelSeen
  <1>13. ASSUME NextState(r) PROVE \A x \in Runs \ {r} : SameRun(x)
    BY <1>13, GoMoves DEF NextState
  <1>14. ASSUME NEW o \in Outcomes, ListJobs(r, o) PROVE \A x \in Runs \ {r} : SameRun(x)
    BY <1>14, GoMoves, FailOne DEF ListJobs
  <1>15. ASSUME Park(r) PROVE \A x \in Runs \ {r} : SameRun(x)
    BY <1>15, GoMoves DEF Park
  <1>16. ASSUME NextJob(r) PROVE \A x \in Runs \ {r} : SameRun(x)
    BY <1>16, ProceedOne DEF NextJob
  <1>17. ASSUME SleepOver(r) PROVE \A x \in Runs \ {r} : SameRun(x)
    BY <1>17, GoMoves DEF SleepOver
  <1>18. ASSUME NEW o \in Outcomes, Refresh(r, o) PROVE \A x \in Runs \ {r} : SameRun(x)
    BY <1>18, GoMoves, FinallyOne, JobFailsOne, ZenonT(60) DEF Refresh
  <1>19. ASSUME NEW o \in Outcomes, GetSource(r, o) PROVE \A x \in Runs \ {r} : SameRun(x)
    BY <1>19, GoMoves, JobFailsOne DEF GetSource, JobStep
  <1>20. ASSUME NEW o \in Outcomes, GetTarget(r, o) PROVE \A x \in Runs \ {r} : SameRun(x)
    BY <1>20, GoMoves, JobFailsOne DEF GetTarget, JobStep
  <1>21. ASSUME NEW o \in Outcomes, Add(r, o) PROVE \A x \in Runs \ {r} : SameRun(x)
    BY <1>21, GoMoves, JobFailsOne DEF Add, JobStep
  <1>22. ASSUME NEW o \in Outcomes, Remove(r, o) PROVE \A x \in Runs \ {r} : SameRun(x)
    BY <1>22, GoMoves, SMTT(90) DEF Remove
  <1>23. ASSUME NEW o \in Outcomes, Rollback(r, o) PROVE \A x \in Runs \ {r} : SameRun(x)
    BY <1>23, JobFailsOne DEF Rollback
  <1>24. ASSUME NEW o \in Outcomes, RestoreTarget(r, o) PROVE \A x \in Runs \ {r} : SameRun(x)
    BY <1>24, GoMoves DEF RestoreTarget, ResumeSide, Escape
  <1>25. ASSUME NEW o \in Outcomes, RestoreSource(r, o) PROVE \A x \in Runs \ {r} : SameRun(x)
    BY <1>25, GoMoves DEF RestoreSource, ResumeSide, Escape
  <1>26. ASSUME NEW o \in Outcomes, Release(r, o) PROVE \A x \in Runs \ {r} : SameRun(x)
    BY <1>26, GoMoves DEF Release, Escape
  <1>27. ASSUME Cancel(r) PROVE \A x \in Runs \ {r} : SameRun(x)
    BY <1>27, FinallyOne DEF Cancel, Abort
  <1>28. ASSUME Destroy(r) PROVE \A x \in Runs \ {r} : SameRun(x)
    BY <1>28, FinallyOne DEF Destroy, Abort
  <1>29. ASSUME Pause(r) PROVE \A x \in Runs \ {r} : SameRun(x)
    BY <1>29 DEF Pause
  <1>30. ASSUME Resume(r) PROVE \A x \in Runs \ {r} : SameRun(x)
    BY <1>30, ProceedOne DEF Resume
  <1>31. ASSUME Crash(r) PROVE \A x \in Runs \ {r} : SameRun(x)
    BY <1>31, GoMoves DEF Crash
  <1>32. QED
    BY <1>1, <1>2, <1>3, <1>4, <1>5, <1>6, <1>7, <1>8, <1>9, <1>10, <1>11, <1>12, <1>13, <1>14,
       <1>15, <1>16, <1>17, <1>18, <1>19, <1>20, <1>21, <1>22, <1>23, <1>24, <1>25, <1>26,
       <1>27, <1>28, <1>29, <1>30, <1>31
       DEF RunAction, RunStep, Setup, Loop, MoveJob, Exit, Control

------------------------------------------------------------------------------
(* The controls of a run *)

\* While a run is under way its status and its flag agree, and it waits for a
\* resume only if it is paused and not aborted.
ControlOf(r) ==
  /\ pc[r] = "idle" => status[r] = "pending" /\ ~isPaused[r]
  /\ pc[r] \notin Exits \cup {"idle", "crashed"} =>
       status[r] \in {"running", "paused"} /\ (isPaused[r] <=> status[r] = "paused")
  /\ pc[r] = "parked" => isPaused[r] /\ ~aborted[r]

\* A step into the catch and finally blocks, and one that goes on with the status
\* as it is, preserve it.
LEMMA ControlKept ==
  ASSUME NEW r \in Runs, ControlOf(r),
         \/ pc'[r] \in Exits
         \/ /\ pc[r] \notin Exits \cup {"idle", "crashed"} /\ pc'[r] \notin {"idle", "parked"}
            /\ UNCHANGED <<status, isPaused, aborted>>
  PROVE  ControlOf(r)'
  BY DEF ControlOf, Exits

\* A step of a run preserves what is known of its controls.
LEMMA ControlOfNext ==
  ASSUME TypeOK, NEW r \in Runs, ControlOf(r), RunAction(r)
  PROVE  ControlOf(r)'
  <1> USE DEF TypeOK, ControlOf, Exits, redisVars, setupVars, cursorVars, resultVars, exitVars,
              controlVars, runVars
  <1>1. ASSUME Start(r) PROVE ControlOf(r)'
    BY <1>1, GoMoves DEF Start
  <1>2. ASSUME NEW o \in Outcomes, Acquire(r, o) PROVE ControlOf(r)'
    <2>1. \/ pc'[r] \in Exits
          \/ /\ pc[r] \notin Exits \cup {"idle", "crashed"} /\ pc'[r] \notin {"idle", "parked"}
             /\ UNCHANGED <<status, isPaused, aborted>>
      BY <1>2, GoMoves DEF Acquire, Answer
    <2>2. QED
      BY <2>1, ControlKept
  <1>3. ASSUME NEW side \in Sides, NEW o \in Outcomes, ReadPaused(r, side, o) PROVE ControlOf(r)'
    BY <1>3, FailOne DEF ReadPaused
  <1>4. ASSUME IssuePauses(r) PROVE ControlOf(r)'
    BY <1>4, GoMoves DEF IssuePauses
  <1>5. ASSUME NEW side \in Sides, PauseLands(r, side) PROVE ControlOf(r)'
    BY <1>5 DEF PauseLands
  <1>6. ASSUME NEW side \in Sides, NEW o \in Outcomes, PauseRejected(r, side, o) PROVE ControlOf(r)'
    BY <1>6, FailOne DEF PauseRejected
  <1>7. ASSUME BothPaused(r) PROVE ControlOf(r)'
    BY <1>7, GoMoves DEF BothPaused
  <1>8. ASSUME NEW o \in Outcomes, CountActive(r, o) PROVE ControlOf(r)'
    <2>1. \/ pc'[r] \in Exits
          \/ /\ pc[r] \notin Exits \cup {"idle", "crashed"} /\ pc'[r] \notin {"idle", "parked"}
             /\ UNCHANGED <<status, isPaused, aborted>>
      BY <1>8, GoMoves, FailOne, SMTT(90) DEF CountActive, Answer
    <2>2. QED
      BY <2>1, ControlKept
  <1>9. ASSUME NEW o \in Outcomes, UndoTarget(r, o) PROVE ControlOf(r)'
    <2>1. \/ pc'[r] \in Exits
          \/ /\ pc[r] \notin Exits \cup {"idle", "crashed"} /\ pc'[r] \notin {"idle", "parked"}
             /\ UNCHANGED <<status, isPaused, aborted>>
      BY <1>9, GoMoves, FailOne, SMTT(90) DEF UndoTarget, ResumeSide, Answer
    <2>2. QED
      BY <2>1, ControlKept
  <1>10. ASSUME NEW o \in Outcomes, UndoSource(r, o) PROVE ControlOf(r)'
    BY <1>10, FailOne DEF UndoSource, ResumeSide
  <1>11. ASSUME Finish(r) PROVE ControlOf(r)'
    BY <1>11, FinallyOne DEF Finish
  <1>12. ASSUME CancelSeen(r) PROVE ControlOf(r)'
    BY <1>12, FinallyOne DEF CancelSeen
  <1>13. ASSUME NextState(r) PROVE ControlOf(r)'
    BY <1>13, GoMoves DEF NextState
  <1>14. ASSUME NEW o \in Outcomes, ListJobs(r, o) PROVE ControlOf(r)'
    <2>1. \/ pc'[r] \in Exits
          \/ /\ pc[r] \notin Exits \cup {"idle", "crashed"} /\ pc'[r] \notin {"idle", "parked"}
             /\ UNCHANGED <<status, isPaused, aborted>>
      BY <1>14, GoMoves, FailOne, SMTT(90) DEF ListJobs, Answer
    <2>2. QED
      BY <2>1, ControlKept
  <1>15. ASSUME Park(r) PROVE ControlOf(r)'
    BY <1>15, GoMoves DEF Park
  <1>16. ASSUME NextJob(r) PROVE ControlOf(r)'
    BY <1>16, ProceedOne DEF NextJob
  <1>17. ASSUME SleepOver(r) PROVE ControlOf(r)'
    BY <1>17, GoMoves DEF SleepOver
  <1>18. ASSUME NEW o \in Outcomes, Refresh(r, o) PROVE ControlOf(r)'
    <2>1. CASE Finally(r, "failed", TRUE)
      BY <2>1, FinallyOne, ControlKept
    <2>2. CASE ~Finally(r, "failed", TRUE)
      <3>1. /\ pc[r] = "refresh" /\ pc'[r] \in {"loop", "getSource"}
            /\ UNCHANGED <<status, isPaused, aborted>>
        BY <1>18, <2>2, GoMoves DEF Refresh, JobFails, Answer
      <3>2. QED
        BY <3>1, ControlKept
    <2>3. QED
      BY <2>1, <2>2
  <1>19. ASSUME NEW o \in Outcomes, GetSource(r, o) PROVE ControlOf(r)'
    <2>1. \/ pc'[r] \in Exits
          \/ /\ pc[r] \notin Exits \cup {"idle", "crashed"} /\ pc'[r] \notin {"idle", "parked"}
             /\ UNCHANGED <<status, isPaused, aborted>>
      BY <1>19, GoMoves DEF GetSource, JobStep, JobFails, Answer
    <2>2. QED
      BY <2>1, ControlKept
  <1>20. ASSUME NEW o \in Outcomes, GetTarget(r, o) PROVE ControlOf(r)'
    <2>1. \/ pc'[r] \in Exits
          \/ /\ pc[r] \notin Exits \cup {"idle", "crashed"} /\ pc'[r] \notin {"idle", "parked"}
             /\ UNCHANGED <<status, isPaused, aborted>>
      BY <1>20, GoMoves DEF GetTarget, JobStep, JobFails, Answer
    <2>2. QED
      BY <2>1, ControlKept
  <1>21. ASSUME NEW o \in Outcomes, Add(r, o) PROVE ControlOf(r)'
    <2>1. \/ pc'[r] \in Exits
          \/ /\ pc[r] \notin Exits \cup {"idle", "crashed"} /\ pc'[r] \notin {"idle", "parked"}
             /\ UNCHANGED <<status, isPaused, aborted>>
      BY <1>21, GoMoves DEF Add, JobStep, JobFails, Answer
    <2>2. QED
      BY <2>1, ControlKept
  <1>22. ASSUME NEW o \in Outcomes, Remove(r, o) PROVE ControlOf(r)'
    <2>1. \/ pc'[r] \in Exits
          \/ /\ pc[r] \notin Exits \cup {"idle", "crashed"} /\ pc'[r] \notin {"idle", "parked"}
             /\ UNCHANGED <<status, isPaused, aborted>>
      BY <1>22, GoMoves DEF Remove, Answer
    <2>2. QED
      BY <2>1, ControlKept
  <1>23. ASSUME NEW o \in Outcomes, Rollback(r, o) PROVE ControlOf(r)'
    <2>1. \/ pc'[r] \in Exits
          \/ /\ pc[r] \notin Exits \cup {"idle", "crashed"} /\ pc'[r] \notin {"idle", "parked"}
             /\ UNCHANGED <<status, isPaused, aborted>>
      BY <1>23, GoMoves DEF Rollback, JobFails, Answer
    <2>2. QED
      BY <2>1, ControlKept
  <1>24. ASSUME NEW o \in Outcomes, RestoreTarget(r, o) PROVE ControlOf(r)'
    <2>1. \/ pc'[r] \in Exits
          \/ /\ pc[r] \notin Exits \cup {"idle", "crashed"} /\ pc'[r] \notin {"idle", "parked"}
             /\ UNCHANGED <<status, isPaused, aborted>>
      BY <1>24, GoMoves DEF RestoreTarget, ResumeSide, Escape, RestoreFrom, Answer
    <2>2. QED
      BY <2>1, ControlKept
  <1>25. ASSUME NEW o \in Outcomes, RestoreSource(r, o) PROVE ControlOf(r)'
    BY <1>25, GoMoves DEF RestoreSource, ResumeSide, Escape
  <1>26. ASSUME NEW o \in Outcomes, Release(r, o) PROVE ControlOf(r)'
    BY <1>26, GoMoves DEF Release, Escape
  <1>27. ASSUME Cancel(r) PROVE ControlOf(r)'
    BY <1>27, FinallyOne DEF Cancel, Abort
  <1>28. ASSUME Destroy(r) PROVE ControlOf(r)'
    BY <1>28, FinallyOne DEF Destroy, Abort
  <1>29. ASSUME Pause(r) PROVE ControlOf(r)'
    BY <1>29 DEF Pause
  <1>30. ASSUME Resume(r) PROVE ControlOf(r)'
    BY <1>30, ProceedOne DEF Resume
  <1>31. ASSUME Crash(r) PROVE ControlOf(r)'
    BY <1>31, GoMoves DEF Crash
  <1>32. QED
    BY <1>1, <1>2, <1>3, <1>4, <1>5, <1>6, <1>7, <1>8, <1>9, <1>10, <1>11, <1>12, <1>13, <1>14,
       <1>15, <1>16, <1>17, <1>18, <1>19, <1>20, <1>21, <1>22, <1>23, <1>24, <1>25, <1>26,
       <1>27, <1>28, <1>29, <1>30, <1>31
       DEF RunAction, RunStep, Setup, Loop, MoveJob, Exit, Control

ControlInv == \A r \in Runs : ControlOf(r)

\* Every step preserves ControlInv.
LEMMA ControlNext == TypeOK /\ ControlInv /\ [Next]_vars => ControlInv'
  <1> SUFFICES ASSUME TypeOK, ControlInv, [Next]_vars PROVE ControlInv'
    OBVIOUS
  <1>1. ASSUME NEW r \in Runs, RunAction(r) PROVE ControlInv'
    <2>1. ControlOf(r)'
      BY <1>1, ControlOfNext DEF ControlInv
    <2>2. \A x \in Runs \ {r} : ControlOf(x)'
      BY <1>1, OtherRuns DEF SameRun, ControlInv, ControlOf, LimitReached
    <2>3. QED
      BY <2>1, <2>2 DEF ControlInv
  <1>2. ASSUME NEW q \in Queues, Queue(q) PROVE UNCHANGED <<pc, runVars>>
    BY <1>2 DEF Queue, LeaseExpires, OperatorToggles, Produce, Promote, Fetch, Complete
  <1>3. ASSUME UNCHANGED <<pc, runVars>> PROVE ControlInv'
    BY <1>3 DEF ControlInv, ControlOf, LimitReached, setupVars, cursorVars, resultVars, exitVars, controlVars, runVars
  <1>4. QED
    BY <1>1, <1>2, <1>3 DEF Next, RunAction, vars

\* It holds in every reachable state.
THEOREM ControlAlways == Spec => []ControlInv
  <1>1. Init => ControlInv
    BY DEF Init, ControlInv, ControlOf, Exits
  <1>2. QED
    BY <1>1, TypeInit, TypeNext, ControlNext, PTL DEF Spec

\* No run waits for a resume that resumeMigration and cancelMigration would refuse, in
\* whatever order pauses, resumes, cancellations and the shutdown arrive.
THEOREM WaitingIsResumable == Spec => []ParkedCanBeResumed
  <1>1. ControlInv => ParkedCanBeResumed
    BY DEF ControlInv, ControlOf, ParkedCanBeResumed, Exits
  <1>2. QED
    BY <1>1, ControlAlways, PTL

\* A step of a background run leaves its final status alone.
LEMMA StatusStep ==
  ASSUME TypeOK, NEW r \in Background, ControlOf(r), RunAction(r), status[r] \in Terminal
  PROVE  status'[r] = status[r]
  <1> USE RunsAssumption DEF TypeOK, ControlOf, Exits, Terminal, redisVars, setupVars, cursorVars, resultVars,
              exitVars, controlVars, runVars
  <1>1. ASSUME Start(r) PROVE status'[r] = status[r]
    BY <1>1 DEF Start, Answer
  <1>2. ASSUME NEW o \in Outcomes, Acquire(r, o) PROVE status'[r] = status[r]
    BY <1>2 DEF Acquire, Answer
  <1>3. ASSUME NEW side \in Sides, NEW o \in Outcomes, ReadPaused(r, side, o) PROVE status'[r] = status[r]
    BY <1>3 DEF ReadPaused, Answer
  <1>4. ASSUME IssuePauses(r) PROVE status'[r] = status[r]
    BY <1>4 DEF IssuePauses, Answer
  <1>5. ASSUME NEW side \in Sides, PauseLands(r, side) PROVE status'[r] = status[r]
    BY <1>5 DEF PauseLands, Answer
  <1>6. ASSUME NEW side \in Sides, NEW o \in Outcomes, PauseRejected(r, side, o) PROVE status'[r] = status[r]
    BY <1>6 DEF PauseRejected, Answer
  <1>7. ASSUME BothPaused(r) PROVE status'[r] = status[r]
    BY <1>7 DEF BothPaused, Answer
  <1>8. ASSUME NEW o \in Outcomes, CountActive(r, o) PROVE status'[r] = status[r]
    BY <1>8 DEF CountActive, Answer
  <1>9. ASSUME NEW o \in Outcomes, UndoTarget(r, o) PROVE status'[r] = status[r]
    BY <1>9 DEF UndoTarget, ResumeSide, Answer
  <1>10. ASSUME NEW o \in Outcomes, UndoSource(r, o) PROVE status'[r] = status[r]
    BY <1>10 DEF UndoSource, ResumeSide, Answer
  <1>11. ASSUME Finish(r) PROVE status'[r] = status[r]
    BY <1>11 DEF Finish, Answer
  <1>12. ASSUME CancelSeen(r) PROVE status'[r] = status[r]
    BY <1>12 DEF CancelSeen, Answer
  <1>13. ASSUME NextState(r) PROVE status'[r] = status[r]
    BY <1>13 DEF NextState, Answer
  <1>14. ASSUME NEW o \in Outcomes, ListJobs(r, o) PROVE status'[r] = status[r]
    BY <1>14 DEF ListJobs, Answer
  <1>15. ASSUME Park(r) PROVE status'[r] = status[r]
    BY <1>15 DEF Park, Answer
  <1>16. ASSUME NextJob(r) PROVE status'[r] = status[r]
    BY <1>16 DEF NextJob, Answer
  <1>17. ASSUME SleepOver(r) PROVE status'[r] = status[r]
    BY <1>17 DEF SleepOver, Answer
  <1>18. ASSUME NEW o \in Outcomes, Refresh(r, o) PROVE status'[r] = status[r]
    BY <1>18 DEF Refresh, Answer, JobFails
  <1>19. ASSUME NEW o \in Outcomes, GetSource(r, o) PROVE status'[r] = status[r]
    BY <1>19 DEF GetSource, JobStep, Answer, JobFails
  <1>20. ASSUME NEW o \in Outcomes, GetTarget(r, o) PROVE status'[r] = status[r]
    BY <1>20 DEF GetTarget, JobStep, Answer, JobFails
  <1>21. ASSUME NEW o \in Outcomes, Add(r, o) PROVE status'[r] = status[r]
    BY <1>21 DEF Add, JobStep, Answer, JobFails
  <1>22. ASSUME NEW o \in Outcomes, Remove(r, o) PROVE status'[r] = status[r]
    BY <1>22 DEF Remove, Answer
  <1>23. ASSUME NEW o \in Outcomes, Rollback(r, o) PROVE status'[r] = status[r]
    BY <1>23 DEF Rollback, Answer, JobFails
  <1>24. ASSUME NEW o \in Outcomes, RestoreTarget(r, o) PROVE status'[r] = status[r]
    BY <1>24 DEF RestoreTarget, ResumeSide, Escape, Answer
  <1>25. ASSUME NEW o \in Outcomes, RestoreSource(r, o) PROVE status'[r] = status[r]
    BY <1>25 DEF RestoreSource, ResumeSide, Escape, Answer
  <1>26. ASSUME NEW o \in Outcomes, Release(r, o) PROVE status'[r] = status[r]
    BY <1>26 DEF Release, Escape, Answer
  <1>27. ASSUME Cancel(r) PROVE status'[r] = status[r]
    BY <1>27 DEF Cancel, Abort, Answer
  <1>28. ASSUME Destroy(r) PROVE status'[r] = status[r]
    BY <1>28 DEF Destroy, Abort, Answer
  <1>29. ASSUME Pause(r) PROVE status'[r] = status[r]
    BY <1>29 DEF Pause, Answer
  <1>30. ASSUME Resume(r) PROVE status'[r] = status[r]
    BY <1>30 DEF Resume, Answer
  <1>31. ASSUME Crash(r) PROVE status'[r] = status[r]
    BY <1>31 DEF Crash, Answer
  <1>32. QED
    BY <1>1, <1>2, <1>3, <1>4, <1>5, <1>6, <1>7, <1>8, <1>9, <1>10, <1>11, <1>12, <1>13, <1>14,
       <1>15, <1>16, <1>17, <1>18, <1>19, <1>20, <1>21, <1>22, <1>23, <1>24, <1>25, <1>26,
       <1>27, <1>28, <1>29, <1>30, <1>31
       DEF RunAction, RunStep, Setup, Loop, MoveJob, Exit, Control

\* The final status of a background migration is never overwritten, however late a
\* pause, a resume or a cancellation arrives.
THEOREM FinalStatus == Spec => TerminalIsFinal
  <1>1. TypeOK /\ ControlInv /\ [Next]_vars
          => [\A r \in Background : status[r] \in Terminal => status'[r] = status[r]]_vars
    <2> SUFFICES ASSUME TypeOK, ControlInv, [Next]_vars, NEW r \in Background, status[r] \in Terminal
                 PROVE  status'[r] = status[r]
      OBVIOUS
    <2>1. r \in Runs
      BY RunsAssumption
    <2>2. ASSUME RunAction(r) PROVE status'[r] = status[r]
      BY <2>1, <2>2, StatusStep DEF ControlInv
    <2>3. ASSUME NEW x \in Runs \ {r}, RunAction(x) PROVE status'[r] = status[r]
      BY <2>1, <2>3, OtherRuns DEF SameRun
    <2>4. ASSUME NEW q \in Queues, Queue(q) PROVE status'[r] = status[r]
      BY <2>4 DEF Queue, LeaseExpires, OperatorToggles, Produce, Promote, Fetch, Complete, runVars, exitVars
    <2>5. ASSUME UNCHANGED vars PROVE status'[r] = status[r]
      BY <2>5 DEF vars, runVars, exitVars
    <2>6. QED
      BY <2>2, <2>3, <2>4, <2>5 DEF Next, RunAction
  <1>2. QED
    BY <1>1, TypeCorrect, ControlAlways, PTL DEF Spec, TerminalIsFinal

------------------------------------------------------------------------------
(* The limit of a run *)

Counting == Transfer \cup {"sleep", "refresh"}

\* Every moved job is counted, and a run that is about to move one is below its limit.
LimitOf(r) ==
  /\ IsFiniteSet(moved[r]) /\ Cardinality(moved[r]) <= processed[r]
  /\ Limit > 0 => processed[r] <= Limit
  /\ Limit > 0 /\ pc[r] \in Counting => processed[r] < Limit

\* A step that counts nothing preserves it, if it does not start on a job at the limit.
LEMMA LimitKept ==
  ASSUME TypeOK, NEW r \in Runs, LimitOf(r), processed'[r] = processed[r], moved'[r] = moved[r],
         pc'[r] \in Counting => pc[r] \in Counting \/ ~LimitReached(r)
  PROVE  LimitOf(r)'
  BY ParamsAssumption DEF TypeOK, LimitOf, LimitReached

\* A step of a run preserves what is known of its limit.
LEMMA LimitOfNext ==
  ASSUME TypeOK, NEW r \in Runs, LimitOf(r), RunAction(r)
  PROVE  LimitOf(r)'
  <1> USE DEF redisVars, setupVars, cursorVars, resultVars, exitVars, controlVars, runVars
  <1>1. ASSUME Start(r) PROVE LimitOf(r)'
    <2>1. UNCHANGED <<processed, moved>> /\ (pc'[r] \in Counting => pc[r] \in Counting \/ ~LimitReached(r))
      BY <1>1, GoMoves DEF TypeOK, Start, Answer, Counting, Transfer, Exits
    <2>2. QED
      BY <2>1, LimitKept
  <1>2. ASSUME NEW o \in Outcomes, Acquire(r, o) PROVE LimitOf(r)'
    <2>1. UNCHANGED <<processed, moved>> /\ (pc'[r] \in Counting => pc[r] \in Counting \/ ~LimitReached(r))
      BY <1>2, GoMoves DEF TypeOK, Acquire, Answer, Counting, Transfer, Exits
    <2>2. QED
      BY <2>1, LimitKept
  <1>3. ASSUME NEW side \in Sides, NEW o \in Outcomes, ReadPaused(r, side, o) PROVE LimitOf(r)'
    <2>1. UNCHANGED <<processed, moved>> /\ (pc'[r] \in Counting => pc[r] \in Counting \/ ~LimitReached(r))
      BY <1>3, FailOne DEF TypeOK, ReadPaused, Answer, Counting, Transfer, Exits
    <2>2. QED
      BY <2>1, LimitKept
  <1>4. ASSUME IssuePauses(r) PROVE LimitOf(r)'
    <2>1. UNCHANGED <<processed, moved>> /\ (pc'[r] \in Counting => pc[r] \in Counting \/ ~LimitReached(r))
      BY <1>4, GoMoves DEF TypeOK, IssuePauses, Answer, Counting, Transfer, Exits
    <2>2. QED
      BY <2>1, LimitKept
  <1>5. ASSUME NEW side \in Sides, PauseLands(r, side) PROVE LimitOf(r)'
    <2>1. UNCHANGED <<processed, moved>> /\ (pc'[r] \in Counting => pc[r] \in Counting \/ ~LimitReached(r))
      BY <1>5 DEF TypeOK, PauseLands, Answer, Counting, Transfer, Exits
    <2>2. QED
      BY <2>1, LimitKept
  <1>6. ASSUME NEW side \in Sides, NEW o \in Outcomes, PauseRejected(r, side, o) PROVE LimitOf(r)'
    <2>1. UNCHANGED <<processed, moved>> /\ (pc'[r] \in Counting => pc[r] \in Counting \/ ~LimitReached(r))
      BY <1>6, FailOne DEF TypeOK, PauseRejected, Answer, Counting, Transfer, Exits
    <2>2. QED
      BY <2>1, LimitKept
  <1>7. ASSUME BothPaused(r) PROVE LimitOf(r)'
    <2>1. UNCHANGED <<processed, moved>> /\ (pc'[r] \in Counting => pc[r] \in Counting \/ ~LimitReached(r))
      BY <1>7, GoMoves DEF TypeOK, BothPaused, Answer, Counting, Transfer, Exits
    <2>2. QED
      BY <2>1, LimitKept
  <1>8. ASSUME NEW o \in Outcomes, CountActive(r, o) PROVE LimitOf(r)'
    <2>1. pc'[r] \in Exits \cup {"loop", "undoTarget", "undoSource"}
      BY <1>8, GoMoves, FailOne DEF CountActive
    <2>2. UNCHANGED <<processed, moved>>
      BY <1>8 DEF CountActive
    <2>3. QED
      BY <2>1, <2>2, LimitKept DEF Exits, Counting, Transfer
  <1>9. ASSUME NEW o \in Outcomes, UndoTarget(r, o) PROVE LimitOf(r)'
    <2>1. pc'[r] \in Exits \cup {"loop", "undoTarget", "undoSource"}
      BY <1>9, GoMoves, FailOne DEF UndoTarget, ResumeSide
    <2>2. UNCHANGED <<processed, moved>>
      BY <1>9 DEF UndoTarget, ResumeSide
    <2>3. QED
      BY <2>1, <2>2, LimitKept DEF Exits, Counting, Transfer
  <1>10. ASSUME NEW o \in Outcomes, UndoSource(r, o) PROVE LimitOf(r)'
    <2>1. UNCHANGED <<processed, moved>> /\ (pc'[r] \in Counting => pc[r] \in Counting \/ ~LimitReached(r))
      BY <1>10, FailOne DEF TypeOK, UndoSource, ResumeSide, Answer, Counting, Transfer, Exits
    <2>2. QED
      BY <2>1, LimitKept
  <1>11. ASSUME Finish(r) PROVE LimitOf(r)'
    <2>1. UNCHANGED <<processed, moved>> /\ (pc'[r] \in Counting => pc[r] \in Counting \/ ~LimitReached(r))
      BY <1>11, FinallyOne DEF TypeOK, Finish, Answer, Counting, Transfer, Exits
    <2>2. QED
      BY <2>1, LimitKept
  <1>12. ASSUME CancelSeen(r) PROVE LimitOf(r)'
    <2>1. UNCHANGED <<processed, moved>> /\ (pc'[r] \in Counting => pc[r] \in Counting \/ ~LimitReached(r))
      BY <1>12, FinallyOne DEF TypeOK, CancelSeen, Answer, Counting, Transfer, Exits
    <2>2. QED
      BY <2>1, LimitKept
  <1>13. ASSUME NextState(r) PROVE LimitOf(r)'
    <2>1. UNCHANGED <<processed, moved>> /\ (pc'[r] \in Counting => pc[r] \in Counting \/ ~LimitReached(r))
      BY <1>13, GoMoves DEF TypeOK, NextState, Answer, Counting, Transfer, Exits
    <2>2. QED
      BY <2>1, LimitKept
  <1>14. ASSUME NEW o \in Outcomes, ListJobs(r, o) PROVE LimitOf(r)'
    <2>1. pc'[r] \in Exits \cup {"loop", "undoTarget", "undoSource"}
      BY <1>14, GoMoves, FailOne DEF ListJobs
    <2>2. UNCHANGED <<processed, moved>>
      BY <1>14 DEF ListJobs
    <2>3. QED
      BY <2>1, <2>2, LimitKept DEF Exits, Counting, Transfer
  <1>15. ASSUME Park(r) PROVE LimitOf(r)'
    <2>1. UNCHANGED <<processed, moved>> /\ (pc'[r] \in Counting => pc[r] \in Counting \/ ~LimitReached(r))
      BY <1>15, GoMoves DEF TypeOK, Park, Answer, Counting, Transfer, Exits
    <2>2. QED
      BY <2>1, LimitKept
  <1>16. ASSUME NextJob(r) PROVE LimitOf(r)'
    <2>1. UNCHANGED <<processed, moved>> /\ (pc'[r] \in Counting => pc[r] \in Counting \/ ~LimitReached(r))
      BY <1>16, ProceedOne DEF TypeOK, NextJob, Answer, Counting, Transfer, Exits
    <2>2. QED
      BY <2>1, LimitKept
  <1>17. ASSUME SleepOver(r) PROVE LimitOf(r)'
    <2>1. UNCHANGED <<processed, moved>> /\ (pc'[r] \in Counting => pc[r] \in Counting \/ ~LimitReached(r))
      BY <1>17, GoMoves DEF TypeOK, SleepOver, Answer, Counting, Transfer, Exits
    <2>2. QED
      BY <2>1, LimitKept
  <1>18. ASSUME NEW o \in Outcomes, Refresh(r, o) PROVE LimitOf(r)'
    <2>1. UNCHANGED <<processed, moved>> /\ (pc'[r] \in Counting => pc[r] \in Counting \/ ~LimitReached(r))
      BY <1>18 DEF TypeOK, Refresh, Answer, Counting, Transfer, Exits, JobFails, Finally, RestoreFrom, Go
    <2>2. QED
      BY <2>1, LimitKept
  <1>19. ASSUME NEW o \in Outcomes, GetSource(r, o) PROVE LimitOf(r)'
    <2>1. UNCHANGED <<processed, moved>> /\ (pc'[r] \in Counting => pc[r] \in Counting \/ ~LimitReached(r))
      BY <1>19, GoMoves DEF TypeOK, GetSource, JobStep, Answer, Counting, Transfer, Exits, JobFails
    <2>2. QED
      BY <2>1, LimitKept
  <1>20. ASSUME NEW o \in Outcomes, GetTarget(r, o) PROVE LimitOf(r)'
    <2>1. UNCHANGED <<processed, moved>> /\ (pc'[r] \in Counting => pc[r] \in Counting \/ ~LimitReached(r))
      BY <1>20, GoMoves DEF TypeOK, GetTarget, JobStep, Answer, Counting, Transfer, Exits, JobFails
    <2>2. QED
      BY <2>1, LimitKept
  <1>21. ASSUME NEW o \in Outcomes, Add(r, o) PROVE LimitOf(r)'
    <2>1. UNCHANGED <<processed, moved>> /\ (pc'[r] \in Counting => pc[r] \in Counting \/ ~LimitReached(r))
      BY <1>21, GoMoves DEF TypeOK, Add, JobStep, Answer, Counting, Transfer, Exits, JobFails
    <2>2. QED
      BY <2>1, LimitKept
  <1>22. ASSUME NEW o \in Outcomes, Remove(r, o) PROVE LimitOf(r)'
    <2>1. CASE UNCHANGED <<processed, moved>>
      <3>1. pc'[r] = "rollback" /\ pc[r] = "remove"
        BY <1>22, <2>1, GoMoves DEF Remove, Answer, TypeOK
      <3>2. QED
        BY <2>1, <3>1, LimitKept DEF Counting, Transfer
    <2>2. CASE ~UNCHANGED <<processed, moved>>
      <3>1. pc[r] = "remove" /\ pc'[r] = "loop"
            /\ processed' = [processed EXCEPT ![r] = @ + 1] /\ moved' = [moved EXCEPT ![r] = @ \cup {cur[r]}]
        BY <1>22, <2>2, GoMoves DEF Remove, Answer
      <3>2. processed'[r] = processed[r] + 1 /\ moved'[r] = moved[r] \cup {cur[r]} /\ processed[r] \in Nat
        BY <3>1 DEF TypeOK
      <3>3. IsFiniteSet(moved[r]) /\ Cardinality(moved[r]) <= processed[r] /\ Cardinality(moved[r]) \in Nat
        BY FS_CardinalityType DEF LimitOf
      <3>4. /\ IsFiniteSet(moved[r] \cup {cur[r]})
            /\ Cardinality(moved[r] \cup {cur[r]}) \in {Cardinality(moved[r]), Cardinality(moved[r]) + 1}
        BY <3>3, FS_AddElement
      <3>5. IsFiniteSet(moved'[r]) /\ Cardinality(moved'[r]) <= processed'[r]
        BY <3>2, <3>3, <3>4
      <3>6. Limit > 0 => processed'[r] <= Limit
        BY <3>1, <3>2, ParamsAssumption DEF LimitOf, Counting, Transfer
      <3>7. QED
        BY <3>1, <3>5, <3>6 DEF LimitOf, Counting, Transfer
    <2>3. QED
      BY <2>1, <2>2
  <1>23. ASSUME NEW o \in Outcomes, Rollback(r, o) PROVE LimitOf(r)'
    <2>1. UNCHANGED <<processed, moved>> /\ (pc'[r] \in Counting => pc[r] \in Counting \/ ~LimitReached(r))
      BY <1>23, GoMoves DEF TypeOK, Rollback, Answer, Counting, Transfer, Exits, JobFails
    <2>2. QED
      BY <2>1, LimitKept
  <1>24. ASSUME NEW o \in Outcomes, RestoreTarget(r, o) PROVE LimitOf(r)'
    <2>1. UNCHANGED <<processed, moved>> /\ (pc'[r] \in Counting => pc[r] \in Counting \/ ~LimitReached(r))
      BY <1>24, GoMoves DEF TypeOK, RestoreTarget, ResumeSide, Escape, Answer, Counting, Transfer, Exits, RestoreFrom
    <2>2. QED
      BY <2>1, LimitKept
  <1>25. ASSUME NEW o \in Outcomes, RestoreSource(r, o) PROVE LimitOf(r)'
    <2>1. UNCHANGED <<processed, moved>> /\ (pc'[r] \in Counting => pc[r] \in Counting \/ ~LimitReached(r))
      BY <1>25, GoMoves DEF TypeOK, RestoreSource, ResumeSide, Escape, Answer, Counting, Transfer, Exits
    <2>2. QED
      BY <2>1, LimitKept
  <1>26. ASSUME NEW o \in Outcomes, Release(r, o) PROVE LimitOf(r)'
    <2>1. UNCHANGED <<processed, moved>> /\ (pc'[r] \in Counting => pc[r] \in Counting \/ ~LimitReached(r))
      BY <1>26, GoMoves DEF TypeOK, Release, Escape, Answer, Counting, Transfer, Exits
    <2>2. QED
      BY <2>1, LimitKept
  <1>27. ASSUME Cancel(r) PROVE LimitOf(r)'
    <2>1. UNCHANGED <<processed, moved>> /\ (pc'[r] \in Counting => pc[r] \in Counting \/ ~LimitReached(r))
      BY <1>27, FinallyOne DEF TypeOK, Cancel, Abort, Answer, Counting, Transfer, Exits
    <2>2. QED
      BY <2>1, LimitKept
  <1>28. ASSUME Destroy(r) PROVE LimitOf(r)'
    <2>1. UNCHANGED <<processed, moved>> /\ (pc'[r] \in Counting => pc[r] \in Counting \/ ~LimitReached(r))
      BY <1>28, FinallyOne DEF TypeOK, Destroy, Abort, Answer, Counting, Transfer, Exits
    <2>2. QED
      BY <2>1, LimitKept
  <1>29. ASSUME Pause(r) PROVE LimitOf(r)'
    <2>1. UNCHANGED <<processed, moved>> /\ (pc'[r] \in Counting => pc[r] \in Counting \/ ~LimitReached(r))
      BY <1>29 DEF TypeOK, Pause, Answer, Counting, Transfer, Exits
    <2>2. QED
      BY <2>1, LimitKept
  <1>30. ASSUME Resume(r) PROVE LimitOf(r)'
    <2>1. UNCHANGED <<processed, moved>> /\ (pc'[r] \in Counting => pc[r] \in Counting \/ ~LimitReached(r))
      BY <1>30, ProceedOne DEF TypeOK, Resume, Answer, Counting, Transfer, Exits
    <2>2. QED
      BY <2>1, LimitKept
  <1>31. ASSUME Crash(r) PROVE LimitOf(r)'
    <2>1. UNCHANGED <<processed, moved>> /\ (pc'[r] \in Counting => pc[r] \in Counting \/ ~LimitReached(r))
      BY <1>31, GoMoves DEF TypeOK, Crash, Answer, Counting, Transfer, Exits
    <2>2. QED
      BY <2>1, LimitKept
  <1>32. QED
    BY <1>1, <1>2, <1>3, <1>4, <1>5, <1>6, <1>7, <1>8, <1>9, <1>10, <1>11, <1>12, <1>13, <1>14,
       <1>15, <1>16, <1>17, <1>18, <1>19, <1>20, <1>21, <1>22, <1>23, <1>24, <1>25, <1>26,
       <1>27, <1>28, <1>29, <1>30, <1>31
       DEF RunAction, RunStep, Setup, Loop, MoveJob, Exit, Control

LimitInv == \A r \in Runs : LimitOf(r)

\* Every step preserves LimitInv.
LEMMA LimitNext == TypeOK /\ LimitInv /\ [Next]_vars => LimitInv'
  <1> SUFFICES ASSUME TypeOK, LimitInv, [Next]_vars PROVE LimitInv'
    OBVIOUS
  <1>1. ASSUME NEW r \in Runs, RunAction(r) PROVE LimitInv'
    <2>1. LimitOf(r)'
      BY <1>1, LimitOfNext DEF LimitInv
    <2>2. \A x \in Runs \ {r} : LimitOf(x)'
      BY <1>1, OtherRuns DEF SameRun, LimitInv, LimitOf, LimitReached
    <2>3. QED
      BY <2>1, <2>2 DEF LimitInv
  <1>2. ASSUME NEW q \in Queues, Queue(q) PROVE UNCHANGED <<pc, runVars>>
    BY <1>2 DEF Queue, LeaseExpires, OperatorToggles, Produce, Promote, Fetch, Complete
  <1>3. ASSUME UNCHANGED <<pc, runVars>> PROVE LimitInv'
    BY <1>3 DEF LimitInv, LimitOf, LimitReached, setupVars, cursorVars, resultVars, exitVars, controlVars, runVars
  <1>4. QED
    BY <1>1, <1>2, <1>3 DEF Next, RunAction, vars

\* No run migrates more jobs than params.limit, over any states, pages and job types.
THEOREM MigrationLimit == Spec => []LimitRespected
  <1>1. Init => LimitInv
    BY FS_EmptySet, ParamsAssumption DEF Init, LimitInv, LimitOf, Counting, Transfer
  <1>2. TypeOK /\ LimitInv => LimitRespected
    <2> SUFFICES ASSUME TypeOK, LimitInv, NEW r \in Runs, Limit > 0
                 PROVE  processed[r] <= Limit /\ Cardinality(moved[r]) <= Limit
      BY DEF LimitRespected
    <2>1. /\ Cardinality(moved[r]) <= processed[r] /\ processed[r] <= Limit /\ processed[r] \in Nat
          /\ Cardinality(moved[r]) \in Nat
      BY FS_CardinalityType DEF TypeOK, LimitInv, LimitOf
    <2>2. QED
      BY <2>1, ParamsAssumption
  <1>3. QED
    BY <1>1, <1>2, TypeInit, TypeNext, LimitNext, PTL DEF Spec

------------------------------------------------------------------------------
(* The pause flags and the lease *)

Outside == {"idle", "acquire", "ended", "crashed"}
Body    == {"loop", "list", "parked", "sleep", "refresh"} \cup Transfer

\* Runs r and x have no queue in common.
Disjoint(r, x) == {Source[r], Target[r]} \cap {Source[x], Target[x]} = {}

\* Only the resumes of a run clear a flag, and only the flags of its own queues change.
LEMMA PausedStep ==
  ASSUME TypeOK, NEW r \in Runs, RunAction(r)
  PROVE  \A q \in Queues : paused'[q] # paused[q] =>
           /\ q \in {Source[r], Target[r]}
           /\ paused'[q] \/ pc[r] \notin Outside
  <1> USE DEF redisVars, setupVars, cursorVars, resultVars, exitVars, controlVars, runVars
  <1> DEFINE P == \A q \in Queues : paused'[q] # paused[q] =>
                    /\ q \in {Source[r], Target[r]}
                    /\ paused'[q] \/ pc[r] \notin Outside
  <1>1. ASSUME Start(r) PROVE P
    BY <1>1 DEF Start
  <1>2. ASSUME NEW o \in Outcomes, Acquire(r, o) PROVE P
    BY <1>2 DEF Acquire
  <1>3. ASSUME NEW side \in Sides, NEW o \in Outcomes, ReadPaused(r, side, o) PROVE P
    BY <1>3 DEF ReadPaused
  <1>4. ASSUME IssuePauses(r) PROVE P
    BY <1>4 DEF IssuePauses
  <1>5. ASSUME NEW side \in Sides, PauseLands(r, side) PROVE P
    BY <1>5 DEF PauseLands, QueueOf, Answer, TypeOK, Outside
  <1>6. ASSUME NEW side \in Sides, NEW o \in Outcomes, PauseRejected(r, side, o) PROVE P
    BY <1>6 DEF PauseRejected, QueueOf, Answer, TypeOK, Outside
  <1>7. ASSUME BothPaused(r) PROVE P
    BY <1>7 DEF BothPaused
  <1>8. ASSUME NEW o \in Outcomes, CountActive(r, o) PROVE P
    BY <1>8 DEF CountActive
  <1>9. ASSUME NEW o \in Outcomes, UndoTarget(r, o) PROVE P
    BY <1>9 DEF UndoTarget, ResumeSide, QueueOf, Answer, TypeOK, Outside
  <1>10. ASSUME NEW o \in Outcomes, UndoSource(r, o) PROVE P
    BY <1>10 DEF UndoSource, ResumeSide, QueueOf, Answer, TypeOK, Outside
  <1>11. ASSUME Finish(r) PROVE P
    BY <1>11 DEF Finish
  <1>12. ASSUME CancelSeen(r) PROVE P
    BY <1>12 DEF CancelSeen
  <1>13. ASSUME NextState(r) PROVE P
    BY <1>13 DEF NextState
  <1>14. ASSUME NEW o \in Outcomes, ListJobs(r, o) PROVE P
    BY <1>14 DEF ListJobs
  <1>15. ASSUME Park(r) PROVE P
    BY <1>15 DEF Park
  <1>16. ASSUME NextJob(r) PROVE P
    BY <1>16 DEF NextJob
  <1>17. ASSUME SleepOver(r) PROVE P
    BY <1>17 DEF SleepOver
  <1>18. ASSUME NEW o \in Outcomes, Refresh(r, o) PROVE P
    BY <1>18 DEF Refresh
  <1>19. ASSUME NEW o \in Outcomes, GetSource(r, o) PROVE P
    BY <1>19 DEF GetSource, JobStep
  <1>20. ASSUME NEW o \in Outcomes, GetTarget(r, o) PROVE P
    BY <1>20 DEF GetTarget, JobStep
  <1>21. ASSUME NEW o \in Outcomes, Add(r, o) PROVE P
    BY <1>21 DEF Add, JobStep
  <1>22. ASSUME NEW o \in Outcomes, Remove(r, o) PROVE P
    BY <1>22 DEF Remove
  <1>23. ASSUME NEW o \in Outcomes, Rollback(r, o) PROVE P
    BY <1>23 DEF Rollback
  <1>24. ASSUME NEW o \in Outcomes, RestoreTarget(r, o) PROVE P
    BY <1>24 DEF RestoreTarget, ResumeSide, Escape, QueueOf, Answer, TypeOK, Outside
  <1>25. ASSUME NEW o \in Outcomes, RestoreSource(r, o) PROVE P
    BY <1>25 DEF RestoreSource, ResumeSide, Escape, QueueOf, Answer, TypeOK, Outside
  <1>26. ASSUME NEW o \in Outcomes, Release(r, o) PROVE P
    BY <1>26 DEF Release, Escape
  <1>27. ASSUME Cancel(r) PROVE P
    BY <1>27 DEF Cancel, Abort
  <1>28. ASSUME Destroy(r) PROVE P
    BY <1>28 DEF Destroy, Abort
  <1>29. ASSUME Pause(r) PROVE P
    BY <1>29 DEF Pause
  <1>30. ASSUME Resume(r) PROVE P
    BY <1>30 DEF Resume
  <1>31. ASSUME Crash(r) PROVE P
    BY <1>31 DEF Crash
  <1>32. QED
    BY <1>1, <1>2, <1>3, <1>4, <1>5, <1>6, <1>7, <1>8, <1>9, <1>10, <1>11, <1>12, <1>13, <1>14,
       <1>15, <1>16, <1>17, <1>18, <1>19, <1>20, <1>21, <1>22, <1>23, <1>24, <1>25, <1>26,
       <1>27, <1>28, <1>29, <1>30, <1>31
       DEF RunAction, RunStep, Setup, Loop, MoveJob, Exit, Control

\* A run changes a lease only by taking a free one and by giving its own back.
LEMMA LeaseStep ==
  ASSUME TypeOK, NEW r \in Runs, RunAction(r)
  PROVE  \A q \in Queues : lease'[q] = lease[q] \/ lease[q] \in {NoRun, r}
  <1> USE DEF redisVars, setupVars, cursorVars, resultVars, exitVars, controlVars, runVars
  <1> DEFINE P == \A q \in Queues : lease'[q] = lease[q] \/ lease[q] \in {NoRun, r}
  <1>1. ASSUME Start(r) PROVE P
    BY <1>1 DEF Start
  <1>2. ASSUME NEW o \in Outcomes, Acquire(r, o) PROVE P
    BY <1>2 DEF Acquire, TypeOK
  <1>3. ASSUME NEW side \in Sides, NEW o \in Outcomes, ReadPaused(r, side, o) PROVE P
    BY <1>3 DEF ReadPaused
  <1>4. ASSUME IssuePauses(r) PROVE P
    BY <1>4 DEF IssuePauses
  <1>5. ASSUME NEW side \in Sides, PauseLands(r, side) PROVE P
    BY <1>5 DEF PauseLands
  <1>6. ASSUME NEW side \in Sides, NEW o \in Outcomes, PauseRejected(r, side, o) PROVE P
    BY <1>6 DEF PauseRejected
  <1>7. ASSUME BothPaused(r) PROVE P
    BY <1>7 DEF BothPaused
  <1>8. ASSUME NEW o \in Outcomes, CountActive(r, o) PROVE P
    BY <1>8 DEF CountActive
  <1>9. ASSUME NEW o \in Outcomes, UndoTarget(r, o) PROVE P
    BY <1>9 DEF UndoTarget, ResumeSide
  <1>10. ASSUME NEW o \in Outcomes, UndoSource(r, o) PROVE P
    BY <1>10 DEF UndoSource, ResumeSide
  <1>11. ASSUME Finish(r) PROVE P
    BY <1>11 DEF Finish
  <1>12. ASSUME CancelSeen(r) PROVE P
    BY <1>12 DEF CancelSeen
  <1>13. ASSUME NextState(r) PROVE P
    BY <1>13 DEF NextState
  <1>14. ASSUME NEW o \in Outcomes, ListJobs(r, o) PROVE P
    BY <1>14 DEF ListJobs
  <1>15. ASSUME Park(r) PROVE P
    BY <1>15 DEF Park
  <1>16. ASSUME NextJob(r) PROVE P
    BY <1>16 DEF NextJob
  <1>17. ASSUME SleepOver(r) PROVE P
    BY <1>17 DEF SleepOver
  <1>18. ASSUME NEW o \in Outcomes, Refresh(r, o) PROVE P
    BY <1>18 DEF Refresh
  <1>19. ASSUME NEW o \in Outcomes, GetSource(r, o) PROVE P
    BY <1>19 DEF GetSource, JobStep
  <1>20. ASSUME NEW o \in Outcomes, GetTarget(r, o) PROVE P
    BY <1>20 DEF GetTarget, JobStep
  <1>21. ASSUME NEW o \in Outcomes, Add(r, o) PROVE P
    BY <1>21 DEF Add, JobStep
  <1>22. ASSUME NEW o \in Outcomes, Remove(r, o) PROVE P
    BY <1>22 DEF Remove
  <1>23. ASSUME NEW o \in Outcomes, Rollback(r, o) PROVE P
    BY <1>23 DEF Rollback
  <1>24. ASSUME NEW o \in Outcomes, RestoreTarget(r, o) PROVE P
    BY <1>24 DEF RestoreTarget, ResumeSide, Escape
  <1>25. ASSUME NEW o \in Outcomes, RestoreSource(r, o) PROVE P
    BY <1>25 DEF RestoreSource, ResumeSide, Escape
  <1>26. ASSUME NEW o \in Outcomes, Release(r, o) PROVE P
    BY <1>26 DEF Release, Escape, TypeOK
  <1>27. ASSUME Cancel(r) PROVE P
    BY <1>27 DEF Cancel, Abort
  <1>28. ASSUME Destroy(r) PROVE P
    BY <1>28 DEF Destroy, Abort
  <1>29. ASSUME Pause(r) PROVE P
    BY <1>29 DEF Pause
  <1>30. ASSUME Resume(r) PROVE P
    BY <1>30 DEF Resume
  <1>31. ASSUME Crash(r) PROVE P
    BY <1>31 DEF Crash
  <1>32. QED
    BY <1>1, <1>2, <1>3, <1>4, <1>5, <1>6, <1>7, <1>8, <1>9, <1>10, <1>11, <1>12, <1>13, <1>14,
       <1>15, <1>16, <1>17, <1>18, <1>19, <1>20, <1>21, <1>22, <1>23, <1>24, <1>25, <1>26,
       <1>27, <1>28, <1>29, <1>30, <1>31
       DEF RunAction, RunStep, Setup, Loop, MoveJob, Exit, Control

\* From the setup to the finally block a run holds the lease of its source.
HoldsLease(r) == pc[r] \notin Outside => lease[Source[r]] = r

\* A step of a run preserves that.
LEMMA HoldsLeaseNext ==
  ASSUME TypeOK, NEW r \in Runs, HoldsLease(r), RunAction(r)
  PROVE  HoldsLease(r)'
  <1> USE RunsAssumption DEF TypeOK, HoldsLease, Outside, redisVars, setupVars, cursorVars, resultVars, exitVars,
              controlVars, runVars
  <1>1. ASSUME Start(r) PROVE HoldsLease(r)'
    BY <1>1, GoMoves DEF Start, Answer
  <1>2. ASSUME NEW o \in Outcomes, Acquire(r, o) PROVE HoldsLease(r)'
    <2>1. CASE pc'[r] = "readPause"
      <3>1. lease[Source[r]] = NoRun /\ o = "ok"
        BY <1>2, <2>1, GoMoves DEF Acquire
      <3>2. QED
        BY <1>2, <3>1 DEF Acquire, Applied
    <2>2. CASE pc'[r] # "readPause"
      BY <1>2, <2>2, GoMoves DEF Acquire
    <2>3. QED
      BY <2>1, <2>2
  <1>3. ASSUME NEW side \in Sides, NEW o \in Outcomes, ReadPaused(r, side, o) PROVE HoldsLease(r)'
    BY <1>3 DEF ReadPaused, Answer
  <1>4. ASSUME IssuePauses(r) PROVE HoldsLease(r)'
    BY <1>4 DEF IssuePauses, Answer
  <1>5. ASSUME NEW side \in Sides, PauseLands(r, side) PROVE HoldsLease(r)'
    BY <1>5 DEF PauseLands, Answer
  <1>6. ASSUME NEW side \in Sides, NEW o \in Outcomes, PauseRejected(r, side, o) PROVE HoldsLease(r)'
    BY <1>6 DEF PauseRejected, Answer
  <1>7. ASSUME BothPaused(r) PROVE HoldsLease(r)'
    BY <1>7 DEF BothPaused, Answer
  <1>8. ASSUME NEW o \in Outcomes, CountActive(r, o) PROVE HoldsLease(r)'
    BY <1>8 DEF CountActive, Answer
  <1>9. ASSUME NEW o \in Outcomes, UndoTarget(r, o) PROVE HoldsLease(r)'
    BY <1>9 DEF UndoTarget, ResumeSide, Answer
  <1>10. ASSUME NEW o \in Outcomes, UndoSource(r, o) PROVE HoldsLease(r)'
    BY <1>10 DEF UndoSource, ResumeSide, Answer
  <1>11. ASSUME Finish(r) PROVE HoldsLease(r)'
    BY <1>11 DEF Finish, Answer
  <1>12. ASSUME CancelSeen(r) PROVE HoldsLease(r)'
    BY <1>12 DEF CancelSeen, Answer
  <1>13. ASSUME NextState(r) PROVE HoldsLease(r)'
    BY <1>13 DEF NextState, Answer
  <1>14. ASSUME NEW o \in Outcomes, ListJobs(r, o) PROVE HoldsLease(r)'
    BY <1>14 DEF ListJobs, Answer
  <1>15. ASSUME Park(r) PROVE HoldsLease(r)'
    BY <1>15 DEF Park, Answer
  <1>16. ASSUME NextJob(r) PROVE HoldsLease(r)'
    BY <1>16 DEF NextJob, Answer
  <1>17. ASSUME SleepOver(r) PROVE HoldsLease(r)'
    BY <1>17 DEF SleepOver, Answer
  <1>18. ASSUME NEW o \in Outcomes, Refresh(r, o) PROVE HoldsLease(r)'
    BY <1>18 DEF Refresh, Answer
  <1>19. ASSUME NEW o \in Outcomes, GetSource(r, o) PROVE HoldsLease(r)'
    BY <1>19 DEF GetSource, JobStep, Answer
  <1>20. ASSUME NEW o \in Outcomes, GetTarget(r, o) PROVE HoldsLease(r)'
    BY <1>20 DEF GetTarget, JobStep, Answer
  <1>21. ASSUME NEW o \in Outcomes, Add(r, o) PROVE HoldsLease(r)'
    BY <1>21 DEF Add, JobStep, Answer
  <1>22. ASSUME NEW o \in Outcomes, Remove(r, o) PROVE HoldsLease(r)'
    BY <1>22 DEF Remove, Answer
  <1>23. ASSUME NEW o \in Outcomes, Rollback(r, o) PROVE HoldsLease(r)'
    BY <1>23 DEF Rollback, Answer
  <1>24. ASSUME NEW o \in Outcomes, RestoreTarget(r, o) PROVE HoldsLease(r)'
    BY <1>24 DEF RestoreTarget, ResumeSide, Escape, Answer
  <1>25. ASSUME NEW o \in Outcomes, RestoreSource(r, o) PROVE HoldsLease(r)'
    BY <1>25 DEF RestoreSource, ResumeSide, Escape, Answer
  <1>26. ASSUME NEW o \in Outcomes, Release(r, o) PROVE HoldsLease(r)'
    BY <1>26, GoMoves DEF Release, Escape, Answer
  <1>27. ASSUME Cancel(r) PROVE HoldsLease(r)'
    BY <1>27 DEF Cancel, Abort, Answer
  <1>28. ASSUME Destroy(r) PROVE HoldsLease(r)'
    BY <1>28 DEF Destroy, Abort, Answer
  <1>29. ASSUME Pause(r) PROVE HoldsLease(r)'
    BY <1>29 DEF Pause, Answer
  <1>30. ASSUME Resume(r) PROVE HoldsLease(r)'
    BY <1>30 DEF Resume, Answer
  <1>31. ASSUME Crash(r) PROVE HoldsLease(r)'
    BY <1>31, GoMoves DEF Crash, Answer
  <1>32. QED
    BY <1>1, <1>2, <1>3, <1>4, <1>5, <1>6, <1>7, <1>8, <1>9, <1>10, <1>11, <1>12, <1>13, <1>14,
       <1>15, <1>16, <1>17, <1>18, <1>19, <1>20, <1>21, <1>22, <1>23, <1>24, <1>25, <1>26,
       <1>27, <1>28, <1>29, <1>30, <1>31
       DEF RunAction, RunStep, Setup, Loop, MoveJob, Exit, Control

\* No lease runs out under a run, so every run under way keeps its own.
LEMMA LeasesNext ==
  ASSUME LongWaits = {}
  PROVE  TypeOK /\ (\A r \in Runs : HoldsLease(r)) /\ [Next]_vars => (\A r \in Runs : HoldsLease(r))'
  <1> SUFFICES ASSUME TypeOK, \A r \in Runs : HoldsLease(r), [Next]_vars, NEW x \in Runs
               PROVE  HoldsLease(x)'
    OBVIOUS
  <1>1. ASSUME NEW r \in Runs, RunAction(r) PROVE HoldsLease(x)'
    <2>1. CASE x = r
      BY <1>1, <2>1, HoldsLeaseNext
    <2>2. CASE x # r
      <3>1. SameRun(x) /\ HoldsLease(x) /\ Source[x] \in Queues /\ x # NoRun
        BY <1>1, <2>2, OtherRuns, RunsAssumption
      <3>2. lease[Source[x]] = x => lease'[Source[x]] = x
        BY <1>1, <2>2, <3>1, LeaseStep
      <3>3. QED
        BY <3>1, <3>2 DEF HoldsLease, SameRun
    <2>3. QED
      BY <2>1, <2>2
  <1>2. ASSUME NEW q \in Queues, Queue(q) PROVE HoldsLease(x)'
    <2>1. UNCHANGED pc
      BY <1>2 DEF Queue, LeaseExpires, OperatorToggles, Produce, Promote, Fetch, Complete
    <2>2. UNCHANGED lease \/ (pc[lease[q]] \in {"ended", "crashed"} /\ lease' = [lease EXCEPT ![q] = NoRun])
      BY <1>2 DEF Queue, LeaseExpires, OperatorToggles, Produce, Promote, Fetch, Complete
    <2>3. HoldsLease(x) /\ Source[x] \in Queues
      BY RunsAssumption
    <2>4. pc[x] \notin Outside => lease'[Source[x]] = lease[Source[x]]
      BY <2>2, <2>3 DEF HoldsLease, Outside, TypeOK
    <2>5. QED
      BY <2>1, <2>3, <2>4 DEF HoldsLease
  <1>3. ASSUME UNCHANGED vars PROVE HoldsLease(x)'
    BY <1>3 DEF HoldsLease, vars, redisVars
  <1>4. QED
    BY <1>1, <1>2, <1>3 DEF Next, RunAction

------------------------------------------------------------------------------
(* The queues of a run *)

\* What a run knows of its queues: those it found paused are, those it paused are,
\* and both are while it moves jobs.
KeepsOf(r) ==
  /\ pc[r] = "readPause" =>
       \A side \in Sides \ inflight[r] : was[r][side] => paused[QueueOf(r, side)]
  /\ pc[r] = "pause" => \A side \in Sides \ inflight[r] : paused[QueueOf(r, side)]
  /\ pc[r] \in Body \cup {"countActive"} => \A side \in Sides : paused[QueueOf(r, side)]

\* It knows nothing outside these points, and what it knows lasts as long as the flags.
LEMMA KeepsKept ==
  ASSUME TypeOK, NEW r \in Runs, KeepsOf(r),
         \/ pc'[r] \in Exits \cup Outside \cup {"undoTarget", "undoSource"}
         \/ /\ UNCHANGED <<paused, was, inflight>>
            /\ \/ pc[r] \in Body \cup {"countActive"} /\ pc'[r] \in Body
               \/ pc'[r] = pc[r]
  PROVE  KeepsOf(r)'
  <1>1. CASE pc'[r] \in Exits \cup Outside \cup {"undoTarget", "undoSource"}
    BY <1>1 DEF KeepsOf, Exits, Outside, Body, Transfer
  <1>2. CASE UNCHANGED <<paused, was, inflight>> /\ pc'[r] = pc[r]
    BY <1>2 DEF KeepsOf, QueueOf
  <1>3. CASE UNCHANGED <<paused, was, inflight>> /\ pc[r] \in Body \cup {"countActive"} /\ pc'[r] \in Body
    BY <1>3 DEF KeepsOf, QueueOf, Body, Transfer
  <1>4. QED
    BY <1>1, <1>2, <1>3

\* A step of a run preserves what it knows.
LEMMA KeepsOfNext ==
  ASSUME TypeOK, NEW r \in Runs, KeepsOf(r), RunAction(r)
  PROVE  KeepsOf(r)'
  <1> USE DEF redisVars, setupVars, cursorVars, resultVars, exitVars, controlVars, runVars
  <1>1. ASSUME Start(r) PROVE KeepsOf(r)'
    <2>1. pc'[r] \in Exits \cup Outside \cup {"undoTarget", "undoSource"}
      BY <1>1, GoMoves DEF Start, Exits, Outside
    <2>2. QED
      BY <2>1, KeepsKept
  <1>2. ASSUME NEW o \in Outcomes, Acquire(r, o) PROVE KeepsOf(r)'
    <2>1. \/ pc'[r] = "ended"
          \/ pc'[r] = "readPause" /\ inflight'[r] = Sides
      BY <1>2, GoMoves DEF Acquire, TypeOK
    <2>2. QED
      BY <2>1 DEF KeepsOf, Body, Transfer
  <1>3. ASSUME NEW side \in Sides, NEW o \in Outcomes, ReadPaused(r, side, o) PROVE KeepsOf(r)'
    <2>1. CASE o = "ok"
      <3>1. /\ pc[r] = "readPause" /\ UNCHANGED <<pc, paused>>
            /\ was' = [was EXCEPT ![r][side] = paused[QueueOf(r, side)]]
            /\ inflight' = [inflight EXCEPT ![r] = @ \ {side}]
        BY <1>3, <2>1 DEF ReadPaused, Answer
      <3>2. /\ inflight'[r] = inflight[r] \ {side} /\ was'[r][side] = paused[QueueOf(r, side)]
            /\ \A o2 \in Sides \ {side} : was'[r][o2] = was[r][o2]
        BY <3>1 DEF TypeOK
      <3>3. QED
        BY <3>1, <3>2 DEF KeepsOf, QueueOf, Body, Transfer
    <2>2. CASE o # "ok"
      <3>1. pc'[r] \in Exits
        BY <1>3, <2>2, FailOne DEF ReadPaused
      <3>2. QED
        BY <3>1, KeepsKept
    <2>3. QED
      BY <2>1, <2>2
  <1>4. ASSUME IssuePauses(r) PROVE KeepsOf(r)'
    <2>1. /\ pc[r] = "readPause" /\ pc'[r] = "pause" /\ UNCHANGED <<paused, was>> /\ inflight[r] = {}
          /\ inflight'[r] = {side \in Sides : ~was[r][side]}
      BY <1>4, GoMoves DEF IssuePauses, TypeOK
    <2>2. QED
      BY <2>1 DEF KeepsOf, QueueOf, Body, Transfer
  <1>5. ASSUME NEW side \in Sides, PauseLands(r, side) PROVE KeepsOf(r)'
    <2>1. /\ pc[r] # "readPause" /\ UNCHANGED <<pc, was>> /\ inflight'[r] = inflight[r] \ {side}
          /\ paused' = [paused EXCEPT ![QueueOf(r, side)] = TRUE]
      BY <1>5 DEF PauseLands, TypeOK
    <2>2. \A q \in Queues : (paused[q] => paused'[q]) /\ (q = QueueOf(r, side) => paused'[q])
      BY <2>1 DEF TypeOK
    <2>3. \A s \in Sides : QueueOf(r, s) \in Queues
      BY QueueOfType
    <2>4. \A s \in Sides : QueueOf(r, s)' = QueueOf(r, s)
      BY DEF QueueOf
    <2>5. QED
      BY <2>1, <2>2, <2>3, <2>4 DEF KeepsOf
  <1>6. ASSUME NEW side \in Sides, NEW o \in Outcomes, PauseRejected(r, side, o) PROVE KeepsOf(r)'
    <2>1. pc'[r] \in Exits
      BY <1>6, FailOne DEF PauseRejected
    <2>2. QED
      BY <2>1, KeepsKept
  <1>7. ASSUME BothPaused(r) PROVE KeepsOf(r)'
    <2>1. /\ pc[r] = "pause" /\ pc'[r] = "countActive" /\ UNCHANGED <<paused, was, inflight>>
          /\ inflight[r] = {}
      BY <1>7, GoMoves DEF BothPaused
    <2>2. QED
      BY <2>1 DEF KeepsOf, QueueOf
  <1>8. ASSUME NEW o \in Outcomes, CountActive(r, o) PROVE KeepsOf(r)'
    <2>1. \/ pc'[r] \in Exits \cup Outside \cup {"undoTarget", "undoSource"}
          \/ UNCHANGED <<paused, was, inflight>> /\ pc[r] \in Body \cup {"countActive"} /\ pc'[r] \in Body
      BY <1>8, GoMoves, FailOne DEF CountActive, Answer, Exits, Body
    <2>2. QED
      BY <2>1, KeepsKept
  <1>9. ASSUME NEW o \in Outcomes, UndoTarget(r, o) PROVE KeepsOf(r)'
    <2>1. pc'[r] \in Exits \cup Outside \cup {"undoTarget", "undoSource"}
      BY <1>9, GoMoves, FailOne DEF UndoTarget, ResumeSide, Exits, Outside
    <2>2. QED
      BY <2>1, KeepsKept
  <1>10. ASSUME NEW o \in Outcomes, UndoSource(r, o) PROVE KeepsOf(r)'
    <2>1. pc'[r] \in Exits \cup Outside \cup {"undoTarget", "undoSource"}
      BY <1>10, FailOne DEF UndoSource, ResumeSide, Exits, Outside
    <2>2. QED
      BY <2>1, KeepsKept
  <1>11. ASSUME Finish(r) PROVE KeepsOf(r)'
    <2>1. pc'[r] \in Exits \cup Outside \cup {"undoTarget", "undoSource"}
      BY <1>11, FinallyOne DEF Finish, Exits, Outside
    <2>2. QED
      BY <2>1, KeepsKept
  <1>12. ASSUME CancelSeen(r) PROVE KeepsOf(r)'
    <2>1. pc'[r] \in Exits \cup Outside \cup {"undoTarget", "undoSource"}
      BY <1>12, FinallyOne DEF CancelSeen, Exits, Outside
    <2>2. QED
      BY <2>1, KeepsKept
  <1>13. ASSUME NextState(r) PROVE KeepsOf(r)'
    <2>1. UNCHANGED <<paused, was, inflight>> /\ pc[r] \in Body \cup {"countActive"} /\ pc'[r] \in Body
      BY <1>13, GoMoves DEF NextState, Answer, Body, Transfer
    <2>2. QED
      BY <2>1, KeepsKept
  <1>14. ASSUME NEW o \in Outcomes, ListJobs(r, o) PROVE KeepsOf(r)'
    <2>1. CASE o = "ok"
      <3>1. UNCHANGED <<paused, was, inflight>> /\ pc[r] \in Body \cup {"countActive"} /\ pc'[r] \in Body
        BY <1>14, <2>1, GoMoves DEF ListJobs, Answer, Body
      <3>2. QED
        BY <3>1, KeepsKept
    <2>2. CASE o # "ok"
      <3>1. pc'[r] \in Exits
        BY <1>14, <2>2, FailOne DEF ListJobs
      <3>2. QED
        BY <3>1, KeepsKept
    <2>3. QED
      BY <2>1, <2>2
  <1>15. ASSUME Park(r) PROVE KeepsOf(r)'
    <2>1. UNCHANGED <<paused, was, inflight>> /\ pc[r] \in Body \cup {"countActive"} /\ pc'[r] \in Body
      BY <1>15, GoMoves DEF Park, Answer, Body, Transfer
    <2>2. QED
      BY <2>1, KeepsKept
  <1>16. ASSUME NextJob(r) PROVE KeepsOf(r)'
    <2>1. UNCHANGED <<paused, was, inflight>> /\ pc[r] \in Body \cup {"countActive"} /\ pc'[r] \in Body
      BY <1>16, ProceedOne DEF NextJob, Answer, Body, Transfer
    <2>2. QED
      BY <2>1, KeepsKept
  <1>17. ASSUME SleepOver(r) PROVE KeepsOf(r)'
    <2>1. UNCHANGED <<paused, was, inflight>> /\ pc[r] \in Body \cup {"countActive"} /\ pc'[r] \in Body
      BY <1>17, GoMoves DEF SleepOver, Answer, Body, Transfer
    <2>2. QED
      BY <2>1, KeepsKept
  <1>18. ASSUME NEW o \in Outcomes, Refresh(r, o) PROVE KeepsOf(r)'
    <2>1. CASE Finally(r, "failed", TRUE)
      BY <2>1, FinallyOne, KeepsKept
    <2>2. CASE ~Finally(r, "failed", TRUE)
      <3>1. UNCHANGED <<paused, was, inflight>> /\ pc[r] \in Body \cup {"countActive"} /\ pc'[r] \in Body
        BY <1>18, <2>2, GoMoves DEF Refresh, JobFails, Answer, Body, Transfer
      <3>2. QED
        BY <3>1, KeepsKept
    <2>3. QED
      BY <2>1, <2>2
  <1>19. ASSUME NEW o \in Outcomes, GetSource(r, o) PROVE KeepsOf(r)'
    <2>1. UNCHANGED <<paused, was, inflight>> /\ pc[r] \in Body \cup {"countActive"} /\ pc'[r] \in Body
      BY <1>19, GoMoves DEF GetSource, JobStep, JobFails, Answer, Body, Transfer
    <2>2. QED
      BY <2>1, KeepsKept
  <1>20. ASSUME NEW o \in Outcomes, GetTarget(r, o) PROVE KeepsOf(r)'
    <2>1. UNCHANGED <<paused, was, inflight>> /\ pc[r] \in Body \cup {"countActive"} /\ pc'[r] \in Body
      BY <1>20, GoMoves DEF GetTarget, JobStep, JobFails, Answer, Body, Transfer
    <2>2. QED
      BY <2>1, KeepsKept
  <1>21. ASSUME NEW o \in Outcomes, Add(r, o) PROVE KeepsOf(r)'
    <2>1. UNCHANGED <<paused, was, inflight>> /\ pc[r] \in Body \cup {"countActive"} /\ pc'[r] \in Body
      BY <1>21, GoMoves DEF Add, JobStep, JobFails, Answer, Body, Transfer
    <2>2. QED
      BY <2>1, KeepsKept
  <1>22. ASSUME NEW o \in Outcomes, Remove(r, o) PROVE KeepsOf(r)'
    <2>1. UNCHANGED <<paused, was, inflight>> /\ pc[r] \in Body \cup {"countActive"} /\ pc'[r] \in Body
      BY <1>22, GoMoves DEF Remove, Answer, Body, Transfer
    <2>2. QED
      BY <2>1, KeepsKept
  <1>23. ASSUME NEW o \in Outcomes, Rollback(r, o) PROVE KeepsOf(r)'
    <2>1. UNCHANGED <<paused, was, inflight>> /\ pc[r] \in Body \cup {"countActive"} /\ pc'[r] \in Body
      BY <1>23, GoMoves DEF Rollback, JobFails, Answer, Body, Transfer
    <2>2. QED
      BY <2>1, KeepsKept
  <1>24. ASSUME NEW o \in Outcomes, RestoreTarget(r, o) PROVE KeepsOf(r)'
    <2>1. pc'[r] \in Exits \cup Outside \cup {"undoTarget", "undoSource"}
      BY <1>24, GoMoves DEF RestoreTarget, ResumeSide, Escape, RestoreFrom, Exits, Outside
    <2>2. QED
      BY <2>1, KeepsKept
  <1>25. ASSUME NEW o \in Outcomes, RestoreSource(r, o) PROVE KeepsOf(r)'
    <2>1. pc'[r] \in Exits \cup Outside \cup {"undoTarget", "undoSource"}
      BY <1>25, GoMoves DEF RestoreSource, ResumeSide, Escape, Exits, Outside
    <2>2. QED
      BY <2>1, KeepsKept
  <1>26. ASSUME NEW o \in Outcomes, Release(r, o) PROVE KeepsOf(r)'
    <2>1. pc'[r] \in Exits \cup Outside \cup {"undoTarget", "undoSource"}
      BY <1>26, GoMoves DEF Release, Escape, Exits, Outside
    <2>2. QED
      BY <2>1, KeepsKept
  <1>27. ASSUME Cancel(r) PROVE KeepsOf(r)'
    <2>1. \/ pc'[r] \in Exits
          \/ UNCHANGED <<paused, was, inflight>> /\ pc'[r] = pc[r]
      BY <1>27, FinallyOne DEF Cancel, Abort
    <2>2. QED
      BY <2>1, KeepsKept
  <1>28. ASSUME Destroy(r) PROVE KeepsOf(r)'
    <2>1. \/ pc'[r] \in Exits
          \/ UNCHANGED <<paused, was, inflight>> /\ pc'[r] = pc[r]
      BY <1>28, FinallyOne DEF Destroy, Abort
    <2>2. QED
      BY <2>1, KeepsKept
  <1>29. ASSUME Pause(r) PROVE KeepsOf(r)'
    <2>1. UNCHANGED <<paused, was, inflight>> /\ pc'[r] = pc[r]
      BY <1>29 DEF Pause
    <2>2. QED
      BY <2>1, KeepsKept
  <1>30. ASSUME Resume(r) PROVE KeepsOf(r)'
    <2>1. UNCHANGED <<paused, was, inflight>>
      BY <1>30 DEF Resume
    <2>2. CASE pc[r] = "parked"
      <3>1. pc'[r] \in Body
        BY <1>30, <2>2, ProceedOne DEF Resume, Body
      <3>2. QED
        BY <2>1, <2>2, <3>1, KeepsKept DEF Body
    <2>3. CASE pc[r] # "parked"
      BY <1>30, <2>1, <2>3, KeepsKept DEF Resume
    <2>4. QED
      BY <2>2, <2>3
  <1>31. ASSUME Crash(r) PROVE KeepsOf(r)'
    <2>1. pc'[r] \in Exits \cup Outside \cup {"undoTarget", "undoSource"}
      BY <1>31, GoMoves DEF Crash, Exits, Outside
    <2>2. QED
      BY <2>1, KeepsKept
  <1>32. QED
    BY <1>1, <1>2, <1>3, <1>4, <1>5, <1>6, <1>7, <1>8, <1>9, <1>10, <1>11, <1>12, <1>13, <1>14,
       <1>15, <1>16, <1>17, <1>18, <1>19, <1>20, <1>21, <1>22, <1>23, <1>24, <1>25, <1>26,
       <1>27, <1>28, <1>29, <1>30, <1>31
       DEF RunAction, RunStep, Setup, Loop, MoveJob, Exit, Control

\* The step of a run with other queues preserves it.
LEMMA KeepsOther ==
  ASSUME TypeOK, NEW r \in Runs, NEW x \in Runs \ {r}, KeepsOf(r), RunAction(x),
         pc[r] \in Outside \/ pc[x] \in Outside \/ Disjoint(r, x)
  PROVE  KeepsOf(r)'
  <1>1. SameRun(r)
    BY OtherRuns
  <1>2. \A side \in Sides : QueueOf(r, side) \in {Source[r], Target[r]} /\ QueueOf(r, side) \in Queues
    BY RunsAssumption DEF QueueOf
  <1>3. pc[r] \notin Outside => \A side \in Sides : paused[QueueOf(r, side)] => paused'[QueueOf(r, side)]
    BY <1>2, PausedStep DEF Disjoint, TypeOK
  <1>4. \A side \in Sides : QueueOf(r, side)' = QueueOf(r, side)
    BY DEF QueueOf
  <1>5. QED
    BY <1>1, <1>3, <1>4 DEF KeepsOf, SameRun, Outside, Body, Transfer

\* A step of BullMQ or of a TTL changes no pause flag, if operators keep to other
\* queues.
LEMMA QueueKeeps ==
  ASSUME OperatorQueues = {}, NEW q \in Queues, Queue(q)
  PROVE  UNCHANGED <<paused, pc, runVars>>
  BY DEF Queue, LeaseExpires, OperatorToggles, Produce, Promote, Fetch, Complete

MoveInv == \A r \in Runs : HoldsLease(r) /\ KeepsOf(r)

\* Every step preserves MoveInv: no lease is lost under a run that is under way, so
\* that no other run uses its queues.
LEMMA MoveNext ==
  ASSUME OperatorQueues = {}, LongWaits = {},
         \A r, x \in Runs : Source[r] = Source[x] \/ Disjoint(r, x)
  PROVE  TypeOK /\ MoveInv /\ [Next]_vars => MoveInv'
  <1> SUFFICES ASSUME TypeOK, MoveInv, [Next]_vars PROVE MoveInv'
    OBVIOUS
  <1>0. \A r \in Runs : HoldsLease(r)'
    BY LeasesNext DEF MoveInv
  <1>1. ASSUME NEW r \in Runs, RunAction(r) PROVE MoveInv'
    <2>1. KeepsOf(r)'
      BY <1>1, KeepsOfNext DEF MoveInv
    <2>2. ASSUME NEW x \in Runs \ {r} PROVE KeepsOf(x)'
      <3>1. HoldsLease(x) /\ HoldsLease(r) /\ KeepsOf(x)
        BY DEF MoveInv
      <3>2. pc[x] \in Outside \/ pc[r] \in Outside \/ Disjoint(x, r)
        BY <3>1 DEF HoldsLease
      <3>3. QED
        BY <1>1, <3>1, <3>2, KeepsOther
    <2>3. QED
      BY <1>0, <2>1, <2>2 DEF MoveInv
  <1>2. ASSUME NEW q \in Queues, Queue(q) PROVE MoveInv'
    <2>1. UNCHANGED <<paused, pc, runVars>>
      BY <1>2, QueueKeeps
    <2>2. ASSUME NEW r \in Runs PROVE KeepsOf(r)'
      BY <2>1, KeepsKept DEF MoveInv, runVars, setupVars
    <2>3. QED
      BY <1>0, <2>2 DEF MoveInv
  <1>3. ASSUME UNCHANGED vars PROVE MoveInv'
    <2>1. ASSUME NEW r \in Runs PROVE KeepsOf(r)'
      BY <1>3, KeepsKept DEF MoveInv, vars, redisVars, runVars, setupVars
    <2>2. QED
      BY <1>0, <2>1 DEF MoveInv
  <1>4. QED
    BY <1>1, <1>2, <1>3 DEF Next, RunAction

\* No worker is served by a queue of a run that moves jobs, for any number of runs,
\* faults and crashes, as long as two runs either have the same source or nothing in
\* common, no lease runs out under a run, and operators keep to other queues.
THEOREM QueuesStayPaused ==
  ASSUME OperatorQueues = {}, LongWaits = {},
         \A r, x \in Runs : Source[r] = Source[x] \/ Disjoint(r, x)
  PROVE  Spec => []PausedWhileMoving
  <1>1. Init => MoveInv
    BY DEF Init, MoveInv, HoldsLease, KeepsOf, Outside, Body, Transfer
  <1>2. TypeOK /\ MoveInv /\ [Next]_vars => MoveInv'
    BY MoveNext
  <1>3. MoveInv => PausedWhileMoving
    BY DEF MoveInv, KeepsOf, QueueOf, Sides, Body, PausedWhileMoving
  <1>4. QED
    BY <1>1, <1>2, <1>3, TypeInit, TypeNext, PTL DEF Spec

------------------------------------------------------------------------------
(* Giving the queues back *)

\* The run completed or was cancelled, and nothing has to be inspected.
Clean(r) == pc[r] = "release" /\ status[r] \in {"completed", "cancelled"} /\ ~intervention[r]

\* The guard exists from the loop on, when no pause is in flight any more; and each
\* resume that is still to come is of a queue that was running.
GuardOf(r) ==
  /\ pc[r] \in Body => guard[r]
  /\ guard[r] => pc[r] \in Body \cup Exits \cup {"crashed"}
  /\ guard[r] \/ pc[r] = "countActive" => inflight[r] = {}
  /\ pc[r] = "restoreTarget" =>
       guard[r] /\ ~was[r]["target"] /\ (was[r]["source"] => paused[Source[r]])
  /\ pc[r] = "restoreSource" =>
       guard[r] /\ ~was[r]["source"] /\ (paused[Target[r]] <=> was[r]["target"])
  /\ Clean(r) => guard[r] /\ \A side \in Sides : paused[QueueOf(r, side)] = was[r][side]

\* The finally block of a run that has a guard.
LEMMA FinallyGuard ==
  ASSUME TypeOK, NEW r \in Runs, KeepsOf(r), GuardOf(r), pc[r] \in Body,
         NEW outcome, NEW needsHuman \in BOOLEAN, Finally(r, outcome, needsHuman),
         UNCHANGED <<paused, was, inflight, guard>>
  PROVE  GuardOf(r)'
  <1>1. guard[r] /\ inflight[r] = {} /\ paused[Source[r]] /\ paused[Target[r]]
    BY DEF GuardOf, KeepsOf, QueueOf, Sides
  <1>2. /\ \/ pc'[r] = "restoreTarget" /\ ~was[r]["target"]
           \/ pc'[r] = "restoreSource" /\ was[r]["target"] /\ ~was[r]["source"]
           \/ pc'[r] = "release" /\ (~needsHuman /\ outcome # "failed" => was[r]["target"] /\ was[r]["source"])
        /\ status'[r] = outcome /\ intervention'[r] = needsHuman
    BY <1>1 DEF Finally, RestoreFrom, Go, TypeOK
  <1>3. paused[Source[r]] \in BOOLEAN /\ paused[Target[r]] \in BOOLEAN /\ was[r] \in [Sides -> BOOLEAN]
    BY RunsAssumption DEF TypeOK
  <1>4. QED
    BY <1>1, <1>2, <1>3 DEF GuardOf, Clean, QueueOf, Sides, Body, Transfer, Exits

\* A run that fails before it has a guard restores nothing.
LEMMA FailGuard ==
  ASSUME TypeOK, NEW r \in Runs, GuardOf(r), ~guard[r], ~guard'[r], Fail(r)
  PROVE  GuardOf(r)'
  <1>1. pc'[r] \in {"restoreTarget", "restoreSource", "release"} /\ status'[r] = "failed"
    BY DEF Fail, Finally, RestoreFrom, Go, TypeOK
  <1>2. pc'[r] = "release"
    BY DEF Fail, Finally, Go, TypeOK
  <1>3. QED
    BY <1>1, <1>2 DEF GuardOf, Clean, Body, Transfer

\* A step within the loop keeps the guard.
LEMMA GuardKept ==
  ASSUME NEW r \in Runs, GuardOf(r), guard'[r] = guard[r],
         \/ /\ pc[r] \in Body /\ pc'[r] \in Body /\ inflight'[r] = inflight[r]
         \/ /\ pc'[r] \in {"idle", "acquire", "readPause", "pause", "undoTarget", "undoSource"} /\ ~guard[r]
         \/ /\ pc'[r] \in {"ended", "crashed"} /\ inflight'[r] = inflight[r]
         \/ /\ UNCHANGED <<pc, paused, was, inflight>>
            /\ UNCHANGED <<status, intervention>> \/ status'[r] \notin {"completed", "cancelled"}
  PROVE  GuardOf(r)'
  BY DEF GuardOf, Clean, QueueOf, Body, Transfer, Exits

\* A step of a run preserves it.
LEMMA GuardOfNext ==
  ASSUME TypeOK, NEW r \in Runs, KeepsOf(r), GuardOf(r), RunAction(r)
  PROVE  GuardOf(r)'
  <1> USE DEF redisVars, setupVars, cursorVars, resultVars, exitVars, controlVars, runVars
  <1>1. ASSUME Start(r) PROVE GuardOf(r)'
    <2>1. pc[r] = "idle" /\ pc'[r] = "acquire" /\ guard'[r] = guard[r]
      BY <1>1, GoMoves DEF Start
    <2>2. QED
      BY <2>1, GuardKept DEF GuardOf, Body, Transfer, Exits
  <1>2. ASSUME NEW o \in Outcomes, Acquire(r, o) PROVE GuardOf(r)'
    <2>1. /\ pc[r] = "acquire" /\ guard'[r] = guard[r]
          /\ pc'[r] = "readPause" \/ (pc'[r] = "ended" /\ inflight'[r] = inflight[r])
      BY <1>2, GoMoves DEF Acquire, Answer
    <2>2. QED
      BY <2>1, GuardKept DEF GuardOf, Body, Transfer, Exits
  <1>3. ASSUME NEW side \in Sides, NEW o \in Outcomes, ReadPaused(r, side, o) PROVE GuardOf(r)'
    <2>1. pc[r] = "readPause" /\ guard'[r] = guard[r] /\ ~guard[r]
      BY <1>3 DEF ReadPaused, Answer, GuardOf, Body, Transfer, Exits
    <2>2. CASE o = "ok"
      BY <1>3, <2>1, <2>2, GuardKept DEF ReadPaused
    <2>3. CASE o # "ok"
      BY <1>3, <2>1, <2>3, FailGuard DEF ReadPaused
    <2>4. QED
      BY <2>2, <2>3
  <1>4. ASSUME IssuePauses(r) PROVE GuardOf(r)'
    <2>1. pc[r] = "readPause" /\ pc'[r] = "pause" /\ guard'[r] = guard[r]
      BY <1>4, GoMoves DEF IssuePauses
    <2>2. QED
      BY <2>1, GuardKept DEF GuardOf, Body, Transfer, Exits
  <1>5. ASSUME NEW side \in Sides, PauseLands(r, side) PROVE GuardOf(r)'
    <2>1. /\ inflight[r] # {} /\ UNCHANGED <<pc, was, guard, status, intervention>>
      BY <1>5 DEF PauseLands
    <2>2. QED
      BY <2>1 DEF GuardOf, Clean
  <1>6. ASSUME NEW side \in Sides, NEW o \in Outcomes, PauseRejected(r, side, o) PROVE GuardOf(r)'
    <2>1. pc[r] = "pause" /\ guard'[r] = guard[r] /\ Fail(r)
      BY <1>6 DEF PauseRejected, Answer
    <2>2. QED
      BY <2>1, FailGuard DEF GuardOf, Body, Transfer, Exits
  <1>7. ASSUME BothPaused(r) PROVE GuardOf(r)'
    <2>1. /\ pc[r] = "pause" /\ inflight[r] = {} /\ pc'[r] = "countActive"
          /\ UNCHANGED <<inflight, guard>>
      BY <1>7, GoMoves DEF BothPaused
    <2>2. QED
      BY <2>1 DEF GuardOf, Clean, Body, Transfer, Exits
  <1>8. ASSUME NEW o \in Outcomes, CountActive(r, o) PROVE GuardOf(r)'
    <2>1. pc[r] = "countActive" /\ ~guard[r] /\ inflight[r] = {} /\ UNCHANGED <<paused, was, inflight>>
      BY <1>8 DEF CountActive, Answer, GuardOf, Body, Transfer, Exits
    <2>2. \/ Fail(r) /\ ~guard'[r]
          \/ guard'[r] /\ pc'[r] = "loop"
          \/ ~guard'[r] /\ pc'[r] \in {"undoTarget", "undoSource"}
      BY <1>8, <2>1, GoMoves DEF CountActive, TypeOK
    <2>3. QED
      BY <2>1, <2>2, FailGuard DEF GuardOf, Clean, Body, Transfer, Exits
  <1>9. ASSUME NEW o \in Outcomes, UndoTarget(r, o) PROVE GuardOf(r)'
    <2>1. pc[r] = "undoTarget" /\ guard'[r] = guard[r] /\ ~guard[r]
      BY <1>9 DEF UndoTarget, ResumeSide, Answer, GuardOf, Body, Transfer, Exits
    <2>2. Fail(r) \/ pc'[r] = "undoSource"
      BY <1>9, GoMoves DEF UndoTarget
    <2>3. QED
      BY <2>1, <2>2, FailGuard, GuardKept
  <1>10. ASSUME NEW o \in Outcomes, UndoSource(r, o) PROVE GuardOf(r)'
    <2>1. pc[r] = "undoSource" /\ guard'[r] = guard[r] /\ ~guard[r] /\ Fail(r)
      BY <1>10 DEF UndoSource, ResumeSide, Answer, GuardOf, Body, Transfer, Exits
    <2>2. QED
      BY <2>1, FailGuard
  <1>11. ASSUME Finish(r) PROVE GuardOf(r)'
    <2>1. pc[r] \in Body /\ UNCHANGED <<paused, was, inflight, guard>> /\ intervention[r] \in BOOLEAN
      BY <1>11 DEF Finish, Body, TypeOK
    <2>2. Finally(r, "completed", intervention[r])
      BY <1>11 DEF Finish
    <2>3. QED
      BY <2>1, <2>2, FinallyGuard
  <1>12. ASSUME CancelSeen(r) PROVE GuardOf(r)'
    <2>1. pc[r] \in Body /\ UNCHANGED <<paused, was, inflight, guard>> /\ intervention[r] \in BOOLEAN
      BY <1>12 DEF CancelSeen, Body, TypeOK
    <2>2. Finally(r, "cancelled", intervention[r])
      BY <1>12 DEF CancelSeen
    <2>3. QED
      BY <2>1, <2>2, FinallyGuard
  <1>13. ASSUME NextState(r) PROVE GuardOf(r)'
    <2>1. /\ pc[r] \in Body /\ pc'[r] \in Body /\ inflight'[r] = inflight[r] /\ guard'[r] = guard[r]
      BY <1>13, GoMoves DEF NextState, Answer, Body, Transfer
    <2>2. QED
      BY <2>1, GuardKept
  <1>14. ASSUME NEW o \in Outcomes, ListJobs(r, o) PROVE GuardOf(r)'
    <2>1. pc[r] = "list" /\ UNCHANGED <<paused, was, inflight, guard>> /\ intervention[r] \in BOOLEAN
      BY <1>14 DEF ListJobs, Answer, TypeOK
    <2>2. CASE o = "ok"
      <3>1. pc'[r] \in Body
        BY <1>14, <2>2, GoMoves DEF ListJobs, Body
      <3>2. QED
        BY <2>1, <3>1, GuardKept DEF Body
    <2>3. CASE o # "ok"
      BY <1>14, <2>1, <2>3, FinallyGuard DEF ListJobs, Fail, Body
    <2>4. QED
      BY <2>2, <2>3
  <1>15. ASSUME Park(r) PROVE GuardOf(r)'
    <2>1. /\ pc[r] \in Body /\ pc'[r] \in Body /\ inflight'[r] = inflight[r] /\ guard'[r] = guard[r]
      BY <1>15, GoMoves DEF Park, Answer, Body, Transfer
    <2>2. QED
      BY <2>1, GuardKept
  <1>16. ASSUME NextJob(r) PROVE GuardOf(r)'
    <2>1. /\ pc[r] \in Body /\ pc'[r] \in Body /\ inflight'[r] = inflight[r] /\ guard'[r] = guard[r]
      BY <1>16, ProceedOne DEF NextJob, Answer, Body, Transfer
    <2>2. QED
      BY <2>1, GuardKept
  <1>17. ASSUME SleepOver(r) PROVE GuardOf(r)'
    <2>1. /\ pc[r] \in Body /\ pc'[r] \in Body /\ inflight'[r] = inflight[r] /\ guard'[r] = guard[r]
      BY <1>17, GoMoves DEF SleepOver, Answer, Body, Transfer
    <2>2. QED
      BY <2>1, GuardKept
  <1>18. ASSUME NEW o \in Outcomes, Refresh(r, o) PROVE GuardOf(r)'
    <2>1. pc[r] = "refresh" /\ UNCHANGED <<paused, was, inflight, guard>>
      BY <1>18 DEF Refresh, Answer
    <2>2. CASE Finally(r, "failed", TRUE)
      BY <2>1, <2>2, FinallyGuard DEF Body
    <2>3. CASE ~Finally(r, "failed", TRUE)
      <3>1. pc'[r] \in Body
        BY <1>18, <2>3, GoMoves DEF Refresh, JobFails, Body, Transfer
      <3>2. QED
        BY <2>1, <3>1, GuardKept DEF Body
    <2>4. QED
      BY <2>2, <2>3
  <1>19. ASSUME NEW o \in Outcomes, GetSource(r, o) PROVE GuardOf(r)'
    <2>1. /\ pc[r] \in Body /\ pc'[r] \in Body /\ inflight'[r] = inflight[r] /\ guard'[r] = guard[r]
      BY <1>19, GoMoves DEF GetSource, JobStep, JobFails, Answer, Body, Transfer
    <2>2. QED
      BY <2>1, GuardKept
  <1>20. ASSUME NEW o \in Outcomes, GetTarget(r, o) PROVE GuardOf(r)'
    <2>1. /\ pc[r] \in Body /\ pc'[r] \in Body /\ inflight'[r] = inflight[r] /\ guard'[r] = guard[r]
      BY <1>20, GoMoves DEF GetTarget, JobStep, JobFails, Answer, Body, Transfer
    <2>2. QED
      BY <2>1, GuardKept
  <1>21. ASSUME NEW o \in Outcomes, Add(r, o) PROVE GuardOf(r)'
    <2>1. /\ pc[r] \in Body /\ pc'[r] \in Body /\ inflight'[r] = inflight[r] /\ guard'[r] = guard[r]
      BY <1>21, GoMoves DEF Add, JobStep, JobFails, Answer, Body, Transfer
    <2>2. QED
      BY <2>1, GuardKept
  <1>22. ASSUME NEW o \in Outcomes, Remove(r, o) PROVE GuardOf(r)'
    <2>1. /\ pc[r] \in Body /\ pc'[r] \in Body /\ inflight'[r] = inflight[r] /\ guard'[r] = guard[r]
      BY <1>22, GoMoves DEF Remove, Answer, Body, Transfer
    <2>2. QED
      BY <2>1, GuardKept
  <1>23. ASSUME NEW o \in Outcomes, Rollback(r, o) PROVE GuardOf(r)'
    <2>1. /\ pc[r] \in Body /\ pc'[r] \in Body /\ inflight'[r] = inflight[r] /\ guard'[r] = guard[r]
      BY <1>23, GoMoves DEF Rollback, JobFails, Answer, Body, Transfer
    <2>2. QED
      BY <2>1, GuardKept
  <1>24. ASSUME NEW o \in Outcomes, RestoreTarget(r, o) PROVE GuardOf(r)'
    <2>1. /\ pc[r] = "restoreTarget" /\ UNCHANGED <<was, inflight, guard, intervention>>
          /\ guard[r] /\ ~was[r]["target"] /\ (was[r]["source"] => paused[Source[r]])
      BY <1>24 DEF RestoreTarget, ResumeSide, Answer, GuardOf
    <2>2. CASE pc'[r] = "ended"
      BY <2>1, <2>2, GuardKept
    <2>3. CASE pc'[r] # "ended"
      <3>1. o = "ok" /\ pc'[r] = RestoreFrom(r, "source")
        BY <1>24, <2>3, GoMoves DEF RestoreTarget, Escape
      <3>2. paused' = [paused EXCEPT ![Target[r]] = FALSE]
        BY <1>24, <3>1 DEF RestoreTarget, ResumeSide, Applied, QueueOf
      <3>3. ~paused'[Target[r]] /\ paused'[Source[r]] = paused[Source[r]]
        BY <3>2, RunsAssumption DEF TypeOK
      <3>4. \/ pc'[r] = "restoreSource" /\ ~was[r]["source"]
            \/ pc'[r] = "release" /\ was[r]["source"]
        BY <3>1 DEF RestoreFrom
      <3>5. was[r]["target"] \in BOOLEAN /\ was[r]["source"] \in BOOLEAN
            /\ paused[Source[r]] \in BOOLEAN /\ paused'[Target[r]] = FALSE
        BY <3>2, RunsAssumption DEF TypeOK, Sides
      <3>6. inflight[r] = {}
        BY <2>1 DEF GuardOf
      <3>7. QED
        BY <2>1, <3>3, <3>4, <3>5, <3>6 DEF GuardOf, Clean, QueueOf, Sides, Body, Transfer, Exits
    <2>4. QED
      BY <2>2, <2>3
  <1>25. ASSUME NEW o \in Outcomes, RestoreSource(r, o) PROVE GuardOf(r)'
    <2>1. /\ pc[r] = "restoreSource" /\ UNCHANGED <<was, inflight, guard, intervention>>
          /\ guard[r] /\ ~was[r]["source"] /\ (paused[Target[r]] <=> was[r]["target"])
      BY <1>25 DEF RestoreSource, ResumeSide, Answer, GuardOf
    <2>2. CASE pc'[r] = "ended"
      BY <2>1, <2>2, GuardKept
    <2>3. CASE pc'[r] # "ended"
      <3>1. o = "ok" /\ pc'[r] = "release"
        BY <1>25, <2>3, GoMoves DEF RestoreSource, Escape
      <3>2. paused' = [paused EXCEPT ![Source[r]] = FALSE]
        BY <1>25, <3>1 DEF RestoreSource, ResumeSide, Applied, QueueOf
      <3>3. ~paused'[Source[r]] /\ paused'[Target[r]] = paused[Target[r]]
        BY <3>2, RunsAssumption DEF TypeOK
      <3>4. was[r]["target"] \in BOOLEAN /\ was[r]["source"] \in BOOLEAN
            /\ paused[Target[r]] \in BOOLEAN /\ paused'[Source[r]] = FALSE
        BY <3>2, RunsAssumption DEF TypeOK, Sides
      <3>5. inflight[r] = {}
        BY <2>1 DEF GuardOf
      <3>6. QED
        BY <2>1, <3>1, <3>3, <3>4, <3>5 DEF GuardOf, Clean, QueueOf, Sides, Body, Transfer, Exits
    <2>4. QED
      BY <2>2, <2>3
  <1>26. ASSUME NEW o \in Outcomes, Release(r, o) PROVE GuardOf(r)'
    <2>1. /\ pc'[r] \in {"ended", "crashed"} /\ inflight'[r] = inflight[r] /\ guard'[r] = guard[r]
      BY <1>26, GoMoves DEF Release, Escape
    <2>2. QED
      BY <2>1, GuardKept
  <1>27. ASSUME Cancel(r) PROVE GuardOf(r)'
    <2>1. UNCHANGED <<paused, was, inflight, guard>> /\ intervention[r] \in BOOLEAN
      BY <1>27 DEF Cancel, Abort, TypeOK
    <2>2. CASE pc[r] \in {"parked", "sleep"}
      <3>1. Finally(r, "cancelled", intervention[r]) /\ pc[r] \in Body
        BY <1>27, <2>2 DEF Cancel, Abort, Body
      <3>2. QED
        BY <2>1, <3>1, FinallyGuard
    <2>3. CASE pc[r] \notin {"parked", "sleep"}
      BY <1>27, <2>1, <2>3, GuardKept DEF Cancel, Abort
    <2>4. QED
      BY <2>2, <2>3
  <1>28. ASSUME Destroy(r) PROVE GuardOf(r)'
    <2>1. UNCHANGED <<paused, was, inflight, guard>> /\ intervention[r] \in BOOLEAN
      BY <1>28 DEF Destroy, Abort, TypeOK
    <2>2. CASE pc[r] \in {"parked", "sleep"}
      <3>1. Finally(r, "cancelled", intervention[r]) /\ pc[r] \in Body
        BY <1>28, <2>2 DEF Destroy, Abort, Body
      <3>2. QED
        BY <2>1, <3>1, FinallyGuard
    <2>3. CASE pc[r] \notin {"parked", "sleep"}
      BY <1>28, <2>1, <2>3, GuardKept DEF Destroy, Abort
    <2>4. QED
      BY <2>2, <2>3
  <1>29. ASSUME Pause(r) PROVE GuardOf(r)'
    <2>1. /\ UNCHANGED <<pc, paused, was, inflight, guard>> /\ status'[r] = "paused"
      BY <1>29 DEF Pause, TypeOK
    <2>2. QED
      BY <2>1, GuardKept
  <1>30. ASSUME Resume(r) PROVE GuardOf(r)'
    <2>1. /\ UNCHANGED <<paused, was, inflight, guard>> /\ status'[r] = "running"
      BY <1>30 DEF Resume, TypeOK
    <2>2. CASE pc[r] = "parked"
      <3>1. pc'[r] \in Body
        BY <1>30, <2>2, ProceedOne DEF Resume, Body
      <3>2. QED
        BY <2>1, <2>2, <3>1, GuardKept DEF Body
    <2>3. CASE pc[r] # "parked"
      BY <1>30, <2>1, <2>3, GuardKept DEF Resume
    <2>4. QED
      BY <2>2, <2>3
  <1>31. ASSUME Crash(r) PROVE GuardOf(r)'
    <2>1. /\ pc'[r] \in {"ended", "crashed"} /\ inflight'[r] = inflight[r] /\ guard'[r] = guard[r]
      BY <1>31, GoMoves DEF Crash
    <2>2. QED
      BY <2>1, GuardKept
  <1>32. QED
    BY <1>1, <1>2, <1>3, <1>4, <1>5, <1>6, <1>7, <1>8, <1>9, <1>10, <1>11, <1>12, <1>13, <1>14,
       <1>15, <1>16, <1>17, <1>18, <1>19, <1>20, <1>21, <1>22, <1>23, <1>24, <1>25, <1>26,
       <1>27, <1>28, <1>29, <1>30, <1>31
       DEF RunAction, RunStep, Setup, Loop, MoveJob, Exit, Control


\* So does the step of a run with other queues.
LEMMA GuardOther ==
  ASSUME TypeOK, NEW r \in Runs, NEW x \in Runs \ {r}, GuardOf(r), RunAction(x), Disjoint(r, x)
  PROVE  GuardOf(r)'
  <1>1. SameRun(r)
    BY OtherRuns
  <1>2. paused'[Source[r]] = paused[Source[r]] /\ paused'[Target[r]] = paused[Target[r]]
    BY PausedStep, RunsAssumption DEF Disjoint
  <1>3. QED
    BY <1>1, <1>2 DEF GuardOf, Clean, QueueOf, SameRun

GiveBackInv == \A r \in Runs : KeepsOf(r) /\ GuardOf(r)

\* Every step preserves both.
LEMMA GiveBackNext ==
  ASSUME OperatorQueues = {}, \A r, x \in Runs : r # x => Disjoint(r, x)
  PROVE  TypeOK /\ GiveBackInv /\ [Next]_vars => GiveBackInv'
  <1> SUFFICES ASSUME TypeOK, GiveBackInv, [Next]_vars PROVE GiveBackInv'
    OBVIOUS
  <1>1. ASSUME NEW r \in Runs, RunAction(r) PROVE GiveBackInv'
    <2>1. KeepsOf(r)' /\ GuardOf(r)'
      BY <1>1, KeepsOfNext, GuardOfNext DEF GiveBackInv
    <2>2. ASSUME NEW x \in Runs \ {r} PROVE KeepsOf(x)' /\ GuardOf(x)'
      BY <1>1, KeepsOther, GuardOther DEF GiveBackInv
    <2>3. QED
      BY <2>1, <2>2 DEF GiveBackInv
  <1>2. ASSUME UNCHANGED <<paused, pc, runVars>> PROVE GiveBackInv'
    BY <1>2, KeepsKept, GuardKept DEF GiveBackInv, runVars, setupVars, exitVars
  <1>3. ASSUME NEW q \in Queues, Queue(q) PROVE GiveBackInv'
    BY <1>2, <1>3, QueueKeeps
  <1>4. ASSUME UNCHANGED vars PROVE GiveBackInv'
    BY <1>2, <1>4 DEF vars, redisVars
  <1>5. QED
    BY <1>1, <1>3, <1>4 DEF Next, RunAction

\* For runs with queues of their own, left alone by operators: a run that completed or
\* was cancelled, and has nothing to be inspected, has given both queues back as it
\* found them when it releases the lease.  Leases may be lost on the way.
THEOREM QueuesGivenBack ==
  ASSUME OperatorQueues = {}, \A r, x \in Runs : r # x => Disjoint(r, x)
  PROVE  Spec => []CleanExitRestores
  <1>1. Init => GiveBackInv
    BY DEF Init, GiveBackInv, KeepsOf, GuardOf, Clean, Body, Transfer, Exits
  <1>2. TypeOK /\ GiveBackInv /\ [Next]_vars => GiveBackInv'
    BY GiveBackNext
  <1>3. GiveBackInv => CleanExitRestores
    BY DEF GiveBackInv, GuardOf, Clean, CleanExitRestores
  <1>4. QED
    BY <1>1, <1>2, <1>3, TypeInit, TypeNext, PTL DEF Spec
==============================================================================
