------------------------ MODULE QueueProcessorProofs ------------------------
(***************************************************************************)
(* Proofs about QueueProcessor for any number of attempts, events and jobs *)
(***************************************************************************)
EXTENDS QueueProcessor, TLAPS

\* Every step preserves the types: OneTimer keeps the count of timeouts from going
\* below zero.
LEMMA ProcessorTypeNext == TypeOK /\ OneTimer /\ [Next]_vars => TypeOK'
  <1> SUFFICES ASSUME TypeOK, OneTimer, [Next]_vars PROVE TypeOK'
    OBVIOUS
  <1> USE DEF TypeOK, pursuitVars, recoveryVars, runVars, statVars, boundVars, isShuttingDown
  <1>0. Cleared = 0 /\ armed \in {0, 1}
    BY DEF Cleared, OneTimer
  <1>1. CASE WorkerStops
    <2>1. Flags'
      BY <1>1 DEF WorkerStops, Flags
    <2>2. QED
      BY <1>0, <1>1, <2>1 DEF WorkerStops
  <1>2. CASE Closed
    <2>1. Flags'
      BY <1>2 DEF Closed, AttemptRecovery, Rearm, Flags
    <2>2. QED
      BY <1>0, <1>2, <2>1 DEF Closed, AttemptRecovery, Rearm
  <1>3. CASE Fire
    <2>1. Flags'
      BY <1>3 DEF Fire, Flags
    <2>2. QED
      BY <1>0, <1>3, <2>1 DEF Fire
  <1>4. CASE RunStarts
    <2>1. Flags'
      BY <1>4 DEF RunStarts, Flags
    <2>2. QED
      BY <1>0, <1>4, <2>1 DEF RunStarts
  <1>5. CASE RunReturnsIdle
    <2>1. Flags'
      BY <1>5 DEF RunReturnsIdle, Flags
    <2>2. QED
      BY <1>0, <1>5, <2>1 DEF RunReturnsIdle
  <1>6. CASE RunResolves
    <2>1. Flags'
      BY <1>6 DEF RunResolves, Flags
    <2>2. QED
      BY <1>0, <1>6, <2>1 DEF RunResolves
  <1>7. CASE RunRejects
    <2>1. Flags'
      BY <1>7 DEF RunRejects, Rejected, AttemptRecovery, Rearm, Flags
    <2>2. QED
      BY <1>0, <1>7, <2>1 DEF RunRejects, Rejected, AttemptRecovery, Rearm
  <1>8. CASE Ready
    <2>1. Flags'
      BY <1>8 DEF Ready, Flags
    <2>2. QED
      BY <1>0, <1>8, <2>1 DEF Ready
  <1>9. CASE RunByHand
    <2>1. Flags'
      BY <1>9 DEF RunByHand, Flags
    <2>2. QED
      BY <1>0, <1>9, <2>1 DEF RunByHand
  <1>10. CASE JobCompletes
    <2>1. Flags'
      BY <1>10 DEF JobCompletes, Flags
    <2>2. QED
      BY <1>0, <1>10, <2>1 DEF JobCompletes
  <1>11. CASE Heartbeat
    <2>1. Flags'
      BY <1>11 DEF Heartbeat, LogBegins, Flags
    <2>2. QED
      BY <1>0, <1>11, <2>1 DEF Heartbeat, LogBegins
  <1>12. CASE LogEnds
    <2>1. Flags'
      BY <1>12 DEF LogEnds, LogOver, Flags
    <2>2. QED
      BY <1>0, <1>12, <2>1 DEF LogEnds, LogOver
  <1>13. CASE LogThrows
    <2>1. Flags'
      BY <1>13 DEF LogThrows, LogOver, Flags
    <2>2. QED
      BY <1>0, <1>13, <2>1 DEF LogThrows, LogOver
  <1>14. CASE Destroy
    <2>1. Flags'
      BY <1>14 DEF Destroy, Flags
    <2>2. QED
      BY <1>0, <1>14, <2>1 DEF Destroy
  <1>15. CASE HookReturns
    <2>1. Flags'
      BY <1>15 DEF HookReturns, LogBegins, Flags
    <2>2. QED
      BY <1>0, <1>15, <2>1 DEF HookReturns, LogBegins
  <1>16. CASE UNCHANGED vars
    BY <1>16 DEF vars, Flags
  <1>17. QED
    BY <1>1, <1>2, <1>3, <1>4, <1>5, <1>6, <1>7, <1>8,
       <1>9, <1>10, <1>11, <1>12, <1>13, <1>14, <1>15, <1>16
       DEF Next, Recovery, Events

\* Every step preserves the inductive invariant.
LEMMA ProcessorInvNext == TypeOK /\ ProcessorInv /\ [Next]_vars => ProcessorInv'
  <1> SUFFICES ASSUME TypeOK, ProcessorInv, [Next]_vars PROVE ProcessorInv'
    OBVIOUS
  <1> USE DEF TypeOK, ProcessorInv, OneTimer, QuietAfterShutdown, PursuedOrReported,
              NothingReportedTwice, pursuitVars, recoveryVars, runVars, statVars, boundVars,
              isShuttingDown
  <1>0. Cleared = 0 /\ armed \in {0, 1}
    BY DEF Cleared, OneTimer
  <1>1. CASE WorkerStops
    BY <1>0, <1>1 DEF WorkerStops
  <1>2. CASE Closed
    BY <1>0, <1>2 DEF Closed, AttemptRecovery, Rearm
  <1>3. CASE Fire
    BY <1>0, <1>3 DEF Fire
  <1>4. CASE RunStarts
    BY <1>0, <1>4 DEF RunStarts
  <1>5. CASE RunReturnsIdle
    BY <1>0, <1>5 DEF RunReturnsIdle
  <1>6. CASE RunResolves
    BY <1>0, <1>6 DEF RunResolves
  <1>7. CASE RunRejects
    BY <1>0, <1>7 DEF RunRejects, Rejected, AttemptRecovery, Rearm
  <1>8. CASE Ready
    BY <1>0, <1>8 DEF Ready
  <1>9. CASE RunByHand
    BY <1>0, <1>9 DEF RunByHand
  <1>10. CASE JobCompletes
    BY <1>0, <1>10 DEF JobCompletes
  <1>11. CASE Heartbeat
    BY <1>0, <1>11 DEF Heartbeat, LogBegins
  <1>12. CASE LogEnds
    BY <1>0, <1>12 DEF LogEnds, LogOver
  <1>13. CASE LogThrows
    BY <1>0, <1>13 DEF LogThrows, LogOver
  <1>14. CASE Destroy
    BY <1>0, <1>14 DEF Destroy
  <1>15. CASE HookReturns
    BY <1>0, <1>15 DEF HookReturns, LogBegins
  <1>16. CASE UNCHANGED vars
    BY <1>16 DEF vars
  <1>17. QED
    BY <1>1, <1>2, <1>3, <1>4, <1>5, <1>6, <1>7, <1>8,
       <1>9, <1>10, <1>11, <1>12, <1>13, <1>14, <1>15, <1>16
       DEF Next, Recovery, Events

\* The types and the invariant hold together: the type of the count of timeouts needs
\* OneTimer, and the invariant needs the types.
THEOREM ProcessorCorrect == Spec => [](TypeOK /\ ProcessorInv)
  <1>1. Init => TypeOK /\ ProcessorInv
    <2>1. Init => Flags
      BY DEF Init, Flags
    <2>2. Init => TypeOK
      BY <2>1 DEF Init, TypeOK
    <2>3. Init => ProcessorInv
      BY DEF Init, ProcessorInv, OneTimer, QuietAfterShutdown, PursuedOrReported,
             NothingReportedTwice, isShuttingDown
    <2>4. QED
      BY <2>2, <2>3
  <1>2. TypeOK /\ ProcessorInv /\ [Next]_vars => (TypeOK /\ ProcessorInv)'
    BY ProcessorTypeNext, ProcessorInvNext DEF ProcessorInv
  <1>3. QED
    BY <1>1, <1>2, PTL DEF Spec

\* A worker that closed is pursued until it runs or its end was reported, unless a run()
\* that resolved, or a missing worker, made the code let go of it: for any limit of
\* attempts and any number of stops, restarts and events of Redis.
THEOREM NeverAbandoned == Spec => []PursuedOrReported
  BY ProcessorCorrect, PTL DEF ProcessorInv

\* No recovery is scheduled after the shutdown has begun, whatever settles late.
THEOREM ShutdownIsQuiet == Spec => []QuietAfterShutdown
  BY ProcessorCorrect, PTL DEF ProcessorInv

\* No completion is reported twice, but by a heartbeat that threw after its report.
THEOREM ReportedOnce == Spec => []NothingReportedTwice
  BY ProcessorCorrect, PTL DEF ProcessorInv

\* One recovery timeout exists at most, and none that nobody can clear, for any limit of
\* attempts.
THEOREM OneTimeout == Spec => []OneTimer
  BY ProcessorCorrect, PTL DEF ProcessorInv

\* The types of the processor's fields.
THEOREM ProcessorTypes == Spec => []TypeOK
  BY ProcessorCorrect, PTL
==============================================================================
