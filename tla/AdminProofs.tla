----------------------------- MODULE AdminProofs -----------------------------
(***************************************************************************)
(* Proofs about QueueAdmin for any options, requests, queues and jobs: the *)
(* types, who closes which queues, the controls, and on which queues and   *)
(* instances a request works. A request only moves itself, so each         *)
(* invariant has a lemma for the steps beside it, and one step per action  *)
(* where it can be disturbed.                                              *)
(***************************************************************************)
EXTENDS QueueAdmin, WellFoundedInduction, TLAPS

\* The next command of a request on a queue
Commands == {"none", "waiting", "active", "completed", "paused", "sample", "types", "memory", "act",
             "command", "commanded", "reason", "done", "failed"}

\* The types of what a request keeps: where it stands, its answer and its commands.
RequestTypes ==
  /\ scenario \in Scenarios
  /\ ask \in [Requests -> scenario.asks \cup {None}]
  /\ stage \in [Requests -> Stages]
  /\ answer \in [Requests -> {"none", "ok", "error"}]
  /\ cmd \in [Requests -> [Slots -> Commands]]

\* The initial requests have the right types.
LEMMA RequestTypesInit == Init => RequestTypes
  BY DEF Init, RequestTypes, Stages, Commands

\* The queues of the options are slots.
LEMMA QueueIsSlot == ASSUME RequestTypes, NEW i \in DOMAIN Options.queues PROVE i \in Slots
  <1>1. scenario \in Scenarios
    BY DEF RequestTypes
  <1>2. QED
    BY <1>1, AdminAssumption DEF Options

\* What is asked for is not the mark of an idle request.
LEMMA AskIsSome == ASSUME RequestTypes, NEW a \in scenario.asks PROVE a # None
  <1>1. scenario \in Scenarios
    BY DEF RequestTypes
  <1>2. QED
    BY <1>1, AdminAssumption

\* The steps of a migration on the pause flags leave what is beside them alone.
LEMMA GuardingBeside == ASSUME Guarding PROVE UNCHANGED Beside
  BY DEF Guarding, pauseQueuesForMigration, NoLease, IsPaused, Pause, CountActive, MoveJob, MoveEnds, Restore,
         RunFails

\* A request that goes on keeps its types.
LEMMA ProceedType ==
  ASSUME RequestTypes, NEW r \in Requests, NEW cmds \in [Slots -> Commands], Proceed(r, cmds)
  PROVE  /\ stage' \in [Requests -> Stages]
         /\ answer' \in [Requests -> {"none", "ok", "error"}]
         /\ cmd' \in [Requests -> [Slots -> Commands]]
  <1>1. [i \in Slots |-> IF cmds[i] = "done" THEN "act" ELSE "none"] \in [Slots -> Commands]
    BY DEF Commands
  <1>2. \/ cmd' = [cmd EXCEPT ![r] = cmds] /\ stage' = stage /\ answer' = answer
        \/ /\ stage' = [stage EXCEPT ![r] = "act"] /\ answer' = answer
           /\ cmd' = [cmd EXCEPT ![r] = [i \in Slots |-> IF cmds[i] = "done" THEN "act" ELSE "none"]]
        \/ /\ cmd' = [cmd EXCEPT ![r] = cmds] /\ stage' = [stage EXCEPT ![r] = "answered"]
           /\ answer' = [answer EXCEPT ![r] = "ok"]
    BY DEF Proceed, Answer
  <1>3. /\ stage \in [Requests -> Stages] /\ "act" \in Stages /\ "answered" \in Stages
        /\ answer \in [Requests -> {"none", "ok", "error"}]
        /\ cmd \in [Requests -> [Slots -> Commands]]
    BY DEF RequestTypes, Stages
  <1>4. QED
    BY <1>1, <1>2, <1>3, ZenonT(60)

\* Every step preserves the types of the requests.
LEMMA RequestTypesNext == RequestTypes /\ [Next]_vars => RequestTypes'
  <1> SUFFICES ASSUME RequestTypes, [Next]_vars PROVE RequestTypes'
    OBVIOUS
  <1> USE DEF RequestTypes, boundVars
  <1>1. CASE Module
    <2>1. CASE onModuleInit
      BY <2>1 DEF onModuleInit
    <2>2. CASE onModuleDestroy
      BY <2>2 DEF onModuleDestroy
    <2>3. ASSUME NEW i \in Slots, CloseOwned(i) PROVE RequestTypes'
      BY <2>3 DEF CloseOwned
    <2>4. CASE ProviderDestroyed
      BY <2>4 DEF ProviderDestroyed, HookEnds
    <2>5. CASE ServiceDestroyed
      BY <2>5 DEF ServiceDestroyed, HookEnds
    <2>6. QED
      BY <1>1, <2>1, <2>2, <2>3, <2>4, <2>5 DEF Module
  <1>2. CASE Asked
    <2>1. ASSUME NEW r \in Requests, NEW a \in scenario.asks, Refuse(r, a) PROVE RequestTypes'
      BY <2>1 DEF Refuse, Stages, Commands, Answer, MayAsk
    <2>2. ASSUME NEW r \in Requests, NEW a \in scenario.asks, AskCounts(r, a) PROVE RequestTypes'
      BY <2>2 DEF AskCounts, Stages, Commands, MayAsk
    <2>3. ASSUME NEW r \in Requests, NEW a \in scenario.asks, AskControl(r, a) PROVE RequestTypes'
      BY <2>3 DEF AskControl, Stages, Commands, MayAsk
    <2>4. ASSUME NEW r \in Requests, NEW a \in scenario.asks, AskMigration(r, a) PROVE RequestTypes'
      BY <2>4 DEF AskMigration, Stages, Commands, Answer, MayAsk
    <2>5. ASSUME NEW r \in Requests, NEW a \in scenario.asks, AskCache(r, a) PROVE RequestTypes'
      BY <2>5 DEF AskCache, Stages, Commands, Answer, MayAsk
    <2>6. QED
      BY <1>2, <2>1, <2>2, <2>3, <2>4, <2>5 DEF Asked
  <1>3. CASE Migrating
    <2>1. ASSUME NEW r \in Requests, NEW ok \in BOOLEAN, WorkEnds(r, ok) PROVE RequestTypes'
      BY <2>1 DEF WorkEnds, Stages, Commands
    <2>2. ASSUME NEW r \in Requests, Closes(r) PROVE RequestTypes'
      BY <2>2 DEF Closes, Stages, Commands
    <2>3. ASSUME NEW r \in Requests, CloseRejects(r) PROVE RequestTypes'
      BY <2>3 DEF CloseRejects, Stages, Commands, Answer
    <2>4. QED
      BY <1>3, <2>1, <2>2, <2>3 DEF Migrating
  <1>4. CASE Stats
    <2>1. ASSUME NEW r \in Requests, NEW i \in Slots, ReadCount(r, i) PROVE RequestTypes'
      BY <2>1, ProceedType DEF ReadCount, NextRead, Commands, Counts
    <2>2. ASSUME NEW r \in Requests, NEW i \in Slots,
              NEW reported \in scenario.reported \cup {NothingReported}, Sample(r, i, reported)
         PROVE  RequestTypes'
      BY <2>2, ProceedType DEF Sample, Commands
    <2>3. ASSUME NEW r \in Requests, NEW i \in Slots, discoverJobTypes(r, i) PROVE RequestTypes'
      <3>1. [cmd[r] EXCEPT ![i] = NextRead("types", ask[r].kind)] \in [Slots -> Commands]
        BY DEF NextRead, Commands
      <3>2. QED
        BY <2>3, <3>1, ProceedType DEF discoverJobTypes
    <2>4. ASSUME NEW r \in Requests, NEW i \in Slots, ReadFails(r, i) PROVE RequestTypes'
      <3>1. cmd[r] \in [Slots -> Commands] /\ [cmd[r] EXCEPT ![i] = "failed"] \in [Slots -> Commands]
        BY DEF Commands
      <3>2. CASE ask[r].kind = "stats"
        BY <2>4, <3>1, <3>2, ProceedType DEF ReadFails
      <3>3. CASE ask[r].kind # "stats"
        BY <2>4, <3>1, <3>3, ZenonT(60) DEF ReadFails, Answer, Stages, Commands
      <3>4. QED
        BY <3>2, <3>3
    <2>5. ASSUME NEW r \in Requests, NEW i \in Slots, Act(r, i) PROVE RequestTypes'
      BY <2>5 DEF Act, Stages, Commands
    <2>6. ASSUME NEW r \in Requests, NEW i \in Slots, ActFails(r, i) PROVE RequestTypes'
      BY <2>6 DEF ActFails, Stages, Commands, Answer
    <2>7. ASSUME NEW r \in Requests, NEW i \in Slots, ReadMemory(r, i) PROVE RequestTypes'
      BY <2>7, ProceedType DEF ReadMemory, Commands
    <2>8. QED
      BY <1>4, <2>1, <2>2, <2>3, <2>4, <2>5, <2>6, <2>7 DEF Stats
  <1>5. CASE Controlled
    <2>1. ASSUME NEW r \in Requests, NEW i \in Slots, Command(r, i) PROVE RequestTypes'
      BY <2>1 DEF Command, AfterCommand, Commands
    <2>2. ASSUME NEW r \in Requests, NEW i \in Slots, SetReason(r, i) PROVE RequestTypes'
      BY <2>2 DEF SetReason, Stages, Commands, Answer
    <2>3. ASSUME NEW r \in Requests, NEW i \in Slots, ControlFails(r, i) PROVE RequestTypes'
      BY <2>3 DEF ControlFails, Stages, Commands, Answer
    <2>4. QED
      BY <1>5, <2>1, <2>2, <2>3 DEF Controlled
  <1>6. CASE Jobs
    BY <1>6, ZenonT(60) DEF Jobs, JobArrives, JobTaken, JobCounted, JobCompletes, updateQueueContext, Job
  <1>7. CASE Tick
    BY <1>7 DEF Tick
  <1>8. CASE UNCHANGED vars
    BY <1>8 DEF vars
  <1>9. CASE Guarding
    BY <1>9, GuardingBeside DEF Beside
  <1>10. QED
    BY <1>1, <1>2, <1>3, <1>4, <1>5, <1>6, <1>7, <1>8, <1>9 DEF Next

\* What Redis knows of a queue
QueueRecord == [waiting : Nat, active : Nat, completed : Nat, paused : BOOLEAN]

\* The types of the queues and of their controls.
QueueTypes ==
  /\ q \in [Slots -> QueueRecord]
  /\ reason \in [Slots -> BOOLEAN]
  /\ DOMAIN clash = Requests
  /\ settled \in [Slots -> Controls \cup {"none"}]

\* What a request does is what it was asked for.
AskedFor == \A r \in Requests :
  /\ stage[r] # "idle" => ask[r] # None
  /\ stage[r] = "idle" => \A i \in Slots : cmd[r][i] = "none"
  /\ stage[r] \in {"before", "act", "after"} => ask[r].kind \in Counting
  /\ stage[r] = "control" => ask[r].kind \in Controls
  /\ stage[r] \in {"work", "closing"} => ask[r].kind \in Migrations \cup CacheRequests

\* The initial queues have the right types, and no request has been asked for.
LEMMA QueuesInit == Init => QueueTypes /\ AskedFor
  BY DEF Init, QueueTypes, QueueRecord, AskedFor

\* Every step keeps a request at what it was asked for.
LEMMA AskedForNext == RequestTypes /\ AskedFor /\ [Next]_vars => AskedFor'
  <1> SUFFICES ASSUME RequestTypes, AskedFor, [Next]_vars PROVE AskedFor'
    OBVIOUS
  <1> USE DEF RequestTypes, AskedFor
  <1>1. CASE Module
    <2>1. CASE onModuleInit
      BY <2>1 DEF onModuleInit
    <2>2. CASE onModuleDestroy
      BY <2>2 DEF onModuleDestroy
    <2>3. ASSUME NEW i \in Slots, CloseOwned(i) PROVE AskedFor'
      BY <2>3 DEF CloseOwned
    <2>4. CASE ProviderDestroyed
      BY <2>4 DEF ProviderDestroyed, HookEnds
    <2>5. CASE ServiceDestroyed
      BY <2>5 DEF ServiceDestroyed, HookEnds
    <2>6. QED
      BY <1>1, <2>1, <2>2, <2>3, <2>4, <2>5 DEF Module
  <1>2. CASE Asked
    <2>1. ASSUME NEW r \in Requests, NEW a \in scenario.asks, Refuse(r, a) PROVE AskedFor'
      BY <2>1, AskIsSome DEF Refuse, Answer, MayAsk
    <2>2. ASSUME NEW r \in Requests, NEW a \in scenario.asks, AskCounts(r, a) PROVE AskedFor'
      BY <2>2, AskIsSome DEF AskCounts, MayAsk
    <2>3. ASSUME NEW r \in Requests, NEW a \in scenario.asks, AskControl(r, a) PROVE AskedFor'
      BY <2>3, AskIsSome DEF AskControl, MayAsk
    <2>4. ASSUME NEW r \in Requests, NEW a \in scenario.asks, AskMigration(r, a) PROVE AskedFor'
      BY <2>4, AskIsSome DEF AskMigration, Answer, MayAsk
    <2>5. ASSUME NEW r \in Requests, NEW a \in scenario.asks, AskCache(r, a) PROVE AskedFor'
      BY <2>5, AskIsSome DEF AskCache, Answer, MayAsk
    <2>6. QED
      BY <1>2, <2>1, <2>2, <2>3, <2>4, <2>5 DEF Asked
  <1>3. CASE Migrating
    <2>1. ASSUME NEW r \in Requests, NEW ok \in BOOLEAN, WorkEnds(r, ok) PROVE AskedFor'
      BY <2>1 DEF WorkEnds
    <2>2. ASSUME NEW r \in Requests, Closes(r) PROVE AskedFor'
      BY <2>2 DEF Closes
    <2>3. ASSUME NEW r \in Requests, CloseRejects(r) PROVE AskedFor'
      BY <2>3 DEF CloseRejects, Answer
    <2>4. QED
      BY <1>3, <2>1, <2>2, <2>3 DEF Migrating
  <1>4. CASE Stats
    <2>1. ASSUME NEW r \in Requests, NEW i \in Slots, ReadCount(r, i) PROVE AskedFor'
      BY <2>1 DEF ReadCount, Reading, Proceed, Answer
    <2>2. ASSUME NEW r \in Requests, NEW i \in Slots,
              NEW reported \in scenario.reported \cup {NothingReported}, Sample(r, i, reported)
         PROVE  AskedFor'
      BY <2>2 DEF Sample, Reading, Proceed, Answer
    <2>3. ASSUME NEW r \in Requests, NEW i \in Slots, discoverJobTypes(r, i) PROVE AskedFor'
      BY <2>3 DEF discoverJobTypes, Reading, Proceed, Answer
    <2>4. ASSUME NEW r \in Requests, NEW i \in Slots, ReadFails(r, i) PROVE AskedFor'
      BY <2>4 DEF ReadFails, Reading, Proceed, Answer
    <2>5. ASSUME NEW r \in Requests, NEW i \in Slots, Act(r, i) PROVE AskedFor'
      BY <2>5 DEF Act
    <2>6. ASSUME NEW r \in Requests, NEW i \in Slots, ActFails(r, i) PROVE AskedFor'
      BY <2>6 DEF ActFails, Answer
    <2>7. ASSUME NEW r \in Requests, NEW i \in Slots, ReadMemory(r, i) PROVE AskedFor'
      BY <2>7 DEF ReadMemory, Reading, Proceed, Answer
    <2>8. QED
      BY <1>4, <2>1, <2>2, <2>3, <2>4, <2>5, <2>6, <2>7 DEF Stats
  <1>5. CASE Controlled
    <2>1. ASSUME NEW r \in Requests, NEW i \in Slots, Command(r, i) PROVE AskedFor'
      BY <2>1 DEF Command, InFlight
    <2>2. ASSUME NEW r \in Requests, NEW i \in Slots, SetReason(r, i) PROVE AskedFor'
      BY <2>2 DEF SetReason, Answer, InFlight
    <2>3. ASSUME NEW r \in Requests, NEW i \in Slots, ControlFails(r, i) PROVE AskedFor'
      BY <2>3 DEF ControlFails, Answer, InFlight
    <2>4. QED
      BY <1>5, <2>1, <2>2, <2>3 DEF Controlled
  <1>6. CASE Jobs
    <2>1. ASSUME NEW i \in DOMAIN Options.queues, JobArrives(i) PROVE AskedFor'
      BY <2>1 DEF JobArrives, Job
    <2>2. ASSUME NEW i \in DOMAIN Options.queues, JobTaken(i) PROVE AskedFor'
      BY <2>2 DEF JobTaken, Job
    <2>3. ASSUME NEW i \in DOMAIN Options.queues, JobCounted(i) PROVE AskedFor'
      BY <2>3 DEF JobCounted
    <2>4. ASSUME NEW i \in DOMAIN Options.queues, JobCompletes(i) PROVE AskedFor'
      BY <2>4 DEF JobCompletes, Job
    <2>5. ASSUME NEW i \in DOMAIN Options.queues, NEW added \in {0, TicksPerMinute}, updateQueueContext(i, added)
         PROVE  AskedFor'
      BY <2>5 DEF updateQueueContext
    <2>6. QED
      BY <1>6, <2>1, <2>2, <2>3, <2>4, <2>5 DEF Jobs
  <1>7. CASE Tick
    BY <1>7 DEF Tick
  <1>8. CASE UNCHANGED vars
    BY <1>8 DEF vars
  <1>9. CASE Guarding
    BY <1>9, GuardingBeside DEF Beside, AskedFor
  <1>10. QED
    BY <1>1, <1>2, <1>3, <1>4, <1>5, <1>6, <1>7, <1>8, <1>9 DEF Next

\* A job moves from one count to the next.
LEMMA JobMoved ==
  ASSUME NEW y \in QueueRecord, NEW from \in Nat, NEW to \in Nat
  PROVE  /\ [y EXCEPT !.waiting = from] \in QueueRecord
         /\ [y EXCEPT !.waiting = from, !.active = to] \in QueueRecord
         /\ [y EXCEPT !.active = from, !.completed = to] \in QueueRecord
  BY DEF QueueRecord

\* A migration sets the pause flag of a queue or moves one of its jobs.
LEMMA GuardingQueues ==
  ASSUME QueueTypes, Guarding
  PROVE  QueueTypes' /\ \A i \in Slots : q'[i].active = q[i].active
  <1>1. DOMAIN clash' = Requests
    BY DEF Guarding, pauseQueuesForMigration, NoLease, IsPaused, Pause, CountActive, MoveJob, MoveEnds, Restore,
           RunFails, QueueTypes
  <1>2. settled' \in [Slots -> Controls \cup {"none"}]
    <2>1. settled' = settled \/ \E r \in Requests : Leaves(r)
      BY DEF Guarding, pauseQueuesForMigration, NoLease, IsPaused, Pause, CountActive, MoveJob, MoveEnds, Restore,
             RunFails
    <2>2. QED
      BY <2>1 DEF Leaves, QueueTypes
  <1>3. ASSUME NEW i, NEW paused \in BOOLEAN, q' = WithFlag(i, paused)
        PROVE  q' \in [Slots -> QueueRecord] /\ \A j \in Slots : q'[j].active = q[j].active
    BY <1>3 DEF WithFlag, QueueTypes, QueueRecord
  <1>4. ASSUME NEW r \in Requests, MoveJob(r)
        PROVE  q' \in [Slots -> QueueRecord] /\ \A j \in Slots : q'[j].active = q[j].active
    <2> DEFINE from == At(r, "source")
               left(i) == q[i].waiting + (IF i = At(r, "target") THEN 1 ELSE 0) - (IF i = from THEN 1 ELSE 0)
    <2>1. q' = [i \in Slots |-> [q[i] EXCEPT !.waiting = left(i)]] /\ (from \in Slots => q[from].waiting > 0)
      BY <1>4, Zenon DEF MoveJob
    <2>2. ASSUME NEW i \in Slots PROVE left(i) \in Nat
      <3>1. q[i].waiting \in Nat
        BY DEF QueueTypes, QueueRecord
      <3>2. i = from => q[i].waiting > 0
        BY <2>1
      <3> HIDE DEF from
      <3>3. QED
        BY <3>1, <3>2
    <2> HIDE DEF left
    <2>3. QED
      BY <2>1, <2>2 DEF QueueTypes, QueueRecord
  <1>5. UNCHANGED reason
    BY GuardingBeside DEF Beside
  <1>6. q' \in [Slots -> QueueRecord] /\ \A j \in Slots : q'[j].active = q[j].active
    <2>1. \/ q' = q \/ \E r \in Requests : MoveJob(r)
          \/ \E r \in Requests, role \in Roles : q' = WithFlag(At(r, role), TRUE) \/ q' = WithFlag(At(r, role), FALSE)
      BY DEF Guarding, pauseQueuesForMigration, NoLease, IsPaused, Pause, CountActive, MoveEnds, Restore, RunFails,
             Roles
    <2>2. QED
      BY <1>3, <1>4, <2>1 DEF QueueTypes
  <1>7. QED
    BY <1>1, <1>2, <1>5, <1>6 DEF QueueTypes

\* Every step preserves the types of the queues.
LEMMA QueueTypesNext == RequestTypes /\ QueueTypes /\ AskedFor /\ [Next]_vars => QueueTypes'
  <1> SUFFICES ASSUME RequestTypes, QueueTypes, AskedFor, [Next]_vars PROVE QueueTypes'
    OBVIOUS
  <1> USE DEF QueueTypes, controlVars, jobVars
  <1>1. CASE Module
    BY <1>1 DEF Module, onModuleInit, onModuleDestroy, CloseOwned, ProviderDestroyed,
                               ServiceDestroyed, HookEnds
  <1>2. CASE Asked
    <2>1. ASSUME NEW r \in Requests, NEW a \in scenario.asks, Refuse(r, a) PROVE QueueTypes'
      BY <2>1 DEF Refuse
    <2>2. ASSUME NEW r \in Requests, NEW a \in scenario.asks, AskCounts(r, a) PROVE QueueTypes'
      BY <2>2 DEF AskCounts
    <2>3. ASSUME NEW r \in Requests, NEW a \in scenario.asks, AskControl(r, a) PROVE QueueTypes'
      BY <2>3 DEF AskControl, InFlight, Opposite, Addressed
    <2>4. ASSUME NEW r \in Requests, NEW a \in scenario.asks, AskMigration(r, a) PROVE QueueTypes'
      BY <2>4 DEF AskMigration
    <2>5. ASSUME NEW r \in Requests, NEW a \in scenario.asks, AskCache(r, a) PROVE QueueTypes'
      BY <2>5 DEF AskCache
    <2>6. QED
      BY <1>2, <2>1, <2>2, <2>3, <2>4, <2>5 DEF Asked
  <1>3. CASE Migrating
    BY <1>3 DEF Migrating, WorkEnds, Closes, CloseRejects
  <1>4. CASE Stats
    <2>1. ASSUME NEW r \in Requests, NEW i \in Slots, ReadCount(r, i) PROVE QueueTypes'
      BY <2>1 DEF ReadCount
    <2>2. ASSUME NEW r \in Requests, NEW i \in Slots,
              NEW reported \in scenario.reported \cup {NothingReported}, Sample(r, i, reported)
         PROVE  QueueTypes'
      BY <2>2 DEF Sample
    <2>3. ASSUME NEW r \in Requests, NEW i \in Slots, discoverJobTypes(r, i) PROVE QueueTypes'
      BY <2>3 DEF discoverJobTypes
    <2>4. ASSUME NEW r \in Requests, NEW i \in Slots, ReadFails(r, i) PROVE QueueTypes'
      BY <2>4 DEF ReadFails
    <2>5. ASSUME NEW r \in Requests, NEW i \in Slots, Act(r, i) PROVE QueueTypes'
      BY <2>5 DEF Act, QueueRecord
    <2>6. ASSUME NEW r \in Requests, NEW i \in Slots, ActFails(r, i) PROVE QueueTypes'
      BY <2>6 DEF ActFails
    <2>7. ASSUME NEW r \in Requests, NEW i \in Slots, ReadMemory(r, i) PROVE QueueTypes'
      BY <2>7 DEF ReadMemory
    <2>8. QED
      BY <1>4, <2>1, <2>2, <2>3, <2>4, <2>5, <2>6, <2>7 DEF Stats
  <1>5. CASE Controlled
    <2>1. ASSUME NEW r \in Requests, NEW i \in Slots, Command(r, i) PROVE QueueTypes'
      <3>1. q' = [q EXCEPT ![i].paused = ask[r].kind = "pause"] /\ UNCHANGED <<reason, clash, settled>>
        BY <2>1 DEF Command, controlVars
      <3>2. [q[i] EXCEPT !.paused = ask[r].kind = "pause"] \in QueueRecord
        BY DEF QueueRecord
      <3>3. q' \in [Slots -> QueueRecord]
        BY <3>1, <3>2
      <3>4. QED
        BY <3>1, <3>3
    <2>2. ASSUME NEW r \in Requests, NEW i \in Slots, SetReason(r, i) PROVE QueueTypes'
      BY <2>2 DEF SetReason, InFlight, Reason
    <2>3. ASSUME NEW r \in Requests, NEW i \in Slots, ControlFails(r, i) PROVE QueueTypes'
      BY <2>3 DEF ControlFails
    <2>4. QED
      BY <1>5, <2>1, <2>2, <2>3 DEF Controlled
  <1>6. CASE Jobs
    <2>1. ASSUME NEW i \in DOMAIN Options.queues, JobArrives(i) PROVE QueueTypes'
      <3>1. i \in Slots
        BY <2>1, QueueIsSlot
      <3>2. q[i] \in QueueRecord /\ q[i].waiting + 1 \in Nat
        BY <3>1, SMTT(30) DEF QueueRecord
      <3>3. [q[i] EXCEPT !.waiting = q[i].waiting + 1] \in QueueRecord
        BY <3>2, JobMoved
      <3>4. q' = [q EXCEPT ![i] = [q[i] EXCEPT !.waiting = q[i].waiting + 1]] /\ UNCHANGED controlVars
        BY <2>1 DEF JobArrives, Job
      <3>5. QED
        BY <3>1, <3>3, <3>4
    <2>2. ASSUME NEW i \in DOMAIN Options.queues, JobTaken(i) PROVE QueueTypes'
      <3>1. i \in Slots /\ q[i] \in QueueRecord /\ q[i].waiting > 0
        BY <2>2, QueueIsSlot DEF JobTaken
      <3>2. q[i].waiting - 1 \in Nat /\ q[i].active + 1 \in Nat
        BY <3>1, SMTT(30) DEF QueueRecord
      <3>3. [q[i] EXCEPT !.waiting = q[i].waiting - 1, !.active = q[i].active + 1] \in QueueRecord
        BY <3>1, <3>2, JobMoved
      <3>4. q' = [q EXCEPT ![i] = [q[i] EXCEPT !.waiting = q[i].waiting - 1, !.active = q[i].active + 1]]
        BY <2>2, <3>1 DEF JobTaken, Job, QueueRecord
      <3>5. UNCHANGED controlVars
        BY <2>2 DEF JobTaken, Job
      <3>6. QED
        BY <3>1, <3>3, <3>4, <3>5
    <2>3. ASSUME NEW i \in DOMAIN Options.queues, JobCounted(i) PROVE QueueTypes'
      BY <2>3 DEF JobCounted
    <2>4. ASSUME NEW i \in DOMAIN Options.queues, JobCompletes(i) PROVE QueueTypes'
      <3>1. i \in Slots /\ q[i] \in QueueRecord /\ q[i].active > 0
        BY <2>4, QueueIsSlot DEF JobCompletes
      <3>2. q[i].active - 1 \in Nat /\ q[i].completed + 1 \in Nat
        BY <3>1, SMTT(30) DEF QueueRecord
      <3>3. [q[i] EXCEPT !.active = q[i].active - 1, !.completed = q[i].completed + 1] \in QueueRecord
        BY <3>1, <3>2, JobMoved
      <3>4. q' = [q EXCEPT ![i] = [q[i] EXCEPT !.active = q[i].active - 1, !.completed = q[i].completed + 1]]
        BY <2>4, <3>1 DEF JobCompletes, Job, QueueRecord
      <3>5. UNCHANGED controlVars
        BY <2>4 DEF JobCompletes, Job
      <3>6. QED
        BY <3>1, <3>3, <3>4, <3>5
    <2>5. ASSUME NEW i \in DOMAIN Options.queues, NEW added \in {0, TicksPerMinute}, updateQueueContext(i, added)
         PROVE  QueueTypes'
      BY <2>5 DEF updateQueueContext
    <2>6. QED
      BY <1>6, <2>1, <2>2, <2>3, <2>4, <2>5 DEF Jobs
  <1>7. CASE Tick
    BY <1>7 DEF Tick
  <1>8. CASE UNCHANGED vars
    BY <1>8 DEF vars
  <1>9. CASE Guarding
    BY <1>9, GuardingQueues
  <1>10. QED
    BY <1>1, <1>2, <1>3, <1>4, <1>5, <1>6, <1>7, <1>8, <1>9 DEF Next
------------------------------------------------------------------------------
(* The temporary queues of a migration request *)

\* The types of the handles of the requests.
TemporaryTypes ==
  /\ DOMAIN handle = Requests
  /\ open \in [Requests -> SUBSET Roles] /\ toClose \in [Requests -> SUBSET Roles]
  /\ rejected \in [Requests -> BOOLEAN]

\* A request has exactly its temporary queues open while it works, has to close
\* exactly those that are open afterwards, and holds none otherwise, unless a
\* close rejected.
TemporaryInv == \A r \in Requests :
  /\ open[r] \subseteq Temporary(handle[r])
  /\ stage[r] # "answered" => ~rejected[r]
  /\ stage[r] \notin {"work", "closing"} /\ ~rejected[r] => open[r] = {}
  /\ stage[r] = "work" => open[r] = Temporary(handle[r])
  /\ stage[r] = "work" /\ ask[r].kind \notin Migrations => open[r] = {}
  /\ stage[r] = "closing" => toClose[r] = open[r] /\ open[r] # {}

\* Initially no request holds a queue.
LEMMA TemporaryInit == Init => TemporaryTypes /\ TemporaryInv
  BY DEF Init, TemporaryTypes, TemporaryInv

\* A request that holds no temporary queue may go on in any way that opens none.
LEMMA StepWithoutTemporary ==
  ASSUME TemporaryTypes, TemporaryInv, NEW r \in Requests, UNCHANGED handleVars,
         stage[r] \notin {"work", "closing", "answered"}, stage'[r] \notin {"work", "closing"},
         \A o \in Requests \ {r} : stage'[o] = stage[o] /\ ask'[o] = ask[o]
  PROVE  TemporaryTypes' /\ TemporaryInv'
  BY DEF TemporaryTypes, TemporaryInv, Temporary, handleVars

\* A step that moves no request disturbs no temporary queue.
LEMMA StepBesideTemporary ==
  ASSUME TemporaryTypes, TemporaryInv, UNCHANGED <<handleVars, ask, stage>>
  PROVE  TemporaryTypes' /\ TemporaryInv'
  BY DEF TemporaryTypes, TemporaryInv, Temporary, handleVars

\* A request that goes on with its commands neither works on a migration nor did.
LEMMA ProceedMoves ==
  ASSUME RequestTypes, NEW r \in Requests, NEW cmds, Reading(r), Proceed(r, cmds)
  PROVE  /\ stage[r] \notin {"work", "closing", "answered"} /\ stage'[r] \notin {"work", "closing"}
         /\ \A o \in Requests \ {r} : stage'[o] = stage[o]
  BY DEF RequestTypes, Reading, Proceed, Answer

\* Every step preserves TemporaryInv.
LEMMA TemporaryNext ==
  RequestTypes /\ TemporaryTypes /\ TemporaryInv /\ [Next]_vars => TemporaryTypes' /\ TemporaryInv'
  <1> SUFFICES ASSUME RequestTypes, TemporaryTypes, TemporaryInv, [Next]_vars
               PROVE  TemporaryTypes' /\ TemporaryInv'
    OBVIOUS
  <1>1. CASE Module
    <2>1. CASE onModuleInit
      BY <2>1, StepBesideTemporary DEF onModuleInit
    <2>2. CASE onModuleDestroy
      BY <2>2, StepBesideTemporary DEF onModuleDestroy
    <2>3. ASSUME NEW i \in Slots, CloseOwned(i) PROVE TemporaryTypes' /\ TemporaryInv'
      BY <2>3, StepBesideTemporary DEF CloseOwned
    <2>4. CASE ProviderDestroyed
      BY <2>4, StepBesideTemporary DEF ProviderDestroyed, HookEnds
    <2>5. CASE ServiceDestroyed
      BY <2>5, StepBesideTemporary DEF ServiceDestroyed, HookEnds
    <2>6. QED
      BY <1>1, <2>1, <2>2, <2>3, <2>4, <2>5 DEF Module
  <1>2. CASE Asked
    <2>1. ASSUME NEW r \in Requests, NEW a \in scenario.asks, Refuse(r, a)
         PROVE  TemporaryTypes' /\ TemporaryInv'
      BY <2>1, StepWithoutTemporary DEF Refuse, MayAsk, Answer, RequestTypes
    <2>2. ASSUME NEW r \in Requests, NEW a \in scenario.asks, AskCounts(r, a)
         PROVE  TemporaryTypes' /\ TemporaryInv'
      BY <2>2, StepWithoutTemporary DEF AskCounts, MayAsk, RequestTypes
    <2>3. ASSUME NEW r \in Requests, NEW a \in scenario.asks, AskControl(r, a)
         PROVE  TemporaryTypes' /\ TemporaryInv'
      BY <2>3, StepWithoutTemporary DEF AskControl, MayAsk, RequestTypes
    <2>4. ASSUME NEW r \in Requests, NEW a \in scenario.asks, AskMigration(r, a)
         PROVE  TemporaryTypes' /\ TemporaryInv'
      <3> DEFINE h == Lookup(a)
                T == Temporary(h)
      <3>1. /\ stage[r] = "idle" /\ open[r] = {} /\ ~rejected[r]
            /\ handle' = [handle EXCEPT ![r] = h] /\ open' = [open EXCEPT ![r] = T]
            /\ ask' = [ask EXCEPT ![r] = a] /\ a.kind \in Migrations
            /\ rejected' = rejected
        BY <2>4 DEF AskMigration, MayAsk, TemporaryInv
      <3>2. \/ stage' = [stage EXCEPT ![r] = "work"] /\ toClose' = toClose
            \/ /\ toClose' = [toClose EXCEPT ![r] = T]
               /\ stage' = [stage EXCEPT ![r] = IF T = {} THEN "answered" ELSE "closing"]
        BY <2>4 DEF AskMigration, ToClose, Answer
      <3>3. T \subseteq Roles /\ Temporary(handle'[r]) = T
        BY <3>1 DEF Temporary, TemporaryTypes
      <3>4. \A o \in Requests \ {r} : handle'[o] = handle[o] /\ ask'[o] = ask[o]
        BY <3>1 DEF TemporaryTypes, RequestTypes
      <3>5. ask'[r] = a
        BY <3>1 DEF RequestTypes
      <3> HIDE DEF h, T
      <3>6. TemporaryTypes'
        BY <3>1, <3>2, <3>3 DEF TemporaryTypes
      <3>7. TemporaryInv'
        BY <3>1, <3>2, <3>3, <3>4, <3>5 DEF TemporaryTypes, TemporaryInv, RequestTypes
      <3>8. QED
        BY <3>6, <3>7
    <2>5. ASSUME NEW r \in Requests, NEW a \in scenario.asks, AskCache(r, a)
         PROVE  TemporaryTypes' /\ TemporaryInv'
      <3>1. /\ stage[r] = "idle" /\ open[r] = {} /\ ~rejected[r]
            /\ handle' = [handle EXCEPT ![r] = CacheClients(a)]
            /\ ask' = [ask EXCEPT ![r] = a] /\ UNCHANGED <<open, toClose, rejected>>
            /\ stage' = [stage EXCEPT ![r] = "work"] \/ stage' = [stage EXCEPT ![r] = "answered"]
        BY <2>5 DEF AskCache, MayAsk, Answer, TemporaryInv
      <3>2. Temporary(CacheClients(a)) = {}
        BY DEF Temporary, CacheClients, Client, NoHandle
      <3>3. QED
        BY <3>1, <3>2 DEF TemporaryTypes, TemporaryInv, RequestTypes, Temporary
    <2>6. QED
      BY <1>2, <2>1, <2>2, <2>3, <2>4, <2>5 DEF Asked
  <1>3. CASE Migrating
    <2>1. ASSUME NEW r \in Requests, NEW ok \in BOOLEAN, WorkEnds(r, ok)
         PROVE  TemporaryTypes' /\ TemporaryInv'
      <3> DEFINE roles == IF ask[r].kind \in Migrations THEN Temporary(handle[r]) ELSE {}
      <3>1. roles = open[r] /\ roles \subseteq Roles /\ ~rejected[r]
        BY <2>1 DEF WorkEnds, TemporaryInv, Temporary
      <3>2. /\ stage' = [stage EXCEPT ![r] = IF roles = {} THEN "answered" ELSE "closing"]
            /\ toClose' = [toClose EXCEPT ![r] = roles]
            /\ UNCHANGED <<ask, handle, open, rejected>>
        BY <2>1 DEF WorkEnds, ToClose
      <3> HIDE DEF roles
      <3>3. QED
        BY <3>1, <3>2 DEF TemporaryTypes, TemporaryInv, RequestTypes, Temporary
    <2>2. ASSUME NEW r \in Requests, Closes(r) PROVE TemporaryTypes' /\ TemporaryInv'
      <3> DEFINE role == Closing(r)
      <3>1. role \in open[r] /\ toClose[r] = open[r]
        BY <2>2 DEF Closes, Closing, TemporaryInv, TemporaryTypes, Roles
      <3>2. handle[r][role].type = "temporary"
        BY <3>1 DEF TemporaryInv, Temporary
      <3>3. /\ open' = [open EXCEPT ![r] = @ \ {role}]
            /\ toClose' = [toClose EXCEPT ![r] = @ \ {role}]
            /\ stage' = [stage EXCEPT ![r] = IF toClose[r] = {role} THEN "answered" ELSE "closing"]
            /\ stage[r] = "closing" /\ UNCHANGED <<ask, handle, rejected>>
        BY <2>2, <3>2 DEF Closes
      <3> HIDE DEF role
      <3>4. QED
        BY <3>1, <3>3 DEF TemporaryTypes, TemporaryInv, RequestTypes, Temporary
    <2>3. ASSUME NEW r \in Requests, CloseRejects(r) PROVE TemporaryTypes' /\ TemporaryInv'
      BY <2>3 DEF CloseRejects, Answer, TemporaryTypes, TemporaryInv, RequestTypes, Temporary
    <2>4. QED
      BY <1>3, <2>1, <2>2, <2>3 DEF Migrating
  <1>4. CASE Stats
    <2>1. ASSUME NEW r \in Requests, NEW i \in Slots, ReadCount(r, i)
         PROVE  TemporaryTypes' /\ TemporaryInv'
      BY <2>1, ProceedMoves, StepWithoutTemporary DEF ReadCount
    <2>2. ASSUME NEW r \in Requests, NEW i \in Slots,
              NEW reported \in scenario.reported \cup {NothingReported}, Sample(r, i, reported)
         PROVE  TemporaryTypes' /\ TemporaryInv'
      BY <2>2, ProceedMoves, StepWithoutTemporary DEF Sample
    <2>3. ASSUME NEW r \in Requests, NEW i \in Slots, discoverJobTypes(r, i)
         PROVE  TemporaryTypes' /\ TemporaryInv'
      BY <2>3, ProceedMoves, StepWithoutTemporary DEF discoverJobTypes
    <2>4. ASSUME NEW r \in Requests, NEW i \in Slots, ReadFails(r, i)
         PROVE  TemporaryTypes' /\ TemporaryInv'
      BY <2>4, ProceedMoves, StepWithoutTemporary DEF ReadFails, Answer, RequestTypes, Reading
    <2>5. ASSUME NEW r \in Requests, NEW i \in Slots, Act(r, i)
         PROVE  TemporaryTypes' /\ TemporaryInv'
      BY <2>5, StepWithoutTemporary DEF Act, RequestTypes
    <2>6. ASSUME NEW r \in Requests, NEW i \in Slots, ActFails(r, i)
         PROVE  TemporaryTypes' /\ TemporaryInv'
      BY <2>6, StepWithoutTemporary DEF ActFails, Answer, RequestTypes
    <2>7. ASSUME NEW r \in Requests, NEW i \in Slots, ReadMemory(r, i)
         PROVE  TemporaryTypes' /\ TemporaryInv'
      BY <2>7, ProceedMoves, StepWithoutTemporary DEF ReadMemory, Answer, RequestTypes, Reading
    <2>8. QED
      BY <1>4, <2>1, <2>2, <2>3, <2>4, <2>5, <2>6, <2>7 DEF Stats
  <1>5. CASE Controlled
    <2>1. ASSUME NEW r \in Requests, NEW i \in Slots, Command(r, i)
         PROVE  TemporaryTypes' /\ TemporaryInv'
      BY <2>1, StepBesideTemporary DEF Command
    <2>2. ASSUME NEW r \in Requests, NEW i \in Slots, SetReason(r, i)
         PROVE  TemporaryTypes' /\ TemporaryInv'
      <3>1. CASE stage[r] = "control"
        BY <2>2, <3>1, StepWithoutTemporary, StepBesideTemporary DEF SetReason, Answer, RequestTypes
      <3>2. CASE stage[r] # "control"
        BY <2>2, <3>2, StepBesideTemporary DEF SetReason
      <3>3. QED
        BY <3>1, <3>2
    <2>3. ASSUME NEW r \in Requests, NEW i \in Slots, ControlFails(r, i)
         PROVE  TemporaryTypes' /\ TemporaryInv'
      <3>1. CASE stage[r] = "control"
        BY <2>3, <3>1, StepWithoutTemporary DEF ControlFails, Answer, RequestTypes
      <3>2. CASE stage[r] # "control"
        BY <2>3, <3>2, StepBesideTemporary DEF ControlFails
      <3>3. QED
        BY <3>1, <3>2
    <2>4. QED
      BY <1>5, <2>1, <2>2, <2>3 DEF Controlled
  <1>6. CASE Jobs
    BY <1>6, StepBesideTemporary
       DEF Jobs, JobArrives, JobTaken, JobCounted, JobCompletes, updateQueueContext, Job
  <1>7. CASE Tick
    BY <1>7, StepBesideTemporary DEF Tick
  <1>8. CASE UNCHANGED vars
    BY <1>8, StepBesideTemporary DEF vars
  <1>9. CASE Guarding
    BY <1>9, GuardingBeside DEF Beside, TemporaryTypes, TemporaryInv, Temporary
  <1>10. QED
    BY <1>1, <1>2, <1>3, <1>4, <1>5, <1>6, <1>7, <1>8, <1>9 DEF Next

\* Only the shutdown has closed queues, and only those the provider opened.
OwnInv ==
  /\ closed # {} => life \in {"closing", "down"}
  /\ closed \subseteq Owned(Options) /\ ownedQueues \subseteq Owned(Options)

\* Every step preserves OwnInv: what a request closes is temporary.
LEMMA OwnNext == RequestTypes /\ TemporaryTypes /\ TemporaryInv /\ OwnInv /\ [Next]_vars => OwnInv'
  <1> SUFFICES ASSUME RequestTypes, TemporaryTypes, TemporaryInv, OwnInv, [Next]_vars PROVE OwnInv'
    OBVIOUS
  <1> USE DEF OwnInv, Options, boundVars, lifeVars
  <1>1. CASE Module
    <2>1. CASE onModuleInit
      BY <2>1 DEF onModuleInit
    <2>2. CASE onModuleDestroy
      BY <2>2 DEF onModuleDestroy
    <2>3. ASSUME NEW i \in Slots, CloseOwned(i) PROVE OwnInv'
      BY <2>3 DEF CloseOwned
    <2>4. CASE ProviderDestroyed
      BY <2>4 DEF ProviderDestroyed, HookEnds
    <2>5. CASE ServiceDestroyed
      BY <2>5 DEF ServiceDestroyed, HookEnds
    <2>6. QED
      BY <1>1, <2>1, <2>2, <2>3, <2>4, <2>5 DEF Module
  <1>2. CASE Asked
    BY <1>2, ZenonT(60) DEF Asked, Refuse, AskCounts, AskControl, AskMigration, AskCache, MayAsk
  <1>3. CASE Migrating
    <2>1. ASSUME NEW r \in Requests, NEW ok \in BOOLEAN, WorkEnds(r, ok) PROVE OwnInv'
      BY <2>1 DEF WorkEnds
    <2>2. ASSUME NEW r \in Requests, Closes(r) PROVE OwnInv'
      <3>1. toClose[r] = open[r] /\ open[r] # {} /\ open[r] \subseteq Roles
        BY <2>2 DEF Closes, TemporaryInv, TemporaryTypes
      <3>2. Closing(r) \in open[r]
        BY <3>1 DEF Closing, Roles
      <3>3. handle[r][Closing(r)].type = "temporary"
        BY <3>2 DEF TemporaryInv, Temporary
      <3>4. QED
        BY <2>2, <3>3 DEF Closes
    <2>3. ASSUME NEW r \in Requests, CloseRejects(r) PROVE OwnInv'
      BY <2>3 DEF CloseRejects
    <2>4. QED
      BY <1>3, <2>1, <2>2, <2>3 DEF Migrating
  <1>4. CASE Stats
    <2>1. ASSUME NEW r \in Requests, NEW i \in Slots, ReadCount(r, i) PROVE OwnInv'
      BY <2>1 DEF ReadCount
    <2>2. ASSUME NEW r \in Requests, NEW i \in Slots,
              NEW reported \in scenario.reported \cup {NothingReported}, Sample(r, i, reported)
         PROVE  OwnInv'
      BY <2>2 DEF Sample
    <2>3. ASSUME NEW r \in Requests, NEW i \in Slots, discoverJobTypes(r, i) PROVE OwnInv'
      BY <2>3 DEF discoverJobTypes
    <2>4. ASSUME NEW r \in Requests, NEW i \in Slots, ReadFails(r, i) PROVE OwnInv'
      BY <2>4 DEF ReadFails
    <2>5. ASSUME NEW r \in Requests, NEW i \in Slots, Act(r, i) PROVE OwnInv'
      BY <2>5 DEF Act
    <2>6. ASSUME NEW r \in Requests, NEW i \in Slots, ActFails(r, i) PROVE OwnInv'
      BY <2>6 DEF ActFails
    <2>7. ASSUME NEW r \in Requests, NEW i \in Slots, ReadMemory(r, i) PROVE OwnInv'
      BY <2>7 DEF ReadMemory
    <2>8. QED
      BY <1>4, <2>1, <2>2, <2>3, <2>4, <2>5, <2>6, <2>7 DEF Stats
  <1>5. CASE Controlled
    BY <1>5 DEF Controlled, Command, SetReason, ControlFails
  <1>6. CASE Jobs
    BY <1>6 DEF Jobs, JobArrives, JobTaken, JobCounted, JobCompletes, updateQueueContext, Job
  <1>7. CASE Tick
    BY <1>7 DEF Tick
  <1>8. CASE UNCHANGED vars
    BY <1>8 DEF vars
  <1>9. CASE Guarding
    BY <1>9, GuardingBeside DEF Beside
  <1>10. QED
    BY <1>1, <1>2, <1>3, <1>4, <1>5, <1>6, <1>7, <1>8, <1>9 DEF Next
------------------------------------------------------------------------------
(* The pause flags that migrations hold *)

\* The types of what a migration does to the pause flags, and of the shutdown.
GuardTypes ==
  /\ phase \in [Requests -> Phases] /\ hold \in [Requests -> [Roles -> Flag]]
  /\ hooks \subseteq {"provider", "service"} /\ awaited \subseteq Requests

\* Only a migration that runs does anything to a flag: it pauses queues before it
\* moves jobs, or after it has failed, and holds none before both have answered
\* and none when it has failed.
GuardInv == \A r \in Requests :
  /\ phase[r] # "none" => stage[r] # "idle"
  /\ \A role \in Roles : hold[r][role] # "none" => phase[r] # "none"
  /\ \A role \in Roles : hold[r][role] \in {"ask", "running"} => phase[r] \in {"hold", "failed"}
  /\ \A role \in Roles : hold[r][role] = "held" => ~Asking(r) /\ phase[r] # "failed"

\* Initially no migration runs.
LEMMA GuardInit == Init => GuardTypes /\ GuardInv
  BY DEF Init, GuardTypes, GuardInv, Phases, Flag, Untouched

\* A request keeps what it was asked and given, and only a migration's own steps
\* change its hold on the flags.
LEMMA GuardKept ==
  ASSUME RequestTypes, TemporaryTypes, GuardTypes, [Next]_vars, ~Guarding
  PROVE  /\ UNCHANGED <<scenario, phase, hold>>
         /\ hooks' \subseteq {"provider", "service"} /\ awaited' \subseteq Requests
         /\ \A o \in Requests : stage[o] # "idle" =>
              stage'[o] # "idle" /\ ask'[o] = ask[o] /\ handle'[o] = handle[o]
  <1> USE DEF GuardTypes, guardVars, handleVars, lifeVars, boundVars
  <1>1. CASE Module
    BY <1>1 DEF Module, onModuleInit, onModuleDestroy, CloseOwned, ProviderDestroyed,
                               ServiceDestroyed, HookEnds
  <1> USE DEF RequestTypes, TemporaryTypes
  <1>2. CASE Asked
    <2>1. UNCHANGED <<boundVars, lifeVars, guardVars>>
      BY <1>2, ZenonT(60) DEF Asked, Refuse, AskCounts, AskControl, AskMigration, AskCache
    <2>2. PICK r \in Requests, a \in scenario.asks : MayAsk(r, a) /\ \A o \in Requests \ {r} :
             stage'[o] = stage[o] /\ handle'[o] = handle[o]
      <3>1. ASSUME NEW r \in Requests, NEW a \in scenario.asks, Refuse(r, a)
            PROVE  MayAsk(r, a) /\ \A o \in Requests \ {r} : stage'[o] = stage[o] /\ handle'[o] = handle[o]
        BY <3>1 DEF Refuse, Answer
      <3>2. ASSUME NEW r \in Requests, NEW a \in scenario.asks, AskCounts(r, a)
            PROVE  MayAsk(r, a) /\ \A o \in Requests \ {r} : stage'[o] = stage[o] /\ handle'[o] = handle[o]
        BY <3>2 DEF AskCounts
      <3>3. ASSUME NEW r \in Requests, NEW a \in scenario.asks, AskControl(r, a)
            PROVE  MayAsk(r, a) /\ \A o \in Requests \ {r} : stage'[o] = stage[o] /\ handle'[o] = handle[o]
        BY <3>3 DEF AskControl
      <3>4. ASSUME NEW r \in Requests, NEW a \in scenario.asks, AskMigration(r, a)
            PROVE  MayAsk(r, a) /\ \A o \in Requests \ {r} : stage'[o] = stage[o] /\ handle'[o] = handle[o]
        BY <3>4 DEF AskMigration, Answer
      <3>5. ASSUME NEW r \in Requests, NEW a \in scenario.asks, AskCache(r, a)
            PROVE  MayAsk(r, a) /\ \A o \in Requests \ {r} : stage'[o] = stage[o] /\ handle'[o] = handle[o]
        BY <3>5 DEF AskCache, Answer
      <3>6. QED
        BY <1>2, <3>1, <3>2, <3>3, <3>4, <3>5 DEF Asked
    <2>3. QED
      BY <2>1, <2>2 DEF MayAsk
  <1>3. CASE Migrating
    BY <1>3, ZenonT(60) DEF Migrating, WorkEnds, Closes, CloseRejects, Answer, RequestTypes
  <1>4. CASE Stats
    <2>1. ASSUME NEW r \in Requests, NEW cmds, Proceed(r, cmds)
          PROVE  \E what \in {"act", "answered"} : stage' = stage \/ stage' = [stage EXCEPT ![r] = what]
      BY <2>1 DEF Proceed, Answer
    <2>2. ASSUME NEW r \in Requests, NEW i \in Slots,
              NEW reported \in scenario.reported \cup {NothingReported}, Sample(r, i, reported)
         PROVE  /\ UNCHANGED <<boundVars, ask, lifeVars, handleVars>>
                /\ \E what \in {"act", "answered"} : stage' = stage \/ stage' = [stage EXCEPT ![r] = what]
      BY <2>1, <2>2 DEF Sample
    <2>3. ASSUME NEW r \in Requests, NEW i \in Slots,
                 \/ ReadCount(r, i) \/ discoverJobTypes(r, i) \/ ReadMemory(r, i)
                 \/ ReadFails(r, i) \/ Act(r, i) \/ ActFails(r, i)
         PROVE  /\ UNCHANGED <<boundVars, ask, lifeVars, handleVars>>
                /\ \E what \in {"act", "after", "answered"} : stage' = stage \/ stage' = [stage EXCEPT ![r] = what]
      <3>1. UNCHANGED <<boundVars, ask, lifeVars, handleVars>>
        BY <2>3, Zenon DEF ReadCount, discoverJobTypes, ReadMemory, ReadFails, Act, ActFails
      <3>2. \/ \E cmds : Proceed(r, cmds)
            \/ stage' = [stage EXCEPT ![r] = "after"] \/ stage' = [stage EXCEPT ![r] = "answered"]
        BY <2>3, Zenon DEF ReadCount, discoverJobTypes, ReadMemory, ReadFails, Act, ActFails, Answer
      <3>3. QED
        BY <2>1, <3>1, <3>2
    <2>4. PICK r \in Requests, what \in {"act", "after", "answered"} :
             /\ UNCHANGED <<boundVars, ask, lifeVars, handleVars>>
             /\ stage' = stage \/ stage' = [stage EXCEPT ![r] = what]
      BY <1>4, <2>2, <2>3, Zenon DEF Stats
    <2>5. QED
      BY <2>4
  <1>5. CASE Controlled
    BY <1>5, ZenonT(60) DEF Controlled, Command, SetReason, ControlFails, Answer, RequestTypes
  <1>6. CASE Jobs
    BY <1>6 DEF Jobs, JobArrives, JobTaken, JobCounted, JobCompletes, updateQueueContext, Job
  <1>7. CASE Tick
    BY <1>7 DEF Tick
  <1>8. CASE UNCHANGED vars
    BY <1>8 DEF vars
  <1>9. QED
    BY <1>1, <1>2, <1>3, <1>4, <1>5, <1>6, <1>7, <1>8 DEF Next

\* Every step keeps the types and the holds of the migrations.
LEMMA GuardNext ==
  RequestTypes /\ TemporaryTypes /\ GuardTypes /\ GuardInv /\ [Next]_vars => GuardTypes' /\ GuardInv'
  <1> SUFFICES ASSUME RequestTypes, TemporaryTypes, GuardTypes, GuardInv, [Next]_vars
               PROVE  GuardTypes' /\ GuardInv'
    OBVIOUS
  <1>1. CASE ~Guarding
    BY <1>1, GuardKept DEF GuardTypes, GuardInv, Asking
  <1>2. CASE Guarding
    <2> USE DEF GuardTypes, GuardInv, Phases, Flag, Asking
    <2>1. UNCHANGED <<stage, hooks, awaited>>
      BY <1>2, GuardingBeside DEF Beside, lifeVars
    <2>2. ASSUME NEW r \in Requests, pauseQueuesForMigration(r) PROVE GuardTypes' /\ GuardInv'
      BY <2>1, <2>2 DEF pauseQueuesForMigration, MayRun, Started
    <2>3. ASSUME NEW r \in Requests, NoLease(r) PROVE GuardTypes' /\ GuardInv'
      BY <2>1, <2>3 DEF NoLease, MayRun, Started
    <2>4. ASSUME NEW r \in Requests, NEW role \in Roles, IsPaused(r, role) PROVE GuardTypes' /\ GuardInv'
      BY <2>1, <2>4 DEF IsPaused, FoundAs
    <2>5. ASSUME NEW r \in Requests, NEW role \in Roles, Pause(r, role) PROVE GuardTypes' /\ GuardInv'
      BY <2>1, <2>5 DEF Pause
    <2>6. ASSUME NEW r \in Requests, CountActive(r) PROVE GuardTypes' /\ GuardInv'
      BY <2>1, <2>6 DEF CountActive
    <2>7. ASSUME NEW r \in Requests, MoveJob(r) PROVE GuardTypes' /\ GuardInv'
      BY <2>1, <2>7 DEF MoveJob, guardVars
    <2>8. ASSUME NEW r \in Requests, NEW leavePaused \in BOOLEAN, MoveEnds(r, leavePaused)
          PROVE  GuardTypes' /\ GuardInv'
      <3>1. /\ phase[r] = "move" /\ phase' = [phase EXCEPT ![r] = "restore"]
            /\ hold' = hold \/ hold' = [hold EXCEPT ![r] = [role \in Roles |-> "none"]]
        BY <2>8 DEF MoveEnds, Untouched
      <3>2. QED
        BY <2>1, <3>1
    <2>9. ASSUME NEW r \in Requests, Restore(r) PROVE GuardTypes' /\ GuardInv'
      BY <2>1, <2>9 DEF Restore, Roles
    <2>10. ASSUME NEW r \in Requests, RunFails(r) PROVE GuardTypes' /\ GuardInv'
      <3>1. PICK next \in [Roles -> {"none", "running"}] : hold' = [hold EXCEPT ![r] = next]
        BY <2>10 DEF RunFails
      <3>2. QED
        BY <2>1, <2>10, <3>1 DEF RunFails
    <2>11. QED
      BY <1>2, <2>2, <2>3, <2>4, <2>5, <2>6, <2>7, <2>8, <2>9, <2>10 DEF Guarding
  <1>3. QED
    BY <1>1, <1>2
------------------------------------------------------------------------------
(* Pause and resume *)

\* The flag of a queue, apart from its counts
Paused(i) == q[i].paused

\* Every control in flight on queue i is of one kind.
Agree(i, kind) == \A o \in Requests : InFlight(o, i) => ask[o].kind = kind

\* Request r commands queue i, and no opposite control was in flight on it.
Uncrossed(r, i) == stage[r] = "control" /\ cmd[r][i] # "none" /\ i \notin clash[r]

\* What migrations do to the flag of queue i: one of them has paused it, to resume
\* it again; is to pause or to resume it; has failed with a pause in flight; any.
HeldPaused(i) == \E o \in Requests, role \in Roles : hold[o][role] = "held" /\ At(o, role) = i
Seized(i) == \E o \in Requests, role \in Roles : hold[o][role] \in {"running", "held"} /\ At(o, role) = i
Stray(i) == \E o \in Requests, role \in Roles :
  phase[o] = "failed" /\ hold[o][role] = "running" /\ At(o, role) = i
Touched(i) == \E o \in Requests : Touches(o, i)

\* A step leaves alone what migrations do to the flags.
SameHolds == \A i \in Slots :
  (HeldPaused(i)' <=> HeldPaused(i)) /\ (Seized(i)' <=> Seized(i)) /\ (Stray(i)' <=> Stray(i))
  /\ (Touched(i)' <=> Touched(i))

\* On a queue with an uncrossed control every control in flight is of its kind, no
\* migration touches its flag, and what it has done already holds; on a queue that
\* obeys a control no migration is to resume what is to stay paused.
ControlInv ==
  /\ \A r \in Requests, i \in Slots : Uncrossed(r, i) => Agree(i, ask[r].kind) /\ ~Touched(i)
  /\ \A r \in Requests, i \in Slots : Uncrossed(r, i) =>
       /\ cmd[r][i] \in {"commanded", "reason", "done"} => (Paused(i) <=> ask[r].kind = "pause")
       /\ cmd[r][i] = "done" => (reason[i] <=> ask[r].kind = "pause")
  /\ \A i \in Slots : settled[i] # "none" =>
       /\ Agree(i, settled[i]) /\ ~Stray(i)
       /\ reason[i] <=> settled[i] = "pause"
       /\ settled[i] = "pause" => Paused(i) /\ ~Seized(i)
       /\ settled[i] = "resume" /\ Paused(i) => HeldPaused(i)

\* Initially no control was asked for.
LEMMA ControlInit == Init => ControlInv
  BY DEF Init, ControlInv, Uncrossed

\* A step that touches neither a request nor a flag keeps ControlInv.
LEMMA ControlStutter ==
  ASSUME ControlInv, SameHolds, UNCHANGED <<ask, stage, cmd, controlVars>>,
         \A i \in Slots : Paused(i)' <=> Paused(i)
  PROVE  ControlInv'
  BY DEF ControlInv, controlVars, Agree, InFlight, Uncrossed, SameHolds

\* So does one of a request that is no control.
LEMMA ControlBeside ==
  ASSUME ControlInv, SameHolds, NEW r \in Requests, UNCHANGED controlVars,
         \A i \in Slots : Paused(i)' <=> Paused(i),
         \A o \in Requests \ {r} : ask'[o] = ask[o] /\ stage'[o] = stage[o] /\ cmd'[o] = cmd[o],
         stage'[r] # "control", \A i \in Slots : ~InFlight(r, i)'
  PROVE  ControlInv'
  BY DEF ControlInv, controlVars, Agree, InFlight, Uncrossed, SameHolds

\* A flag that no migration touches is in no way of theirs.
LEMMA UntouchedFlag == ASSUME NEW i, ~Touched(i) PROVE ~HeldPaused(i) /\ ~Seized(i) /\ ~Stray(i)
  BY DEF Touched, Touches, HeldPaused, Seized, Stray

\* So does one that changes the flags of a queue to what a control in flight on
\* it asks for, as all of them ask for the same.
LEMMA ControlAgreed ==
  ASSUME RequestTypes, QueueTypes, AskedFor, ControlInv, SameHolds, NEW r \in Requests,
         NEW i \in Slots, InFlight(r, i),
         UNCHANGED <<ask, clash>>,
         \A o \in Requests, j \in Slots : InFlight(o, j)' => InFlight(o, j),
         \A o \in Requests, j \in Slots : Uncrossed(o, j)' => Uncrossed(o, j),
         \A o \in Requests, j \in Slots : Uncrossed(o, j)' /\ <<o, j>> # <<r, i>> =>
            /\ cmd'[o][j] \in {"commanded", "reason", "done"} => cmd[o][j] \in {"commanded", "reason", "done"}
            /\ cmd'[o][j] = "done" => cmd[o][j] = "done",
         Uncrossed(r, i)' =>
            /\ cmd'[r][i] \in {"commanded", "reason", "done"} => (Paused(i)' <=> ask[r].kind = "pause")
            /\ cmd'[r][i] = "done" => (reason'[i] <=> ask[r].kind = "pause"),
         \A j \in Slots \ {i} : (Paused(j)' <=> Paused(j)) /\ reason'[j] = reason[j],
         (Paused(i)' <=> Paused(i)) \/ (Paused(i)' <=> ask[r].kind = "pause"),
         reason'[i] = reason[i] \/ (reason'[i] <=> ask[r].kind = "pause"),
         \A j \in Slots : \/ settled'[j] = settled[j]
                          \/ /\ settled'[j] = ask[r].kind /\ Uncrossed(r, j)
                             /\ Paused(j)' <=> ask[r].kind = "pause"
                             /\ reason'[j] <=> ask[r].kind = "pause"
  PROVE  ControlInv'
  <1>1. ASSUME NEW j \in Slots, NEW kind, Agree(j, kind) PROVE Agree(j, kind)'
    BY <1>1 DEF Agree
  <1>2. ASSUME NEW kind, Agree(i, kind) PROVE kind = ask[r].kind
    BY <1>2 DEF Agree
  <1>3. \A o \in Requests, j \in Slots : Uncrossed(o, j)' => Agree(j, ask[o].kind)' /\ ~Touched(j)'
    BY <1>1 DEF ControlInv, SameHolds
  <1>4. ASSUME NEW o \in Requests, NEW j \in Slots, Uncrossed(o, j)'
        PROVE  /\ cmd'[o][j] \in {"commanded", "reason", "done"} => (Paused(j)' <=> ask[o].kind = "pause")
               /\ cmd'[o][j] = "done" => (reason'[j] <=> ask[o].kind = "pause")
    <2>1. CASE o = r /\ j = i
      BY <1>4, <2>1
    <2>2. CASE o # r /\ j = i
      BY <1>2, <1>4, <2>2 DEF ControlInv
    <2>3. CASE j # i
      BY <1>4, <2>3 DEF ControlInv
    <2>4. QED
      BY <2>1, <2>2, <2>3
  <1>5. ASSUME NEW j \in Slots, settled'[j] # "none"
        PROVE  /\ \A o \in Requests : InFlight(o, j)' => ask[o].kind = settled'[j]
               /\ ~Stray(j)' /\ (reason'[j] <=> settled'[j] = "pause")
               /\ settled'[j] = "pause" => Paused(j)' /\ ~Seized(j)'
               /\ settled'[j] = "resume" /\ Paused(j)' => HeldPaused(j)'
    <2>1. CASE settled'[j] # settled[j]
      <3>1. Uncrossed(r, j) /\ ~Touched(j)
        BY <2>1 DEF ControlInv
      <3>2. QED
        BY <2>1, <3>1, UntouchedFlag DEF ControlInv, Agree, SameHolds
    <2>2. CASE settled'[j] = settled[j] /\ j = i
      <3>1. Agree(i, settled[i]) /\ settled[i] = ask[r].kind
        BY <1>2, <1>5, <2>2 DEF ControlInv
      <3>2. QED
        BY <1>5, <2>2, <3>1 DEF ControlInv, Agree, SameHolds
    <2>3. CASE settled'[j] = settled[j] /\ j # i
      BY <1>5, <2>3 DEF ControlInv, Agree, SameHolds
    <2>4. QED
      BY <2>1, <2>2, <2>3
  <1>6. QED
    BY <1>3, <1>4, <1>5 DEF ControlInv, Agree

\* Asking for a control crosses those in flight on its queues, and they cross it.
LEMMA AskControlStep ==
  ASSUME RequestTypes, QueueTypes, AskedFor, ControlInv, SameHolds, NEW r \in Requests, NEW a \in scenario.asks,
         AskControl(r, a)
  PROVE  ControlInv'
  <1> DEFINE mine == Addressed(a)
             hit(o) == IF Opposite(o, a) THEN {i \in mine : InFlight(o, i)} ELSE {}
             touched == {i \in mine : Touched(i)}
  <1>1. /\ a.kind \in Controls /\ stage[r] = "idle"
        /\ ask' = [ask EXCEPT ![r] = a] /\ stage' = [stage EXCEPT ![r] = "control"]
        /\ cmd' = [cmd EXCEPT ![r] = [i \in Slots |-> IF i \in mine THEN "command" ELSE "none"]]
        /\ settled' = [i \in Slots |-> IF i \in mine THEN "none" ELSE settled[i]]
    BY DEF AskControl, MayAsk
  <1>2. clash' = [o \in Requests |-> IF o = r THEN touched \cup UNION {hit(p) : p \in Requests \ {r}}
                                    ELSE clash[o] \cup hit(o)]
    BY DEF AskControl, Touched
  <1>3. reason' = reason /\ \A i \in Slots : Paused(i)' <=> Paused(i)
    BY DEF AskControl, jobVars, Paused
  <1>4. /\ ask'[r] = a /\ \A i \in Slots : cmd'[r][i] = IF i \in mine THEN "command" ELSE "none"
        /\ \A o \in Requests \ {r} : ask'[o] = ask[o] /\ stage'[o] = stage[o] /\ cmd'[o] = cmd[o]
    BY <1>1 DEF RequestTypes
  <1>5. \A o \in Requests \ {r}, i \in Slots : InFlight(o, i)' <=> InFlight(o, i)
    BY <1>4 DEF InFlight
  <1>6. \A i \in Slots : InFlight(r, i)' => i \in mine
    BY <1>4 DEF InFlight
  <1>7. ASSUME NEW o \in Requests \ {r}, NEW i \in Slots, i \in mine, InFlight(o, i), ask[o].kind # a.kind
        PROVE  i \in hit(o) /\ i \in clash'[o] /\ i \in clash'[r]
    <2>1. i \in hit(o)
      BY <1>7 DEF Opposite, InFlight
    <2> HIDE DEF hit, mine, touched
    <2>2. QED
      BY <1>2, <2>1
  <1>7a. ASSUME NEW i \in Slots, i \in mine, i \notin clash'[r] PROVE ~Touched(i)
    <2>1. Touched(i) => i \in touched
      BY <1>7a
    <2> HIDE DEF hit, mine, touched
    <2>2. QED
      BY <1>2, <1>7a, <2>1
  <1> HIDE DEF hit, mine, touched
  <1>8. ASSUME NEW o \in Requests \ {r}, NEW i \in Slots, Uncrossed(o, i)'
        PROVE  Uncrossed(o, i) /\ (i \in mine => ask[o].kind = a.kind)
    <2>1. stage[o] = "control" /\ cmd[o][i] # "none" /\ i \notin clash'[o]
      BY <1>4, <1>8 DEF Uncrossed
    <2>2. i \notin clash[o]
      BY <1>2, <2>1
    <2>3. InFlight(o, i)
      BY <2>1 DEF InFlight, AskedFor
    <2>4. QED
      BY <1>7, <2>1, <2>2, <2>3 DEF Uncrossed
  <1>9. ASSUME NEW o \in Requests, NEW i \in Slots, Uncrossed(o, i)', NEW p \in Requests, InFlight(p, i)'
        PROVE  ask'[p].kind = ask'[o].kind
    <2>1. CASE o = r /\ p # r
      <3>1. i \in mine /\ i \notin clash'[r]
        BY <1>4, <1>9, <2>1 DEF Uncrossed
      <3>2. QED
        BY <1>4, <1>5, <1>7, <1>9, <2>1, <3>1
    <2>2. CASE o # r /\ p = r
      BY <1>4, <1>6, <1>8, <1>9, <2>2
    <2>3. CASE o # r /\ p # r
      BY <1>4, <1>5, <1>8, <1>9, <2>3 DEF ControlInv, Agree
    <2>4. QED
      BY <2>1, <2>2, <2>3
  <1>10. ASSUME NEW o \in Requests, NEW i \in Slots, Uncrossed(o, i)'
         PROVE  /\ cmd'[o][i] \in {"commanded", "reason", "done"} => (Paused(i)' <=> ask'[o].kind = "pause")
                /\ cmd'[o][i] = "done" => (reason'[i] <=> ask'[o].kind = "pause")
    <2>1. CASE o = r
      BY <1>4, <2>1
    <2>2. CASE o # r
      BY <1>3, <1>4, <1>8, <1>10, <2>2 DEF ControlInv
    <2>3. QED
      BY <2>1, <2>2
  <1>11. ASSUME NEW i \in Slots, settled'[i] # "none"
         PROVE  /\ \A p \in Requests : InFlight(p, i)' => ask'[p].kind = settled'[i]
                /\ ~Stray(i)' /\ (reason'[i] <=> settled'[i] = "pause")
                /\ settled'[i] = "pause" => Paused(i)' /\ ~Seized(i)'
                /\ settled'[i] = "resume" /\ Paused(i)' => HeldPaused(i)'
    <2>1. i \notin mine /\ settled'[i] = settled[i]
      BY <1>1, <1>11
    <2>2. QED
      BY <1>3, <1>4, <1>5, <1>6, <1>11, <2>1 DEF ControlInv, Agree, SameHolds
  <1>12. ASSUME NEW o \in Requests, NEW i \in Slots, Uncrossed(o, i)' PROVE ~Touched(i)'
    <2>1. CASE o = r
      BY <1>4, <1>7a, <1>12, <2>1 DEF Uncrossed, SameHolds
    <2>2. CASE o # r
      BY <1>8, <1>12, <2>2 DEF ControlInv, SameHolds
    <2>3. QED
      BY <2>1, <2>2
  <1>13. QED
    BY <1>9, <1>10, <1>11, <1>12 DEF ControlInv, Agree

\* A command takes effect: its request and every other in flight on the queue agree on it.
LEMMA CommandStep ==
  ASSUME RequestTypes, QueueTypes, AskedFor, ControlInv, SameHolds, NEW r \in Requests,
         NEW i \in Slots, Command(r, i)
  PROVE  ControlInv'
  <1> DEFINE cmds == AfterCommand(r, [cmd[r] EXCEPT ![i] = "commanded"])
  <1>1. /\ InFlight(r, i) /\ cmd[r][i] = "command" /\ UNCHANGED <<ask, stage, controlVars>>
        /\ cmd' = [cmd EXCEPT ![r] = cmds]
    BY DEF Command
  <1>2. /\ cmds[i] \in {"commanded", "reason"} /\ (stage[r] # "control" => cmds[i] = "commanded")
        /\ \A j \in Slots \ {i} : cmds[j] = cmd[r][j] \/
              (stage[r] = "control" /\ cmd[r][j] = "commanded" /\ cmds[j] = "reason")
    BY DEF AfterCommand, RequestTypes
  <1> HIDE DEF cmds
  <1>3. /\ cmd'[r] = cmds /\ \A o \in Requests \ {r} : cmd'[o] = cmd[o]
    BY <1>1 DEF RequestTypes
  <1>4. \A o \in Requests, j \in Slots : InFlight(o, j)' => InFlight(o, j)
    BY <1>1, <1>2, <1>3 DEF InFlight
  <1>5. \A o \in Requests, j \in Slots : Uncrossed(o, j)' => Uncrossed(o, j)
    BY <1>1, <1>2, <1>3 DEF Uncrossed, controlVars
  <1>6. /\ Paused(i)' <=> ask[r].kind = "pause"
        /\ \A j \in Slots \ {i} : Paused(j)' <=> Paused(j)
    BY DEF Command, Paused, QueueTypes, QueueRecord
  <1>7. QED
    BY <1>1, <1>2, <1>3, <1>4, <1>5, <1>6, ControlAgreed DEF controlVars

\* A reason changes: the last one answers the request, which its queues then obey.
LEMMA SetReasonStep ==
  ASSUME RequestTypes, QueueTypes, AskedFor, ControlInv, SameHolds, NEW r \in Requests,
         NEW i \in Slots, SetReason(r, i)
  PROVE  ControlInv'
  <1> DEFINE cmds == [cmd[r] EXCEPT ![i] = "done"]
  <1>1. /\ InFlight(r, i) /\ cmd[r][i] = "reason" /\ UNCHANGED <<ask, clash, q>>
        /\ cmd' = [cmd EXCEPT ![r] = cmds] /\ reason' = [reason EXCEPT ![i] = ask[r].kind = "pause"]
    BY DEF SetReason, Reason, jobVars
  <1>2. /\ cmd'[r] = cmds /\ \A o \in Requests \ {r} : cmd'[o] = cmd[o]
        /\ cmds[i] = "done" /\ \A j \in Slots \ {i} : cmds[j] = cmd[r][j]
    BY <1>1 DEF RequestTypes
  <1>3. \/ UNCHANGED <<stage, settled>>
        \/ /\ stage[r] = "control" /\ stage' = [stage EXCEPT ![r] = "answered"]
           /\ \A j \in Slots : settled'[j] = settled[j] \/
                (settled'[j] = ask[r].kind /\ cmds[j] = "done" /\ j \notin clash[r])
    BY DEF SetReason, Answer
  <1> HIDE DEF cmds
  <1>4. \A o \in Requests, j \in Slots : InFlight(o, j)' => InFlight(o, j)
    BY <1>1, <1>2, <1>3 DEF InFlight, RequestTypes
  <1>5. \A o \in Requests, j \in Slots : Uncrossed(o, j)' => Uncrossed(o, j)
    BY <1>1, <1>2, <1>3 DEF Uncrossed, RequestTypes
  <1>6. (reason'[i] <=> ask[r].kind = "pause") /\ \A j \in Slots \ {i} : reason'[j] = reason[j]
    BY <1>1 DEF QueueTypes
  <1>7. \A j \in Slots : Paused(j)' <=> Paused(j)
    BY <1>1 DEF Paused
  <1>8. Uncrossed(r, i) => (Paused(i) <=> ask[r].kind = "pause")
    BY <1>1 DEF ControlInv
  <1>9. ASSUME NEW j \in Slots, settled'[j] # settled[j]
        PROVE  /\ settled'[j] = ask[r].kind /\ Uncrossed(r, j)
               /\ Paused(j)' <=> ask[r].kind = "pause"
               /\ reason'[j] <=> ask[r].kind = "pause"
    <2>1. /\ settled'[j] = ask[r].kind /\ cmds[j] = "done" /\ j \notin clash[r]
          /\ stage[r] = "control"
      BY <1>3, <1>9
    <2>2. Uncrossed(r, j)
      BY <1>1, <1>2, <2>1 DEF Uncrossed
    <2>3. CASE j = i
      BY <1>6, <1>7, <1>8, <2>1, <2>2, <2>3
    <2>4. CASE j # i
      BY <1>2, <1>6, <1>7, <2>1, <2>2, <2>4 DEF ControlInv
    <2>5. QED
      BY <2>3, <2>4
  <1>10. QED
    BY <1>1, <1>2, <1>4, <1>5, <1>6, <1>7, <1>8, <1>9, ControlAgreed

\* A command that fails is no longer in flight.
LEMMA ControlFailsStep ==
  ASSUME RequestTypes, QueueTypes, AskedFor, ControlInv, SameHolds, NEW r \in Requests,
         NEW i \in Slots, ControlFails(r, i)
  PROVE  ControlInv'
  <1>1. InFlight(r, i) /\ UNCHANGED <<ask, controlVars, jobVars>> /\ cmd' = [cmd EXCEPT ![r][i] = "failed"]
    BY DEF ControlFails
  <1>2. stage' = [stage EXCEPT ![r] = "answered"] \/ (stage' = stage /\ stage[r] # "control")
    BY DEF ControlFails, Answer
  <1>3. /\ cmd'[r][i] = "failed" /\ \A j \in Slots \ {i} : cmd'[r][j] = cmd[r][j]
        /\ \A o \in Requests \ {r} : cmd'[o] = cmd[o]
    BY <1>1 DEF RequestTypes
  <1>4. \A o \in Requests, j \in Slots : InFlight(o, j)' => InFlight(o, j)
    BY <1>1, <1>2, <1>3 DEF InFlight, RequestTypes
  <1>5. \A o \in Requests, j \in Slots : Uncrossed(o, j)' => Uncrossed(o, j) /\ o # r
    BY <1>1, <1>2, <1>3 DEF Uncrossed, RequestTypes, controlVars
  <1>6. \A j \in Slots : Paused(j)' <=> Paused(j)
    BY <1>1 DEF Paused, jobVars
  <1>7. QED
    BY <1>1, <1>3, <1>4, <1>5, <1>6, ControlAgreed DEF controlVars

\* What only the steps of a migration change, it changes for no other one.
LEMMA HoldsKept ==
  ASSUME RequestTypes, TemporaryTypes, GuardTypes, GuardInv, [Next]_vars, ~Guarding
  PROVE  SameHolds
  <1>1. \A o \in Requests, role \in Roles : hold[o][role] # "none" => At(o, role)' = At(o, role)
    <2> SUFFICES ASSUME NEW o \in Requests, NEW role \in Roles, hold[o][role] # "none"
                 PROVE  At(o, role)' = At(o, role)
      OBVIOUS
    <2>1. ask'[o] = ask[o] /\ handle'[o] = handle[o] /\ scenario' = scenario
      BY GuardKept DEF GuardInv
    <2>2. QED
      BY <2>1 DEF At, Options
  <1>2. UNCHANGED <<phase, hold>>
    BY GuardKept
  <1>3. QED
    BY <1>1, <1>2 DEF SameHolds, HeldPaused, Seized, Stray, Touched, Touches

\* A step of a migration keeps ControlInv when it crosses the controls of the
\* queues that it comes to touch, and leaves paused what was to be paused.
LEMMA GuardingKeeps ==
  ASSUME ControlInv, UNCHANGED <<ask, stage, cmd, reason>>,
         \A o \in Requests, j \in Slots : Uncrossed(o, j)' =>
            Uncrossed(o, j) /\ ~Touched(j)' /\ (Paused(j)' <=> Paused(j)),
         \A j \in Slots : settled'[j] # "none" =>
            /\ settled'[j] = settled[j] /\ ~Stray(j)'
            /\ settled[j] = "pause" => Paused(j)' /\ ~Seized(j)'
            /\ settled[j] = "resume" /\ Paused(j)' => HeldPaused(j)'
  PROVE  ControlInv'
  BY DEF ControlInv, Agree, InFlight, Uncrossed

\* The steps of a migration keep ControlInv.
LEMMA GuardingStep ==
  ASSUME RequestTypes, QueueTypes, AskedFor, GuardTypes, GuardInv, ControlInv, Guarding
  PROVE  ControlInv'
  <1>1. UNCHANGED <<ask, stage, cmd, reason>>
    BY GuardingBeside DEF Beside
  <1>2. \A o \in Requests, role \in Roles : At(o, role)' = At(o, role)
    <2> SUFFICES ASSUME NEW o \in Requests, NEW role \in Roles PROVE At(o, role)' = At(o, role)
      OBVIOUS
    <2>1. UNCHANGED <<ask, handle, scenario>>
      BY GuardingBeside DEF Beside, boundVars
    <2>2. QED
      BY <2>1 DEF At, Options
  <1>3. \A o \in Requests, j \in Slots : Uncrossed(o, j) => InFlight(o, j)
    BY DEF Uncrossed, InFlight, AskedFor
  <1> USE DEF HeldPaused, Seized, Stray, Touched, Touches, Paused
  <1>4. ASSUME NEW r \in Requests, pauseQueuesForMigration(r) PROVE ControlInv'
    <2>1. /\ phase[r] = "none" /\ UNCHANGED <<q, settled>>
          /\ phase' = [phase EXCEPT ![r] = "hold"] /\ hold' = [hold EXCEPT ![r] = [role \in Roles |-> "ask"]]
      BY <1>4 DEF pauseQueuesForMigration, MayRun
    <2>2. ASSUME NEW o \in Requests, NEW j \in Slots, Uncrossed(o, j)'
          PROVE  Uncrossed(o, j) /\ \A role \in Roles : At(r, role) # j
      <3>1. clash'[o] = clash[o] \cup {i \in {At(r, role) : role \in Roles} \cap Slots : InFlight(o, i)}
        BY <1>4 DEF pauseQueuesForMigration
      <3>2. Uncrossed(o, j)
        BY <1>1, <2>2, <3>1 DEF Uncrossed
      <3>3. QED
        BY <1>3, <2>2, <3>1, <3>2 DEF Uncrossed
    <2>3. \A j \in Slots : (HeldPaused(j)' <=> HeldPaused(j)) /\ (Seized(j)' <=> Seized(j)) /\ (Stray(j)' => Stray(j))
      BY <1>2, <2>1 DEF GuardTypes, GuardInv
    <2>4. \A j \in Slots : Touched(j)' => Touched(j) \/ \E role \in Roles : At(r, role) = j
      BY <1>2, <2>1 DEF GuardTypes
    <2>5. QED
      BY <1>1, <2>1, <2>2, <2>3, <2>4, GuardingKeeps DEF ControlInv
  <1>5. ASSUME NEW r \in Requests, NoLease(r) PROVE ControlInv'
    <2>1. phase[r] = "none" /\ phase' = [phase EXCEPT ![r] = "failed"] /\ UNCHANGED <<hold, q, clash, settled>>
      BY <1>5 DEF NoLease, MayRun
    <2>2. \A j \in Slots : (HeldPaused(j)' <=> HeldPaused(j)) /\ (Seized(j)' <=> Seized(j)) /\ (Stray(j)' => Stray(j))
      BY <1>2, <2>1 DEF GuardTypes, GuardInv
    <2>3. \A j \in Slots : Touched(j)' => Touched(j)
      BY <1>2, <2>1
    <2>4. QED
      BY <1>1, <2>1, <2>2, <2>3, GuardingKeeps DEF ControlInv, Uncrossed
  <1>6. ASSUME NEW r \in Requests, NEW role \in Roles, IsPaused(r, role) PROVE ControlInv'
    <2>1. PICK wasPaused \in BOOLEAN :
             /\ phase[r] = "hold" /\ hold[r][role] = "ask" /\ UNCHANGED <<phase, q, clash, settled>>
             /\ At(r, role) \in Slots => wasPaused = q[At(r, role)].paused
             /\ hold' = [hold EXCEPT ![r][role] = IF wasPaused THEN "none" ELSE "running"]
      BY <1>6 DEF IsPaused, FoundAs
    <2>2. \A j \in Slots : (HeldPaused(j)' <=> HeldPaused(j)) /\ (Stray(j)' => Stray(j))
      BY <1>2, <2>1 DEF GuardTypes
    <2>3. \A j \in Slots : Seized(j)' => Seized(j) \/ ~Paused(j)
      BY <1>2, <2>1 DEF GuardTypes
    <2>4. \A j \in Slots : Touched(j)' => Touched(j)
      BY <1>2, <2>1 DEF GuardTypes
    <2>5. QED
      BY <1>1, <2>1, <2>2, <2>3, <2>4, GuardingKeeps DEF ControlInv, Uncrossed
  <1>7. ASSUME NEW r \in Requests, NEW role \in Roles, Pause(r, role) PROVE ControlInv'
    <2>i. PICK i : i = At(r, role)
      OBVIOUS
    <2>1. /\ hold[r][role] = "running" /\ UNCHANGED <<phase, clash, settled>>
          /\ hold' = [hold EXCEPT ![r][role] = IF phase[r] = "hold" THEN "held" ELSE "none"]
      BY <1>7 DEF Pause
    <2>2. \A j \in Slots : Paused(j)' <=> (j = i \/ Paused(j))
      BY <1>7, <2>i DEF Pause, WithFlag, QueueTypes, QueueRecord
    <2>3. \A j \in Slots : (HeldPaused(j) => HeldPaused(j)') /\ (Seized(j)' => Seized(j)) /\ (Stray(j)' => Stray(j))
      BY <1>2, <2>1 DEF GuardTypes
    <2>4. \A j \in Slots : Touched(j)' => Touched(j)
      BY <1>2, <2>1 DEF GuardTypes
    <2>5. Touched(i) /\ Seized(i) /\ (phase[r] = "failed" => Stray(i))
      BY <2>1, <2>i
    <2>6. phase[r] = "hold" => HeldPaused(i)'
      BY <1>2, <2>1, <2>i DEF GuardTypes
    <2>7. phase[r] \in {"hold", "failed"}
      BY <2>1 DEF GuardInv
    <2> HIDE DEF HeldPaused, Seized, Stray, Touched, Paused
    <2>8. \A o \in Requests, j \in Slots : Uncrossed(o, j)' =>
             Uncrossed(o, j) /\ ~Touched(j)' /\ (Paused(j)' <=> Paused(j))
      BY <1>1, <2>1, <2>2, <2>4, <2>5 DEF ControlInv, Uncrossed
    <2>9. ASSUME NEW j \in Slots, settled'[j] # "none"
          PROVE  /\ settled'[j] = settled[j] /\ ~Stray(j)'
                 /\ settled[j] = "pause" => Paused(j)' /\ ~Seized(j)'
                 /\ settled[j] = "resume" /\ Paused(j)' => HeldPaused(j)'
      BY <2>1, <2>2, <2>3, <2>5, <2>6, <2>7, <2>9 DEF ControlInv
    <2>10. QED
      BY <1>1, <2>8, <2>9, GuardingKeeps
  <1>8. ASSUME NEW r \in Requests, CountActive(r) PROVE ControlInv'
    <2>1. PICK next \in {"undo", "move"} :
            phase' = [phase EXCEPT ![r] = next] /\ UNCHANGED <<hold, q, clash, settled>>
      BY <1>8 DEF CountActive
    <2>2. \A j \in Slots : (HeldPaused(j)' <=> HeldPaused(j)) /\ (Seized(j)' <=> Seized(j)) /\ (Stray(j)' => Stray(j))
      BY <1>2, <2>1 DEF GuardTypes
    <2>3. \A j \in Slots : Touched(j)' => Touched(j)
      BY <1>2, <2>1
    <2>4. QED
      BY <1>1, <2>1, <2>2, <2>3, GuardingKeeps DEF ControlInv, Uncrossed
  <1>9. ASSUME NEW r \in Requests, MoveJob(r) PROVE ControlInv'
    <2>1. UNCHANGED <<phase, hold, clash, settled>>
      BY <1>9 DEF MoveJob, guardVars
    <2>2. \A j \in Slots : Paused(j)' <=> Paused(j)
      BY <1>9 DEF MoveJob, QueueTypes, QueueRecord
    <2>3. \A j \in Slots : (HeldPaused(j)' <=> HeldPaused(j)) /\ (Seized(j)' <=> Seized(j)) /\ (Stray(j)' => Stray(j))
      BY <1>2, <2>1
    <2>4. \A j \in Slots : Touched(j)' => Touched(j)
      BY <1>2, <2>1
    <2>5. QED
      BY <1>1, <2>1, <2>2, <2>3, <2>4, GuardingKeeps DEF ControlInv, Uncrossed
  <1>10. ASSUME NEW r \in Requests, NEW leavePaused \in BOOLEAN, MoveEnds(r, leavePaused) PROVE ControlInv'
    <2>1. /\ phase' = [phase EXCEPT ![r] = "restore"] /\ UNCHANGED <<q, clash>>
          /\ \/ UNCHANGED <<hold, settled>>
             \/ hold' = [hold EXCEPT ![r] = [o \in Roles |-> "none"]] /\ Leaves(r)
      BY <1>10 DEF MoveEnds, Untouched
    <2>2. \A j \in Slots : settled'[j] # "none" => settled'[j] = settled[j] /\ (HeldPaused(j) => HeldPaused(j)')
      BY <1>2, <2>1 DEF GuardTypes, Leaves
    <2>3. \A j \in Slots : (Seized(j)' => Seized(j)) /\ (Stray(j)' => Stray(j))
      BY <1>2, <2>1 DEF GuardTypes
    <2>4. \A j \in Slots : Touched(j)' => Touched(j)
      BY <1>2, <2>1 DEF GuardTypes
    <2>5. QED
      BY <1>1, <2>1, <2>2, <2>3, <2>4, GuardingKeeps DEF ControlInv, Uncrossed
  <1>11. ASSUME NEW r \in Requests, Restore(r) PROVE ControlInv'
    <2>1. PICK role \in Roles :
             /\ hold[r][role] = "held" /\ UNCHANGED <<phase, clash, settled>>
             /\ hold' = [hold EXCEPT ![r][role] = "none"] /\ q' = WithFlag(At(r, role), FALSE)
      BY <1>11 DEF Restore, Roles
    <2>i. PICK i : i = At(r, role)
      OBVIOUS
    <2>2. \A j \in Slots : Paused(j)' <=> (j # i /\ Paused(j))
      BY <2>1, <2>i DEF WithFlag, QueueTypes, QueueRecord
    <2>3. \A j \in Slots : /\ j # i /\ HeldPaused(j) => HeldPaused(j)'
                          /\ (Seized(j)' => Seized(j)) /\ (Stray(j)' => Stray(j))
      BY <1>2, <2>1, <2>i DEF GuardTypes
    <2>4. \A j \in Slots : Touched(j)' => Touched(j)
      BY <1>2, <2>1 DEF GuardTypes
    <2>5. Touched(i) /\ Seized(i)
      BY <2>1, <2>i
    <2> HIDE DEF HeldPaused, Seized, Stray, Touched, Paused
    <2>6. \A o \in Requests, j \in Slots : Uncrossed(o, j)' =>
             Uncrossed(o, j) /\ ~Touched(j)' /\ (Paused(j)' <=> Paused(j))
      BY <1>1, <2>1, <2>2, <2>4, <2>5 DEF ControlInv, Uncrossed
    <2>7. ASSUME NEW j \in Slots, settled'[j] # "none"
          PROVE  /\ settled'[j] = settled[j] /\ ~Stray(j)'
                 /\ settled[j] = "pause" => Paused(j)' /\ ~Seized(j)'
                 /\ settled[j] = "resume" /\ Paused(j)' => HeldPaused(j)'
      <3>1. settled'[j] = settled[j] /\ settled[j] # "none"
        BY <2>1, <2>7
      <3>2. CASE j = i
        <4>1. settled[j] # "pause" /\ ~Paused(j)' /\ ~Stray(j)'
          BY <2>2, <2>3, <2>5, <3>1, <3>2 DEF ControlInv
        <4>2. QED
          BY <3>1, <4>1
      <3>3. CASE j # i
        BY <2>2, <2>3, <3>1, <3>3 DEF ControlInv
      <3>4. QED
        BY <3>2, <3>3
    <2>8. QED
      BY <1>1, <2>6, <2>7, GuardingKeeps
  <1>12. ASSUME NEW r \in Requests, RunFails(r) PROVE ControlInv'
    <2>1. PICK next \in [Roles -> {"none", "running"}] :
             /\ hold' = [hold EXCEPT ![r] = next]
             /\ \A o \in Roles : next[o] = "running" => hold[r][o] = "running" /\ ~Asking(r)
      <3> DEFINE pausing == IF Asking(r) THEN {} ELSE {role \in Roles : hold[r][role] = "running"}
                 after(role) == [o \in Roles |-> IF o \in pausing \ {role} THEN "running" ELSE "none"]
      <3>1. PICK role \in Roles : hold' = [hold EXCEPT ![r] = after(role)]
        BY <1>12 DEF RunFails
      <3>2. /\ after(role) \in [Roles -> {"none", "running"}]
            /\ \A o \in Roles : after(role)[o] = "running" => hold[r][o] = "running" /\ ~Asking(r)
        OBVIOUS
      <3> HIDE DEF after
      <3>3. QED
        BY <3>1, <3>2
    <2>2. phase' = [phase EXCEPT ![r] = "failed"] /\ UNCHANGED <<q, clash>>
      BY <1>12 DEF RunFails
    <2>3. (Asking(r) /\ settled' = settled) \/ (~Asking(r) /\ Leaves(r))
      BY <1>12 DEF RunFails
    <2>4. \A j \in Slots : settled'[j] # "none" =>
             settled'[j] = settled[j] /\ (HeldPaused(j) => HeldPaused(j)') /\ (Stray(j)' => Stray(j))
      BY <1>2, <2>1, <2>2, <2>3 DEF GuardTypes, GuardInv, Leaves
    <2>5. \A j \in Slots : (Seized(j)' => Seized(j)) /\ (Touched(j)' => Touched(j))
      BY <1>2, <2>1 DEF GuardTypes
    <2>6. QED
      BY <1>1, <2>2, <2>4, <2>5, GuardingKeeps DEF ControlInv, Uncrossed
  <1>13. QED
    BY <1>4, <1>5, <1>6, <1>7, <1>8, <1>9, <1>10, <1>11, <1>12 DEF Guarding

\* Every step preserves ControlInv.
LEMMA ControlNext ==
  /\ RequestTypes /\ QueueTypes /\ AskedFor /\ TemporaryTypes /\ GuardTypes /\ GuardInv /\ ControlInv
  /\ [Next]_vars
  => ControlInv'
  <1> SUFFICES ASSUME RequestTypes, QueueTypes, AskedFor, TemporaryTypes, GuardTypes, GuardInv, ControlInv,
                      [Next]_vars
               PROVE  ControlInv'
    OBVIOUS
  <1>g. CASE Guarding
    BY <1>g, GuardingStep
  <1> SUFFICES ASSUME ~Guarding PROVE ControlInv'
    BY <1>g
  <1>h. SameHolds
    BY HoldsKept
  <1>1. CASE Module
    <2>1. CASE onModuleInit
      BY <2>1, <1>h, ControlStutter DEF onModuleInit, jobVars, Paused
    <2>2. CASE onModuleDestroy
      BY <2>2, <1>h, ControlStutter DEF onModuleDestroy, jobVars, Paused
    <2>3. ASSUME NEW i \in Slots, CloseOwned(i) PROVE ControlInv'
      BY <2>3, <1>h, ControlStutter DEF CloseOwned, jobVars, Paused
    <2>4. CASE ProviderDestroyed
      BY <2>4, <1>h, ControlStutter DEF ProviderDestroyed, HookEnds, jobVars, Paused
    <2>5. CASE ServiceDestroyed
      BY <2>5, <1>h, ControlStutter DEF ServiceDestroyed, HookEnds, jobVars, Paused
    <2>6. QED
      BY <1>1, <2>1, <2>2, <2>3, <2>4, <2>5 DEF Module
  <1>2. CASE Asked
    <2>1. ASSUME NEW r \in Requests, NEW a \in scenario.asks, Refuse(r, a) PROVE ControlInv'
      <3>1. \A i0 \in Slots : Paused(i0)' <=> Paused(i0)
        BY <2>1 DEF Refuse, jobVars, Paused
      <3>2. UNCHANGED controlVars /\ stage'[r] # "control" /\ \A i0 \in Slots : ~InFlight(r, i0)'
        BY <2>1 DEF Refuse, RequestTypes, AskedFor, InFlight, MayAsk, Answer
      <3>3. \A o \in Requests \ {r} : ask'[o] = ask[o] /\ stage'[o] = stage[o] /\ cmd'[o] = cmd[o]
        BY <2>1 DEF Refuse, RequestTypes, MayAsk, Answer
      <3>4. QED
        BY <3>1, <3>2, <3>3, <1>h, ControlBeside
    <2>2. ASSUME NEW r \in Requests, NEW a \in scenario.asks, AskCounts(r, a) PROVE ControlInv'
      <3>1. \A i0 \in Slots : Paused(i0)' <=> Paused(i0)
        BY <2>2 DEF AskCounts, jobVars, Paused
      <3>2. UNCHANGED controlVars /\ stage'[r] # "control" /\ \A i0 \in Slots : ~InFlight(r, i0)'
        BY <2>2 DEF AskCounts, RequestTypes, AskedFor, InFlight, MayAsk, Counting, Controls
      <3>3. \A o \in Requests \ {r} : ask'[o] = ask[o] /\ stage'[o] = stage[o] /\ cmd'[o] = cmd[o]
        BY <2>2 DEF AskCounts, RequestTypes, MayAsk, Counting
      <3>4. QED
        BY <3>1, <3>2, <3>3, <1>h, ControlBeside
    <2>3. ASSUME NEW r \in Requests, NEW a \in scenario.asks, AskControl(r, a) PROVE ControlInv'
      BY <2>3, <1>h, AskControlStep DEF AskControl
    <2>4. ASSUME NEW r \in Requests, NEW a \in scenario.asks, AskMigration(r, a) PROVE ControlInv'
      <3>1. \A i0 \in Slots : Paused(i0)' <=> Paused(i0)
        BY <2>4 DEF AskMigration, jobVars, Paused
      <3>2. UNCHANGED controlVars /\ stage'[r] # "control" /\ \A i0 \in Slots : ~InFlight(r, i0)'
        BY <2>4 DEF AskMigration, RequestTypes, AskedFor, InFlight, MayAsk, Answer
      <3>3. \A o \in Requests \ {r} : ask'[o] = ask[o] /\ stage'[o] = stage[o] /\ cmd'[o] = cmd[o]
        BY <2>4 DEF AskMigration, RequestTypes, MayAsk, Answer
      <3>4. QED
        BY <3>1, <3>2, <3>3, <1>h, ControlBeside
    <2>5. ASSUME NEW r \in Requests, NEW a \in scenario.asks, AskCache(r, a) PROVE ControlInv'
      <3>1. \A i0 \in Slots : Paused(i0)' <=> Paused(i0)
        BY <2>5 DEF AskCache, jobVars, Paused
      <3>2. UNCHANGED controlVars /\ stage'[r] # "control" /\ \A i0 \in Slots : ~InFlight(r, i0)'
        BY <2>5 DEF AskCache, RequestTypes, AskedFor, InFlight, MayAsk, Answer
      <3>3. \A o \in Requests \ {r} : ask'[o] = ask[o] /\ stage'[o] = stage[o] /\ cmd'[o] = cmd[o]
        BY <2>5 DEF AskCache, RequestTypes, MayAsk, Answer
      <3>4. QED
        BY <3>1, <3>2, <3>3, <1>h, ControlBeside
    <2>6. QED
      BY <1>2, <2>1, <2>2, <2>3, <2>4, <2>5 DEF Asked
  <1>3. CASE Migrating
    <2>1. ASSUME NEW r \in Requests, NEW ok \in BOOLEAN, WorkEnds(r, ok) PROVE ControlInv'
      <3>1. \A i0 \in Slots : Paused(i0)' <=> Paused(i0)
        BY <2>1 DEF WorkEnds, jobVars, Paused
      <3>2. UNCHANGED controlVars /\ stage'[r] # "control" /\ \A i0 \in Slots : ~InFlight(r, i0)'
        BY <2>1 DEF WorkEnds, RequestTypes, AskedFor, InFlight, Controls, Migrations, CacheRequests
      <3>3. \A o \in Requests \ {r} : ask'[o] = ask[o] /\ stage'[o] = stage[o] /\ cmd'[o] = cmd[o]
        BY <2>1 DEF WorkEnds, RequestTypes, Migrations
      <3>4. QED
        BY <3>1, <3>2, <3>3, <1>h, ControlBeside
    <2>2. ASSUME NEW r \in Requests, Closes(r) PROVE ControlInv'
      <3>1. \A i0 \in Slots : Paused(i0)' <=> Paused(i0)
        BY <2>2 DEF Closes, jobVars, Paused
      <3>2. UNCHANGED controlVars /\ stage'[r] # "control" /\ \A i0 \in Slots : ~InFlight(r, i0)'
        BY <2>2 DEF Closes, RequestTypes, AskedFor, InFlight, Controls, Migrations, CacheRequests
      <3>3. \A o \in Requests \ {r} : ask'[o] = ask[o] /\ stage'[o] = stage[o] /\ cmd'[o] = cmd[o]
        BY <2>2 DEF Closes, RequestTypes
      <3>4. QED
        BY <3>1, <3>2, <3>3, <1>h, ControlBeside
    <2>3. ASSUME NEW r \in Requests, CloseRejects(r) PROVE ControlInv'
      <3>1. \A i0 \in Slots : Paused(i0)' <=> Paused(i0)
        BY <2>3 DEF CloseRejects, jobVars, Paused
      <3>2. UNCHANGED controlVars /\ stage'[r] # "control" /\ \A i0 \in Slots : ~InFlight(r, i0)'
        BY <2>3
           DEF CloseRejects, RequestTypes, AskedFor, InFlight, Answer, Controls, Migrations,
               CacheRequests
      <3>3. \A o \in Requests \ {r} : ask'[o] = ask[o] /\ stage'[o] = stage[o] /\ cmd'[o] = cmd[o]
        BY <2>3 DEF CloseRejects, RequestTypes, Answer
      <3>4. QED
        BY <3>1, <3>2, <3>3, <1>h, ControlBeside
    <2>4. QED
      BY <1>3, <2>1, <2>2, <2>3 DEF Migrating
  <1>4. CASE Stats
    <2>1. ASSUME NEW r \in Requests, NEW i \in Slots, ReadCount(r, i) PROVE ControlInv'
      <3>1. \A i0 \in Slots : Paused(i0)' <=> Paused(i0)
        BY <2>1 DEF ReadCount, jobVars, Paused
      <3>2. UNCHANGED controlVars /\ stage'[r] # "control" /\ \A i0 \in Slots : ~InFlight(r, i0)'
        BY <2>1
           DEF ReadCount, RequestTypes, AskedFor, InFlight, Reading, Proceed, Answer, Counting, Controls
      <3>3. \A o \in Requests \ {r} : ask'[o] = ask[o] /\ stage'[o] = stage[o] /\ cmd'[o] = cmd[o]
        BY <2>1 DEF ReadCount, RequestTypes, Reading, Proceed, Answer
      <3>4. QED
        BY <3>1, <3>2, <3>3, <1>h, ControlBeside
    <2>2. ASSUME NEW r \in Requests, NEW i \in Slots,
              NEW reported \in scenario.reported \cup {NothingReported}, Sample(r, i, reported)
         PROVE  ControlInv'
      <3>1. \A i0 \in Slots : Paused(i0)' <=> Paused(i0)
        BY <2>2 DEF Sample, jobVars, Paused
      <3>2. UNCHANGED controlVars /\ stage'[r] # "control" /\ \A i0 \in Slots : ~InFlight(r, i0)'
        BY <2>2
           DEF Sample, RequestTypes, AskedFor, InFlight, Reading, Proceed, Answer, Counting, Controls
      <3>3. \A o \in Requests \ {r} : ask'[o] = ask[o] /\ stage'[o] = stage[o] /\ cmd'[o] = cmd[o]
        BY <2>2 DEF Sample, RequestTypes, Reading, Proceed, Answer
      <3>4. QED
        BY <3>1, <3>2, <3>3, <1>h, ControlBeside
    <2>3. ASSUME NEW r \in Requests, NEW i \in Slots, discoverJobTypes(r, i) PROVE ControlInv'
      <3>1. \A i0 \in Slots : Paused(i0)' <=> Paused(i0)
        BY <2>3 DEF discoverJobTypes, jobVars, Paused
      <3>2. UNCHANGED controlVars /\ stage'[r] # "control" /\ \A i0 \in Slots : ~InFlight(r, i0)'
        BY <2>3
           DEF discoverJobTypes, RequestTypes, AskedFor, InFlight, Reading, Proceed, Answer, Counting,
               Controls
      <3>3. \A o \in Requests \ {r} : ask'[o] = ask[o] /\ stage'[o] = stage[o] /\ cmd'[o] = cmd[o]
        BY <2>3 DEF discoverJobTypes, RequestTypes, Reading, Proceed, Answer
      <3>4. QED
        BY <3>1, <3>2, <3>3, <1>h, ControlBeside
    <2>4. ASSUME NEW r \in Requests, NEW i \in Slots, ReadFails(r, i) PROVE ControlInv'
      <3>1. \A i0 \in Slots : Paused(i0)' <=> Paused(i0)
        BY <2>4 DEF ReadFails, jobVars, Paused
      <3>2. UNCHANGED controlVars /\ stage'[r] # "control" /\ \A i0 \in Slots : ~InFlight(r, i0)'
        BY <2>4
           DEF ReadFails, RequestTypes, AskedFor, InFlight, Reading, Proceed, Answer, Counting, Controls
      <3>3. \A o \in Requests \ {r} : ask'[o] = ask[o] /\ stage'[o] = stage[o] /\ cmd'[o] = cmd[o]
        BY <2>4 DEF ReadFails, RequestTypes, Reading, Proceed, Answer
      <3>4. QED
        BY <3>1, <3>2, <3>3, <1>h, ControlBeside
    <2>5. ASSUME NEW r \in Requests, NEW i \in Slots, Act(r, i) PROVE ControlInv'
      <3>1. \A i0 \in Slots : Paused(i0)' <=> Paused(i0)
        BY <2>5 DEF Act, QueueTypes, QueueRecord, Paused
      <3>2. UNCHANGED controlVars /\ stage'[r] # "control" /\ \A i0 \in Slots : ~InFlight(r, i0)'
        BY <2>5 DEF Act, RequestTypes, AskedFor, InFlight, Counting, Controls
      <3>3. \A o \in Requests \ {r} : ask'[o] = ask[o] /\ stage'[o] = stage[o] /\ cmd'[o] = cmd[o]
        BY <2>5 DEF Act, RequestTypes
      <3>4. QED
        BY <3>1, <3>2, <3>3, <1>h, ControlBeside
    <2>6. ASSUME NEW r \in Requests, NEW i \in Slots, ActFails(r, i) PROVE ControlInv'
      <3>1. \A i0 \in Slots : Paused(i0)' <=> Paused(i0)
        BY <2>6 DEF ActFails, jobVars, Paused
      <3>2. UNCHANGED controlVars /\ stage'[r] # "control" /\ \A i0 \in Slots : ~InFlight(r, i0)'
        BY <2>6 DEF ActFails, RequestTypes, AskedFor, InFlight, Answer, Counting, Controls
      <3>3. \A o \in Requests \ {r} : ask'[o] = ask[o] /\ stage'[o] = stage[o] /\ cmd'[o] = cmd[o]
        BY <2>6 DEF ActFails, RequestTypes, Answer
      <3>4. QED
        BY <3>1, <3>2, <3>3, <1>h, ControlBeside
    <2>7. ASSUME NEW r \in Requests, NEW i \in Slots, ReadMemory(r, i) PROVE ControlInv'
      <3>1. \A i0 \in Slots : Paused(i0)' <=> Paused(i0)
        BY <2>7 DEF ReadMemory, jobVars, Paused
      <3>2. UNCHANGED controlVars /\ stage'[r] # "control" /\ \A i0 \in Slots : ~InFlight(r, i0)'
        BY <2>7
           DEF ReadMemory, RequestTypes, AskedFor, InFlight, Reading, Proceed, Answer, Counting, Controls
      <3>3. \A o \in Requests \ {r} : ask'[o] = ask[o] /\ stage'[o] = stage[o] /\ cmd'[o] = cmd[o]
        BY <2>7 DEF ReadMemory, RequestTypes, Reading, Proceed, Answer
      <3>4. QED
        BY <3>1, <3>2, <3>3, <1>h, ControlBeside
    <2>8. QED
      BY <1>4, <2>1, <2>2, <2>3, <2>4, <2>5, <2>6, <2>7 DEF Stats
  <1>5. CASE Controlled
    <2>1. ASSUME NEW r \in Requests, NEW i \in Slots, Command(r, i) PROVE ControlInv'
      BY <2>1, <1>h, CommandStep DEF Command
    <2>2. ASSUME NEW r \in Requests, NEW i \in Slots, SetReason(r, i) PROVE ControlInv'
      BY <2>2, <1>h, SetReasonStep DEF SetReason
    <2>3. ASSUME NEW r \in Requests, NEW i \in Slots, ControlFails(r, i) PROVE ControlInv'
      BY <2>3, <1>h, ControlFailsStep DEF ControlFails
    <2>4. QED
      BY <1>5, <2>1, <2>2, <2>3 DEF Controlled
  <1>6. CASE Jobs
    <2>1. ASSUME NEW i \in DOMAIN Options.queues, JobArrives(i) PROVE ControlInv'
      BY <2>1, <1>h, ControlStutter DEF JobArrives, Job, QueueTypes, QueueRecord, Paused
    <2>2. ASSUME NEW i \in DOMAIN Options.queues, JobTaken(i) PROVE ControlInv'
      BY <2>2, <1>h, ControlStutter DEF JobTaken, Job, QueueTypes, QueueRecord, Paused
    <2>3. ASSUME NEW i \in DOMAIN Options.queues, JobCounted(i) PROVE ControlInv'
      BY <2>3, <1>h, ControlStutter DEF JobCounted, Paused
    <2>4. ASSUME NEW i \in DOMAIN Options.queues, JobCompletes(i) PROVE ControlInv'
      BY <2>4, <1>h, ControlStutter DEF JobCompletes, Job, QueueTypes, QueueRecord, Paused
    <2>5. ASSUME NEW i \in DOMAIN Options.queues, NEW added \in {0, TicksPerMinute}, updateQueueContext(i, added)
         PROVE  ControlInv'
      BY <2>5, <1>h, ControlStutter DEF updateQueueContext, Paused
    <2>6. QED
      BY <1>6, <2>1, <2>2, <2>3, <2>4, <2>5 DEF Jobs
  <1>7. CASE Tick
    BY <1>7, <1>h, ControlStutter DEF Tick, jobVars, Paused
  <1>8. CASE UNCHANGED vars
    BY <1>8, <1>h, ControlStutter DEF vars, jobVars, Paused
  <1>9. QED
    BY <1>1, <1>2, <1>3, <1>4, <1>5, <1>6, <1>7, <1>8 DEF Next
------------------------------------------------------------------------------
(* The rest of the types *)

\* The map of the module only holds what could be resolved, requests only use
\* what it holds, and an answer is what ends a request.
ShapeInv ==
  /\ life \in {"init", "up", "failed", "closing", "down"} /\ now \in Nat
  /\ queuesMap \subseteq Resolved(Options)
  /\ life = "init" => \A r \in Requests : stage[r] = "idle"
  /\ \A r \in Requests, i \in Slots : cmd[r][i] # "none" => i \in queuesMap
  /\ \A r \in Requests : answer[r] # "none" <=> stage[r] \in {"closing", "answered"}

\* A processor counts a completion before its job is moved, and only then.
CountInv ==
  /\ finished \in [Slots -> Nat] /\ done \in [Slots -> Nat]
  /\ \A i \in Slots : Processed(i) => done[i] \in finished[i]..(finished[i] + q[i].active)

\* Initially nothing is resolved, asked or counted.
LEMMA ShapeInit == Init => ShapeInv /\ CountInv
  BY DEF Init, ShapeInv, CountInv

\* A request that goes on uses the queues it has used.
LEMMA ProceedShape ==
  ASSUME RequestTypes, NEW r \in Requests, NEW cmds \in [Slots -> Commands], Reading(r), Proceed(r, cmds),
         ShapeInv, UNCHANGED <<scenario, now, lifeVars>>, \A i \in Slots : cmds[i] # "none" => cmd[r][i] # "none"
  PROVE  ShapeInv'
  <1>1. /\ \A i \in Slots : cmd'[r][i] # "none" => cmd[r][i] # "none"
        /\ \A o \in Requests \ {r} : cmd'[o] = cmd[o] /\ stage'[o] = stage[o] /\ answer'[o] = answer[o]
    BY DEF RequestTypes, Proceed, Answer, Over
  <1>2. answer'[r] # "none" <=> stage'[r] \in {"closing", "answered"}
    BY DEF RequestTypes, Proceed, Answer, Reading, ShapeInv
  <1>3. life # "init"
    BY DEF Reading, ShapeInv
  <1>4. QED
    BY <1>1, <1>2, <1>3 DEF ShapeInv, lifeVars, Options

\* Every step preserves ShapeInv.
LEMMA ShapeNext == RequestTypes /\ AskedFor /\ ShapeInv /\ [Next]_vars => ShapeInv'
  <1> SUFFICES ASSUME RequestTypes, AskedFor, ShapeInv, [Next]_vars PROVE ShapeInv'
    OBVIOUS
  <1> USE DEF ShapeInv, boundVars, lifeVars, Options
  <1>1. CASE Module
    <2>1. CASE onModuleInit
      BY <2>1 DEF onModuleInit, RequestTypes, AskedFor, Answer
    <2>2. CASE onModuleDestroy
      BY <2>2 DEF onModuleDestroy, RequestTypes, AskedFor, Answer
    <2>3. ASSUME NEW i \in Slots, CloseOwned(i) PROVE ShapeInv'
      BY <2>3 DEF CloseOwned, RequestTypes, AskedFor, Answer
    <2>4. CASE ProviderDestroyed
      BY <2>4 DEF ProviderDestroyed, HookEnds, RequestTypes, AskedFor, Answer
    <2>5. CASE ServiceDestroyed
      BY <2>5 DEF ServiceDestroyed, HookEnds, RequestTypes, AskedFor, Answer
    <2>6. QED
      BY <1>1, <2>1, <2>2, <2>3, <2>4, <2>5 DEF Module
  <1>2. CASE Asked
    <2>1. ASSUME NEW r \in Requests, NEW a \in scenario.asks, Refuse(r, a) PROVE ShapeInv'
      BY <2>1 DEF Refuse, RequestTypes, AskedFor, Answer, MayAsk
    <2>2. ASSUME NEW r \in Requests, NEW a \in scenario.asks, AskCounts(r, a) PROVE ShapeInv'
      BY <2>2 DEF AskCounts, RequestTypes, AskedFor, Answer, MayAsk, Refused, Counting, Controls
    <2>3. ASSUME NEW r \in Requests, NEW a \in scenario.asks, AskControl(r, a) PROVE ShapeInv'
      BY <2>3 DEF AskControl, RequestTypes, AskedFor, Answer, MayAsk, Refused, Counting, Controls
    <2>4. ASSUME NEW r \in Requests, NEW a \in scenario.asks, AskMigration(r, a) PROVE ShapeInv'
      BY <2>4 DEF AskMigration, RequestTypes, AskedFor, Answer, MayAsk
    <2>5. ASSUME NEW r \in Requests, NEW a \in scenario.asks, AskCache(r, a) PROVE ShapeInv'
      <3>1. /\ stage[r] = "idle" /\ life # "init" /\ UNCHANGED <<scenario, now, cmd, lifeVars>>
            /\ \/ stage' = [stage EXCEPT ![r] = "work"] /\ UNCHANGED answer
               \/ /\ stage' = [stage EXCEPT ![r] = "answered"]
                  /\ answer' = [answer EXCEPT ![r] = "error"]
        BY <2>5 DEF AskCache, MayAsk, boundVars, Answer
      <3>2. \A k \in Requests : answer'[k] # "none" <=> stage'[k] \in {"closing", "answered"}
        BY <3>1 DEF RequestTypes
      <3>3. QED
        BY <3>1, <3>2
    <2>6. QED
      BY <1>2, <2>1, <2>2, <2>3, <2>4, <2>5 DEF Asked
  <1>3. CASE Migrating
    <2>1. ASSUME NEW r \in Requests, NEW ok \in BOOLEAN, WorkEnds(r, ok) PROVE ShapeInv'
      BY <2>1 DEF WorkEnds, RequestTypes, AskedFor, Answer
    <2>2. ASSUME NEW r \in Requests, Closes(r) PROVE ShapeInv'
      BY <2>2 DEF Closes, RequestTypes, AskedFor, Answer
    <2>3. ASSUME NEW r \in Requests, CloseRejects(r) PROVE ShapeInv'
      BY <2>3 DEF CloseRejects, RequestTypes, AskedFor, Answer
    <2>4. QED
      BY <1>3, <2>1, <2>2, <2>3 DEF Migrating
  <1>4. CASE Stats
    <2>1. ASSUME NEW r \in Requests, NEW i \in Slots, ReadCount(r, i) PROVE ShapeInv'
      <3>1. /\ Reading(r) /\ cmd[r][i] \in {"waiting", "active", "completed", "paused"}
            /\ Proceed(r, [cmd[r] EXCEPT ![i] = NextRead(cmd[r][i], ask[r].kind)])
            /\ UNCHANGED <<scenario, now, lifeVars>>
        BY <2>1 DEF ReadCount, Counts
      <3>2. PICK next \in Commands : next = NextRead(cmd[r][i], ask[r].kind)
        BY <3>1 DEF NextRead, Commands
      <3>3. /\ [cmd[r] EXCEPT ![i] = next] \in [Slots -> Commands]
            /\ \A j \in Slots : [cmd[r] EXCEPT ![i] = next][j] # "none" => cmd[r][j] # "none"
        BY <3>1 DEF RequestTypes
      <3>4. QED
        BY <3>1, <3>2, <3>3, ProceedShape
    <2>2. ASSUME NEW r \in Requests, NEW i \in Slots,
              NEW reported \in scenario.reported \cup {NothingReported}, Sample(r, i, reported)
         PROVE  ShapeInv'
      <3>1. Reading(r) /\ cmd[r][i] # "none" /\ "types" \in Commands
        BY <2>2 DEF Sample, Commands
      <3>2. Proceed(r, [cmd[r] EXCEPT ![i] = "types"]) /\ UNCHANGED <<scenario, now, lifeVars>>
        BY <2>2 DEF Sample
      <3>3. /\ [cmd[r] EXCEPT ![i] = "types"] \in [Slots -> Commands]
            /\ \A j \in Slots : [cmd[r] EXCEPT ![i] = "types"][j] # "none" => cmd[r][j] # "none"
        BY <3>1 DEF RequestTypes
      <3>4. QED
        BY <3>1, <3>2, <3>3, ProceedShape
    <2>3. ASSUME NEW r \in Requests, NEW i \in Slots, discoverJobTypes(r, i) PROVE ShapeInv'
      <3>1. Reading(r) /\ cmd[r][i] # "none"
        BY <2>3 DEF discoverJobTypes
      <3>2. PICK next \in {"memory", "done"} :
               Proceed(r, [cmd[r] EXCEPT ![i] = next]) /\ UNCHANGED <<scenario, now, lifeVars>>
        BY <2>3 DEF discoverJobTypes, NextRead
      <3>3. /\ [cmd[r] EXCEPT ![i] = next] \in [Slots -> Commands]
            /\ \A j \in Slots : [cmd[r] EXCEPT ![i] = next][j] # "none" => cmd[r][j] # "none"
        BY <3>1 DEF RequestTypes, Commands
      <3>4. QED
        BY <3>1, <3>2, <3>3, ProceedShape
    <2>4. ASSUME NEW r \in Requests, NEW i \in Slots, ReadFails(r, i) PROVE ShapeInv'
      <3>1. Reading(r) /\ cmd[r][i] # "none" /\ "failed" \in Commands /\ UNCHANGED <<scenario, now, lifeVars>>
        BY <2>4 DEF ReadFails, Counts, Commands
      <3>2. CASE ask[r].kind = "stats"
        <4>1. Proceed(r, [cmd[r] EXCEPT ![i] = "failed"])
          BY <2>4, <3>2 DEF ReadFails
        <4>2. /\ [cmd[r] EXCEPT ![i] = "failed"] \in [Slots -> Commands]
              /\ \A j \in Slots : [cmd[r] EXCEPT ![i] = "failed"][j] # "none" => cmd[r][j] # "none"
          BY <3>1 DEF RequestTypes
        <4>3. QED
          BY <3>1, <4>1, <4>2, ProceedShape
      <3>3. CASE ask[r].kind # "stats"
        <4>1. cmd' = [cmd EXCEPT ![r][i] = "failed"] /\ Answer(r, "error")
          BY <2>4, <3>3 DEF ReadFails
        <4>2. \A o \in Requests, j \in Slots : cmd'[o][j] # "none" => cmd[o][j] # "none"
          BY <3>1, <4>1 DEF RequestTypes
        <4>3. QED
          BY <3>1, <4>1, <4>2 DEF RequestTypes, Reading, Answer
      <3>4. QED
        BY <3>2, <3>3
    <2>5. ASSUME NEW r \in Requests, NEW i \in Slots, Act(r, i) PROVE ShapeInv'
      BY <2>5 DEF Act, RequestTypes, AskedFor, Answer
    <2>6. ASSUME NEW r \in Requests, NEW i \in Slots, ActFails(r, i) PROVE ShapeInv'
      BY <2>6 DEF ActFails, RequestTypes, AskedFor, Answer
    <2>7. ASSUME NEW r \in Requests, NEW i \in Slots, ReadMemory(r, i) PROVE ShapeInv'
      <3>1. Reading(r) /\ cmd[r][i] # "none" /\ "done" \in Commands
        BY <2>7 DEF ReadMemory, Commands
      <3>2. Proceed(r, [cmd[r] EXCEPT ![i] = "done"]) /\ UNCHANGED <<scenario, now, lifeVars>>
        BY <2>7 DEF ReadMemory
      <3>3. /\ [cmd[r] EXCEPT ![i] = "done"] \in [Slots -> Commands]
            /\ \A j \in Slots : [cmd[r] EXCEPT ![i] = "done"][j] # "none" => cmd[r][j] # "none"
        BY <3>1 DEF RequestTypes
      <3>4. QED
        BY <3>1, <3>2, <3>3, ProceedShape
    <2>8. QED
      BY <1>4, <2>1, <2>2, <2>3, <2>4, <2>5, <2>6, <2>7 DEF Stats
  <1>5. CASE Controlled
    <2>1. ASSUME NEW r \in Requests, NEW i \in Slots, Command(r, i) PROVE ShapeInv'
      BY <2>1 DEF Command, RequestTypes, AskedFor, Answer, AfterCommand, InFlight
    <2>2. ASSUME NEW r \in Requests, NEW i \in Slots, SetReason(r, i) PROVE ShapeInv'
      BY <2>2 DEF SetReason, RequestTypes, AskedFor, Answer, InFlight
    <2>3. ASSUME NEW r \in Requests, NEW i \in Slots, ControlFails(r, i) PROVE ShapeInv'
      BY <2>3, ZenonT(60) DEF ControlFails, RequestTypes, AskedFor, Answer, InFlight
    <2>4. QED
      BY <1>5, <2>1, <2>2, <2>3 DEF Controlled
  <1>6. CASE Jobs
    <2>1. ASSUME NEW i \in DOMAIN Options.queues, JobArrives(i) PROVE ShapeInv'
      BY <2>1 DEF JobArrives, Job
    <2>2. ASSUME NEW i \in DOMAIN Options.queues, JobTaken(i) PROVE ShapeInv'
      BY <2>2 DEF JobTaken, Job
    <2>3. ASSUME NEW i \in DOMAIN Options.queues, JobCounted(i) PROVE ShapeInv'
      BY <2>3 DEF JobCounted
    <2>4. ASSUME NEW i \in DOMAIN Options.queues, JobCompletes(i) PROVE ShapeInv'
      BY <2>4 DEF JobCompletes, Job
    <2>5. ASSUME NEW i \in DOMAIN Options.queues, NEW added \in {0, TicksPerMinute}, updateQueueContext(i, added)
         PROVE  ShapeInv'
      BY <2>5 DEF updateQueueContext
    <2>6. QED
      BY <1>6, <2>1, <2>2, <2>3, <2>4, <2>5 DEF Jobs
  <1>7. CASE Tick
    BY <1>7 DEF Tick
  <1>8. CASE UNCHANGED vars
    BY <1>8 DEF vars
  <1>9. CASE Guarding
    BY <1>9, GuardingBeside DEF Beside
  <1>10. QED
    BY <1>1, <1>2, <1>3, <1>4, <1>5, <1>6, <1>7, <1>8, <1>9 DEF Next

\* A step that completes no job, counts none and takes none keeps CountInv.
LEMMA CountStutter ==
  ASSUME CountInv, UNCHANGED <<scenario, finished, done>>, \A i \in Slots : q'[i].active = q[i].active
  PROVE  CountInv'
  BY DEF CountInv, Processed, ProcessorOf, Options

\* Every step preserves CountInv.
LEMMA CountNext == RequestTypes /\ QueueTypes /\ CountInv /\ [Next]_vars => CountInv'
  <1> SUFFICES ASSUME RequestTypes, QueueTypes, CountInv, [Next]_vars PROVE CountInv'
    OBVIOUS
  <1> USE DEF boundVars, jobVars
  <1>1. CASE Module
    <2>1. CASE onModuleInit
      BY <2>1, CountStutter DEF onModuleInit
    <2>2. CASE onModuleDestroy
      BY <2>2, CountStutter DEF onModuleDestroy
    <2>3. ASSUME NEW i \in Slots, CloseOwned(i) PROVE CountInv'
      BY <2>3, CountStutter DEF CloseOwned
    <2>4. CASE ProviderDestroyed
      BY <2>4, CountStutter DEF ProviderDestroyed, HookEnds
    <2>5. CASE ServiceDestroyed
      BY <2>5, CountStutter DEF ServiceDestroyed, HookEnds
    <2>6. QED
      BY <1>1, <2>1, <2>2, <2>3, <2>4, <2>5 DEF Module
  <1>2. CASE Asked
    <2>1. ASSUME NEW r \in Requests, NEW a \in scenario.asks, Refuse(r, a) PROVE CountInv'
      BY <2>1, CountStutter DEF Refuse
    <2>2. ASSUME NEW r \in Requests, NEW a \in scenario.asks, AskCounts(r, a) PROVE CountInv'
      BY <2>2, CountStutter DEF AskCounts
    <2>3. ASSUME NEW r \in Requests, NEW a \in scenario.asks, AskControl(r, a) PROVE CountInv'
      BY <2>3, CountStutter DEF AskControl
    <2>4. ASSUME NEW r \in Requests, NEW a \in scenario.asks, AskMigration(r, a) PROVE CountInv'
      BY <2>4, CountStutter DEF AskMigration
    <2>5. ASSUME NEW r \in Requests, NEW a \in scenario.asks, AskCache(r, a) PROVE CountInv'
      BY <2>5, CountStutter DEF AskCache
    <2>6. QED
      BY <1>2, <2>1, <2>2, <2>3, <2>4, <2>5 DEF Asked
  <1>3. CASE Migrating
    <2>1. ASSUME NEW r \in Requests, NEW ok \in BOOLEAN, WorkEnds(r, ok) PROVE CountInv'
      BY <2>1, CountStutter DEF WorkEnds
    <2>2. ASSUME NEW r \in Requests, Closes(r) PROVE CountInv'
      BY <2>2, CountStutter DEF Closes
    <2>3. ASSUME NEW r \in Requests, CloseRejects(r) PROVE CountInv'
      BY <2>3, CountStutter DEF CloseRejects
    <2>4. QED
      BY <1>3, <2>1, <2>2, <2>3 DEF Migrating
  <1>4. CASE Stats
    <2>1. ASSUME NEW r \in Requests, NEW i \in Slots, ReadCount(r, i) PROVE CountInv'
      BY <2>1, CountStutter DEF ReadCount
    <2>2. ASSUME NEW r \in Requests, NEW i \in Slots,
              NEW reported \in scenario.reported \cup {NothingReported}, Sample(r, i, reported)
         PROVE  CountInv'
      BY <2>2, CountStutter DEF Sample
    <2>3. ASSUME NEW r \in Requests, NEW i \in Slots, discoverJobTypes(r, i) PROVE CountInv'
      BY <2>3, CountStutter DEF discoverJobTypes
    <2>4. ASSUME NEW r \in Requests, NEW i \in Slots, ReadFails(r, i) PROVE CountInv'
      BY <2>4, CountStutter DEF ReadFails
    <2>5. ASSUME NEW r \in Requests, NEW i \in Slots, Act(r, i) PROVE CountInv'
      BY <2>5, CountStutter DEF Act, QueueTypes, QueueRecord
    <2>6. ASSUME NEW r \in Requests, NEW i \in Slots, ActFails(r, i) PROVE CountInv'
      BY <2>6, CountStutter DEF ActFails
    <2>7. ASSUME NEW r \in Requests, NEW i \in Slots, ReadMemory(r, i) PROVE CountInv'
      BY <2>7, CountStutter DEF ReadMemory
    <2>8. QED
      BY <1>4, <2>1, <2>2, <2>3, <2>4, <2>5, <2>6, <2>7 DEF Stats
  <1>5. CASE Controlled
    <2>1. ASSUME NEW r \in Requests, NEW i \in Slots, Command(r, i) PROVE CountInv'
      BY <2>1, CountStutter DEF Command, QueueTypes, QueueRecord
    <2>2. ASSUME NEW r \in Requests, NEW i \in Slots, SetReason(r, i) PROVE CountInv'
      BY <2>2, CountStutter DEF SetReason
    <2>3. ASSUME NEW r \in Requests, NEW i \in Slots, ControlFails(r, i) PROVE CountInv'
      BY <2>3, CountStutter DEF ControlFails
    <2>4. QED
      BY <1>5, <2>1, <2>2, <2>3 DEF Controlled
  <1>6. CASE Jobs
    <2>1. ASSUME NEW i \in DOMAIN Options.queues, JobArrives(i) PROVE CountInv'
      BY <2>1, CountStutter DEF JobArrives, Job, QueueTypes, QueueRecord
    <2>2. ASSUME NEW i \in DOMAIN Options.queues, JobTaken(i) PROVE CountInv'
      <3>1. i \in Slots
        BY QueueIsSlot
      <3>2. q'[i].active = q[i].active + 1 /\ \A j \in Slots \ {i} : q'[j].active = q[j].active
        BY <2>2, <3>1 DEF JobTaken, Job, QueueTypes, QueueRecord
      <3>3. UNCHANGED <<scenario, finished, done>> /\ q[i].active \in Nat
        BY <2>2, <3>1 DEF JobTaken, Job, QueueTypes, QueueRecord
      <3>4. QED
        BY <3>1, <3>2, <3>3 DEF CountInv, Processed, ProcessorOf, Options
    <2>3. ASSUME NEW i \in DOMAIN Options.queues, JobCounted(i) PROVE CountInv'
      <3>1. i \in Slots
        BY QueueIsSlot
      <3>2. /\ done' = [done EXCEPT ![i] = done[i] + 1] /\ UNCHANGED <<scenario, finished, q>>
            /\ done[i] < finished[i] + q[i].active /\ q[i].active \in Nat
        BY <2>3, <3>1 DEF JobCounted, QueueTypes, QueueRecord
      <3>3. QED
        BY <3>1, <3>2 DEF CountInv, Processed, ProcessorOf, Options
    <2>4. ASSUME NEW i \in DOMAIN Options.queues, JobCompletes(i) PROVE CountInv'
      <3>1. i \in Slots
        BY QueueIsSlot
      <3>2. q'[i].active = q[i].active - 1 /\ \A j \in Slots \ {i} : q'[j].active = q[j].active
        BY <2>4, <3>1 DEF JobCompletes, Job, QueueTypes, QueueRecord
      <3>3. /\ finished' = [finished EXCEPT ![i] = finished[i] + 1] /\ UNCHANGED <<scenario, done>>
            /\ q[i].active \in Nat /\ (Processed(i) => done[i] > finished[i])
        BY <2>4, <3>1 DEF JobCompletes, Job, QueueTypes, QueueRecord
      <3>4. QED
        BY <3>1, <3>2, <3>3 DEF CountInv, Processed, ProcessorOf, Options
    <2>5. ASSUME NEW i \in DOMAIN Options.queues, NEW added \in {0, TicksPerMinute}, updateQueueContext(i, added)
         PROVE  CountInv'
      BY <2>5, CountStutter DEF updateQueueContext
    <2>6. QED
      BY <1>6, <2>1, <2>2, <2>3, <2>4, <2>5 DEF Jobs
  <1>7. CASE Tick
    BY <1>7, CountStutter DEF Tick
  <1>8. CASE UNCHANGED vars
    BY <1>8, CountStutter DEF vars
  <1>9. CASE Guarding
    <2>1. UNCHANGED <<scenario, finished, done>> /\ \A i \in Slots : q'[i].active = q[i].active
      BY <1>9, GuardingQueues, GuardingBeside DEF Beside, boundVars
    <2>2. QED
      BY <2>1 DEF CountInv, Processed, ProcessorOf, Options
  <1>10. QED
    BY <1>1, <1>2, <1>3, <1>4, <1>5, <1>6, <1>7, <1>8, <1>9 DEF Next
------------------------------------------------------------------------------
(* The queues a request is given *)

\* A set of natural numbers has a smallest one, which Min picks.
LEMMA MinOf ==
  ASSUME NEW S, S \subseteq Nat, S # {}
  PROVE  Min(S) \in S /\ \A y \in S : Min(S) <= y
  <1>1. PICK x \in S : \A y \in S : ~(<<y, x>> \in OpToRel(<, Nat))
    BY NatLessThanWellFounded, WFMin
  <1>2. \A y \in S : x <= y
    <2>1. \A y \in Nat, z \in Nat : y < z => <<y, z>> \in OpToRel(<, Nat)
      BY DEF OpToRel
    <2>2. \A y \in S : ~(y < x)
      BY <1>1, <2>1
    <2>3. QED
      BY <2>2
  <1>3. QED
    BY <1>2 DEF Min

\* A bounded set of natural numbers has a largest one, which Max picks.
LEMMA MaxOf ==
  ASSUME NEW n \in Nat, NEW S, S \subseteq 1..n, S # {}
  PROVE  Max(S) \in S
  <1> DEFINE T == {m \in Nat : n - m \in S}
  <1>1. T \subseteq Nat /\ T # {}
    <2>1. PICK x \in S : TRUE
      OBVIOUS
    <2>2. n - x \in T
      BY <2>1
    <2>3. QED
      BY <2>2
  <1>2. Min(T) \in T /\ \A t \in T : Min(T) <= t
    BY <1>1, MinOf
  <1>3. n - Min(T) \in S
    BY <1>2
  <1>4. ASSUME NEW y \in S PROVE n - Min(T) >= y
    <2>1. n - y \in T
      BY <1>4
    <2>2. QED
      BY <1>2, <2>1
  <1>5. QED
    BY <1>3, <1>4 DEF Max

\* What the requests have and what they are given, and that a migration between
\* two different places, and a cache client, are where the request has named them.
Fits(a, h) ==
  IF a.kind \in Migrations
  THEN /\ a["source"] # a["target"]
       /\ \A role \in Roles :
            /\ h[role].type \in {"registered", "temporary"}
            /\ h[role].type = "registered" =>
                 /\ h[role].at \in DOMAIN Options.queues
                 /\ QueueName(Options.queues[h[role].at]) = a[role][1]
                 /\ LookupId(Options.queues[h[role].at]) = a[role][2]
  ELSE \A role \in Roles : h[role].type # "none" =>
         /\ h[role].type = "registered" /\ h[role].at \in DOMAIN Options.queues
         /\ getRedisInstanceId(Options, Options.queues[h[role].at]) = a[role][2]

\* A request that works, works where it said.
PlacesInv == \A r \in Requests : stage[r] = "work" => ask[r] # None /\ Fits(ask[r], handle[r])

\* A reachable map holds positions of the options, which are positive numbers.
LEMMA MapOf ==
  ASSUME RequestTypes, ShapeInv
  PROVE  \E n \in Nat : /\ queuesMap \subseteq 1..n /\ queuesMap \subseteq DOMAIN Options.queues
                        /\ DOMAIN Options.queues = 1..n
  <1>1. \E n \in Slots \cup {0} : DOMAIN Options.queues = 1..n
    BY AdminAssumption DEF RequestTypes, Options
  <1>2. queuesMap \subseteq DOMAIN Options.queues
    BY DEF ShapeInv, Resolved
  <1>3. Slots \cup {0} \subseteq Nat
    BY AdminAssumption
  <1>4. QED
    BY <1>1, <1>2, <1>3

\* A queue is on the instance the service takes it to be on.
LEMMA HomeOf ==
  ASSUME RequestTypes, NEW i \in DOMAIN Options.queues
  PROVE  Home(Options, i) = getRedisInstanceId(Options, Options.queues[i])
  BY AdminAssumption DEF RequestTypes, Options, Consistent, Home

\* In well-named options the controller and the service look on the same instance.
LEMMA SameIdOf ==
  ASSUME WellNamed(Options), NEW i \in DOMAIN Options.queues
  PROVE  LookupId(Options.queues[i]) = getRedisInstanceId(Options, Options.queues[i])
  BY DEF WellNamed, LookupId, getRedisInstanceId

\* The first of some positions is one of them; there is one unless there are none.
LEMMA FirstIn ==
  ASSUME NEW S, S \subseteq Nat \ {0}
  PROVE  /\ S = {} => FirstOf(S) = 0
         /\ S # {} => FirstOf(S) \in S /\ FirstOf(S) # 0
         /\ FirstOf(S) # 0 => FirstOf(S) \in S
  <1>1. S \subseteq Nat
    OBVIOUS
  <1>2. S # {} => Min(S) \in S
    BY <1>1, MinOf
  <1>3. QED
    BY <1>2 DEF FirstOf

\* What is found for a name and an instance has this name on this instance.
LEMMA GivenIs ==
  ASSUME RequestTypes, ShapeInv, NEW name, NEW id,
         NEW h, h = getQueueForRedisInstance(Options, queuesMap, name, id)
  PROVE  /\ h.type \in {"registered", "temporary", "none"}
         /\ h.type = "registered" =>
              /\ h.at \in queuesMap
              /\ QueueName(Options.queues[h.at]) = name /\ LookupId(Options.queues[h.at]) = id
         /\ \A i \in queuesMap :
              QueueName(Options.queues[i]) = name /\ LookupId(Options.queues[i]) = id => h.type = "registered"
  <1>1. PICK found : found = {i \in queuesMap :
              QueueName(Options.queues[i]) = name /\ LookupId(Options.queues[i]) = id}
    OBVIOUS
  <1>2. h = Given(Options, found, id)
    BY <1>1 DEF getQueueForRedisInstance
  <1>3. found # {} => h.type = "registered" /\ h.at = Min(found)
    BY <1>2 DEF Given
  <1>4. found = {} => h.type \in {"temporary", "none"}
    BY <1>2 DEF Given
  <1>5. found \subseteq Nat
    BY <1>1, MapOf
  <1>6. found # {} => Min(found) \in found
    BY <1>5, MinOf
  <1>7. QED
    BY <1>1, <1>3, <1>4, <1>6

\* The queues of an accepted migration are where the request names them.
LEMMA LookupFits ==
  ASSUME RequestTypes, ShapeInv, NEW a \in scenario.asks, a.kind \in Migrations, Accepted(a, Lookup(a))
  PROVE  Fits(a, Lookup(a))
  <1>1. PICK s : s = Found(a, "source")
    OBVIOUS
  <1>2. PICK t : t = Found(a, "target")
    OBVIOUS
  <1>3. PICK h : h = Lookup(a)
    OBVIOUS
  <1>4. /\ h["source"] = s /\ h["target"] \in {t, NoHandle}
        /\ h["source"].type # "none" /\ h["target"].type # "none"
    BY <1>1, <1>2, <1>3 DEF Lookup, Accepted, Roles
  <1>5. h["target"] = t
    BY <1>4 DEF NoHandle
  <1>6. a["source"] # a["target"]
    BY DEF Accepted, Same
  <1>7. /\ s.type \in {"registered", "temporary", "none"}
        /\ s.type = "registered" =>
              /\ s.at \in queuesMap
              /\ QueueName(Options.queues[s.at]) = a["source"][1]
              /\ LookupId(Options.queues[s.at]) = a["source"][2]
    BY <1>1, GivenIs DEF Found
  <1>8. /\ t.type \in {"registered", "temporary", "none"}
        /\ t.type = "registered" =>
              /\ t.at \in queuesMap
              /\ QueueName(Options.queues[t.at]) = a["target"][1]
              /\ LookupId(Options.queues[t.at]) = a["target"][2]
    BY <1>2, GivenIs DEF Found
  <1>9. queuesMap \subseteq DOMAIN Options.queues
    BY MapOf
  <1>10. Fits(a, h)
    BY <1>4, <1>5, <1>6, <1>7, <1>8, <1>9 DEF Fits, Roles
  <1>11. QED
    BY <1>3, <1>10

\* A client is of a queue on the instance it is asked for on.
LEMMA ClientOn ==
  ASSUME RequestTypes, ShapeInv, NEW map, map \subseteq queuesMap, NEW id, NEW i,
         i \in QueuesOn(Options, map, id) \/ i = FirstOf(QueuesOn(Options, map, id)), i # 0
  PROVE  /\ i \in DOMAIN Options.queues /\ i \in map
         /\ getRedisInstanceId(Options, Options.queues[i]) = id
  <1>1. PICK S : S = QueuesOn(Options, map, id)
    OBVIOUS
  <1>2. S \subseteq Nat \ {0}
    BY <1>1, MapOf DEF QueuesOn
  <1>3. i \in S
    BY <1>1, <1>2, FirstIn
  <1>4. QED
    BY <1>1, <1>3, MapOf DEF QueuesOn

\* So is the client of a cache, whichever of the two it is.
LEMMA CacheClientOn ==
  ASSUME RequestTypes, ShapeInv, NEW cache, NEW id,
         NEW i, i = CacheClient(Options, queuesMap, cache, id), i # 0
  PROVE  i \in DOMAIN Options.queues /\ getRedisInstanceId(Options, Options.queues[i]) = id
  <1>1. i \in QueuesOn(Options, queuesMap, id) \/ i = FirstOf(QueuesOn(Options, queuesMap, id))
    BY DEF CacheClient
  <1>2. QED
    BY <1>1, ClientOn

\* The clients of a cache request are of the instances it names.
LEMMA CacheFits ==
  ASSUME RequestTypes, ShapeInv, NEW a \in scenario.asks, a.kind \in CacheRequests
  PROVE  Fits(a, CacheClients(a))
  <1>1. PICK h : h = CacheClients(a)
    OBVIOUS
  <1>2. a.kind \notin Migrations
    BY DEF CacheRequests, Migrations
  <1>3. ASSUME NEW role \in Roles, h[role].type # "none"
        PROVE  \E i : /\ h[role] = Client(i)
                      /\ \/ i = FirstOf(QueuesOn(Options, queuesMap, a[role][2]))
                         \/ i = CacheClient(Options, queuesMap, a.cache, a[role][2])
    BY <1>1, <1>3 DEF CacheClients, NoHandle, Roles
  <1>4. ASSUME NEW role \in Roles, h[role].type # "none"
        PROVE  /\ h[role].type = "registered" /\ h[role].at \in DOMAIN Options.queues
               /\ getRedisInstanceId(Options, Options.queues[h[role].at]) = a[role][2]
    <2>1. PICK i : /\ h[role] = Client(i)
                   /\ \/ i = FirstOf(QueuesOn(Options, queuesMap, a[role][2]))
                      \/ i = CacheClient(Options, queuesMap, a.cache, a[role][2])
      BY <1>3, <1>4
    <2>2. h[role].type = "registered" /\ h[role].at = i /\ i # 0
      BY <2>1, <1>4 DEF Client
    <2>3. i \in DOMAIN Options.queues /\ getRedisInstanceId(Options, Options.queues[i]) = a[role][2]
      <3>1. CASE i = FirstOf(QueuesOn(Options, queuesMap, a[role][2]))
        BY <3>1, <2>2, ClientOn
      <3>2. CASE i = CacheClient(Options, queuesMap, a.cache, a[role][2])
        BY <3>2, <2>2, CacheClientOn
      <3>3. QED
        BY <2>1, <3>1, <3>2
    <2>4. QED
      BY <2>2, <2>3
  <1>5. QED
    BY <1>1, <1>2, <1>4 DEF Fits

\* A step in which no request enters the work, and none that works is given
\* anything else, keeps PlacesInv.
LEMMA PlacesBeside ==
  ASSUME PlacesInv, UNCHANGED scenario,
         \A r \in Requests : stage'[r] = "work" => stage[r] = "work" /\ ask'[r] = ask[r] /\ handle'[r] = handle[r]
  PROVE  PlacesInv'
  <1>1. Options' = Options
    BY DEF Options
  <1>2. \A a, h : Fits(a, h)' <=> Fits(a, h)
    BY <1>1 DEF Fits
  <1>3. QED
    BY <1>2 DEF PlacesInv

\* A step that leaves requests and handles alone does so too.
LEMMA PlacesStutter ==
  ASSUME PlacesInv, UNCHANGED <<scenario, ask, stage, handle>>
  PROVE  PlacesInv'
  BY PlacesBeside

\* A request that stops, or goes on with something else than the work, too.
LEMMA PlacesAside ==
  ASSUME RequestTypes, PlacesInv, UNCHANGED <<scenario, handle>>, NEW r \in Requests, stage'[r] # "work",
         \A o \in Requests \ {r} : stage'[o] = stage[o] /\ ask'[o] = ask[o]
  PROVE  PlacesInv'
  BY PlacesBeside

\* Every step preserves PlacesInv.
LEMMA PlacesNext == RequestTypes /\ ShapeInv /\ TemporaryTypes /\ PlacesInv /\ [Next]_vars => PlacesInv'
  <1> SUFFICES ASSUME RequestTypes, ShapeInv, TemporaryTypes, PlacesInv, [Next]_vars PROVE PlacesInv'
    OBVIOUS
  <1> USE DEF boundVars, handleVars
  <1>1. CASE Module
    BY <1>1, PlacesStutter DEF Module, onModuleInit, onModuleDestroy, CloseOwned, ProviderDestroyed,
                               ServiceDestroyed, HookEnds
  <1>2. CASE Asked
    <2>1. ASSUME NEW r \in Requests, NEW a \in scenario.asks, Refuse(r, a) PROVE PlacesInv'
      BY <2>1, PlacesAside DEF Refuse, MayAsk, Answer, RequestTypes
    <2>2. ASSUME NEW r \in Requests, NEW a \in scenario.asks, AskCounts(r, a) PROVE PlacesInv'
      BY <2>2, PlacesAside DEF AskCounts, MayAsk, RequestTypes
    <2>3. ASSUME NEW r \in Requests, NEW a \in scenario.asks, AskControl(r, a) PROVE PlacesInv'
      BY <2>3, PlacesAside DEF AskControl, MayAsk, RequestTypes
    <2>4. ASSUME NEW r \in Requests, NEW a \in scenario.asks, AskMigration(r, a) PROVE PlacesInv'
      <3>1. PICK h : h = Lookup(a)
        OBVIOUS
      <3>2. /\ handle' = [handle EXCEPT ![r] = h] /\ ask' = [ask EXCEPT ![r] = a]
            /\ a.kind \in Migrations /\ UNCHANGED scenario
        BY <2>4, <3>1 DEF AskMigration, MayAsk
      <3>3. /\ stage'[r] = "work" => Accepted(a, h)
            /\ \A o \in Requests \ {r} : stage'[o] = stage[o]
        BY <2>4, <3>1 DEF AskMigration, Answer, RequestTypes
      <3>4. stage'[r] = "work" => Fits(a, h)
        BY <3>1, <3>2, <3>3, LookupFits
      <3>5. QED
        BY <3>2, <3>3, <3>4, AskIsSome DEF PlacesInv, Fits, Options, RequestTypes, TemporaryTypes
    <2>5. ASSUME NEW r \in Requests, NEW a \in scenario.asks, AskCache(r, a) PROVE PlacesInv'
      <3>1. PICK h : h = CacheClients(a)
        OBVIOUS
      <3>2. /\ handle' = [handle EXCEPT ![r] = h] /\ ask' = [ask EXCEPT ![r] = a]
            /\ a.kind \in CacheRequests /\ UNCHANGED scenario
        BY <2>5, <3>1 DEF AskCache, MayAsk
      <3>3. \A o \in Requests \ {r} : stage'[o] = stage[o]
        BY <2>5 DEF AskCache, Answer, RequestTypes
      <3>4. Fits(a, h)
        BY <3>1, <3>2, CacheFits
      <3>5. QED
        BY <3>2, <3>3, <3>4, AskIsSome DEF PlacesInv, Fits, Options, RequestTypes, TemporaryTypes
    <2>6. QED
      BY <1>2, <2>1, <2>2, <2>3, <2>4, <2>5 DEF Asked
  <1>3. CASE Migrating
    <2>1. ASSUME NEW r \in Requests, NEW ok \in BOOLEAN, WorkEnds(r, ok) PROVE PlacesInv'
      BY <2>1, PlacesAside DEF WorkEnds, RequestTypes
    <2>2. ASSUME NEW r \in Requests, Closes(r) PROVE PlacesInv'
      BY <2>2, PlacesAside DEF Closes, RequestTypes
    <2>3. ASSUME NEW r \in Requests, CloseRejects(r) PROVE PlacesInv'
      BY <2>3, PlacesAside DEF CloseRejects, Answer, RequestTypes
    <2>4. QED
      BY <1>3, <2>1, <2>2, <2>3 DEF Migrating
  <1>4. CASE Stats
    <2>1. ASSUME NEW r \in Requests, NEW i \in Slots, ReadCount(r, i) PROVE PlacesInv'
      BY <2>1, ProceedMoves, PlacesAside DEF ReadCount
    <2>2. ASSUME NEW r \in Requests, NEW i \in Slots,
              NEW reported \in scenario.reported \cup {NothingReported}, Sample(r, i, reported)
         PROVE  PlacesInv'
      BY <2>2, ProceedMoves, PlacesAside DEF Sample
    <2>3. ASSUME NEW r \in Requests, NEW i \in Slots, discoverJobTypes(r, i) PROVE PlacesInv'
      BY <2>3, ProceedMoves, PlacesAside DEF discoverJobTypes
    <2>4. ASSUME NEW r \in Requests, NEW i \in Slots, ReadFails(r, i) PROVE PlacesInv'
      BY <2>4, ProceedMoves, PlacesAside DEF ReadFails, Answer, RequestTypes
    <2>5. ASSUME NEW r \in Requests, NEW i \in Slots, Act(r, i) PROVE PlacesInv'
      BY <2>5, PlacesAside DEF Act, RequestTypes
    <2>6. ASSUME NEW r \in Requests, NEW i \in Slots, ActFails(r, i) PROVE PlacesInv'
      BY <2>6, PlacesAside DEF ActFails, Answer, RequestTypes
    <2>7. ASSUME NEW r \in Requests, NEW i \in Slots, ReadMemory(r, i) PROVE PlacesInv'
      BY <2>7, ProceedMoves, PlacesAside DEF ReadMemory, Answer, RequestTypes
    <2>8. QED
      BY <1>4, <2>1, <2>2, <2>3, <2>4, <2>5, <2>6, <2>7 DEF Stats
  <1>5. CASE Controlled
    <2>1. ASSUME NEW r \in Requests, NEW i \in Slots, Command(r, i) PROVE PlacesInv'
      BY <2>1, PlacesStutter DEF Command
    <2>2. ASSUME NEW r \in Requests, NEW i \in Slots, SetReason(r, i) PROVE PlacesInv'
      <3>1. CASE stage[r] = "control"
        <4>1. stage'[r] # "work" /\ \A o \in Requests \ {r} : stage'[o] = stage[o]
          BY <2>2, <3>1 DEF SetReason, Answer, RequestTypes
        <4>2. QED
          BY <2>2, <4>1, PlacesAside DEF SetReason
      <3>2. CASE stage[r] # "control"
        BY <2>2, <3>2, PlacesStutter DEF SetReason
      <3>3. QED
        BY <3>1, <3>2
    <2>3. ASSUME NEW r \in Requests, NEW i \in Slots, ControlFails(r, i) PROVE PlacesInv'
      <3>1. CASE stage[r] = "control"
        BY <2>3, <3>1, PlacesAside DEF ControlFails, Answer, RequestTypes
      <3>2. CASE stage[r] # "control"
        <4>1. UNCHANGED <<scenario, ask, stage, handle>>
          BY <2>3, <3>2, SMTT(30) DEF ControlFails
        <4>2. QED
          BY <4>1, PlacesStutter
      <3>3. QED
        BY <3>1, <3>2
    <2>4. QED
      BY <1>5, <2>1, <2>2, <2>3 DEF Controlled
  <1>6. CASE Jobs
    BY <1>6, PlacesStutter
       DEF Jobs, JobArrives, JobTaken, JobCounted, JobCompletes, updateQueueContext, Job
  <1>7. CASE Tick
    BY <1>7, PlacesStutter DEF Tick
  <1>8. CASE UNCHANGED vars
    BY <1>8, PlacesStutter DEF vars
  <1>9. CASE Guarding
    BY <1>9, GuardingBeside, PlacesStutter DEF Beside
  <1>10. QED
    BY <1>1, <1>2, <1>3, <1>4, <1>5, <1>6, <1>7, <1>8, <1>9 DEF Next

\* What is listed for migrations, in well-named options, is what a request for
\* it is given; and the instance a cache is shown on is one its client reads.
LEMMA ListingsFit ==
  ASSUME RequestTypes, ShapeInv
  PROVE  ShownIsFound(Options)
  <1>1. queuesMap \subseteq DOMAIN Options.queues
    BY MapOf
  <1>2. ASSUME WellNamed(Options), NEW l \in Listed(Options, queuesMap),
               l.name = QueueName(Options.queues[l.queue]),
               NEW found, found = getQueueForRedisInstance(Options, queuesMap, l.name, l.redisId)
        PROVE  /\ found.type = "registered" /\ Home(Options, found.at) = Home(Options, l.queue)
               /\ QueueName(Options.queues[found.at]) = l.name
    <2>1. /\ l.queue \in queuesMap
          /\ l.redisId = getRedisInstanceId(Options, Options.queues[l.queue])
      BY <1>2 DEF Listed
    <2>2. LookupId(Options.queues[l.queue]) = l.redisId
      BY <1>1, <1>2, <2>1, SameIdOf
    <2>3. found.type = "registered"
      BY <1>2, <2>1, <2>2, GivenIs
    <2>4. /\ found.at \in queuesMap /\ QueueName(Options.queues[found.at]) = l.name
          /\ LookupId(Options.queues[found.at]) = l.redisId
      BY <1>2, <2>3, GivenIs
    <2>5. Home(Options, found.at) = l.redisId
      BY <1>1, <1>2, <2>4, SameIdOf, HomeOf
    <2>6. Home(Options, l.queue) = l.redisId
      BY <1>1, <2>1, HomeOf
    <2>7. QED
      BY <2>3, <2>4, <2>5, <2>6
  <1>3. ASSUME NEW i \in queuesMap, NEW cache \in Options.queues[i].caches,
               Options.queues[i].processor = "found",
               NEW id, id = CacheShownOn(Options, queuesMap, cache),
               NEW client, client = CacheClient(Options, queuesMap, cache, id)
        PROVE  client # 0 /\ Home(Options, client) = id
    <2>1. PICK having : having = {j \in queuesMap :
              /\ Options.queues[j].processor \in {"found", "adapted"} /\ cache \in Options.queues[j].caches}
      OBVIOUS
    <2>2. having # {}
      BY <1>3, <2>1
    <2>3. PICK last : last = Max(having)
      OBVIOUS
    <2>4. last \in having /\ id = getRedisInstanceId(Options, Options.queues[last])
      <3>1. last \in having
        BY <2>1, <2>2, <2>3, MapOf, MaxOf
      <3>2. id = getRedisInstanceId(Options, Options.queues[last])
        BY <1>3, <2>1, <2>2, <2>3 DEF CacheShownOn
      <3>3. QED
        BY <3>1, <3>2
    <2>5. PICK there : there = QueuesOn(Options, queuesMap, id)
      OBVIOUS
    <2>6. there # {} /\ there \subseteq Nat \ {0}
      <3>1. last \in there
        BY <2>1, <2>4, <2>5 DEF QueuesOn
      <3>2. there \subseteq Nat \ {0}
        BY <2>5, MapOf DEF QueuesOn
      <3>3. QED
        BY <3>1, <3>2
    <2>7. client \in there \/ client = FirstOf(there)
      BY <1>3, <2>5 DEF CacheClient
    <2>8. client # 0
      BY <2>6, <2>7, FirstIn
    <2>9. client \in DOMAIN Options.queues /\ getRedisInstanceId(Options, Options.queues[client]) = id
      BY <1>3, <2>8, CacheClientOn
    <2>10. QED
      BY <2>8, <2>9, HomeOf
  <1>4. QED
    BY <1>2, <1>3 DEF ShownIsFound

\* Where a request works and what it is shown follows from where it was sent.
LEMMA PlacesRight == RequestTypes /\ ShapeInv /\ PlacesInv => RightInstance
  <1> SUFFICES ASSUME RequestTypes, ShapeInv, PlacesInv PROVE RightInstance
    OBVIOUS
  <1>1. ShownIsFound(Options)
    BY ListingsFit
  <1>2. ASSUME NEW r \in Requests, stage[r] = "work", ask[r].kind \in Migrations, WellNamed(Options)
        PROVE  /\ \A role \in Roles : PlaceOf(r, role) = ask[r][role]
               /\ PlaceOf(r, "source") # PlaceOf(r, "target")
    <2>1. ask[r] \in scenario.asks /\ Fits(ask[r], handle[r])
      BY <1>2 DEF PlacesInv, RequestTypes
    <2>2. ASSUME NEW role \in Roles PROVE PlaceOf(r, role) = ask[r][role]
      <3>1. ask[r][role] = <<ask[r][role][1], ask[r][role][2]>>
        BY <2>1, AdminAssumption DEF RequestTypes
      <3>2. CASE handle[r][role].type = "registered"
        <4>1. /\ handle[r][role].at \in DOMAIN Options.queues
              /\ QueueName(Options.queues[handle[r][role].at]) = ask[r][role][1]
              /\ LookupId(Options.queues[handle[r][role].at]) = ask[r][role][2]
          BY <1>2, <2>1, <3>2 DEF Fits
        <4>2. Home(Options, handle[r][role].at) = ask[r][role][2]
          BY <1>2, <4>1, SameIdOf, HomeOf
        <4>3. QED
          BY <3>1, <3>2, <4>1, <4>2 DEF PlaceOf, Place
      <3>3. CASE handle[r][role].type # "registered"
        BY <3>3 DEF PlaceOf, Place
      <3>4. QED
        BY <3>2, <3>3
    <2>3. ask[r]["source"] # ask[r]["target"]
      BY <1>2, <2>1 DEF Fits
    <2>4. QED
      BY <2>2, <2>3 DEF Roles
  <1>3. ASSUME NEW r \in Requests, stage[r] = "work", ask[r].kind \notin Migrations,
               NEW role \in Roles, handle[r][role].type # "none"
        PROVE  PlaceOf(r, role)[2] = ask[r][role][2]
    <2>1. /\ handle[r][role].type = "registered" /\ handle[r][role].at \in DOMAIN Options.queues
          /\ getRedisInstanceId(Options, Options.queues[handle[r][role].at]) = ask[r][role][2]
      BY <1>3 DEF PlacesInv, Fits
    <2>2. QED
      BY <2>1, HomeOf DEF PlaceOf, Place
  <1>4. ASSUME NEW r \in Requests, NEW answered, answered = {i \in Slots : cmd[r][i] = "done"},
               NEW id, MemoryClient(Options, answered, id) # 0
        PROVE  Home(Options, MemoryClient(Options, answered, id)) = id
    <2>1. answered \subseteq queuesMap
      BY <1>4 DEF ShapeInv
    <2>2. PICK i : i = MemoryClient(Options, answered, id)
      OBVIOUS
    <2>3. i \in DOMAIN Options.queues /\ getRedisInstanceId(Options, Options.queues[i]) = id
      BY <1>4, <2>1, <2>2, ClientOn DEF MemoryClient
    <2>4. QED
      BY <2>2, <2>3, HomeOf
  <1>5. QED
    BY <1>1, <1>2, <1>3, <1>4 DEF RightInstance
------------------------------------------------------------------------------
(* Theorems *)

\* The invariants of QueueAdmin that need one another.
AdminInv ==
  /\ RequestTypes /\ AskedFor /\ QueueTypes
  /\ TemporaryTypes /\ TemporaryInv /\ OwnInv /\ GuardTypes /\ GuardInv /\ ControlInv /\ ShapeInv /\ CountInv
  /\ PlacesInv

\* They hold in every reachable state.
THEOREM AdminInvariant == Spec => []AdminInv
  <1>1. Init => AdminInv
    <2>1. Init => OwnInv
      BY DEF Init, OwnInv
    <2>2. Init => PlacesInv
      BY DEF Init, PlacesInv
    <2>3. QED
      BY <2>1, <2>2, RequestTypesInit, QueuesInit, TemporaryInit, GuardInit, ControlInit, ShapeInit
         DEF AdminInv
  <1>2. AdminInv /\ [Next]_vars => AdminInv'
    BY RequestTypesNext, AskedForNext, QueueTypesNext, TemporaryNext, OwnNext, GuardNext, ControlNext, ShapeNext,
       CountNext, PlacesNext
       DEF AdminInv
  <1>3. QED
    BY <1>1, <1>2, PTL DEF Spec

\* The types: a request uses only queues that were resolved, and no counter of
\* jobs is negative or ahead of its queue.
THEOREM AdminTypes == Spec => []TypeOK
  <1>1. AdminInv => TypeOK
    <2> SUFFICES ASSUME AdminInv PROVE TypeOK
      OBVIOUS
    <2>1. Flags /\ now \in Nat /\ life \in {"init", "up", "failed", "closing", "down"}
      BY DEF AdminInv, Flags, TemporaryTypes, QueueTypes, ShapeInv
    <2>2. queuesMap \subseteq Resolved(Options) /\ ownedQueues \subseteq Owned(Options)
      BY DEF AdminInv, ShapeInv, OwnInv
    <2>3. stage \in [Requests -> Stages] /\ answer \in [Requests -> {"none", "ok", "error"}]
      BY DEF AdminInv, RequestTypes
    <2>4. ASSUME NEW r \in Requests
          PROVE  /\ open[r] \subseteq Temporary(handle[r]) /\ toClose[r] \subseteq Roles
                 /\ stage[r] = "closing" => toClose[r] # {}
      BY DEF AdminInv, TemporaryTypes, TemporaryInv
    <2>5. ASSUME NEW r \in Requests
          PROVE  /\ {i \in Slots : cmd[r][i] # "none"} \subseteq queuesMap
                 /\ stage[r] = "answered" <=> answer[r] # "none" /\ stage[r] # "closing"
      BY DEF AdminInv, ShapeInv
    <2>6. ASSUME NEW i \in Slots
          PROVE  /\ q[i].waiting >= 0 /\ q[i].active >= 0
                 /\ Processed(i) => done[i] \in finished[i]..(finished[i] + q[i].active)
      BY DEF AdminInv, QueueTypes, QueueRecord, CountInv
    <2>7. GuardTypes
      BY DEF AdminInv
    <2>8. QED
      BY <2>1, <2>2, <2>3, <2>4, <2>5, <2>6, <2>7 DEF TypeOK, GuardTypes
  <1>2. QED
    BY <1>1, AdminInvariant, PTL

\* No request leaves a temporary queue open, whichever step of it failed.
THEOREM AdminTemporaries == Spec => []TemporariesClosed
  <1>1. AdminInv => TemporariesClosed
    BY DEF AdminInv, TemporaryInv, TemporariesClosed
  <1>2. QED
    BY <1>1, AdminInvariant, PTL

\* A registered queue is closed by the shutdown alone, and only if it is owned.
THEOREM AdminOwnership == Spec => []OnlyOwnClosed
  <1>1. AdminInv => OnlyOwnClosed
    BY DEF AdminInv, OwnInv, OnlyOwnClosed
  <1>2. QED
    BY <1>1, AdminInvariant, PTL

\* A request works on the queues and instances that it named, and what is listed
\* or shown for an instance can be asked for and was asked of it.
THEOREM AdminPlaces == Spec => []RightInstance
  <1>1. AdminInv => RightInstance
    BY PlacesRight DEF AdminInv
  <1>2. QED
    BY <1>1, AdminInvariant, PTL

\* An answered control that none has crossed holds until the next is asked for.
THEOREM AdminControls == Spec => []ControlsHold
  <1>1. AdminInv => ControlsHold
    <2> SUFFICES ASSUME AdminInv, NEW i \in Slots, settled[i] # "none"
                 PROVE  /\ reason[i] <=> settled[i] = "pause"
                        /\ settled[i] = "pause" => q[i].paused
                        /\ settled[i] = "resume" /\ q[i].paused =>
                             \E r \in Requests, role \in Roles : hold[r][role] = "held" /\ At(r, role) = i
      BY DEF ControlsHold
    <2>1. QED
      BY DEF AdminInv, ControlInv, Paused, HeldPaused
  <1>2. QED
    BY <1>1, AdminInvariant, PTL
==============================================================================
