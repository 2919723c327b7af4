---------------------------- MODULE WorkersProofs ----------------------------
(***************************************************************************)
(* Proofs about Workers for any number of handles, names, jobs and calls:  *)
(* its types and every safety property that the runs check. They follow a  *)
(* handle through the maps of the service: until it has closed, a worker   *)
(* or a queue is the one the map has under its name (InMaps), so the       *)
(* shutdown finds it, and no second one is created beside it. They follow  *)
(* a job from its worker to the counters: the name a job runs under now is *)
(* the label it was taken with (NamesInv), and each counter is the size of *)
(* a set of finished jobs (CollectorInv, RegistryInv), which a job enters  *)
(* when it finishes. And they follow it out of the windows: jobs finish in *)
(* the order of their ends, so what a buffer has dropped is older than all *)
(* it holds (BufferInv), and a time bucket that is missing has left the    *)
(* window (RecentInv).                                                     *)
(***************************************************************************)
EXTENDS Workers, FiniteSetTheorems, TLAPS

\* A handle is under its own name in the map of its kind.
MapInv ==
  \A n \in Names :
    /\ queues[n] # None => kind[queues[n]] = "queue" /\ name[queues[n]] = n
    /\ workers[n] # None => kind[workers[n]] = "worker" /\ name[workers[n]] = n

HandleTypes == Flags /\ Registry /\ MapInv

\* Initially there are no handles.
LEMMA HandleTypesInit == Init => HandleTypes
  BY DEF Init, HandleTypes, Flags, Registry, MapInv, States

\* What neither creates nor closes leaves the handles and the maps alone.
LEMMA OtherSteps == Controls \/ JobStep \/ Metrics \/ Tick \/ UNCHANGED vars
                      => UNCHANGED <<handleVars, mapVars, lifeVars>>
  <1>1. Controls => UNCHANGED <<handleVars, mapVars, lifeVars>>
    BY SMTT(30) DEF Controls, pauseWorker, PauseSettles, resumeWorker
  <1>2. JobStep => UNCHANGED <<handleVars, mapVars, lifeVars>>
    BY DEF JobStep, TakeJob, ProcessorCalled, Finish, ListenersSettled
  <1>3. Metrics \/ Tick => UNCHANGED <<handleVars, mapVars, lifeVars>>
    BY DEF Metrics, PruneTimer, updateQueueCounts, clearMetrics, Tick
  <1>4. QED
    BY <1>1, <1>2, <1>3 DEF vars

\* Closing keeps the types of the handles.
LEMMA ClosingTypes ==
  ASSUME Flags, Registry, NEW hs, NEW forced \in BOOLEAN, Closing(hs, forced)
  PROVE  /\ force' \in [Handles -> BOOLEAN] /\ isRunning' \in [Handles -> BOOLEAN]
         /\ inTime' \in [Handles -> BOOLEAN] /\ st' \in [Handles -> States]
         /\ UNCHANGED <<kind, name>>
         /\ \A h \in Handles : st[h] # "none" => st'[h] # "none"
  <1>1. st' \in [Handles -> States] /\ \A h \in Handles : st[h] # "none" => st'[h] # "none"
    BY DEF Closing, Registry, States
  <1>2. /\ force' \in [Handles -> BOOLEAN] /\ isRunning' \in [Handles -> BOOLEAN]
        /\ inTime' \in [Handles -> BOOLEAN]
    BY Zenon DEF Closing, Flags
  <1>3. QED
    BY <1>1, <1>2 DEF Closing

\* Every step preserves the types of the handles and the maps.
LEMMA HandleTypesNext == HandleTypes /\ [Next]_vars => HandleTypes'
  <1> SUFFICES ASSUME HandleTypes, [Next]_vars PROVE HandleTypes'
    OBVIOUS
  <1> USE WorkersAssumption DEF HandleTypes
  <1>1. ASSUME NEW h \in Handles, NEW n \in Names, createQueue(h, n) PROVE HandleTypes'
    <2>1. Flags'
      BY <1>1 DEF createQueue, Created, Flags
    <2>2. Registry'
      BY <1>1 DEF createQueue, Created, Registry, States, lifeVars
    <2>3. MapInv'
      BY <1>1 DEF createQueue, Created, MayCreate, Registry, MapInv
    <2>4. QED
      BY <2>1, <2>2, <2>3
  <1>2. ASSUME NEW h \in Handles, NEW n \in Names, createWorker(h, n) PROVE HandleTypes'
    <2>1. Flags'
      BY <1>2 DEF createWorker, Created, Flags
    <2>2. Registry'
      BY <1>2 DEF createWorker, Created, Registry, States, lifeVars
    <2>3. MapInv'
      BY <1>2 DEF createWorker, Created, MayCreate, Registry, MapInv
    <2>4. QED
      BY <2>1, <2>2, <2>3
  <1>3. ASSUME NEW n \in Names, closeQueue(n) PROVE HandleTypes'
    <2>1. Closing({queues[n]}, FALSE) /\ UNCHANGED <<mapVars, lifeVars>>
          /\ awaited' = [awaited EXCEPT ![queues[n]] = st[queues[n]] # "failed"]
      BY <1>3 DEF closeQueue
    <2>2. awaited' \in [Handles -> BOOLEAN]
      BY <2>1 DEF Flags, Settled
    <2>3. /\ force' \in [Handles -> BOOLEAN] /\ isRunning' \in [Handles -> BOOLEAN]
          /\ inTime' \in [Handles -> BOOLEAN] /\ st' \in [Handles -> States]
          /\ UNCHANGED <<kind, name>> /\ \A h \in Handles : st[h] # "none" => st'[h] # "none"
      BY <2>1, ClosingTypes
    <2>4. Flags'
      BY <2>1, <2>2, <2>3 DEF Flags
    <2>5. Registry'
      BY <2>1, <2>2, <2>3 DEF Registry, mapVars, lifeVars
    <2>6. MapInv'
      BY <2>1, <2>2, <2>3 DEF MapInv, mapVars
    <2>7. QED
      BY <2>4, <2>5, <2>6
  <1>4. ASSUME NEW n \in Names, NEW forced \in BOOLEAN, closeWorker(n, forced) PROVE HandleTypes'
    <2>1. Closing({workers[n]}, forced) /\ UNCHANGED <<queues, workers, lifeVars>>
          /\ awaited' = [awaited EXCEPT ![workers[n]] = st[workers[n]] # "failed"]
          /\ registered' = [registered EXCEPT ![n] = None]
      BY <1>4 DEF closeWorker, Unregistered
    <2>2. awaited' \in [Handles -> BOOLEAN] /\ registered' \in [Names -> Handles \cup {None}]
      BY <2>1 DEF Flags, Registry, Settled
    <2>3. QED
      BY <2>1, <2>2, ClosingTypes DEF Flags, Registry, MapInv, lifeVars
  <1>5. ASSUME NEW h \in Handles, CloseSettles(h) PROVE HandleTypes'
    <2>1. Flags'
      BY <1>5 DEF CloseSettles, Flags
    <2>2. Registry' /\ MapInv'
      BY <1>5 DEF CloseSettles, Forgotten, Registry, MapInv, States, lifeVars
    <2>3. QED
      BY <2>1, <2>2
  <1>6. ASSUME NEW h \in Handles, CloseFails(h) PROVE HandleTypes'
    <2>1. Flags'
      BY <1>6 DEF CloseFails, Flags
    <2>2. Registry' /\ MapInv'
      BY <1>6 DEF CloseFails, Registry, MapInv, States, mapVars, lifeVars
    <2>3. QED
      BY <2>1, <2>2
  <1>f. ASSUME NEW h \in Handles, NameForgotten(h) PROVE HandleTypes'
    <2>1. Flags'
      BY <1>f DEF NameForgotten, Flags
    <2>2. Registry' /\ MapInv'
      BY <1>f DEF NameForgotten, Forgotten, Registry, MapInv, lifeVars
    <2>3. QED
      BY <2>1, <2>2
  <1>7. ASSUME onModuleDestroy PROVE HandleTypes'
    <2>1. Closing(Values(workers), FALSE) /\ UNCHANGED <<mapVars, awaited>>
          /\ phase' = "workers" /\ snapshot' \subseteq Handles
      <3>1. Closing(Values(workers), FALSE) /\ UNCHANGED <<mapVars, awaited>>
            /\ phase' = "workers" /\ snapshot' = Values(workers)
        BY <1>7 DEF onModuleDestroy
      <3>2. Values(workers) \subseteq Handles
        BY DEF Values, Registry
      <3>3. QED
        BY <3>1, <3>2
    <2>2. /\ force' \in [Handles -> BOOLEAN] /\ isRunning' \in [Handles -> BOOLEAN]
          /\ inTime' \in [Handles -> BOOLEAN] /\ st' \in [Handles -> States]
          /\ UNCHANGED <<kind, name>> /\ \A h \in Handles : st[h] # "none" => st'[h] # "none"
      BY <2>1, ClosingTypes
    <2>3. Flags'
      BY <2>1, <2>2 DEF Flags
    <2>4. Registry'
      BY <2>1, <2>2 DEF Registry, mapVars
    <2>5. MapInv'
      BY <2>1, <2>2 DEF MapInv, mapVars
    <2>6. QED
      BY <2>3, <2>4, <2>5
  <1>8. ASSUME WorkersSettled PROVE HandleTypes'
    <2>1. Closing(Values(queues), FALSE) /\ UNCHANGED <<queues, registered, awaited>>
          /\ phase' = "queues" /\ snapshot' \subseteq Handles /\ workers' = [n \in Names |-> None]
      BY <1>8, ZenonT(60) DEF WorkersSettled, Values, Registry, EmptyMap
    <2>2. /\ force' \in [Handles -> BOOLEAN] /\ isRunning' \in [Handles -> BOOLEAN]
          /\ inTime' \in [Handles -> BOOLEAN] /\ st' \in [Handles -> States]
          /\ UNCHANGED <<kind, name>> /\ \A h \in Handles : st[h] # "none" => st'[h] # "none"
      BY <2>1, ClosingTypes
    <2>3. Flags'
      BY <2>1, <2>2 DEF Flags
    <2>4. Registry'
      BY <2>1, <2>2 DEF Registry
    <2>5. MapInv'
      BY <2>1, <2>2 DEF MapInv
    <2>6. QED
      BY <2>3, <2>4, <2>5
  <1>9. ASSUME QueuesSettled PROVE HandleTypes'
    BY <1>9 DEF QueuesSettled, EmptyMap, Flags, Registry, MapInv, handleVars
  <1>10. ASSUME UNCHANGED <<handleVars, mapVars, lifeVars>> PROVE HandleTypes'
    BY <1>10 DEF handleVars, mapVars, lifeVars, Flags, Registry, MapInv
  <1>11. QED
    BY <1>1, <1>2, <1>3, <1>4, <1>5, <1>6, <1>f, <1>7, <1>8, <1>9, <1>10, OtherSteps DEF Next, Lifecycle

------------------------------------------------------------------------------
(* Where the shutdown finds a handle *)

\* Until it has closed, a handle is in the map under its name: a worker until
\* the shutdown begins, a queue until its workers have settled.
InMaps ==
  /\ phase = "up" =>
       \A h \in Handles : kind[h] = "worker" /\ st[h] # "closed" => workers[name[h]] = h
  /\ phase \in {"up", "workers"} =>
       \A h \in Handles : kind[h] = "queue" /\ st[h] # "closed" => queues[name[h]] = h

\* The statistics are registered exactly while the worker is open.
RegisteredInv == phase = "up" =>
  \A n \in Names, h \in Handles : registered[n] = h <=> workers[n] = h /\ st[h] = "open"

\* What the shutdown still waits for, and what it has seen settle.
ShutdownInv ==
  /\ \A h \in Handles : inTime[h] => kind[h] # "none"
  /\ \A h \in Handles : inTime[h] /\ ~Settled(h) =>
       /\ phase # "down"
       /\ kind[h] = "worker" => phase \in {"up", "workers"}
       /\ phase = "queues" \/ (phase = "workers" /\ kind[h] = "worker") => h \in snapshot
  /\ phase \in {"up", "workers"} =>
       \A h \in Handles : kind[h] = "queue" /\ ~awaited[h] => st[h] # "closing"

\* A handle that has closed is forgotten at once, until the shutdown closes those of its kind.
ForgottenInv ==
  /\ phase = "up" => \A h \in Handles : kind[h] = "worker" =>
       /\ st[h] = "closing" => awaited[h]
       /\ st[h] = "closed" => ~awaited[h] /\ workers[name[h]] # h
  /\ phase \in {"up", "workers"} => \A h \in Handles : kind[h] = "queue" /\ st[h] = "closed" =>
       ~awaited[h] /\ queues[name[h]] # h

MapsInv == InMaps /\ RegisteredInv /\ ShutdownInv /\ ForgottenInv

\* Initially there is nothing to find.
LEMMA MapsInit == Init => MapsInv
  BY WorkersAssumption DEF Init, MapsInv, InMaps, RegisteredInv, ShutdownInv, ForgottenInv

\* close() changes no state but the one of an open handle.
LEMMA ClosingStates ==
  ASSUME Flags, Registry, NEW hs, NEW forced \in BOOLEAN, Closing(hs, forced)
  PROVE  /\ UNCHANGED <<kind, name, inTime>>
         /\ \A h \in Handles : st'[h] = IF h \in hs /\ st[h] = "open" THEN "closing" ELSE st[h]
         /\ \A h \in Handles : Settled(h)' <=> Settled(h)
  <1>1. UNCHANGED <<kind, name, inTime>>
        /\ \A h \in Handles : st'[h] = IF h \in hs /\ st[h] = "open" THEN "closing" ELSE st[h]
    BY DEF Closing
  <1>2. QED
    BY <1>1 DEF Settled

\* Every step preserves MapsInv.
LEMMA MapsNext == HandleTypes /\ HandleTypes' /\ MapsInv /\ [Next]_vars => MapsInv'
  <1> SUFFICES ASSUME HandleTypes, HandleTypes', MapsInv, [Next]_vars PROVE MapsInv'
    OBVIOUS
  <1> USE WorkersAssumption DEF MapsInv, HandleTypes
  <1>1. ASSUME NEW h \in Handles, NEW n \in Names, createQueue(h, n) PROVE MapsInv'
    <2> USE <1>1 DEF createQueue, Created, MayCreate, lifeVars
    <2>1. InMaps'
      BY DEF InMaps, Flags, Registry, MapInv
    <2>2. RegisteredInv'
      BY DEF RegisteredInv, Flags, Registry, MapInv
    <2>3. ShutdownInv'
      BY DEF ShutdownInv, Flags, Registry, Settled
    <2>4. ForgottenInv'
      BY DEF ForgottenInv, Flags, Registry
    <2>5. QED
      BY <2>1, <2>2, <2>3, <2>4
  <1>2. ASSUME NEW h \in Handles, NEW n \in Names, createWorker(h, n) PROVE MapsInv'
    <2> USE <1>2 DEF createWorker, Created, MayCreate, lifeVars
    <2>1. InMaps'
      BY DEF InMaps, Flags, Registry, MapInv
    <2>2. RegisteredInv'
      BY DEF RegisteredInv, Flags, Registry, MapInv
    <2>3. ShutdownInv'
      BY DEF ShutdownInv, Flags, Registry, Settled
    <2>4. ForgottenInv'
      BY DEF ForgottenInv, Flags, Registry
    <2>5. QED
      BY <2>1, <2>2, <2>3, <2>4
  <1>3. ASSUME NEW n \in Names, closeQueue(n) PROVE MapsInv'
    <2> DEFINE h == queues[n]
    <2>0. h # None /\ Closing({h}, FALSE) /\ awaited' = [awaited EXCEPT ![h] = st[h] # "failed"]
          /\ UNCHANGED <<mapVars, lifeVars>>
      BY <1>3 DEF closeQueue
    <2>1. h \in Handles /\ kind[h] = "queue"
      BY <2>0 DEF Registry, MapInv
    <2>a. queues[n] = h
      OBVIOUS
    <2> HIDE DEF h
    <2>2. /\ UNCHANGED <<kind, name, inTime>>
          /\ \A o \in Handles : st'[o] = IF o \in {h} /\ st[o] = "open" THEN "closing" ELSE st[o]
          /\ \A o \in Handles : Settled(o)' <=> Settled(o)
      BY <2>0, <2>1, ClosingStates
    <2>3. InMaps'
      BY <2>0, <2>1, <2>2 DEF InMaps, mapVars, lifeVars
    <2>4. RegisteredInv'
      BY <2>0, <2>1, <2>2 DEF RegisteredInv, MapInv, mapVars, lifeVars
    <2>5. \A o \in Handles : kind[o] = "queue" /\ ~awaited'[o] => st'[o] # "closing" \/ ~awaited[o]
      BY <2>0, <2>1, <2>2 DEF Settled, Registry, States, Flags
    <2>6. \A o \in Handles : ~awaited[o] /\ ~awaited'[o] => st'[o] # "closing" \/ st[o] = "closing"
      BY <2>0, <2>1, <2>2 DEF Settled, Registry, States, Flags
    <2>7. ShutdownInv'
      BY <2>0, <2>1, <2>2, <2>5, <2>6 DEF ShutdownInv, mapVars, lifeVars
    <2>8. queues[name[h]] = h
      BY <2>0, <2>1, <2>a DEF MapInv
    <2>9. ForgottenInv'
      BY <2>0, <2>1, <2>2, <2>8 DEF ForgottenInv, Flags, mapVars, lifeVars
    <2>10. QED
      BY <2>3, <2>4, <2>7, <2>9
  <1>4. ASSUME NEW n \in Names, NEW forced \in BOOLEAN, closeWorker(n, forced) PROVE MapsInv'
    <2> DEFINE h == workers[n]
    <2>1. h \in Handles /\ kind[h] = "worker" /\ name[h] = n /\ Closing({h}, forced)
          /\ awaited' = [awaited EXCEPT ![h] = st[h] # "failed"] /\ UNCHANGED <<queues, workers, lifeVars>>
          /\ registered' = [registered EXCEPT ![n] = None]
      BY <1>4 DEF closeWorker, Unregistered, Registry, MapInv
    <2>a. workers[n] = h
      OBVIOUS
    <2> HIDE DEF h
    <2>2. /\ UNCHANGED <<kind, name, inTime>>
          /\ \A o \in Handles : st'[o] = IF o \in {h} /\ st[o] = "open" THEN "closing" ELSE st[o]
          /\ \A o \in Handles : Settled(o)' <=> Settled(o)
      BY <2>1, ClosingStates
    <2>3. InMaps'
      BY <2>1, <2>2 DEF InMaps, lifeVars
    <2>4. RegisteredInv'
      BY <2>1, <2>2, <2>a DEF RegisteredInv, MapInv, Registry, lifeVars
    <2>5. \A o \in Handles : kind[o] = "queue" => awaited'[o] = awaited[o] /\ st'[o] = st[o]
      BY <2>1, <2>2 DEF Flags
    <2>6. ShutdownInv'
      BY <2>1, <2>2, <2>5 DEF ShutdownInv, lifeVars
    <2>7. ForgottenInv'
      BY <2>1, <2>2, <2>a DEF ForgottenInv, Flags, lifeVars
    <2>8. QED
      BY <2>3, <2>4, <2>6, <2>7
  <1>5. ASSUME NEW h \in Handles, CloseSettles(h) PROVE MapsInv'
    <2>1. UNCHANGED <<kind, name, inTime, registered, lifeVars>> /\ st[h] = "closing"
          /\ st' = [st EXCEPT ![h] = "closed"] /\ awaited' = [awaited EXCEPT ![h] = FALSE]
          /\ queues' = Forgotten(queues, h, "queue") /\ workers' = Forgotten(workers, h, "worker")
      BY <1>5 DEF CloseSettles
    <2>2. InMaps'
      BY <2>1 DEF InMaps, Forgotten, Registry, MapInv, lifeVars
    <2>3. RegisteredInv'
      BY <2>1 DEF RegisteredInv, InMaps, Forgotten, Registry, MapInv, lifeVars
    <2>4. ShutdownInv'
      BY <2>1 DEF ShutdownInv, Settled, Flags, Registry, lifeVars
    <2>5. ForgottenInv'
      BY <2>1 DEF ForgottenInv, ShutdownInv, Forgotten, Flags, Registry, MapInv, lifeVars
    <2>6. QED
      BY <2>2, <2>3, <2>4, <2>5
  <1>6. ASSUME NEW h \in Handles, CloseFails(h) PROVE MapsInv'
    <2>1. UNCHANGED <<kind, name, inTime, mapVars, lifeVars>> /\ st[h] = "closing"
          /\ st' = [st EXCEPT ![h] = "failed"] /\ awaited' = [awaited EXCEPT ![h] = FALSE]
      BY <1>6 DEF CloseFails
    <2>2. InMaps' /\ RegisteredInv'
      BY <2>1 DEF InMaps, RegisteredInv, Registry, mapVars, lifeVars
    <2>3. ShutdownInv'
      BY <2>1 DEF ShutdownInv, Settled, Flags, Registry, lifeVars
    <2>4. ForgottenInv'
      BY <2>1 DEF ForgottenInv, Flags, Registry, mapVars, lifeVars
    <2>5. QED
      BY <2>2, <2>3, <2>4
  <1>f. ASSUME NEW h \in Handles, NameForgotten(h) PROVE MapsInv'
    <2>1. UNCHANGED <<kind, name, st, inTime, registered, lifeVars>> /\ st[h] = "closed" /\ awaited[h]
          /\ awaited' = [awaited EXCEPT ![h] = FALSE]
          /\ queues' = Forgotten(queues, h, "queue") /\ workers' = Forgotten(workers, h, "worker")
      BY <1>f DEF NameForgotten
    <2>2. /\ phase = "up" => workers' = workers
          /\ phase \in {"up", "workers"} => queues' = queues
      BY <2>1 DEF ForgottenInv, Forgotten
    <2>3. InMaps' /\ RegisteredInv'
      BY <2>1, <2>2 DEF InMaps, RegisteredInv, lifeVars
    <2>4. ShutdownInv'
      BY <2>1 DEF ShutdownInv, Settled, Flags, lifeVars
    <2>5. ForgottenInv'
      BY <2>1, <2>2 DEF ForgottenInv, Flags, lifeVars
    <2>6. QED
      BY <2>3, <2>4, <2>5
  <1>7. ASSUME onModuleDestroy PROVE MapsInv'
    <2>1. phase = "up" /\ phase' = "workers" /\ snapshot' = Values(workers)
          /\ Closing(Values(workers), FALSE) /\ UNCHANGED <<mapVars, awaited>>
      BY <1>7 DEF onModuleDestroy
    <2>2. /\ UNCHANGED <<kind, name, inTime>>
          /\ \A o \in Handles :
               st'[o] = IF o \in Values(workers) /\ st[o] = "open" THEN "closing" ELSE st[o]
          /\ \A o \in Handles : Settled(o)' <=> Settled(o)
      BY <2>1, ClosingStates
    <2>3. \A o \in Values(workers) : o \in Handles /\ kind[o] = "worker"
      BY DEF Values, Registry, MapInv
    <2>4. \A o \in Handles : kind[o] = "worker" /\ ~Settled(o) => o \in Values(workers)
      BY <2>1 DEF Values, Registry, InMaps, Settled
    <2>5. InMaps' /\ RegisteredInv'
      BY <2>1, <2>2, <2>3 DEF InMaps, RegisteredInv, mapVars
    <2>6. ShutdownInv'
      BY <2>1, <2>2, <2>3, <2>4 DEF ShutdownInv
    <2>7. ForgottenInv'
      BY <2>1, <2>2, <2>3 DEF ForgottenInv, mapVars
    <2>8. QED
      BY <2>5, <2>6, <2>7
  <1>8. ASSUME WorkersSettled PROVE MapsInv'
    <2>1. phase = "workers" /\ phase' = "queues" /\ snapshot' = Values(queues)
          /\ Closing(Values(queues), FALSE) /\ \A o \in snapshot : Settled(o)
      BY <1>8 DEF WorkersSettled
    <2>2. /\ UNCHANGED <<kind, name, inTime>>
          /\ \A o \in Handles : Settled(o)' <=> Settled(o)
      BY <2>1, ClosingStates
    <2>3. \A o \in Handles : kind[o] = "queue" /\ ~Settled(o) => o \in Values(queues)
      BY <2>1 DEF Values, Registry, InMaps, Settled
    <2>4. InMaps' /\ RegisteredInv' /\ ForgottenInv'
      BY <2>1 DEF InMaps, RegisteredInv, ForgottenInv
    <2>5. ShutdownInv'
      BY <2>1, <2>2, <2>3 DEF ShutdownInv, Registry
    <2>6. QED
      BY <2>4, <2>5
  <1>9. ASSUME QueuesSettled PROVE MapsInv'
    <2>1. phase = "queues" /\ phase' = "down" /\ (\A o \in snapshot : Settled(o))
          /\ UNCHANGED <<kind, name, inTime, st>>
      BY <1>9 DEF QueuesSettled, handleVars
    <2>2. QED
      BY <2>1 DEF InMaps, RegisteredInv, ShutdownInv, ForgottenInv, Settled
  <1>10. ASSUME UNCHANGED <<handleVars, mapVars, lifeVars>> PROVE MapsInv'
    BY <1>10 DEF handleVars, mapVars, lifeVars, InMaps, RegisteredInv, ShutdownInv, ForgottenInv, Settled
  <1>11. QED
    BY <1>1, <1>2, <1>3, <1>4, <1>5, <1>6, <1>f, <1>7, <1>8, <1>9, <1>10, OtherSteps DEF Next, Lifecycle

------------------------------------------------------------------------------
(* The flags of a worker *)

\* While no call of pause() is in flight that a resume overtook, the flag of the
\* worker is the one of BullMQ; a pause in flight keeps BullMQ's set.
PauseInv ==
  /\ paused \in [Handles -> BOOLEAN] /\ isPaused \in [Handles -> BOOLEAN]
  /\ crossed \in [Handles -> BOOLEAN] /\ DOMAIN pending = Handles
  /\ \A h \in Handles : ~crossed[h] =>
       IF pending[h] = {} THEN isPaused[h] = paused[h] ELSE paused[h]

\* A worker runs while it is open, and so does its prune timer.
RunningInv ==
  /\ DOMAIN coll = Handles /\ \A h \in Handles : "pruning" \in DOMAIN coll[h]
  /\ \A h \in Handles : kind[h] = "none" => coll[h].pruning
  /\ \A h \in Handles : kind[h] = "worker" =>
       /\ isRunning[h] <=> st[h] = "open"
       /\ coll[h].pruning <=> isRunning[h]

\* Initially no flag is set, and every timer is.
LEMMA FlagsInit == Init => PauseInv /\ RunningInv
  BY DEF Init, PauseInv, RunningInv, EmptyCollector

\* Only the controls touch the flags of a pause.
LEMMA PauseNext == HandleTypes /\ PauseInv /\ [Next]_vars => PauseInv'
  <1> SUFFICES ASSUME HandleTypes, PauseInv, [Next]_vars PROVE PauseInv'
    OBVIOUS
  <1> USE DEF PauseInv
  <1>1. ASSUME NEW n \in Names, NEW doNotWaitActive \in BOOLEAN, pauseWorker(n, doNotWaitActive)
        PROVE  PauseInv'
    <2> DEFINE h == workers[n]  call == IF paused[h] \/ doNotWaitActive THEN "now" ELSE "wait"
    <2>1. h # None /\ paused' = [paused EXCEPT ![h] = TRUE]
          /\ pending' = [pending EXCEPT ![h] = @ \cup {call}] /\ UNCHANGED <<isPaused, crossed>>
      BY <1>1 DEF pauseWorker
    <2>2. h \in Handles
      BY <2>1 DEF HandleTypes, Registry
    <2> HIDE DEF h, call
    <2>3. QED
      BY <2>1, <2>2
  <1>2. ASSUME NEW h \in Handles, NEW call \in {"now", "wait"}, PauseSettles(h, call)
        PROVE  PauseInv'
    BY <1>2 DEF PauseSettles
  <1>3. ASSUME NEW n \in Names, resumeWorker(n) PROVE PauseInv'
    <2> DEFINE h == workers[n]
    <2>1. h # None /\ paused' = [paused EXCEPT ![h] = FALSE] /\ UNCHANGED pending
          /\ isPaused' = [isPaused EXCEPT ![h] = FALSE] /\ crossed' = [crossed EXCEPT ![h] = pending[h] # {}]
      BY <1>3 DEF resumeWorker
    <2>2. h \in Handles
      BY <2>1 DEF HandleTypes, Registry
    <2> HIDE DEF h
    <2>3. QED
      BY <2>1, <2>2
  <1>4. ASSUME Lifecycle PROVE UNCHANGED pauseVars
    BY <1>4 DEF Lifecycle, createQueue, createWorker, closeQueue, closeWorker, CloseSettles,
                CloseFails, NameForgotten, onModuleDestroy, WorkersSettled, QueuesSettled
  <1>5. ASSUME JobStep PROVE UNCHANGED pauseVars
    BY <1>5 DEF JobStep, TakeJob, ProcessorCalled, Finish, ListenersSettled
  <1>6. ASSUME Metrics \/ Tick PROVE UNCHANGED pauseVars
    BY <1>6 DEF Metrics, PruneTimer, updateQueueCounts, clearMetrics, Tick
  <1>7. ASSUME UNCHANGED pauseVars PROVE PauseInv'
    BY <1>7 DEF pauseVars
  <1>8. QED
    BY <1>1, <1>2, <1>3, <1>4, <1>5, <1>6, <1>7 DEF Next, Controls, vars

\* A collector that records or prunes keeps its timer.
LEMMA CollectorKeepsTimer ==
  ASSUME NEW c, "pruning" \in DOMAIN c, NEW label, NEW at, NEW duration, NEW success, NEW t
  PROVE  /\ "pruning" \in DOMAIN Record(c, label, at, duration, success)
         /\ Record(c, label, at, duration, success).pruning = c.pruning
         /\ "pruning" \in DOMAIN Prune(c, t) /\ Prune(c, t).pruning = c.pruning
  BY DEF Record, Prune

\* close() stops the worker and its timer with it.
LEMMA ClosingRunning ==
  ASSUME HandleTypes, RunningInv, NEW hs \in SUBSET Handles, NEW forced \in BOOLEAN, Closing(hs, forced),
         \A h \in hs : kind[h] # "none"
  PROVE  RunningInv'
  <1>1. UNCHANGED kind /\ \A h \in Handles : isRunning'[h] = (isRunning[h] /\ h \notin hs)
    BY DEF Closing
  <1>2. \A h \in Handles : st'[h] = IF h \in hs /\ st[h] = "open" THEN "closing" ELSE st[h]
    BY DEF Closing
  <1>3. DOMAIN coll' = Handles
    BY DEF Closing
  <1>4. \A h \in Handles :
          coll'[h] = IF h \in hs THEN [coll[h] EXCEPT !.pruning = FALSE] ELSE coll[h]
    BY DEF Closing
  <1>5. \A h \in Handles : "pruning" \in DOMAIN coll'[h]
          /\ coll'[h].pruning = IF h \in hs THEN FALSE ELSE coll[h].pruning
    BY <1>4 DEF RunningInv
  <1>6. ASSUME NEW h \in Handles, kind[h] = "worker" PROVE isRunning'[h] <=> st'[h] = "open"
    BY <1>1, <1>2, <1>6 DEF RunningInv
  <1>7. ASSUME NEW h \in Handles, kind[h] = "worker" PROVE coll'[h].pruning <=> isRunning'[h]
    BY <1>1, <1>5, <1>7 DEF RunningInv
  <1>8. ASSUME NEW h \in Handles, kind[h] = "none" PROVE coll'[h].pruning
    BY <1>5, <1>8 DEF RunningInv
  <1>9. QED
    BY <1>1, <1>3, <1>5, <1>6, <1>7, <1>8 DEF RunningInv

\* Every step preserves RunningInv.
LEMMA RunningNext == HandleTypes /\ RunningInv /\ [Next]_vars => RunningInv'
  <1> SUFFICES ASSUME HandleTypes, RunningInv, [Next]_vars PROVE RunningInv'
    OBVIOUS
  <1>1. ASSUME NEW h \in Handles, NEW n \in Names, createQueue(h, n) PROVE RunningInv'
    BY <1>1 DEF createQueue, Created, MayCreate, statVars, RunningInv, HandleTypes, Registry, Flags
  <1>2. ASSUME NEW h \in Handles, NEW n \in Names, createWorker(h, n) PROVE RunningInv'
    BY <1>2 DEF createWorker, Created, MayCreate, statVars, RunningInv, HandleTypes, Registry, Flags
  <1>3. ASSUME NEW n \in Names, closeQueue(n) PROVE RunningInv'
    <2>1. queues[n] # None /\ Closing({queues[n]}, FALSE)
      BY <1>3 DEF closeQueue
    <2>2. {queues[n]} \in SUBSET Handles /\ \A h \in {queues[n]} : kind[h] # "none"
      BY <2>1 DEF HandleTypes, Registry, MapInv
    <2>3. QED
      BY <2>1, <2>2, ClosingRunning
  <1>4. ASSUME NEW n \in Names, NEW forced \in BOOLEAN, closeWorker(n, forced) PROVE RunningInv'
    <2>1. workers[n] # None /\ Closing({workers[n]}, forced)
      BY <1>4 DEF closeWorker
    <2>2. {workers[n]} \in SUBSET Handles /\ \A h \in {workers[n]} : kind[h] # "none"
      BY <2>1 DEF HandleTypes, Registry, MapInv
    <2>3. QED
      BY <2>1, <2>2, ClosingRunning
  <1>5. ASSUME NEW h \in Handles, CloseSettles(h) PROVE RunningInv'
    BY <1>5 DEF CloseSettles, statVars, RunningInv, HandleTypes, Registry
  <1>6. ASSUME NEW h \in Handles, CloseFails(h) PROVE RunningInv'
    BY <1>6 DEF CloseFails, statVars, RunningInv, HandleTypes, Registry
  <1>f. ASSUME NEW h \in Handles, NameForgotten(h) PROVE RunningInv'
    BY <1>f DEF NameForgotten, statVars, RunningInv
  <1>7. ASSUME onModuleDestroy PROVE RunningInv'
    <2>1. Closing(Values(workers), FALSE)
      BY <1>7 DEF onModuleDestroy
    <2>2. Values(workers) \in SUBSET Handles /\ \A h \in Values(workers) : kind[h] # "none"
      BY DEF Values, HandleTypes, Registry, MapInv
    <2>3. QED
      BY <2>1, <2>2, ClosingRunning
  <1>8. ASSUME WorkersSettled PROVE RunningInv'
    <2>1. Closing(Values(queues), FALSE)
      BY <1>8 DEF WorkersSettled
    <2>2. Values(queues) \in SUBSET Handles /\ \A h \in Values(queues) : kind[h] # "none"
      BY DEF Values, HandleTypes, Registry, MapInv
    <2>3. QED
      BY <2>1, <2>2, ClosingRunning
  <1>9. ASSUME NEW i \in DOMAIN job, NEW success \in BOOLEAN, Finish(i, success) PROVE RunningInv'
    <2> DEFINE j == job[i]
    <2>1. UNCHANGED handleVars
          /\ coll' = [coll EXCEPT ![j.w] = Record(@, j.label, now, now - j.start, success)]
      BY <1>9 DEF Finish
    <2> HIDE DEF j
    <2>2. \A h \in Handles : "pruning" \in DOMAIN coll'[h] /\ coll'[h].pruning = coll[h].pruning
      BY <2>1, CollectorKeepsTimer DEF RunningInv
    <2>3. QED
      BY <2>1, <2>2 DEF RunningInv, handleVars
  <1>10. ASSUME NEW h \in Handles, PruneTimer(h) PROVE RunningInv'
    <2>1. UNCHANGED handleVars /\ coll' = [coll EXCEPT ![h] = Prune(@, now)]
      BY <1>10 DEF PruneTimer
    <2>2. \A o \in Handles : "pruning" \in DOMAIN coll'[o] /\ coll'[o].pruning = coll[o].pruning
      BY <2>1, CollectorKeepsTimer DEF RunningInv
    <2>3. QED
      BY <2>1, <2>2 DEF RunningInv, handleVars
  <1>11. ASSUME UNCHANGED <<handleVars, coll>> PROVE RunningInv'
    BY <1>11 DEF handleVars, RunningInv
  <1>12. ASSUME QueuesSettled \/ Controls \/ Tick PROVE UNCHANGED <<handleVars, coll>>
    BY <1>12 DEF QueuesSettled, Controls, pauseWorker, PauseSettles, resumeWorker, Tick, statVars
  <1>13. ASSUME NEW h \in Handles, NEW jobName \in JobNames, TakeJob(h, jobName)
         PROVE  UNCHANGED <<handleVars, coll>>
    BY <1>13 DEF TakeJob
  <1>14. ASSUME NEW i \in DOMAIN job, ProcessorCalled(i) \/ ListenersSettled(i)
         PROVE  UNCHANGED <<handleVars, coll>>
    BY <1>14 DEF ProcessorCalled, ListenersSettled, statVars
  <1>15. ASSUME NEW n \in Names, updateQueueCounts(n) PROVE UNCHANGED <<handleVars, coll>>
    BY <1>15 DEF updateQueueCounts, statVars
  <1>16. ASSUME clearMetrics \/ UNCHANGED vars PROVE UNCHANGED <<handleVars, coll>>
    BY <1>16 DEF clearMetrics, vars, statVars
  <1>17. QED
    BY <1>1, <1>2, <1>3, <1>4, <1>5, <1>6, <1>f, <1>7, <1>8, <1>9, <1>10, <1>11, <1>12, <1>13, <1>14,
       <1>15, <1>16 DEF Next, Lifecycle, JobStep, Metrics

------------------------------------------------------------------------------
(* The active jobs *)

JobRecords ==
  [w : Handles, name : JobNames, label : Labels, st : {"starting", "running", "reporting", "done"},
   start : Nat, end : Nat, ok : BOOLEAN]

Active(h) == {i \in BullActive(h) : job[i].st \in {"starting", "running"}}

\* The counter of a worker counts the jobs whose processor has not returned.
JobInv ==
  /\ now \in Nat /\ job \in Seq(JobRecords)
  /\ activeJobCount \in [Handles -> Nat]
  /\ \A h \in Handles : activeJobCount[h] = Cardinality(Active(h))

\* Initially there are no jobs.
LEMMA JobInit == Init => JobInv
  <1> SUFFICES ASSUME Init PROVE JobInv
    OBVIOUS
  <1>1. now \in Nat /\ job = <<>> /\ activeJobCount = [h \in Handles |-> 0]
    BY DEF Init
  <1>2. \A h \in Handles : Active(h) = {}
    BY <1>1 DEF Active, BullActive
  <1>3. QED
    BY <1>1, <1>2, FS_EmptySet DEF JobInv

\* The active jobs are finitely many.
LEMMA ActiveFinite ==
  ASSUME job \in Seq(JobRecords), NEW h
  PROVE  IsFiniteSet(Active(h)) /\ Active(h) \subseteq 1..Len(job)
  <1>1. Active(h) \in SUBSET (1..Len(job)) /\ Len(job) \in Nat
    BY DEF Active, BullActive
  <1>2. IsFiniteSet(1..Len(job))
    BY <1>1, FS_Interval
  <1>3. QED
    BY <1>1, <1>2, FS_Subset

\* A job that goes on is a job still.
LEMMA JobUpdate ==
  ASSUME job \in Seq(JobRecords), NEW i \in DOMAIN job, NEW r \in JobRecords,
         job' = [job EXCEPT ![i] = r]
  PROVE  /\ job' \in Seq(JobRecords) /\ DOMAIN job' = DOMAIN job
         /\ job'[i] = r /\ \A o \in DOMAIN job \ {i} : job'[o] = job[o]
  OBVIOUS

\* Every step preserves JobInv: a job is counted when it is taken, and no
\* longer when its processor returns.
LEMMA JobNext == JobInv /\ [Next]_vars => JobInv'
  <1> SUFFICES ASSUME JobInv, [Next]_vars PROVE JobInv'
    OBVIOUS
  <1>1. ASSUME NEW h \in Handles, NEW jobName \in JobNames, TakeJob(h, jobName) PROVE JobInv'
    <2> DEFINE new == [w |-> h, name |-> jobName, label |-> Label(jobNameSet[h], jobName),
                       st |-> "starting", start |-> now, end |-> now, ok |-> FALSE]
               k == Len(job) + 1
    <2>1. job' = Append(job, new) /\ now' = now
          /\ activeJobCount' = [activeJobCount EXCEPT ![h] = @ + 1]
      BY <1>1 DEF TakeJob, boundVars
    <2>2. new \in JobRecords
      BY DEF JobInv, JobRecords, Label, Labels
    <2>3. new.w = h /\ new.st = "starting"
      OBVIOUS
    <2> HIDE DEF new
    <2>4. job' \in Seq(JobRecords) /\ Len(job') = k /\ k \in Nat /\ k \notin 1..Len(job)
          /\ job'[k] = new /\ \A i \in 1..Len(job) : job'[i] = job[i]
      BY <2>1, <2>2 DEF JobInv
    <2>5. Active(h)' = Active(h) \cup {k}
      BY <2>3, <2>4 DEF Active, BullActive, JobInv
    <2>6. \A o \in Handles \ {h} : Active(o)' = Active(o)
      BY <2>3, <2>4 DEF Active, BullActive, JobInv
    <2>7. IsFiniteSet(Active(h)) /\ k \notin Active(h)
      BY <2>4, ActiveFinite DEF JobInv
    <2>8. Cardinality(Active(h)') = Cardinality(Active(h)) + 1
      BY <2>5, <2>7, FS_AddElement
    <2>9. QED
      BY <2>1, <2>4, <2>6, <2>8 DEF JobInv
  <1>2. ASSUME NEW i \in DOMAIN job, ProcessorCalled(i) PROVE JobInv'
    <2>1. job[i].st = "starting" /\ job' = [job EXCEPT ![i].st = "running"]
          /\ UNCHANGED <<now, activeJobCount>>
      BY <1>2 DEF ProcessorCalled, boundVars, statVars
    <2> DEFINE r == [job[i] EXCEPT !.st = "running"]
    <2>job. job[i] \in JobRecords
      BY DEF JobInv
    <2>next. r \in JobRecords /\ r.w = job[i].w /\ r.st = "running"
      BY <2>job DEF JobRecords
    <2>step. job' = [job EXCEPT ![i] = r]
      BY <2>1
    <2> HIDE DEF r
    <2>2. /\ job' \in Seq(JobRecords) /\ DOMAIN job' = DOMAIN job
          /\ job'[i] = r /\ \A o \in DOMAIN job \ {i} : job'[o] = job[o]
      BY <2>next, <2>step, JobUpdate DEF JobInv
    <2>3. \A o \in DOMAIN job : job'[o].w = job[o].w
            /\ job'[o].st = IF o = i THEN "running" ELSE job[o].st
      BY <2>next, <2>2
    <2>4. \A h \in Handles : Active(h)' = Active(h)
      BY <2>1, <2>2, <2>3 DEF Active, BullActive
    <2>5. QED
      BY <2>1, <2>2, <2>4 DEF JobInv
  <1>3. ASSUME NEW i \in DOMAIN job, NEW success \in BOOLEAN, Finish(i, success) PROVE JobInv'
    <2>job. job[i] \in JobRecords
      BY DEF JobInv
    <2>0. PICK h \in Handles : h = job[i].w
      BY <2>job DEF JobRecords
    <2>1. job[i].st = "running" /\ UNCHANGED now
          /\ job' = [job EXCEPT ![i].st = "reporting", ![i].end = now, ![i].ok = success]
          /\ activeJobCount' = [activeJobCount EXCEPT ![h] = @ - 1]
      BY <1>3, <2>0 DEF Finish, boundVars
    <2> DEFINE r == [job[i] EXCEPT !.st = "reporting", !.end = now, !.ok = success]
    <2>next. r \in JobRecords /\ r.w = h /\ r.st = "reporting"
      BY <2>0, <2>job DEF JobInv, JobRecords
    <2>step. job' = [job EXCEPT ![i] = r]
      BY <2>1 DEF JobInv
    <2> HIDE DEF r
    <2>2. /\ job' \in Seq(JobRecords) /\ DOMAIN job' = DOMAIN job
          /\ job'[i] = r /\ \A o \in DOMAIN job \ {i} : job'[o] = job[o]
      BY <2>next, <2>step, JobUpdate DEF JobInv
    <2>3. \A o \in DOMAIN job : job'[o].w = job[o].w
            /\ job'[o].st = IF o = i THEN "reporting" ELSE job[o].st
      BY <2>0, <2>next, <2>2
    <2>4. Active(h)' = Active(h) \ {i} /\ i \in Active(h)
      BY <2>0, <2>1, <2>2, <2>3 DEF Active, BullActive
    <2>5. \A o \in Handles \ {h} : Active(o)' = Active(o)
      BY <2>0, <2>2, <2>3 DEF Active, BullActive
    <2>6. Cardinality(Active(h)') = Cardinality(Active(h)) - 1 /\ Cardinality(Active(h)') \in Nat
      BY <2>4, ActiveFinite, FS_RemoveElement, FS_CardinalityType DEF JobInv
    <2>7. QED
      BY <2>1, <2>2, <2>5, <2>6 DEF JobInv
  <1>4. ASSUME NEW i \in DOMAIN job, ListenersSettled(i) PROVE JobInv'
    <2>1. job[i].st = "reporting" /\ job' = [job EXCEPT ![i].st = "done"]
          /\ UNCHANGED <<now, activeJobCount>>
      BY <1>4 DEF ListenersSettled, boundVars, statVars
    <2> DEFINE r == [job[i] EXCEPT !.st = "done"]
    <2>job. job[i] \in JobRecords
      BY DEF JobInv
    <2>next. r \in JobRecords /\ r.w = job[i].w /\ r.st = "done"
      BY <2>job DEF JobRecords
    <2>step. job' = [job EXCEPT ![i] = r]
      BY <2>1
    <2> HIDE DEF r
    <2>2. /\ job' \in Seq(JobRecords) /\ DOMAIN job' = DOMAIN job
          /\ job'[i] = r /\ \A o \in DOMAIN job \ {i} : job'[o] = job[o]
      BY <2>next, <2>step, JobUpdate DEF JobInv
    <2>3. \A o \in DOMAIN job : job'[o].w = job[o].w
            /\ job'[o].st = IF o = i THEN "done" ELSE job[o].st
      BY <2>next, <2>2
    <2>4. \A h \in Handles : Active(h)' = Active(h)
      BY <2>1, <2>2, <2>3 DEF Active, BullActive
    <2>5. QED
      BY <2>1, <2>2, <2>4 DEF JobInv
  <1>5. ASSUME UNCHANGED <<job, activeJobCount>>, now' \in Nat PROVE JobInv'
    BY <1>5 DEF JobInv, Active, BullActive
  <1>6. ASSUME Lifecycle PROVE UNCHANGED <<job, activeJobCount, now>>
    BY <1>6 DEF Lifecycle, createQueue, createWorker, closeQueue, closeWorker, CloseSettles,
                CloseFails, NameForgotten, onModuleDestroy, WorkersSettled, QueuesSettled, Closing,
                statVars, jobVars, boundVars
  <1>7. ASSUME Controls \/ Metrics \/ UNCHANGED vars PROVE UNCHANGED <<job, activeJobCount, now>>
    BY <1>7 DEF Controls, pauseWorker, PauseSettles, resumeWorker, Metrics, PruneTimer,
                updateQueueCounts, clearMetrics, vars, statVars, jobVars, boundVars
  <1>8. ASSUME Tick PROVE UNCHANGED <<job, activeJobCount>> /\ now' \in Nat
    BY <1>8 DEF Tick, statVars, jobVars, JobInv
  <1>9. now \in Nat
    BY DEF JobInv
  <1>10. QED
    BY <1>1, <1>2, <1>3, <1>4, <1>5, <1>6, <1>7, <1>8, <1>9 DEF Next, JobStep

------------------------------------------------------------------------------
(* The counts of the jobs *)

Over == {"reporting", "done"}

\* The finished jobs under a label, and by their result.
LabelJobs(h, l) == {i \in Finished(h) : job[i].label = l}
OkJobs(h) == {i \in Finished(h) : job[i].ok}
FailedJobs(h) == {i \in Finished(h) : ~job[i].ok}

\* The jobs the registry has seen, by their name and by their duration.
NameJobs(n, l) == {i \in SeenJobs(n) : job[i].name = l}
ShortJobs(n, b) == {i \in SeenJobs(n) : Duration(i) <= b}

\* The label of a job is the one its name has now: a name is tracked as long as
\* there is room for it, so one that came too late never is.
NamesInv ==
  /\ jobNameSet \in [Handles -> SUBSET JobNames]
  /\ \A h \in Handles :
       IsFiniteSet(jobNameSet[h]) /\ Cardinality(jobNameSet[h]) <= MaxJobNameEntries
  /\ \A i \in DOMAIN job :
       LET tracked == jobNameSet[job[i].w] IN
       /\ kind[job[i].w] = "worker"
       /\ job[i].name \in tracked => job[i].label = job[i].name
       /\ job[i].name \notin tracked => job[i].label = Other /\ Cardinality(tracked) >= MaxJobNameEntries

\* The history of a worker holds its finished jobs.
HistoryInv ==
  /\ history \in [Handles -> Seq(Nat)] /\ cleared \in [Handles -> Nat]
  /\ \A h \in Handles :
       /\ cleared[h] <= Len(history[h])
       /\ \A k \in DOMAIN history[h] :
            LET i == history[h][k] IN i \in DOMAIN job /\ job[i].w = h /\ job[i].st \in Over

CollectorShape(c) ==
  /\ {"samples", "totals", "byName"} \subseteq DOMAIN c
  /\ {"processed", "completed", "failed"} \subseteq DOMAIN c.totals
  /\ Labels \subseteq DOMAIN c.byName
  /\ \A l \in Labels : {"processed", "durationTotalMs"} \subseteq DOMAIN c.byName[l]

\* A collector counts the finished jobs of its worker, in all and by label.
CollectorInv ==
  /\ DOMAIN coll = Handles
  /\ \A h \in Handles :
       /\ CollectorShape(coll[h])
       /\ coll[h].totals.processed = Cardinality(Finished(h))
       /\ coll[h].totals.completed = Cardinality(OkJobs(h))
       /\ coll[h].totals.failed = Cardinality(FailedJobs(h))
       /\ \A l \in Labels : coll[h].byName[l].processed = Cardinality(LabelJobs(h, l))

MetricsShape(q) ==
  /\ {"completed", "failed", "waiting", "durationCount", "maxDuration", "bucketCounts", "recent",
      "tracked", "byJobName"} \subseteq DOMAIN q
  /\ q.completed \in Nat /\ q.failed \in Nat /\ q.waiting \in Nat
  /\ q.tracked \subseteq JobNames /\ IsFiniteSet(q.tracked)
  /\ Cardinality(q.tracked) <= MaxJobNameEntries
  /\ Labels \subseteq DOMAIN q.byJobName
  /\ \A l \in Labels : "count" \in DOMAIN q.byJobName[l]

\* The registry counts the jobs it has seen; a name it does not track has no
\* counter of its own, and there was no room for it.
RegistryInv ==
  /\ DOMAIN otel = Names
  /\ \A n \in Names :
       LET q == otel[n] IN
       /\ MetricsShape(q)
       /\ q.durationCount = Cardinality(SeenJobs(n))
       /\ ~pushed => q.completed + q.failed = Cardinality(SeenJobs(n))
       /\ \A b \in Buckets : q.bucketCounts[b] = Cardinality(ShortJobs(n, b))
       /\ \A l \in JobNames :
            q.byJobName[l].count = IF l \in q.tracked THEN Cardinality(NameJobs(n, l)) ELSE 0
       /\ \A i \in SeenJobs(n) :
            job[i].name \in q.tracked \/ Cardinality(q.tracked) >= MaxJobNameEntries

CountsInv == NamesInv /\ HistoryInv /\ CollectorInv /\ RegistryInv

\* What the registry has seen of a worker are its finished jobs.
LEMMA SinceClearIs ==
  ASSUME HistoryInv, NEW h \in Handles, NEW i \in SinceClear(h)
  PROVE  i \in DOMAIN job /\ job[i].w = h /\ job[i].st \in Over
  <1>1. history[h] \in Seq(Nat) /\ cleared[h] \in Nat
    BY DEF HistoryInv
  <1>2. PICK k \in DOMAIN history[h] : i = history[h][k]
    BY <1>1 DEF SinceClear
  <1>3. QED
    BY <1>2 DEF HistoryInv

\* What the registry has seen of a queue are finished jobs.
LEMMA SeenIs ==
  ASSUME HistoryInv, NEW n
  PROVE  SeenJobs(n) \subseteq DOMAIN job /\ \A i \in SeenJobs(n) : job[i].st \in Over
  BY SinceClearIs DEF SeenJobs

\* Initially nothing is counted.
LEMMA CountsInit == Init => CountsInv
  <1> SUFFICES ASSUME Init PROVE CountsInv
    OBVIOUS
  <1>1. job = <<>> /\ jobNameSet = [h \in Handles |-> {}]
        /\ history = [h \in Handles |-> <<>>] /\ cleared = [h \in Handles |-> 0]
        /\ coll = [h \in Handles |-> EmptyCollector] /\ otel = [n \in Names |-> EmptyMetrics]
    BY DEF Init
  <1>2. IsFiniteSet({}) /\ Cardinality({}) = 0 /\ MaxJobNameEntries \in Nat
    BY FS_EmptySet, StatsAssumption
  <1>3. NamesInv /\ HistoryInv
    BY <1>1, <1>2 DEF NamesInv, HistoryInv
  <1>4. \A h : Finished(h) = {} /\ OkJobs(h) = {} /\ FailedJobs(h) = {} /\ \A l : LabelJobs(h, l) = {}
    BY <1>1 DEF Finished, OkJobs, FailedJobs, LabelJobs
  <1>5. \A n : SeenJobs(n) = {} /\ \A x : NameJobs(n, x) = {} /\ ShortJobs(n, x) = {}
    <2>1. \A h \in Handles : SinceClear(h) = {}
      BY <1>1 DEF SinceClear
    <2>2. \A n : SeenJobs(n) = {}
      BY <2>1 DEF SeenJobs
    <2>3. QED
      BY <2>2 DEF NameJobs, ShortJobs
  <1>6. CollectorShape(EmptyCollector) /\ EmptyCollector.totals = NoTotals
        /\ \A l \in Labels : EmptyCollector.byName[l].processed = 0
    <2>1. {"processed", "durationTotalMs"} \subseteq DOMAIN NoNameTotals /\ NoNameTotals.processed = 0
      BY DEF NoNameTotals
    <2>2. {"processed", "completed", "failed"} \subseteq DOMAIN NoTotals
      BY DEF NoTotals
    <2>3. /\ EmptyCollector.totals = NoTotals /\ EmptyCollector.byName = [l \in Labels |-> NoNameTotals]
          /\ {"samples", "totals", "byName"} \subseteq DOMAIN EmptyCollector
      BY DEF EmptyCollector
    <2>4. QED
      BY <2>1, <2>2, <2>3 DEF CollectorShape
  <1>7. CollectorInv
    <2>1. NoTotals.processed = 0 /\ NoTotals.completed = 0 /\ NoTotals.failed = 0
      BY DEF NoTotals
    <2>2. DOMAIN coll = Handles /\ \A h \in Handles : coll[h] = EmptyCollector
      BY <1>1
    <2>3. QED
      BY <1>2, <1>4, <1>6, <2>1, <2>2 DEF CollectorInv
  <1>8. MetricsShape(EmptyMetrics) /\ EmptyMetrics.tracked = {} /\ EmptyMetrics.durationCount = 0
        /\ EmptyMetrics.completed = 0 /\ EmptyMetrics.failed = 0
        /\ (\A b \in Buckets : EmptyMetrics.bucketCounts[b] = 0)
        /\ \A l \in Labels : EmptyMetrics.byJobName[l].count = 0
    BY <1>2 DEF MetricsShape, EmptyMetrics
  <1>9. RegistryInv
    <2>1. DOMAIN otel = Names /\ \A n \in Names : otel[n] = EmptyMetrics
      BY <1>1
    <2>2. JobNames \subseteq Labels
      BY DEF Labels
    <2>3. ASSUME NEW n \in Names
          PROVE  /\ MetricsShape(otel[n]) /\ otel[n].durationCount = Cardinality(SeenJobs(n))
                 /\ otel[n].completed + otel[n].failed = Cardinality(SeenJobs(n))
                 /\ \A b \in Buckets : otel[n].bucketCounts[b] = Cardinality(ShortJobs(n, b))
                 /\ \A l \in JobNames : otel[n].byJobName[l].count = 0 /\ l \notin otel[n].tracked
      <3>1. otel[n] = EmptyMetrics /\ SeenJobs(n) = {} /\ Cardinality(SeenJobs(n)) = 0
        BY <1>2, <1>5, <2>1
      <3>2. \A b : Cardinality(ShortJobs(n, b)) = 0
        BY <1>2, <1>5
      <3>3. QED
        BY <1>8, <2>2, <3>1, <3>2
    <2>4. QED
      BY <1>5, <2>1, <2>3 DEF RegistryInv
  <1>10. QED
    BY <1>3, <1>7, <1>9 DEF CountsInv

\* The larger of two numbers.
LEMMA TwoMax ==
  ASSUME NEW a \in Int, NEW b \in Int
  PROVE  Max({a, b}) = IF a >= b THEN a ELSE b
  BY DEF Max

\* The smaller of two numbers.
LEMMA TwoMin ==
  ASSUME NEW a \in Int, NEW b \in Int
  PROVE  Min({a, b}) = IF a <= b THEN a ELSE b
  BY DEF Min

\* A set that an element joins or not.
LEMMA Grown ==
  ASSUME NEW S, IsFiniteSet(S), NEW i, i \notin S, NEW T, NEW b \in BOOLEAN,
         T = IF b THEN S \cup {i} ELSE S
  PROVE  IsFiniteSet(T) /\ Cardinality(T) = Cardinality(S) + One(b)
  <1>1. Cardinality(S) \in Nat
    BY FS_CardinalityType
  <1>2. CASE b
    BY <1>2, FS_AddElement DEF One
  <1>3. CASE ~b
    BY <1>1, <1>3 DEF One
  <1>4. QED
    BY <1>2, <1>3

\* Every set of jobs is finite.
LEMMA JobsFinite ==
  ASSUME job \in Seq(JobRecords), NEW T \in SUBSET DOMAIN job
  PROVE  IsFiniteSet(T)
  <1>1. IsFiniteSet(1..Len(job)) /\ DOMAIN job = 1..Len(job)
    BY FS_Interval
  <1>2. QED
    BY <1>1, FS_Subset

\* Only as many names are tracked as there is room for; a name is tracked under
\* itself, or there was no room.
LEMMA TrackedNames ==
  ASSUME NEW tracked \in SUBSET JobNames, IsFiniteSet(tracked),
         Cardinality(tracked) <= MaxJobNameEntries, NEW jobName \in JobNames
  PROVE  /\ Tracked(tracked, jobName) \in SUBSET JobNames /\ IsFiniteSet(Tracked(tracked, jobName))
         /\ Cardinality(Tracked(tracked, jobName)) <= MaxJobNameEntries
         /\ tracked \subseteq Tracked(tracked, jobName)
         /\ \/ /\ Label(tracked, jobName) = jobName /\ Tracked(tracked, jobName) = tracked \cup {jobName}
               /\ jobName \in tracked \/ Cardinality(tracked) < MaxJobNameEntries
            \/ /\ Label(tracked, jobName) = Other /\ Tracked(tracked, jobName) = tracked
               /\ jobName \notin tracked /\ Cardinality(tracked) >= MaxJobNameEntries
  <1>0. jobName # Other /\ Cardinality(tracked) \in Nat /\ MaxJobNameEntries \in Nat
    BY FS_CardinalityType, StatsAssumption
  <1>1. CASE jobName \in tracked \/ Cardinality(tracked) < MaxJobNameEntries
    <2>1. Label(tracked, jobName) = jobName /\ Tracked(tracked, jobName) = tracked \cup {jobName}
      BY <1>0, <1>1 DEF Label, Tracked
    <2>2. IsFiniteSet(tracked \cup {jobName})
          /\ Cardinality(tracked \cup {jobName}) =
               IF jobName \in tracked THEN Cardinality(tracked) ELSE Cardinality(tracked) + 1
      BY FS_AddElement
    <2>3. QED
      BY <1>0, <1>1, <2>1, <2>2
  <1>2. CASE ~(jobName \in tracked \/ Cardinality(tracked) < MaxJobNameEntries)
    <2>1. Label(tracked, jobName) = Other /\ Tracked(tracked, jobName) = tracked
      BY <1>2 DEF Label, Tracked
    <2>2. QED
      BY <1>0, <1>2, <2>1
  <1>3. QED
    BY <1>1, <1>2

\* What one job adds to a collector.
LEMMA Collected ==
  ASSUME NEW c, CollectorShape(c), NEW label \in Labels, NEW at, NEW duration, NEW success \in BOOLEAN,
         NEW d, d = Record(c, label, at, duration, success)
  PROVE  /\ CollectorShape(d)
         /\ d.totals.processed = c.totals.processed + 1
         /\ d.totals.completed = c.totals.completed + One(success)
         /\ d.totals.failed = c.totals.failed + One(~success)
         /\ d.byName[label].processed = c.byName[label].processed + 1
         /\ d.byName[label].durationTotalMs = c.byName[label].durationTotalMs + duration
         /\ \A l \in Labels \ {label} : d.byName[l] = c.byName[l]
  <1> DEFINE b == Timed(Counted(c.byName[label], success), duration)
  <1>0. {"samples", "totals", "byName"} \subseteq DOMAIN c
    BY DEF CollectorShape
  <1>1. /\ d.totals = Counted(c.totals, success) /\ d.byName = [c.byName EXCEPT ![label] = b]
        /\ DOMAIN d = DOMAIN c
    <2>1. DOMAIN d = DOMAIN c
      BY Zenon DEF Record
    <2>2. d.totals = Counted(c.totals, success)
      BY <1>0 DEF Record
    <2>3. d.byName = [c.byName EXCEPT ![label] = b]
      BY <1>0 DEF Record
    <2>4. QED
      BY <2>1, <2>2, <2>3
  <1>2. /\ Counted(c.totals, success).processed = c.totals.processed + 1
        /\ Counted(c.totals, success).completed = c.totals.completed + One(success)
        /\ Counted(c.totals, success).failed = c.totals.failed + One(~success)
        /\ DOMAIN Counted(c.totals, success) = DOMAIN c.totals
    BY DEF Counted, CollectorShape
  <1>3. /\ b.processed = c.byName[label].processed + 1
        /\ b.durationTotalMs = c.byName[label].durationTotalMs + duration
        /\ {"processed", "durationTotalMs"} \subseteq DOMAIN b
    BY DEF Counted, Timed, CollectorShape
  <1> HIDE DEF b
  <1>4. QED
    BY <1>1, <1>2, <1>3 DEF CollectorShape

\* A job leaves its sample with the collector.
LEMMA Sampled ==
  ASSUME NEW c, CollectorShape(c), NEW label, NEW at, NEW duration, NEW success
  PROVE  Record(c, label, at, duration, success).samples =
           Latest(Put(c.samples, c.totals.processed + 1, [completedAt |-> at, duration |-> duration]))
  BY DEF CollectorShape, Record

\* The time buckets once a job has ended.
RecentAfter(recent, t) ==
  LET bucket == TimeBucket(t) IN
  pruneRecent(Put(recent, bucket, (IF bucket \in DOMAIN recent THEN recent[bucket] ELSE 0) + 1), t)

\* What one job adds to the metrics of a queue.
LEMMA Recorded ==
  ASSUME NEW q, MetricsShape(q), NEW jobName \in JobNames, NEW t, NEW duration, NEW success \in BOOLEAN,
         NEW p, p = recordMetrics(q, jobName, t, duration, success)
  PROVE  /\ MetricsShape(p)
         /\ p.completed = q.completed + One(success) /\ p.failed = q.failed + One(~success)
         /\ p.durationCount = q.durationCount + 1
         /\ \A b \in Buckets : p.bucketCounts[b] = q.bucketCounts[b] + One(duration <= b)
         /\ p.tracked = Tracked(q.tracked, jobName)
         /\ p.byJobName[Label(q.tracked, jobName)].count = q.byJobName[Label(q.tracked, jobName)].count + 1
         /\ \A l \in Labels \ {Label(q.tracked, jobName)} : p.byJobName[l] = q.byJobName[l]
  <1> DEFINE label == Label(q.tracked, jobName)
             entry == [count |-> q.byJobName[label].count + 1,
                       errors |-> q.byJobName[label].errors + One(~success)]
  <1>0. label \in Labels /\ One(success) \in Nat /\ One(~success) \in Nat
    BY DEF Label, Labels, One
  <1>1. /\ p.completed = q.completed + One(success) /\ p.failed = q.failed + One(~success)
        /\ p.durationCount = q.durationCount + 1 /\ p.bucketCounts = InBuckets(q.bucketCounts, duration)
        /\ p.tracked = Tracked(q.tracked, jobName) /\ p.byJobName = [q.byJobName EXCEPT ![label] = entry]
        /\ p.waiting = q.waiting /\ DOMAIN p = DOMAIN q
    BY DEF recordMetrics, MetricsShape
  <1>2. entry.count = q.byJobName[label].count + 1 /\ "count" \in DOMAIN entry
    OBVIOUS
  <1>3. /\ p.tracked \subseteq JobNames /\ IsFiniteSet(p.tracked)
        /\ Cardinality(p.tracked) <= MaxJobNameEntries
    BY <1>1, TrackedNames DEF MetricsShape
  <1>4. \A b \in Buckets : p.bucketCounts[b] = q.bucketCounts[b] + One(duration <= b)
    BY <1>1 DEF InBuckets
  <1> HIDE DEF entry, label
  <1>5. /\ p.byJobName[label].count = q.byJobName[label].count + 1
        /\ \A l \in Labels \ {label} : p.byJobName[l] = q.byJobName[l]
        /\ Labels \subseteq DOMAIN p.byJobName /\ \A l \in Labels : "count" \in DOMAIN p.byJobName[l]
    BY <1>0, <1>1, <1>2 DEF MetricsShape
  <1>6. MetricsShape(p)
    BY <1>0, <1>1, <1>3, <1>5 DEF MetricsShape
  <1>7. QED
    BY <1>1, <1>4, <1>5, <1>6 DEF label

\* A job leaves its time bucket with the metrics.
LEMMA Bucketed ==
  ASSUME NEW q, MetricsShape(q), NEW jobName, NEW t, NEW duration, NEW success,
         NEW p, p = recordMetrics(q, jobName, t, duration, success)
  PROVE  p.recent = RecentAfter(q.recent, t)
  BY DEF MetricsShape, recordMetrics, RecentAfter

Larger(a, b) == IF a >= b THEN a ELSE b

\* A job leaves its duration with the metrics if it was the longest.
LEMMA Lengthened ==
  ASSUME NEW q, MetricsShape(q), q.maxDuration \in Nat, NEW jobName, NEW t, NEW duration \in Nat, NEW success,
         NEW p, p = recordMetrics(q, jobName, t, duration, success)
  PROVE  p.maxDuration = Larger(q.maxDuration, duration)
  <1>1. p.maxDuration = Max({q.maxDuration, duration})
    BY DEF MetricsShape, recordMetrics
  <1>2. QED
    BY <1>1, TwoMax DEF Larger

\* The collectors count what they counted; a sample is pruned at most.
SameCounters ==
  /\ DOMAIN coll' = Handles
  /\ \A h \in Handles :
       /\ CollectorShape(coll'[h])
       /\ coll'[h].totals = coll[h].totals /\ coll'[h].byName = coll[h].byName
       /\ coll'[h].samples \in {coll[h].samples, Since(coll[h].samples, now - 2 * WindowMs)}

\* A collector that prunes, or stops its timer, counts what it counted.
LEMMA CollectorKept ==
  ASSUME NEW c, CollectorShape(c), NEW t, NEW d,
         d = c \/ d = Prune(c, t) \/ d = [c EXCEPT !.pruning = FALSE]
  PROVE  /\ CollectorShape(d) /\ d.totals = c.totals /\ d.byName = c.byName
         /\ d.samples = c.samples \/ (d = Prune(c, t) /\ d.samples = Since(c.samples, t - 2 * WindowMs))
  <1>1. /\ DOMAIN d = DOMAIN c /\ d.totals = c.totals /\ d.byName = c.byName
        /\ d.samples = c.samples \/ (d = Prune(c, t) /\ d.samples = Since(c.samples, t - 2 * WindowMs))
    BY DEF Prune, CollectorShape
  <1>2. QED
    BY <1>1 DEF CollectorShape

\* Closing leaves the counts alone.
LEMMA ClosingCounts ==
  ASSUME CollectorInv, NEW hs, NEW forced, Closing(hs, forced)
  PROVE  SameCounters /\ UNCHANGED <<kind, name, jobNameSet>>
  <1>1. /\ UNCHANGED <<kind, name, jobNameSet>> /\ DOMAIN coll' = Handles
        /\ \A h \in Handles : coll'[h] = IF h \in hs THEN [coll[h] EXCEPT !.pruning = FALSE] ELSE coll[h]
    BY DEF Closing
  <1>2. ASSUME NEW h \in Handles
        PROVE  /\ CollectorShape(coll'[h])
               /\ coll'[h].totals = coll[h].totals /\ coll'[h].byName = coll[h].byName
               /\ coll'[h].samples \in {coll[h].samples, Since(coll[h].samples, now - 2 * WindowMs)}
    <2>1. CollectorShape(coll[h])
      BY DEF CollectorInv
    <2>2. coll'[h] = coll[h] \/ coll'[h] = [coll[h] EXCEPT !.pruning = FALSE]
      BY <1>1
    <2>3. QED
      BY <2>1, <2>2, CollectorKept
  <1>3. QED
    BY <1>1, <1>2 DEF SameCounters

\* The life of the handles leaves the counts alone; a worker keeps its name.
LEMMA LifecycleCounts ==
  ASSUME HandleTypes, CollectorInv, Lifecycle
  PROVE  /\ SameCounters /\ UNCHANGED <<job, history, jobNameSet, otel, cleared, pushed>>
         /\ \A h \in Handles : kind[h] = "worker" => kind'[h] = "worker" /\ name'[h] = name[h]
  <1> USE DEF HandleTypes, Registry
  <1>1. DOMAIN coll = Handles /\ \A h \in Handles : CollectorShape(coll[h])
    BY DEF CollectorInv
  <1>2. ASSUME NEW h \in Handles, NEW n \in Names, createQueue(h, n) \/ createWorker(h, n)
        PROVE  /\ UNCHANGED <<job, history, statVars, otel, cleared, pushed>>
               /\ \A x \in Handles : kind[x] = "worker" => kind'[x] = "worker" /\ name'[x] = name[x]
    BY <1>2 DEF createQueue, createWorker, Created, MayCreate, jobVars, otelVars
  <1>3. ASSUME NEW n \in Names, closeQueue(n)
        PROVE  Closing({queues[n]}, FALSE) /\ UNCHANGED <<job, history, otel, cleared, pushed>>
    BY <1>3 DEF closeQueue, jobVars, otelVars
  <1>4. ASSUME NEW n \in Names, NEW forced \in BOOLEAN, closeWorker(n, forced)
        PROVE  Closing({workers[n]}, forced) /\ UNCHANGED <<job, history, otel, cleared, pushed>>
    BY <1>4 DEF closeWorker, jobVars, otelVars
  <1>5. ASSUME NEW h \in Handles, CloseSettles(h) \/ CloseFails(h) \/ NameForgotten(h)
        PROVE  UNCHANGED <<job, history, statVars, otel, cleared, pushed, kind, name>>
    BY <1>5 DEF CloseSettles, CloseFails, NameForgotten, jobVars, otelVars
  <1>6. ASSUME onModuleDestroy
        PROVE  Closing(Values(workers), FALSE) /\ UNCHANGED <<job, history, otel, cleared, pushed>>
    BY <1>6 DEF onModuleDestroy, jobVars, otelVars
  <1>7. ASSUME WorkersSettled
        PROVE  Closing(Values(queues), FALSE) /\ UNCHANGED <<job, history, otel, cleared, pushed>>
    BY <1>7 DEF WorkersSettled, jobVars, otelVars
  <1>8. ASSUME QueuesSettled
        PROVE  UNCHANGED <<job, history, statVars, otel, cleared, pushed, kind, name>>
    BY <1>8 DEF QueuesSettled, handleVars, jobVars, otelVars
  <1>9. UNCHANGED statVars => SameCounters /\ UNCHANGED jobNameSet
    BY <1>1 DEF statVars, SameCounters
  <1>10. QED
    BY <1>2, <1>3, <1>4, <1>5, <1>6, <1>7, <1>8, <1>9, ClosingCounts DEF Lifecycle

\* No job finishes.
NoneFinishes ==
  /\ \A i \in DOMAIN job :
       /\ i \in DOMAIN job'
       /\ job'[i].w = job[i].w /\ job'[i].name = job[i].name /\ job'[i].label = job[i].label
       /\ job'[i].start = job[i].start /\ job'[i].end = job[i].end /\ job'[i].ok = job[i].ok
       /\ job'[i].st \in Over <=> job[i].st \in Over
  /\ \A i \in DOMAIN job' : i \notin DOMAIN job => job'[i].st \notin Over

\* Workers keep their names.
NamesStay == \A h \in Handles : kind[h] = "worker" => kind'[h] = "worker" /\ name'[h] = name[h]

\* What a job is.
LEMMA JobTypes ==
  ASSUME JobInv, NEW i \in DOMAIN job
  PROVE  /\ job[i] \in JobRecords /\ job[i].w \in Handles /\ job[i].name \in JobNames
         /\ job[i].label \in Labels /\ job[i].start \in Nat /\ job[i].end \in Nat
  <1>1. job[i] \in JobRecords
    BY DEF JobInv
  <1>2. QED
    BY <1>1 DEF JobRecords

\* When no job finishes, the finished jobs and what is seen of them stay.
LEMMA SameJobs ==
  ASSUME JobInv, NamesInv, HistoryInv, NoneFinishes, NamesStay, UNCHANGED <<history, cleared>>
  PROVE  /\ \A h : Finished(h)' = Finished(h) /\ \A l : LabelJobs(h, l)' = LabelJobs(h, l)
         /\ \A n : SeenJobs(n)' = SeenJobs(n)
         /\ \A i \in DOMAIN job : job'[i].end = job[i].end /\ Duration(i)' = Duration(i)
  <1>1. \A i \in DOMAIN job : job[i].w \in Handles /\ kind[job[i].w] = "worker"
    BY JobTypes DEF NamesInv
  <1>2. \A h : Finished(h)' = Finished(h)
    BY DEF NoneFinishes, Finished, Over
  <1>3. \A h : \A l : LabelJobs(h, l)' = LabelJobs(h, l)
    BY <1>2 DEF NoneFinishes, Finished, LabelJobs
  <1>4. \A n : SeenJobs(n)' = SeenJobs(n)
    <2>1. \A h \in Handles : SinceClear(h)' = SinceClear(h) /\ \A i \in SinceClear(h) : job[i].w = h
      BY SinceClearIs DEF SinceClear
    <2>2. \A h \in Handles : \A i \in SinceClear(h) : name'[h] = name[h]
      BY <1>1, <2>1, SinceClearIs DEF NamesStay
    <2>3. QED
      BY <2>1, <2>2 DEF SeenJobs
  <1>5. \A i \in DOMAIN job : job'[i].end = job[i].end /\ Duration(i)' = Duration(i)
    BY DEF NoneFinishes, Duration
  <1>6. QED
    BY <1>2, <1>3, <1>4, <1>5

\* When no job finishes and nothing is cleared, the counts stand.
LEMMA SameCounts ==
  ASSUME JobInv, CountsInv, NoneFinishes, NamesStay, SameCounters,
         UNCHANGED <<history, otel, cleared, pushed>>
  PROVE  HistoryInv' /\ CollectorInv' /\ RegistryInv'
  <1>0. NamesInv /\ HistoryInv
    BY DEF CountsInv
  <1>1. /\ \A h : Finished(h)' = Finished(h) /\ \A l : LabelJobs(h, l)' = LabelJobs(h, l)
        /\ \A n : SeenJobs(n)' = SeenJobs(n)
        /\ \A i \in DOMAIN job : Duration(i)' = Duration(i)
    BY <1>0, SameJobs
  <1>2. \A h : OkJobs(h)' = OkJobs(h) /\ FailedJobs(h)' = FailedJobs(h)
    BY <1>1 DEF NoneFinishes, Finished, OkJobs, FailedJobs
  <1>3. HistoryInv'
    BY DEF CountsInv, HistoryInv, NoneFinishes
  <1>4. CollectorInv'
    BY <1>1, <1>2 DEF CountsInv, CollectorInv, SameCounters
  <1>5. \A n : \A i \in SeenJobs(n) : i \in DOMAIN job /\ job'[i].name = job[i].name
    BY <1>0, SeenIs DEF NoneFinishes
  <1>6. \A n : (\A l : NameJobs(n, l)' = NameJobs(n, l)) /\ \A b : ShortJobs(n, b)' = ShortJobs(n, b)
    BY <1>1, <1>5 DEF NameJobs, ShortJobs
  <1>7. RegistryInv'
    BY <1>1, <1>5, <1>6 DEF CountsInv, RegistryInv
  <1>8. QED
    BY <1>3, <1>4, <1>7

\* Jobs keep their labels while no name is added.
LEMMA SameNames ==
  ASSUME JobInv, NamesInv, NamesStay, UNCHANGED jobNameSet, DOMAIN job' = DOMAIN job,
         \A i \in DOMAIN job : job'[i].w = job[i].w /\ job'[i].name = job[i].name
                               /\ job'[i].label = job[i].label
  PROVE  NamesInv'
  <1>1. \A i \in DOMAIN job : job[i].w \in Handles
    BY JobTypes
  <1>2. QED
    BY <1>1 DEF NamesInv, NamesStay

\* A step of a job that is not its end.
LEMMA JobGoesOn ==
  ASSUME JobInv, NEW i \in DOMAIN job, ProcessorCalled(i) \/ ListenersSettled(i)
  PROVE  NoneFinishes /\ DOMAIN job' = DOMAIN job
  <1>1. PICK s \in {"running", "done"} :
          job' = [job EXCEPT ![i].st = s] /\ (s \in Over <=> job[i].st \in Over)
    BY DEF ProcessorCalled, ListenersSettled, Over
  <1>2. job[i] \in JobRecords
    BY DEF JobInv
  <1> DEFINE r == [job[i] EXCEPT !.st = s]
  <1>3. /\ r \in JobRecords /\ r.w = job[i].w /\ r.name = job[i].name /\ r.label = job[i].label
        /\ r.start = job[i].start /\ r.end = job[i].end /\ r.ok = job[i].ok /\ r.st = s
    BY <1>2 DEF JobRecords
  <1>4. job' = [job EXCEPT ![i] = r]
    BY <1>1
  <1> HIDE DEF r
  <1>5. DOMAIN job' = DOMAIN job /\ job'[i] = r /\ \A o \in DOMAIN job \ {i} : job'[o] = job[o]
    BY <1>3, <1>4, JobUpdate DEF JobInv
  <1>6. QED
    BY <1>1, <1>3, <1>5 DEF NoneFinishes

\* A job that is taken has not finished; its label is the one its name has now.
LEMMA TakeCounts ==
  ASSUME JobInv, NamesInv, NEW h \in Handles, NEW jobName \in JobNames, TakeJob(h, jobName)
  PROVE  NoneFinishes /\ NamesInv'
  <1> DEFINE new == [w |-> h, name |-> jobName, label |-> Label(jobNameSet[h], jobName),
                     st |-> "starting", start |-> now, end |-> now, ok |-> FALSE]
             k == Len(job) + 1
  <1>1. /\ job' = Append(job, new) /\ kind[h] = "worker" /\ UNCHANGED kind
        /\ jobNameSet' = [jobNameSet EXCEPT ![h] = Tracked(@, jobName)]
    BY DEF TakeJob, handleVars
  <1>2. new.w = h /\ new.name = jobName /\ new.label = Label(jobNameSet[h], jobName)
        /\ new.st = "starting"
    OBVIOUS
  <1> HIDE DEF new
  <1>3. /\ DOMAIN job = 1..Len(job) /\ DOMAIN job' = 1..k /\ k \in Nat /\ job'[k] = new
        /\ \A i \in DOMAIN job : job'[i] = job[i]
    BY <1>1 DEF JobInv
  <1>4. NoneFinishes
    BY <1>2, <1>3 DEF NoneFinishes, Over
  <1>5. /\ jobNameSet[h] \in SUBSET JobNames /\ IsFiniteSet(jobNameSet[h])
        /\ Cardinality(jobNameSet[h]) <= MaxJobNameEntries
        /\ MaxJobNameEntries \in Nat /\ Cardinality(jobNameSet[h]) \in Nat
    BY FS_CardinalityType, StatsAssumption DEF NamesInv
  <1>6. /\ jobNameSet' \in [Handles -> SUBSET JobNames]
        /\ jobNameSet'[h] = Tracked(jobNameSet[h], jobName)
        /\ \A o \in Handles \ {h} : jobNameSet'[o] = jobNameSet[o]
    BY <1>1, <1>5, TrackedNames DEF NamesInv
  <1>7. \A o \in Handles :
          IsFiniteSet(jobNameSet'[o]) /\ Cardinality(jobNameSet'[o]) <= MaxJobNameEntries
    BY <1>5, <1>6, TrackedNames DEF NamesInv
  <1>8. ASSUME NEW i \in DOMAIN job, job[i].w = h
        PROVE  /\ job[i].name \in jobNameSet'[h] => job[i].label = job[i].name
               /\ job[i].name \notin jobNameSet'[h] =>
                    job[i].label = Other /\ Cardinality(jobNameSet'[h]) >= MaxJobNameEntries
    <2>1. CASE jobNameSet'[h] = jobNameSet[h]
      BY <1>8, <2>1 DEF NamesInv
    <2>2. CASE jobNameSet'[h] # jobNameSet[h]
      <3>1. Cardinality(jobNameSet[h]) < MaxJobNameEntries /\ jobNameSet[h] \subseteq jobNameSet'[h]
        BY <1>5, <1>6, <2>2, TrackedNames
      <3>2. job[i].name \in jobNameSet[h] /\ job[i].label = job[i].name
        BY <1>5, <1>8, <3>1 DEF NamesInv
      <3>3. QED
        BY <3>1, <3>2
    <2>3. QED
      BY <2>1, <2>2
  <1>9. /\ jobName \in jobNameSet'[h] => new.label = jobName
        /\ jobName \notin jobNameSet'[h] =>
             new.label = Other /\ Cardinality(jobNameSet'[h]) >= MaxJobNameEntries
    BY <1>2, <1>5, <1>6, TrackedNames
  <1>10. ASSUME NEW i \in DOMAIN job'
         PROVE  /\ kind'[job'[i].w] = "worker"
                /\ job'[i].name \in jobNameSet'[job'[i].w] => job'[i].label = job'[i].name
                /\ job'[i].name \notin jobNameSet'[job'[i].w] =>
                     /\ job'[i].label = Other
                     /\ Cardinality(jobNameSet'[job'[i].w]) >= MaxJobNameEntries
    <2>1. CASE i = k
      BY <1>1, <1>2, <1>3, <1>9, <2>1
    <2>2. CASE i \in DOMAIN job /\ job[i].w = h
      BY <1>1, <1>3, <1>8, <2>2
    <2>3. CASE i \in DOMAIN job /\ job[i].w # h
      <3>1. job[i].w \in Handles
        BY <2>3, JobTypes
      <3>2. QED
        BY <1>1, <1>3, <1>6, <2>3, <3>1 DEF NamesInv
    <2>4. QED
      BY <1>3, <1>10, <2>1, <2>2, <2>3
  <1>11. QED
    BY <1>4, <1>6, <1>7, <1>10 DEF NamesInv

\* What the end of a job changes about the jobs.
LEMMA JobEnds ==
  ASSUME JobInv, HistoryInv, NEW i \in DOMAIN job, NEW success \in BOOLEAN, Finish(i, success)
  PROVE  /\ job[i].st = "running" /\ DOMAIN job' = DOMAIN job
         /\ \A o \in DOMAIN job :
              job'[o].w = job[o].w /\ job'[o].name = job[o].name /\ job'[o].label = job[o].label
              /\ job'[o].start = job[o].start
         /\ \A o \in DOMAIN job \ {i} : job'[o] = job[o]
         /\ job'[i].st \in Over /\ job'[i].end = now /\ job'[i].ok = success
         /\ history' = [history EXCEPT ![job[i].w] = Append(@, i)]
         /\ UNCHANGED <<name, cleared>>
         /\ \A h \in Handles :
              SinceClear(h)' = IF h = job[i].w THEN SinceClear(h) \cup {i} ELSE SinceClear(h)
  <1> DEFINE r == [job[i] EXCEPT !.st = "reporting", !.end = now, !.ok = success]
  <1>1. /\ job[i].st = "running" /\ job[i] \in JobRecords /\ UNCHANGED <<name, cleared>>
        /\ history' = [history EXCEPT ![job[i].w] = Append(@, i)]
        /\ job' = [job EXCEPT ![i].st = "reporting", ![i].end = now, ![i].ok = success]
    BY JobTypes DEF Finish, handleVars
  <1>2. /\ r \in JobRecords /\ r.w = job[i].w /\ r.name = job[i].name /\ r.label = job[i].label
        /\ r.start = job[i].start /\ r.end = now /\ r.ok = success /\ r.st = "reporting"
    BY <1>1 DEF JobRecords, JobInv
  <1>3. job' = [job EXCEPT ![i] = r]
    BY <1>1 DEF JobInv
  <1> HIDE DEF r
  <1>4. DOMAIN job' = DOMAIN job /\ job'[i] = r /\ \A o \in DOMAIN job \ {i} : job'[o] = job[o]
    BY <1>2, <1>3, JobUpdate DEF JobInv
  <1>5. ASSUME NEW h \in Handles
        PROVE  SinceClear(h)' = IF h = job[i].w THEN SinceClear(h) \cup {i} ELSE SinceClear(h)
    <2>1. /\ i \in Nat /\ history[h] \in Seq(Nat) /\ cleared[h] \in 0..Len(history[h])
      BY DEF JobInv, HistoryInv
    <2>2. CASE h # job[i].w
      <3>1. history'[h] = history[h]
        BY <1>1, <2>2 DEF HistoryInv
      <3>2. QED
        BY <1>1, <2>2, <3>1 DEF SinceClear
    <2>3. CASE h = job[i].w
      <3>1. history'[h] = Append(history[h], i)
        BY <1>1, <2>3 DEF HistoryInv
      <3>2. /\ Len(history'[h]) = Len(history[h]) + 1 /\ history'[h][Len(history[h]) + 1] = i
            /\ \A k \in 1..Len(history[h]) : history'[h][k] = history[h][k]
        BY <2>1, <3>1
      <3>3. cleared[h] + 1 .. Len(history'[h]) = (cleared[h] + 1 .. Len(history[h])) \cup {Len(history[h]) + 1}
        BY <2>1, <3>2
      <3>4. \A k \in cleared[h] + 1 .. Len(history[h]) : history'[h][k] = history[h][k]
        BY <2>1, <3>2
      <3>5. SinceClear(h)' = {history'[h][k] : k \in cleared[h] + 1 .. Len(history'[h])}
        BY <1>1 DEF SinceClear
      <3>6. ASSUME NEW o PROVE o \in SinceClear(h)' <=> o \in SinceClear(h) \/ o = i
        <4>1. o \in SinceClear(h) <=> \E k \in cleared[h] + 1 .. Len(history[h]) : history[h][k] = o
          BY DEF SinceClear
        <4>2. QED
          BY <3>2, <3>3, <3>4, <3>5, <4>1
      <3>7. QED
        BY <2>3, <3>6
    <2>4. QED
      BY <2>2, <2>3
  <1>6. QED
    BY <1>1, <1>2, <1>4, <1>5 DEF Over

\* A job that ends joins the finished jobs of its worker, under its label.
LEMMA JobsOver ==
  ASSUME JobInv, HistoryInv, NEW i \in DOMAIN job, NEW success \in BOOLEAN, Finish(i, success)
  PROVE  /\ \A h : i \notin Finished(h)
         /\ \A h, l : LabelJobs(h, l)' =
              IF h = job[i].w /\ l = job[i].label THEN LabelJobs(h, l) \cup {i} ELSE LabelJobs(h, l)
         /\ \A o \in DOMAIN job \ {i} : Duration(o)' = Duration(o) /\ job'[o].end = job[o].end
         /\ Duration(i)' = now - job[i].start /\ job'[i].end = now
  <1>1. /\ job[i].st = "running" /\ job'[i].st \in Over /\ DOMAIN job' = DOMAIN job
        /\ \A o \in DOMAIN job : job'[o].w = job[o].w /\ job'[o].label = job[o].label
        /\ \A o \in DOMAIN job \ {i} : job'[o] = job[o]
        /\ job'[i].end = now /\ job'[i].start = job[i].start
    BY JobEnds
  <1>2. \A h : i \notin Finished(h)
    BY <1>1 DEF Finished
  <1>3. \A h, o : o \in Finished(h)' <=> o \in Finished(h) \/ (o = i /\ h = job[i].w)
    BY <1>1 DEF Finished, Over
  <1>4. \A h, l, o : o \in LabelJobs(h, l) <=> o \in Finished(h) /\ job[o].label = l
    BY DEF LabelJobs
  <1>5. \A h, l, o : o \in LabelJobs(h, l)' <=> o \in Finished(h)' /\ job'[o].label = l
    BY DEF LabelJobs
  <1>6. \A h, o : o \in Finished(h) => o \in DOMAIN job
    BY DEF Finished
  <1>7. ASSUME NEW h, NEW l
        PROVE  LabelJobs(h, l)' =
                 IF h = job[i].w /\ l = job[i].label THEN LabelJobs(h, l) \cup {i} ELSE LabelJobs(h, l)
    <2>1. \A o : o \in LabelJobs(h, l)' <=>
                   o \in LabelJobs(h, l) \/ (o = i /\ h = job[i].w /\ l = job[i].label)
      BY <1>1, <1>3, <1>4, <1>5, <1>6
    <2>2. QED
      BY <2>1
  <1>8. \A o \in DOMAIN job \ {i} : Duration(o)' = Duration(o) /\ job'[o].end = job[o].end
    BY <1>1 DEF Duration
  <1>9. Duration(i)' = now - job[i].start
    BY <1>1 DEF Duration
  <1>10. QED
    BY <1>1, <1>2, <1>7, <1>8, <1>9

\* A job that ends is counted by the collector of its worker, once.
LEMMA FinishCollector ==
  ASSUME JobInv, HistoryInv, CollectorInv,
         NEW i \in DOMAIN job, NEW success \in BOOLEAN, Finish(i, success)
  PROVE  CollectorInv'
  <1>w. PICK h \in Handles : h = job[i].w
    BY JobTypes
  <1>l. PICK label \in Labels : label = job[i].label
    BY JobTypes
  <1>t. PICK time : time = now - job[i].start
    OBVIOUS
  <1>d. PICK d : d = Record(coll[h], label, now, time, success)
    OBVIOUS
  <1>1. /\ h \in Handles /\ label \in Labels
        /\ coll' = [coll EXCEPT ![h] = d]
    BY <1>w, <1>l, <1>t, <1>d DEF Finish
  <1>2. DOMAIN coll = Handles /\ CollectorShape(coll[h])
    BY <1>1 DEF CollectorInv
  <1>3. /\ CollectorShape(d) /\ d.totals.processed = coll[h].totals.processed + 1
        /\ d.totals.completed = coll[h].totals.completed + One(success)
        /\ d.totals.failed = coll[h].totals.failed + One(~success)
        /\ d.byName[label].processed = coll[h].byName[label].processed + 1
        /\ \A l \in Labels \ {label} : d.byName[l] = coll[h].byName[l]
    BY <1>1, <1>2, <1>d, Collected
  <1>4. DOMAIN coll' = Handles /\ coll'[h] = d /\ \A o \in Handles \ {h} : coll'[o] = coll[o]
    BY <1>1, <1>2
  <1>5. i \notin Finished(h) /\ Finished(h)' = Finished(h) \cup {i}
        /\ \A o : o # h => Finished(o)' = Finished(o)
    BY <1>w, JobEnds DEF Finished, Over
  <1>6. /\ OkJobs(h)' = IF success THEN OkJobs(h) \cup {i} ELSE OkJobs(h)
        /\ FailedJobs(h)' = IF ~success THEN FailedJobs(h) \cup {i} ELSE FailedJobs(h)
    <2>1. \A x \in Finished(h) : x \in DOMAIN job \ {i}
      BY <1>5 DEF Finished
    <2>2. QED
      BY <1>5, <2>1, JobEnds DEF OkJobs, FailedJobs
  <1>7. \A l : LabelJobs(h, l)' = IF l = label THEN LabelJobs(h, l) \cup {i} ELSE LabelJobs(h, l)
    BY <1>l, <1>w, JobsOver
  <1>8. ASSUME NEW o, o # h
        PROVE  OkJobs(o)' = OkJobs(o) /\ FailedJobs(o)' = FailedJobs(o)
               /\ \A l : LabelJobs(o, l)' = LabelJobs(o, l)
    <2>1. Finished(o)' = Finished(o)
      BY <1>5, <1>8
    <2>2. \A x \in Finished(o) : x \in DOMAIN job \ {i}
      BY <1>w, <1>8 DEF Finished
    <2>3. QED
      BY <2>1, <2>2, JobEnds DEF OkJobs, FailedJobs, LabelJobs
  <1>9. /\ Finished(h) \in SUBSET DOMAIN job
        /\ OkJobs(h) \in SUBSET DOMAIN job /\ FailedJobs(h) \in SUBSET DOMAIN job
        /\ \A l : LabelJobs(h, l) \in SUBSET DOMAIN job
        /\ i \notin OkJobs(h) /\ i \notin FailedJobs(h) /\ \A l : i \notin LabelJobs(h, l)
    BY <1>5 DEF Finished, OkJobs, FailedJobs, LabelJobs
  <1>10. Cardinality(Finished(h)') = Cardinality(Finished(h)) + 1
    BY <1>5, <1>9, JobsFinite, FS_AddElement DEF JobInv
  <1>11. /\ Cardinality(OkJobs(h)') = Cardinality(OkJobs(h)) + One(success)
         /\ Cardinality(FailedJobs(h)') = Cardinality(FailedJobs(h)) + One(~success)
    <2>1. IsFiniteSet(OkJobs(h)) /\ IsFiniteSet(FailedJobs(h))
      BY <1>9, JobsFinite DEF JobInv
    <2>2. Cardinality(OkJobs(h)') = Cardinality(OkJobs(h)) + One(success)
      BY <1>6, <1>9, <2>1, Grown
    <2>3. Cardinality(FailedJobs(h)') = Cardinality(FailedJobs(h)) + One(~success)
      BY <1>6, <1>9, <2>1, Grown
    <2>4. QED
      BY <2>2, <2>3
  <1>12. Cardinality(LabelJobs(h, label)') = Cardinality(LabelJobs(h, label)) + 1
    <2>1. IsFiniteSet(LabelJobs(h, label)) /\ i \notin LabelJobs(h, label)
          /\ LabelJobs(h, label)' = LabelJobs(h, label) \cup {i}
      BY <1>7, <1>9, JobsFinite DEF JobInv
    <2>2. QED
      BY <2>1, FS_AddElement
  <1>13. ASSUME NEW o \in Handles, o = h
         PROVE  /\ CollectorShape(coll'[o])
                /\ coll'[o].totals.processed = Cardinality(Finished(o)')
                /\ coll'[o].totals.completed = Cardinality(OkJobs(o)')
                /\ coll'[o].totals.failed = Cardinality(FailedJobs(o)')
                /\ \A l \in Labels : coll'[o].byName[l].processed = Cardinality(LabelJobs(o, l)')
    <2>1. /\ coll[h].totals.processed = Cardinality(Finished(h))
          /\ coll[h].totals.completed = Cardinality(OkJobs(h))
          /\ coll[h].totals.failed = Cardinality(FailedJobs(h))
          /\ \A l \in Labels : coll[h].byName[l].processed = Cardinality(LabelJobs(h, l))
      BY <1>1 DEF CollectorInv
    <2>2. ASSUME NEW l \in Labels PROVE d.byName[l].processed = Cardinality(LabelJobs(h, l)')
      BY <1>1, <1>3, <1>7, <1>12, <2>1
    <2>3. QED
      BY <1>3, <1>4, <1>10, <1>11, <1>13, <2>1, <2>2
  <1>14. ASSUME NEW o \in Handles, o # h
         PROVE  /\ CollectorShape(coll'[o])
                /\ coll'[o].totals.processed = Cardinality(Finished(o)')
                /\ coll'[o].totals.completed = Cardinality(OkJobs(o)')
                /\ coll'[o].totals.failed = Cardinality(FailedJobs(o)')
                /\ \A l \in Labels : coll'[o].byName[l].processed = Cardinality(LabelJobs(o, l)')
    BY <1>4, <1>5, <1>8, <1>14 DEF CollectorInv
  <1>15. QED
    BY <1>4, <1>13, <1>14 DEF CollectorInv

\* A job that ends is seen by the registry under the name of its queue.
LEMMA JobsSeen ==
  ASSUME JobInv, HistoryInv, NEW i \in DOMAIN job, NEW success \in BOOLEAN, Finish(i, success),
         job[i].w \in Handles, NEW n, n = name[job[i].w]
  PROVE  SeenJobs(n)' = SeenJobs(n) \cup {i} /\ \A m : m # n => SeenJobs(m)' = SeenJobs(m)
  <1>1. /\ UNCHANGED name
        /\ \A h \in Handles :
             SinceClear(h)' = IF h = job[i].w THEN SinceClear(h) \cup {i} ELSE SinceClear(h)
    BY JobEnds
  <1>2. ASSUME NEW m, m # n PROVE SeenJobs(m)' = SeenJobs(m)
    BY <1>1, <1>2 DEF SeenJobs
  <1>3. ASSUME NEW o PROVE o \in SeenJobs(n)' <=> o \in SeenJobs(n) \/ o = i
    <2>1. o \in SeenJobs(n)' <=> \E h \in Handles : name[h] = n /\ o \in SinceClear(h)'
      BY <1>1 DEF SeenJobs
    <2>2. o \in SeenJobs(n) <=> \E h \in Handles : name[h] = n /\ o \in SinceClear(h)
      BY DEF SeenJobs
    <2>3. QED
      BY <1>1, <2>1, <2>2
  <1>4. QED
    BY <1>2, <1>3

\* A job that ends is counted by the registry under the name of its queue, once.
LEMMA FinishRegistry ==
  ASSUME HandleTypes, JobInv, CountsInv,
         NEW i \in DOMAIN job, NEW success \in BOOLEAN, Finish(i, success)
  PROVE  RegistryInv'
  <1>w. job[i].w \in Handles /\ kind[job[i].w] = "worker"
    BY JobTypes DEF CountsInv, NamesInv
  <1>n. PICK n \in Names : n = name[job[i].w]
    BY <1>w DEF HandleTypes, Registry
  <1>j. PICK jn \in JobNames : jn = job[i].name
    BY JobTypes
  <1> DEFINE q == otel[n]
             label == Label(q.tracked, jn)
  <1>t. PICK time : time = now - job[i].start
    OBVIOUS
  <1>p. PICK p : p = recordMetrics(q, jn, now, time, success)
    OBVIOUS
  <1>1. /\ n \in Names /\ jn \in JobNames /\ DOMAIN otel = Names /\ MetricsShape(q)
        /\ otel' = [otel EXCEPT ![n] = p] /\ UNCHANGED <<name, cleared, pushed>>
    <2>1. otel' = [otel EXCEPT ![n] = p] /\ UNCHANGED <<name, cleared, pushed>>
      BY <1>n, <1>j, <1>t, <1>p DEF Finish, handleVars
    <2>2. QED
      BY <2>1 DEF CountsInv, RegistryInv
  <1>2. /\ MetricsShape(p)
        /\ p.completed = q.completed + One(success) /\ p.failed = q.failed + One(~success)
        /\ p.durationCount = q.durationCount + 1
        /\ \A b \in Buckets : p.bucketCounts[b] = q.bucketCounts[b] + One(time <= b)
        /\ p.tracked = Tracked(q.tracked, jn)
        /\ p.byJobName[label].count = q.byJobName[label].count + 1
        /\ \A l \in Labels \ {label} : p.byJobName[l] = q.byJobName[l]
    BY <1>1, <1>p, Recorded
  <1>3. /\ q.tracked \subseteq p.tracked
        /\ \/ /\ label = jn /\ p.tracked = q.tracked \cup {jn}
              /\ jn \in q.tracked \/ Cardinality(q.tracked) < MaxJobNameEntries
           \/ /\ label = Other /\ p.tracked = q.tracked
              /\ jn \notin q.tracked /\ Cardinality(q.tracked) >= MaxJobNameEntries
    <2>1. /\ q.tracked \in SUBSET JobNames /\ IsFiniteSet(q.tracked)
          /\ Cardinality(q.tracked) <= MaxJobNameEntries
      BY <1>1 DEF MetricsShape
    <2>2. p.tracked = Tracked(q.tracked, jn)
      BY <1>2
    <2> HIDE DEF q
    <2>3. QED
      BY <2>1, <2>2, TrackedNames
  <1> HIDE DEF label
  <1>4. DOMAIN otel' = Names /\ otel'[n] = p /\ \A m \in Names \ {n} : otel'[m] = otel[m]
    BY <1>1
  <1>5. HistoryInv /\ i \notin SeenJobs(n)
    <2>1. job[i].st \notin Over
      BY JobEnds DEF Over, CountsInv
    <2>2. QED
      BY <2>1, SeenIs DEF CountsInv
  <1>6. SeenJobs(n)' = SeenJobs(n) \cup {i} /\ \A m : m # n => SeenJobs(m)' = SeenJobs(m)
    BY <1>w, <1>n, <1>5, JobsSeen
  <1>7. \A l : NameJobs(n, l)' = IF l = jn THEN NameJobs(n, l) \cup {i} ELSE NameJobs(n, l)
    <2>1. \A x \in SeenJobs(n)' : job'[x].name = job[x].name
      BY <1>5, <1>6, SeenIs, JobEnds
    <2>2. QED
      BY <1>j, <1>6, <2>1 DEF NameJobs
  <1>8. \A b : ShortJobs(n, b)' = IF time <= b THEN ShortJobs(n, b) \cup {i} ELSE ShortJobs(n, b)
    <2>1. \A x \in SeenJobs(n) : x \in DOMAIN job \ {i}
      BY <1>5, SeenIs
    <2>2. \A x \in SeenJobs(n) : job'[x] = job[x]
      BY <1>5, <2>1, JobEnds
    <2>3. job'[i].end = now /\ job'[i].start = job[i].start
      BY <1>5, JobEnds
    <2>4. QED
      BY <1>6, <1>t, <2>2, <2>3 DEF ShortJobs, Duration
  <1>9. ASSUME NEW m, m # n
        PROVE  (\A l : NameJobs(m, l)' = NameJobs(m, l)) /\ \A b : ShortJobs(m, b)' = ShortJobs(m, b)
    <2>0. job[i].st \notin Over
      BY <1>5, JobEnds DEF Over
    <2>1. SeenJobs(m)' = SeenJobs(m) /\ \A x \in SeenJobs(m) : x \in DOMAIN job \ {i}
      BY <1>5, <1>6, <1>9, <2>0, SeenIs
    <2>2. \A x \in SeenJobs(m) : job'[x] = job[x]
      BY <1>5, <2>1, JobEnds
    <2>3. QED
      BY <2>1, <2>2 DEF NameJobs, ShortJobs, Duration
  <1>10. /\ SeenJobs(n) \in SUBSET DOMAIN job /\ \A x : NameJobs(n, x) \in SUBSET DOMAIN job
                                                      /\ ShortJobs(n, x) \in SUBSET DOMAIN job
         /\ \A x : i \notin NameJobs(n, x) /\ i \notin ShortJobs(n, x)
    BY <1>5, SeenIs DEF NameJobs, ShortJobs
  <1>11. Cardinality(SeenJobs(n)') = Cardinality(SeenJobs(n)) + 1
    BY <1>5, <1>6, <1>10, JobsFinite, FS_AddElement DEF JobInv
  <1>12. Cardinality(NameJobs(n, jn)') = Cardinality(NameJobs(n, jn)) + 1
    <2>1. IsFiniteSet(NameJobs(n, jn)) /\ i \notin NameJobs(n, jn)
          /\ NameJobs(n, jn)' = NameJobs(n, jn) \cup {i}
      BY <1>7, <1>10, JobsFinite DEF JobInv
    <2>2. QED
      BY <2>1, FS_AddElement
  <1>13. ASSUME NEW b \in Buckets
         PROVE  Cardinality(ShortJobs(n, b)') = Cardinality(ShortJobs(n, b)) + One(time <= b)
    <2>1. IsFiniteSet(ShortJobs(n, b)) /\ i \notin ShortJobs(n, b)
          /\ Cardinality(ShortJobs(n, b)) \in Nat
      BY <1>10, JobsFinite, FS_CardinalityType DEF JobInv
    <2>2. CASE time <= b
      BY <1>8, <2>1, <2>2, FS_AddElement DEF One
    <2>3. CASE ~(time <= b)
      BY <1>8, <2>1, <2>3 DEF One
    <2>4. QED
      BY <2>2, <2>3
  <1>old. /\ q.durationCount = Cardinality(SeenJobs(n))
          /\ ~pushed => q.completed + q.failed = Cardinality(SeenJobs(n))
          /\ \A b \in Buckets : q.bucketCounts[b] = Cardinality(ShortJobs(n, b))
          /\ \A l \in JobNames :
               q.byJobName[l].count = IF l \in q.tracked THEN Cardinality(NameJobs(n, l)) ELSE 0
          /\ \A x \in SeenJobs(n) :
               job[x].name \in q.tracked \/ Cardinality(q.tracked) >= MaxJobNameEntries
    BY <1>1 DEF CountsInv, RegistryInv
  <1>14. ~pushed => p.completed + p.failed = Cardinality(SeenJobs(n)')
    <2>1. One(success) + One(~success) = 1 /\ One(success) \in Nat /\ One(~success) \in Nat
      BY DEF One
    <2>2. q.completed \in Nat /\ q.failed \in Nat
      BY <1>1 DEF MetricsShape
    <2>3. QED
      BY <1>2, <1>11, <1>old, <2>1, <2>2
  <1>cards. Cardinality(q.tracked) \in Nat /\ MaxJobNameEntries \in Nat
    BY <1>1, FS_CardinalityType, StatsAssumption DEF MetricsShape
  <1>15. ASSUME NEW l \in JobNames
         PROVE  p.byJobName[l].count = IF l \in p.tracked THEN Cardinality(NameJobs(n, l)') ELSE 0
    <2>1. l \in Labels /\ l # Other /\ jn # Other
      BY <1>1, StatsAssumption DEF Labels
    <2>2. CASE l # jn
      BY <1>2, <1>3, <1>7, <1>old, <2>1, <2>2
    <2>3. CASE l = jn /\ label = Other
      BY <1>2, <1>3, <1>old, <2>1, <2>3
    <2>4. CASE l = jn /\ label = jn /\ jn \in q.tracked
      BY <1>2, <1>3, <1>12, <1>old, <2>4
    <2>5. CASE l = jn /\ label = jn /\ jn \notin q.tracked
      <3>1. Cardinality(q.tracked) < MaxJobNameEntries
        BY <1>1, <1>3, <2>1, <2>5
      <3>2. NameJobs(n, jn) = {}
        BY <1>cards, <1>old, <2>5, <3>1 DEF NameJobs
      <3>3. Cardinality(NameJobs(n, jn)') = 1
        BY <1>12, <3>2, FS_EmptySet
      <3>4. p.byJobName[jn].count = 1
        BY <1>2, <1>old, <2>5
      <3>5. QED
        BY <1>3, <2>1, <2>5, <3>3, <3>4
    <2>6. QED
      BY <1>3, <2>2, <2>3, <2>4, <2>5
  <1>16. ASSUME NEW x \in SeenJobs(n)'
         PROVE  job'[x].name \in p.tracked \/ Cardinality(p.tracked) >= MaxJobNameEntries
    <2>1. job'[x].name = job[x].name /\ (x \in SeenJobs(n) \/ x = i)
      BY <1>5, <1>6, <1>16, SeenIs, JobEnds
    <2>2. CASE p.tracked = q.tracked
      BY <1>j, <1>3, <1>old, <2>1, <2>2
    <2>3. CASE p.tracked # q.tracked
      <3>1. p.tracked = q.tracked \cup {jn} /\ Cardinality(q.tracked) < MaxJobNameEntries
        BY <1>3, <2>3
      <3>2. ~(Cardinality(q.tracked) >= MaxJobNameEntries)
        BY <1>cards, <3>1
      <3>3. \A y \in SeenJobs(n) : job[y].name \in q.tracked
        BY <1>old, <3>2
      <3>4. QED
        BY <1>j, <2>1, <3>1, <3>3
    <2>4. QED
      BY <2>2, <2>3
  <1>17. ASSUME NEW m \in Names
         PROVE  /\ MetricsShape(otel'[m]) /\ otel'[m].durationCount = Cardinality(SeenJobs(m)')
                /\ ~pushed => otel'[m].completed + otel'[m].failed = Cardinality(SeenJobs(m)')
                /\ \A b \in Buckets : otel'[m].bucketCounts[b] = Cardinality(ShortJobs(m, b)')
                /\ \A l \in JobNames : otel'[m].byJobName[l].count =
                     IF l \in otel'[m].tracked THEN Cardinality(NameJobs(m, l)') ELSE 0
                /\ \A x \in SeenJobs(m)' :
                     job'[x].name \in otel'[m].tracked \/ Cardinality(otel'[m].tracked) >= MaxJobNameEntries
    <2>1. CASE m = n
      BY <1>2, <1>4, <1>11, <1>13, <1>14, <1>15, <1>16, <1>old, <2>1
    <2>2. CASE m # n
      <3>1. otel'[m] = otel[m] /\ SeenJobs(m)' = SeenJobs(m)
            /\ (\A l : NameJobs(m, l)' = NameJobs(m, l)) /\ \A b : ShortJobs(m, b)' = ShortJobs(m, b)
        BY <1>4, <1>6, <1>9, <2>2
      <3>2. \A x \in SeenJobs(m) : job'[x].name = job[x].name
        BY <1>5, SeenIs, JobEnds
      <3>3. QED
        BY <3>1, <3>2 DEF CountsInv, RegistryInv
    <2>3. QED
      BY <2>1, <2>2
  <1>18. QED
    BY <1>1, <1>4, <1>17 DEF RegistryInv

\* A push of queue counts touches neither the durations nor the names.
LEMMA PushCounts ==
  ASSUME RegistryInv, NEW n \in Names, updateQueueCounts(n)
  PROVE  /\ RegistryInv'
         /\ \A m \in Names : otel'[m].recent = otel[m].recent /\ otel'[m].maxDuration = otel[m].maxDuration
  <1>1. /\ pushed' = TRUE /\ UNCHANGED <<name, job, history, cleared>>
        /\ \E waiting \in WaitingCounts, kept \in BOOLEAN :
             otel' = [otel EXCEPT ![n] = assignCounts(@,
               [waiting |-> waiting, active |-> 0, delayed |-> 0,
                completed |-> IF kept THEN @.completed ELSE 0, failed |-> @.failed])]
    BY DEF updateQueueCounts, handleVars, jobVars
  <1>2. DOMAIN otel = Names /\ MetricsShape(otel[n])
    BY DEF RegistryInv
  <1> DEFINE q == otel[n]
             p == otel'[n]
  <1>3. /\ p.completed \in {q.completed, 0} /\ p.failed = q.failed /\ p.waiting \in Nat
        /\ DOMAIN p = DOMAIN q
        /\ p.durationCount = q.durationCount /\ p.bucketCounts = q.bucketCounts
        /\ p.tracked = q.tracked /\ p.byJobName = q.byJobName
        /\ p.recent = q.recent /\ p.maxDuration = q.maxDuration
    BY <1>1, <1>2, WorkersAssumption DEF assignCounts, MetricsShape
  <1>4. DOMAIN otel' = Names /\ \A m \in Names \ {n} : otel'[m] = otel[m]
    BY <1>1, <1>2
  <1>5. MetricsShape(p)
    BY <1>2, <1>3 DEF MetricsShape
  <1>6. \A m : SeenJobs(m)' = SeenJobs(m) /\ (\A l : NameJobs(m, l)' = NameJobs(m, l))
               /\ \A b : ShortJobs(m, b)' = ShortJobs(m, b)
    BY <1>1 DEF SeenJobs, SinceClear, NameJobs, ShortJobs, Duration
  <1> HIDE DEF p, q
  <1>7. QED
    BY <1>1, <1>3, <1>4, <1>5, <1>6 DEF RegistryInv, p, q

\* What touches neither the jobs nor the collectors leaves their counts alone.
LEMMA CollectorStays ==
  ASSUME CollectorInv, UNCHANGED <<job, coll>>
  PROVE  CollectorInv'
  <1>1. \A h : Finished(h)' = Finished(h) /\ OkJobs(h)' = OkJobs(h) /\ FailedJobs(h)' = FailedJobs(h)
               /\ \A l : LabelJobs(h, l)' = LabelJobs(h, l)
    BY DEF Finished, OkJobs, FailedJobs, LabelJobs
  <1>2. QED
    BY <1>1 DEF CollectorInv

\* A registry that is cleared has seen nothing.
LEMMA ClearCounts ==
  ASSUME HistoryInv, clearMetrics
  PROVE  HistoryInv' /\ RegistryInv' /\ \A n : SeenJobs(n)' = {}
  <1>1. /\ otel' = [n \in Names |-> EmptyMetrics] /\ cleared' = [h \in Handles |-> Len(history[h])]
        /\ UNCHANGED <<job, history>>
    BY DEF clearMetrics, jobVars
  <1>2. \A h \in Handles : history[h] \in Seq(Nat) /\ Len(history[h]) \in Nat
    BY DEF HistoryInv
  <1>3. HistoryInv'
    BY <1>1, <1>2 DEF HistoryInv
  <1>4. \A n : SeenJobs(n)' = {}
    <2>1. \A h \in Handles : SinceClear(h)' = {}
      BY <1>1, <1>2 DEF SinceClear
    <2>2. QED
      BY <2>1 DEF SeenJobs
  <1>5. \A n : \A x : NameJobs(n, x)' = {} /\ ShortJobs(n, x)' = {}
    BY <1>4 DEF NameJobs, ShortJobs
  <1>6. IsFiniteSet({}) /\ Cardinality({}) = 0 /\ MaxJobNameEntries \in Nat /\ JobNames \subseteq Labels
    BY FS_EmptySet, StatsAssumption DEF Labels
  <1>7. MetricsShape(EmptyMetrics) /\ EmptyMetrics.tracked = {} /\ EmptyMetrics.durationCount = 0
        /\ EmptyMetrics.completed = 0 /\ EmptyMetrics.failed = 0
        /\ (\A b \in Buckets : EmptyMetrics.bucketCounts[b] = 0)
        /\ \A l \in Labels : EmptyMetrics.byJobName[l].count = 0
    BY <1>6 DEF MetricsShape, EmptyMetrics
  <1>8. DOMAIN otel' = Names /\ \A n \in Names : otel'[n] = EmptyMetrics
    BY <1>1
  <1>9. ASSUME NEW n \in Names
        PROVE  /\ MetricsShape(otel'[n]) /\ otel'[n].durationCount = Cardinality(SeenJobs(n)')
               /\ otel'[n].completed + otel'[n].failed = Cardinality(SeenJobs(n)')
               /\ \A b \in Buckets : otel'[n].bucketCounts[b] = Cardinality(ShortJobs(n, b)')
               /\ \A l \in JobNames : otel'[n].byJobName[l].count = 0 /\ l \notin otel'[n].tracked
    BY <1>4, <1>5, <1>6, <1>7, <1>8, SMTT(60)
  <1>10. RegistryInv'
    BY <1>4, <1>8, <1>9 DEF RegistryInv
  <1>11. QED
    BY <1>3, <1>4, <1>10

\* Every step preserves the counts.
LEMMA CountsNext == HandleTypes /\ JobInv /\ CountsInv /\ [Next]_vars => CountsInv'
  <1> SUFFICES ASSUME HandleTypes, JobInv, CountsInv, [Next]_vars PROVE CountsInv'
    OBVIOUS
  <1>0. NamesInv /\ HistoryInv /\ CollectorInv /\ RegistryInv
    BY DEF CountsInv
  <1> DEFINE Still == UNCHANGED <<job, history, jobNameSet, otel, cleared, pushed>>
  <1>1. UNCHANGED job => NoneFinishes
    BY DEF NoneFinishes
  <1>2. UNCHANGED <<kind, name>> => NamesStay
    BY DEF NamesStay
  <1>3. UNCHANGED coll => SameCounters
    BY <1>0 DEF CollectorInv, SameCounters
  <1>4. ASSUME Still, NamesStay, SameCounters PROVE CountsInv'
    BY <1>0, <1>1, <1>4, SameCounts, SameNames DEF CountsInv
  <1>5. ASSUME Lifecycle PROVE CountsInv'
    BY <1>0, <1>4, <1>5, LifecycleCounts DEF NamesStay
  <1>6. ASSUME Controls \/ Tick \/ UNCHANGED vars PROVE CountsInv'
    <2>1. Still /\ UNCHANGED <<kind, name, coll>>
      BY <1>6 DEF Controls, pauseWorker, PauseSettles, resumeWorker, Tick, vars,
                  handleVars, jobVars, statVars, otelVars
    <2>2. QED
      BY <1>2, <1>3, <1>4, <2>1
  <1>7. ASSUME NEW h \in Handles, NEW jobName \in JobNames, TakeJob(h, jobName) PROVE CountsInv'
    <2>1. UNCHANGED <<kind, name, coll, history, otel, cleared, pushed>>
      BY <1>7 DEF TakeJob, handleVars, otelVars
    <2>2. QED
      BY <1>0, <1>2, <1>3, <1>7, <2>1, TakeCounts, SameCounts DEF CountsInv
  <1>8. ASSUME NEW i \in DOMAIN job, ProcessorCalled(i) \/ ListenersSettled(i) PROVE CountsInv'
    <2>1. UNCHANGED <<kind, name, coll, jobNameSet, history, otel, cleared, pushed>>
      BY <1>8 DEF ProcessorCalled, ListenersSettled, handleVars, statVars, otelVars
    <2>2. NoneFinishes /\ DOMAIN job' = DOMAIN job
      BY <1>8, JobGoesOn
    <2>3. NamesInv'
      BY <1>0, <1>2, <2>1, <2>2, SameNames DEF NoneFinishes
    <2>4. QED
      BY <1>2, <1>3, <2>1, <2>2, <2>3, SameCounts DEF CountsInv
  <1>9. ASSUME NEW i \in DOMAIN job, NEW success \in BOOLEAN, Finish(i, success) PROVE CountsInv'
    <2>1. UNCHANGED <<kind, name, jobNameSet, cleared>>
      BY <1>9 DEF Finish, handleVars
    <2>2. NamesInv'
      BY <1>0, <1>2, <1>9, <2>1, JobEnds, SameNames
    <2>3. HistoryInv'
      <3>1. /\ history' = [history EXCEPT ![job[i].w] = Append(@, i)] /\ job[i].w \in Handles
            /\ i \in DOMAIN job' /\ job'[i].st \in Over /\ i \in Nat
        BY <1>0, <1>9, JobEnds, JobTypes DEF JobInv
      <3>2. \A o \in DOMAIN job :
              o \in DOMAIN job' /\ job'[o].w = job[o].w /\ (job[o].st \in Over => job'[o].st \in Over)
        BY <1>0, <1>9, JobEnds
      <3>3. ASSUME NEW h \in Handles
            PROVE  /\ history'[h] \in Seq(Nat) /\ cleared[h] <= Len(history'[h])
                   /\ \A k \in DOMAIN history'[h] :
                        \/ k \in DOMAIN history[h] /\ history'[h][k] = history[h][k]
                        \/ history'[h][k] = i /\ h = job[i].w
        <4>1. history[h] \in Seq(Nat) /\ cleared[h] \in Nat /\ cleared[h] <= Len(history[h])
          BY <1>0 DEF HistoryInv
        <4>2. history'[h] = IF h = job[i].w THEN Append(history[h], i) ELSE history[h]
          BY <1>0, <3>1 DEF HistoryInv
        <4>3. CASE h = job[i].w
          <5>1. history'[h] = Append(history[h], i)
            BY <4>2, <4>3
          <5>2. /\ history'[h] \in Seq(Nat) /\ Len(history'[h]) = Len(history[h]) + 1
                /\ \A k \in 1..Len(history[h]) : history'[h][k] = history[h][k]
                /\ history'[h][Len(history[h]) + 1] = i
            BY <3>1, <4>1, <5>1
          <5>3. DOMAIN history'[h] = 1..Len(history[h]) + 1 /\ DOMAIN history[h] = 1..Len(history[h])
            BY <4>1, <5>2
          <5>4. QED
            BY <3>1, <4>1, <4>3, <5>2, <5>3
        <4>4. CASE h # job[i].w
          BY <4>1, <4>2, <4>4
        <4>5. QED
          BY <4>3, <4>4
      <3>4. history' \in [Handles -> Seq(Nat)]
        BY <1>0, <3>1, <3>3 DEF HistoryInv
      <3>5. ASSUME NEW h \in Handles, NEW k \in DOMAIN history'[h]
            PROVE  LET o == history'[h][k] IN o \in DOMAIN job' /\ job'[o].w = h /\ job'[o].st \in Over
        <4>1. CASE k \in DOMAIN history[h] /\ history'[h][k] = history[h][k]
          BY <1>0, <3>2, <4>1 DEF HistoryInv
        <4>2. CASE history'[h][k] = i /\ h = job[i].w
          BY <3>1, <3>2, <4>2
        <4>3. QED
          BY <3>3, <4>1, <4>2
      <3>6. QED
        BY <1>0, <2>1, <3>3, <3>4, <3>5 DEF HistoryInv
    <2>4. QED
      BY <1>0, <1>9, <2>2, <2>3, FinishCollector, FinishRegistry DEF CountsInv
  <1>10. ASSUME NEW h \in Handles, PruneTimer(h) PROVE CountsInv'
    <2>1. Still /\ UNCHANGED <<kind, name>> /\ coll' = [coll EXCEPT ![h] = Prune(@, now)]
      BY <1>10 DEF PruneTimer, handleVars, jobVars, otelVars
    <2>2. SameCounters
      BY <1>0, <2>1, CollectorKept DEF CollectorInv, SameCounters
    <2>3. QED
      BY <1>2, <1>4, <2>1, <2>2
  <1>11. ASSUME NEW n \in Names, updateQueueCounts(n) PROVE CountsInv'
    <2>1. UNCHANGED <<kind, name, coll, job, jobNameSet, history, cleared>>
      BY <1>11 DEF updateQueueCounts, handleVars, jobVars, statVars
    <2>2. NamesInv' /\ HistoryInv'
      BY <1>0, <2>1 DEF NamesInv, HistoryInv
    <2>3. CollectorInv'
      BY <1>0, <2>1, CollectorStays
    <2>4. QED
      BY <1>0, <1>11, <2>2, <2>3, PushCounts DEF CountsInv
  <1>12. ASSUME clearMetrics PROVE CountsInv'
    <2>1. UNCHANGED <<kind, name, coll, job, jobNameSet>>
      BY <1>12 DEF clearMetrics, handleVars, jobVars, statVars
    <2>2. NamesInv'
      BY <1>0, <2>1 DEF NamesInv
    <2>3. CollectorInv'
      BY <1>0, <2>1, CollectorStays
    <2>4. QED
      BY <1>0, <1>12, <2>2, <2>3, ClearCounts DEF CountsInv
  <1>13. QED
    BY <1>5, <1>6, <1>7, <1>8, <1>9, <1>10, <1>11, <1>12 DEF Next, JobStep, Metrics

------------------------------------------------------------------------------
(* Sums, largest values and percentiles *)

\* The pairs under the graph of a function.
Under(f) == UNION {{x} \X (1 .. f[x]) : x \in DOMAIN f}

\* A pair is under the graph if its number is not above the value.
LEMMA UnderIs ==
  ASSUME NEW f, NEW S, S = DOMAIN f, NEW z
  PROVE  z \in Under(f) <=> \E x \in S : \E k \in 1 .. f[x] : z = <<x, k>>
  BY DEF Under

\* The pairs under a bounded function with a finite domain are finitely many.
LEMMA UnderFinite ==
  ASSUME NEW S, IsFiniteSet(S), NEW M \in Nat, NEW f \in [S -> 0..M]
  PROVE  IsFiniteSet(Under(f))
  <1>1. IsFiniteSet(S \X (1..M))
    <2>1. IsFiniteSet(1..M)
      BY FS_Interval
    <2>2. QED
      BY <2>1, FS_Product, Zenon
  <1>2. Under(f) \in SUBSET (S \X (1..M))
    <2>1. \A x \in S : \A k \in 1..f[x] : <<x, k>> \in S \X (1..M)
      OBVIOUS
    <2>2. QED
      BY <2>1, UnderIs
  <1>3. QED
    BY <1>1, <1>2, FS_Subset

\* g is f and another value v, at x; both are bounded by M.
Extends(g, f, S, x, v, M) ==
  /\ M \in Nat /\ f \in [S -> 0..M] /\ v \in 0..M /\ x \notin S
  /\ DOMAIN g = S \cup {x} /\ g[x] = v /\ \A y \in S : g[y] = f[y]

\* A function with another value has a larger sum.
LEMMA SumPut ==
  ASSUME NEW S, IsFiniteSet(S), NEW x, NEW M, NEW f, NEW v, NEW g, Extends(g, f, S, x, v, M)
  PROVE  SumOf(g) = SumOf(f) + v
  <1>0. /\ M \in Nat /\ f \in [S -> 0..M] /\ v \in 0..M /\ x \notin S
        /\ DOMAIN g = S \cup {x} /\ g[x] = v /\ \A y \in S : g[y] = f[y]
    BY DEF Extends
  <1> DEFINE A == {x} \X (1..v)
  <1>1. IsFiniteSet(A) /\ Cardinality(A) = v
    <2>1. IsFiniteSet({x}) /\ Cardinality({x}) = 1
      BY FS_Singleton
    <2>2. IsFiniteSet(1..v) /\ Cardinality(1..v) = v
      BY <1>0, FS_Interval
    <2>3. IsFiniteSet(A) /\ Cardinality(A) = Cardinality({x}) * Cardinality(1..v)
      BY <2>1, <2>2, FS_Product, Zenon
    <2> HIDE DEF A
    <2>4. QED
      BY <1>0, <2>1, <2>2, <2>3
  <1>2. Under(g) = Under(f) \cup A
    <2>1. \A z : z \in A <=> \E k \in 1..v : z = <<x, k>>
      OBVIOUS
    <2>2. ASSUME NEW z PROVE z \in Under(g) <=> z \in Under(f) \/ z \in A
      <3>0. DOMAIN g = S \cup {x} /\ DOMAIN f = S
        BY <1>0
      <3>1. z \in Under(g) <=> \E y \in S \cup {x} : \E k \in 1..g[y] : z = <<y, k>>
        <4>1. PICK D : D = S \cup {x}
          OBVIOUS
        <4>2. z \in Under(g) <=> \E y \in D : \E k \in 1..g[y] : z = <<y, k>>
          BY <3>0, <4>1, UnderIs
        <4>3. QED
          BY <4>1, <4>2
      <3>2. z \in Under(f) <=> \E y \in S : \E k \in 1..f[y] : z = <<y, k>>
        BY <3>0, UnderIs
      <3>3. g[x] = v /\ \A y \in S : g[y] = f[y]
        BY <1>0
      <3>4. QED
        BY <2>1, <3>1, <3>2, <3>3
    <2>3. QED
      BY <2>2
  <1>3. Under(f) \cap A = {}
    BY <1>0, UnderIs
  <1>4. IsFiniteSet(Under(f))
    BY <1>0, UnderFinite
  <1> HIDE DEF A
  <1>5. Cardinality(Under(g)) = Cardinality(Under(f)) + Cardinality(A) - Cardinality(Under(f) \cap A)
    BY <1>1, <1>2, <1>4, FS_Union
  <1>6. Cardinality(Under(f)) \in Nat /\ Cardinality({}) = 0
    BY <1>4, FS_CardinalityType, FS_EmptySet
  <1>7. SumOf(g) = Cardinality(Under(g)) /\ SumOf(f) = Cardinality(Under(f))
    BY DEF SumOf, Under
  <1>8. Cardinality(Under(f) \cap A) = 0
    BY <1>3, <1>6
  <1>9. QED
    BY <1>0, <1>1, <1>5, <1>6, <1>7, <1>8

\* How many elements have a mark in D: the sum over D of how many have each mark.
LEMMA SumFibres ==
  ASSUME NEW S, IsFiniteSet(S), NEW b, NEW D,
         NEW f, f = [t \in D |-> Cardinality({i \in S : b[i] = t})]
  PROVE  SumOf(f) = Cardinality({i \in S : b[i] \in D})
  <1> DEFINE F(t) == {i \in S : b[i] = t}
             T == {i \in S : b[i] \in D}
             g == [t \in D |-> CHOOSE e : e \in Bijection(1..f[t], F(t))]
             phi == [z \in Under(f) |-> g[z[1]][z[2]]]
  <1>1. ASSUME NEW t \in D PROVE f[t] \in Nat /\ g[t] \in Bijection(1..f[t], F(t))
    <2>1. IsFiniteSet(F(t))
      BY FS_Subset
    <2>2. f[t] = Cardinality(F(t)) /\ f[t] \in Nat /\ ExistsBijection(1..f[t], F(t))
      BY <2>1, FS_CardinalityType
    <2>3. QED
      BY <2>2 DEF ExistsBijection
  <1>2. IsFiniteSet(T)
    BY FS_Subset
  <1>3. ASSUME NEW t \in D, NEW k \in 1..f[t]
        PROVE  /\ <<t, k>> \in Under(f) /\ phi[<<t, k>>] = g[t][k]
               /\ g[t][k] \in S /\ b[g[t][k]] = t /\ g[t][k] \in T
    <2>1. <<t, k>> \in Under(f)
      BY UnderIs
    <2>2. g[t][k] \in F(t)
      BY <1>1 DEF Bijection, Injection
    <2>3. QED
      BY <2>1, <2>2
  <1>4. \A z \in Under(f) : \E t \in D : \E k \in 1..f[t] : z = <<t, k>>
    BY UnderIs
  <1>d. DOMAIN phi = Under(f) /\ phi = [z \in Under(f) |-> phi[z]]
    OBVIOUS
  <1> HIDE DEF phi, g
  <1>5. phi \in [Under(f) -> T]
    <2>1. ASSUME NEW z \in Under(f) PROVE phi[z] \in T
      <3>1. PICK t \in D : \E k \in 1..f[t] : z = <<t, k>>
        BY <1>4
      <3>2. PICK k \in 1..f[t] : z = <<t, k>>
        BY <3>1
      <3>3. phi[<<t, k>>] \in T
        <4>1. g[t][k] \in T /\ phi[<<t, k>>] = g[t][k]
          BY <1>3
        <4>2. QED
          BY <4>1
      <3>4. QED
        BY <3>2, <3>3
    <2>2. QED
      BY <1>d, <2>1
  <1>6. ASSUME NEW y \in Under(f), NEW z \in Under(f), phi[y] = phi[z] PROVE y = z
    <2>1. PICK t \in D : \E k \in 1..f[t] : y = <<t, k>>
      BY <1>4
    <2>2. PICK k \in 1..f[t] : y = <<t, k>>
      BY <2>1
    <2>3. PICK u \in D : \E m \in 1..f[u] : z = <<u, m>>
      BY <1>4
    <2>4. PICK m \in 1..f[u] : z = <<u, m>>
      BY <2>3
    <2>5. t = u /\ g[t][k] = g[t][m]
      BY <1>3, <1>6, <2>2, <2>4
    <2>6. k = m
      BY <1>1, <2>2, <2>4, <2>5 DEF Bijection, Injection, IsInjective
    <2>7. QED
      BY <2>2, <2>4, <2>5, <2>6
  <1>7. ASSUME NEW i \in T PROVE \E z \in Under(f) : phi[z] = i
    <2>1. b[i] \in D /\ i \in F(b[i])
      OBVIOUS
    <2>2. PICK k \in 1..f[b[i]] : g[b[i]][k] = i
      BY <1>1, <2>1 DEF Bijection, Surjection
    <2>3. <<b[i], k>> \in Under(f) /\ phi[<<b[i], k>>] = g[b[i]][k]
      BY <1>3, <2>1
    <2>4. QED
      BY <2>2, <2>3
  <1>8. phi \in Injection(Under(f), T) /\ phi \in Surjection(Under(f), T)
    BY <1>5, <1>6, <1>7 DEF Injection, Surjection, IsInjective
  <1>9. Cardinality(Under(f)) = Cardinality(T)
    BY <1>2, <1>8, FS_Injection
  <1>10. QED
    BY <1>9 DEF SumOf, Under

\* A set of natural numbers has a smallest one.
LEMMA SmallestOf ==
  ASSUME NEW S, S \subseteq Nat, S # {}
  PROVE  \E x \in S : \A y \in S : x <= y
  <1>1. PICK x \in S : \A y \in S : ~(<<y, x>> \in OpToRel(<, Nat))
    BY NatLessThanWellFounded, WFMin
  <1>2. \A y \in Nat, z \in Nat : y < z => <<y, z>> \in OpToRel(<, Nat)
    BY DEF OpToRel
  <1>3. \A y \in S : ~(y < x)
    BY <1>1, <1>2
  <1>4. QED
    BY <1>3

\* A bounded set of natural numbers has a largest one.
LEMMA LargestOf ==
  ASSUME NEW n \in Nat, NEW S, S \subseteq 0..n, S # {}
  PROVE  \E x \in S : \A y \in S : x >= y
  <1> DEFINE T == {m \in 0..n : n - m \in S}
  <1>1. T \subseteq Nat /\ T # {}
    <2>1. PICK x \in S : TRUE
      OBVIOUS
    <2>2. x \in 0..n /\ n - x \in 0..n /\ n - (n - x) = x
      BY <2>1
    <2>3. n - x \in T
      BY <2>1, <2>2
    <2>4. T \subseteq Nat
      OBVIOUS
    <2> HIDE DEF T
    <2>5. QED
      BY <2>3, <2>4
  <1>2. PICK t \in T : \A u \in T : t <= u
    BY <1>1, SmallestOf
  <1>3. ASSUME NEW y \in S PROVE n - t >= y
    <2>1. y \in 0..n /\ n - y \in 0..n /\ n - (n - y) = y
      BY <1>3
    <2>2. n - y \in T
      BY <1>3, <2>1
    <2>3. t <= n - y /\ t \in 0..n
      BY <1>2, <2>2
    <2>4. QED
      BY <2>1, <2>3
  <1>4. QED
    BY <1>2, <1>3

\* How many of the values are at most, or less than, v.
AtMost(values, v) == {k \in DOMAIN values : values[k] <= v}
Below(values, v) == {k \in DOMAIN values : values[k] < v}

\* The place of the percentile among the sorted values.
RankOf(n, p) == Max({1, (p * n + 99) \div 100})

\* A place is the nearest rank if it is the first that p percent of n reaches.
IsRank(r, n, p) == r \in 1..n /\ \A c \in Nat : 100 * c >= p * n <=> c >= r

\* The nearest rank lies between the first value and the last.
LEMMA RankIs ==
  ASSUME NEW n \in Nat \ {0}, NEW p \in {50, 95, 99}
  PROVE  IsRank(RankOf(n, p), n, p)
  <1> DEFINE x == p * n + 99
             r == x \div 100
  <1>1. x \in Nat /\ x >= 100 /\ x <= 100 * n + 99
    OBVIOUS
  <1>2. r \in Int /\ 100 * r <= x /\ x < 100 * r + 100
    <2> HIDE DEF x
    <2>1. QED
      BY <1>1
  <1>0. RankOf(n, p) = Max({1, r})
    BY DEF RankOf
  <1> HIDE DEF r
  <1>3. r >= 1 /\ r <= n
    BY <1>1, <1>2
  <1>4. RankOf(n, p) = r
    BY <1>0, <1>2, <1>3, TwoMax
  <1>5. ASSUME NEW c \in Nat PROVE 100 * c >= p * n <=> c >= RankOf(n, p)
    <2>1. 100 * c >= p * n <=> c >= r
      BY <1>2
    <2>2. QED
      BY <1>4, <2>1
  <1>6. RankOf(n, p) \in 1..n
    BY <1>2, <1>3, <1>4
  <1>7. QED
    BY <1>5, <1>6 DEF IsRank

\* calculatePercentile picks a value: as many as its rank are at most as large,
\* and fewer are smaller.
LEMMA PercentileIs ==
  ASSUME NEW S, IsFiniteSet(S), S # {}, NEW M \in Nat, NEW values \in [S -> 0..M], NEW p \in {50, 95, 99},
         NEW rank, rank = RankOf(Cardinality(S), p),
         NEW v, v = calculatePercentile(values, p)
  PROVE  /\ v \in 0..M
         /\ Cardinality(Below(values, v)) < rank /\ rank <= Cardinality(AtMost(values, v))
  <1>1. Cardinality(S) \in Nat \ {0}
    BY FS_CardinalityType, FS_EmptySet
  <1>2. rank \in 1..Cardinality(S)
    BY <1>1, RankIs DEF IsRank
  <1>3. ASSUME NEW u PROVE /\ IsFiniteSet(AtMost(values, u)) /\ Cardinality(AtMost(values, u)) \in Nat
                           /\ IsFiniteSet(Below(values, u)) /\ Cardinality(Below(values, u)) \in Nat
    <2>1. AtMost(values, u) \in SUBSET S /\ Below(values, u) \in SUBSET S
      BY DEF AtMost, Below
    <2>2. QED
      BY <2>1, FS_Subset, FS_CardinalityType
  <1> DEFINE R == Range(values)
             Enough == {u \in R : rank <= Cardinality(AtMost(values, u))}
  <1>4. R \subseteq 0..M /\ R # {} /\ \A k \in S : values[k] \in R
    BY DEF Range
  <1>5. Enough # {}
    <2>1. PICK top \in R : \A u \in R : top >= u
      BY <1>4, LargestOf
    <2>2. AtMost(values, top) = S
      BY <1>4, <2>1 DEF AtMost
    <2>3. Cardinality(AtMost(values, top)) = Cardinality(S) /\ rank <= Cardinality(S)
      BY <1>2, <2>2
    <2>4. top \in Enough
      BY <2>1, <2>3
    <2>5. QED
      BY <2>4
  <1>6. PICK w \in Enough : \A u \in Enough : w <= u
    <2>1. Enough \subseteq Nat
      BY <1>4
    <2> HIDE DEF Enough
    <2>2. QED
      BY <1>5, <2>1, SmallestOf
  <1>7. Cardinality(Below(values, w)) < rank
    <2> SUFFICES ASSUME rank <= Cardinality(Below(values, w)) PROVE FALSE
      BY <1>2, <1>3
    <2> DEFINE L == {values[k] : k \in Below(values, w)}
    <2>1. L \subseteq 0..M /\ L \subseteq R /\ \A u \in L : u < w
      BY <1>4 DEF Below
    <2>2. L # {}
      <3>1. Cardinality({}) = 0 /\ ~(rank <= 0)
        BY <1>2, FS_EmptySet
      <3>2. Below(values, w) # {}
        BY <3>1
      <3>3. PICK k : k \in Below(values, w)
        BY <3>2
      <3>4. values[k] \in L
        BY <3>3
      <3>5. QED
        BY <3>4
    <2>3. PICK u \in L : \A x \in L : u >= x
      <3> HIDE DEF L
      <3>1. QED
        BY <2>1, <2>2, LargestOf
    <2>4. Below(values, w) \in SUBSET AtMost(values, u)
      BY <2>3 DEF Below, AtMost
    <2>5. Cardinality(Below(values, w)) <= Cardinality(AtMost(values, u))
      BY <1>3, <2>4, FS_Subset
    <2>6. u \in Enough /\ u < w /\ w \in 0..M
      BY <1>2, <1>3, <1>4, <2>1, <2>3, <2>5
    <2>7. w <= u /\ u \in 0..M
      BY <1>4, <1>6, <2>6
    <2> HIDE DEF Enough, L
    <2>8. QED
      BY <2>6, <2>7
  <1>8. w \in R /\ rank <= Cardinality(AtMost(values, w))
    OBVIOUS
  <1>9. v = CHOOSE u \in R : Cardinality(Below(values, u)) < rank /\ rank <= Cardinality(AtMost(values, u))
    BY DEF calculatePercentile, RankOf, Below, AtMost
  <1> HIDE DEF R, Enough
  <1>10. QED
    BY <1>4, <1>7, <1>8, <1>9

\* A bucket that holds enough durations is one that is not below the percentile.
LEMMA BucketsAgree ==
  ASSUME NEW S, IsFiniteSet(S), S # {}, NEW M \in Nat, NEW values \in [S -> 0..M], NEW p \in {50, 95, 99},
         NEW b \in Nat
  PROVE  100 * Cardinality(AtMost(values, b)) >= p * Cardinality(S) <=> b >= calculatePercentile(values, p)
  <1>0. PICK rank : rank = RankOf(Cardinality(S), p)
    OBVIOUS
  <1>1. PICK v : v = calculatePercentile(values, p)
    OBVIOUS
  <1>2. /\ v \in 0..M
        /\ Cardinality(Below(values, v)) < rank /\ rank <= Cardinality(AtMost(values, v))
    BY <1>0, <1>1, PercentileIs
  <1>3. PICK n \in Nat \ {0} : n = Cardinality(S)
    BY FS_CardinalityType, FS_EmptySet
  <1>4. rank \in Nat /\ \A c \in Nat : 100 * c >= p * Cardinality(S) <=> c >= rank
    <2>1. IsRank(RankOf(n, p), n, p)
      BY RankIs
    <2>2. QED
      BY <1>0, <1>3, <2>1 DEF IsRank
  <1>5. ASSUME NEW T \in SUBSET S PROVE IsFiniteSet(T) /\ Cardinality(T) \in Nat
    BY FS_Subset, FS_CardinalityType
  <1>6. /\ AtMost(values, b) \in SUBSET S /\ AtMost(values, v) \in SUBSET S
        /\ Below(values, v) \in SUBSET S
    BY DEF AtMost, Below
  <1>7. CASE b >= v
    <2>1. AtMost(values, v) \in SUBSET AtMost(values, b)
      BY <1>2, <1>7 DEF AtMost
    <2>2. Cardinality(AtMost(values, v)) <= Cardinality(AtMost(values, b))
      BY <1>5, <1>6, <2>1, FS_Subset
    <2>3. Cardinality(AtMost(values, b)) >= rank
      BY <1>2, <1>4, <1>5, <1>6, <2>2
    <2>4. QED
      BY <1>1, <1>4, <1>5, <1>6, <1>7, <2>3
  <1>8. CASE ~(b >= v)
    <2>1. AtMost(values, b) \in SUBSET Below(values, v)
      BY <1>2, <1>8 DEF AtMost, Below
    <2>2. Cardinality(AtMost(values, b)) <= Cardinality(Below(values, v))
      BY <1>5, <1>6, <2>1, FS_Subset
    <2>3. ~(Cardinality(AtMost(values, b)) >= rank)
      BY <1>2, <1>4, <1>5, <1>6, <2>2
    <2>4. QED
      BY <1>1, <1>4, <1>5, <1>6, <1>8, <2>3
  <1>9. QED
    BY <1>7, <1>8

------------------------------------------------------------------------------
(* The windows *)

\* A finished job as its worker samples it.
SampleOf(i) == [completedAt |-> job[i].end, duration |-> Duration(i)]

\* A job ends after it starts, and the history of a worker is in the order of the ends.
TimesInv ==
  /\ \A i \in DOMAIN job : job[i].start <= job[i].end /\ job[i].end <= now
  /\ \A h \in Handles : \A k, m \in DOMAIN history[h] :
       k <= m => job[history[h][k]].end <= job[history[h][m]].end

\* The buffer holds the latest samples: from one of the last MaxSamples places of
\* the history to its end, and before that nothing that is in the window.
BufferInv == \A h \in Handles :
  LET done == history[h]
      s    == coll[h].samples IN
  /\ coll[h].totals.processed = Len(done)
  /\ DOMAIN s \subseteq DOMAIN done /\ s = [k \in DOMAIN s |-> SampleOf(done[k])]
  /\ \A k \in DOMAIN s : InLatest(k, Len(done)) /\ k .. Len(done) \subseteq DOMAIN s
  /\ \A k \in DOMAIN done \ DOMAIN s :
       ~InLatest(k, Len(done)) \/ job[done[k]].end < now - WindowMs

\* The durations of a label add up.
SumInv == \A h \in Handles, l \in Labels :
  coll[h].byName[l].durationTotalMs = SumOf([i \in LabelJobs(h, l) |-> Duration(i)])

\* A time bucket holds as many jobs as ended in it; one that is missing has left the window.
RecentInv == \A n \in Names :
  LET recent == otel[n].recent IN
  /\ recent = [t \in DOMAIN recent |-> Cardinality({i \in SeenJobs(n) : TimeBucket(job[i].end) = t})]
  /\ \A i \in SeenJobs(n) :
       TimeBucket(job[i].end) \in DOMAIN recent \/ TimeBucket(job[i].end) < now - ThroughputWindowMs

\* The longest duration the registry has seen.
LongestInv == \A n \in Names :
  /\ otel[n].maxDuration \in Nat
  /\ \A i \in SeenJobs(n) : Duration(i) <= otel[n].maxDuration
  /\ otel[n].maxDuration = 0 \/ \E i \in SeenJobs(n) : Duration(i) = otel[n].maxDuration

WindowsInv == TimesInv /\ BufferInv /\ SumInv /\ RecentInv /\ LongestInv

\* A step at which no job finishes and no registry is cleared.
Quiet ==
  /\ NoneFinishes /\ NamesStay /\ SameCounters /\ UNCHANGED <<history, cleared>>
  /\ now' \in Nat /\ now <= now'
  /\ \A i \in DOMAIN job' \ DOMAIN job : job'[i].start = now' /\ job'[i].end = now'
  /\ \A n \in Names : otel'[n].recent = otel[n].recent /\ otel'[n].maxDuration = otel[n].maxDuration

\* Every step is quiet, ends a job or clears the registry.
LEMMA StepKinds ==
  ASSUME HandleTypes, JobInv, CountsInv, [Next]_vars
  PROVE  Quiet \/ (\E i \in DOMAIN job, success \in BOOLEAN : Finish(i, success)) \/ clearMetrics
  <1>0. NamesInv /\ HistoryInv /\ CollectorInv /\ RegistryInv /\ now \in Nat
    BY DEF CountsInv, JobInv
  <1>1. UNCHANGED job => NoneFinishes
    BY DEF NoneFinishes
  <1>2. UNCHANGED <<kind, name>> => NamesStay
    BY DEF NamesStay
  <1>3. UNCHANGED coll => SameCounters
    BY <1>0 DEF CollectorInv, SameCounters
  <1>4. ASSUME UNCHANGED <<job, history, cleared, otel, now>>, NamesStay, SameCounters PROVE Quiet
    BY <1>0, <1>1, <1>4 DEF Quiet
  <1>5. ASSUME Lifecycle PROVE Quiet
    <2>1. UNCHANGED now
      BY <1>5 DEF Lifecycle, createQueue, createWorker, closeQueue, closeWorker, CloseSettles,
                  CloseFails, NameForgotten, onModuleDestroy, WorkersSettled, QueuesSettled, boundVars
    <2>2. QED
      BY <1>0, <1>4, <1>5, <2>1, LifecycleCounts DEF NamesStay
  <1>6. ASSUME Controls \/ UNCHANGED vars PROVE Quiet
    <2>1. UNCHANGED <<job, history, cleared, otel, now, kind, name, coll>>
      BY <1>6 DEF Controls, pauseWorker, PauseSettles, resumeWorker, vars,
                  boundVars, handleVars, jobVars, statVars, otelVars
    <2>2. QED
      BY <1>2, <1>3, <1>4, <2>1
  <1>7. ASSUME Tick PROVE Quiet
    <2>1. UNCHANGED <<job, history, cleared, otel, kind, name, coll>> /\ now' = now + 1
      BY <1>7 DEF Tick, handleVars, jobVars, statVars, otelVars
    <2>2. QED
      BY <1>0, <1>1, <1>2, <1>3, <2>1 DEF Quiet
  <1>8. ASSUME NEW h \in Handles, NEW jobName \in JobNames, TakeJob(h, jobName) PROVE Quiet
    <2>1. UNCHANGED <<kind, name, coll, history, otel, cleared, now>>
      BY <1>8 DEF TakeJob, boundVars, handleVars, otelVars
    <2>2. NoneFinishes
      BY <1>0, <1>8, TakeCounts
    <2>3. ASSUME NEW i \in DOMAIN job' \ DOMAIN job PROVE job'[i].start = now /\ job'[i].end = now
      <3>1. PICK new : job' = Append(job, new) /\ new.start = now /\ new.end = now
        BY <1>8 DEF TakeJob
      <3>2. job \in Seq(JobRecords)
        BY DEF JobInv
      <3>3. i = Len(job) + 1 /\ job'[i] = new
        BY <3>1, <3>2
      <3>4. QED
        BY <3>1, <3>3
    <2>4. QED
      BY <1>0, <1>2, <1>3, <2>1, <2>2, <2>3 DEF Quiet
  <1>9. ASSUME NEW i \in DOMAIN job, ProcessorCalled(i) \/ ListenersSettled(i) PROVE Quiet
    <2>1. UNCHANGED <<kind, name, coll, history, otel, cleared, now>>
      BY <1>9 DEF ProcessorCalled, ListenersSettled, boundVars, handleVars, statVars, otelVars
    <2>2. NoneFinishes /\ DOMAIN job' = DOMAIN job
      BY <1>9, JobGoesOn
    <2>3. QED
      BY <1>0, <1>2, <1>3, <2>1, <2>2 DEF Quiet
  <1>10. ASSUME NEW h \in Handles, PruneTimer(h) PROVE Quiet
    <2>1. UNCHANGED <<job, history, cleared, otel, now, kind, name>>
          /\ coll' = [coll EXCEPT ![h] = Prune(@, now)]
      BY <1>10 DEF PruneTimer, boundVars, handleVars, jobVars, otelVars
    <2>2. SameCounters
      BY <1>0, <2>1, CollectorKept DEF CollectorInv, SameCounters
    <2>3. QED
      BY <1>2, <1>4, <2>1, <2>2
  <1>11. ASSUME NEW n \in Names, updateQueueCounts(n) PROVE Quiet
    <2>1. UNCHANGED <<kind, name, coll, job, history, cleared, now>>
      BY <1>11 DEF updateQueueCounts, boundVars, handleVars, jobVars, statVars
    <2>2. \A m \in Names : otel'[m].recent = otel[m].recent /\ otel'[m].maxDuration = otel[m].maxDuration
      BY <1>0, <1>11, PushCounts
    <2>3. QED
      BY <1>0, <1>1, <1>2, <1>3, <2>1, <2>2 DEF Quiet
  <1>12. QED
    BY <1>5, <1>6, <1>7, <1>8, <1>9, <1>10, <1>11 DEF Next, JobStep, Metrics

\* What the clearing of a registry leaves alone.
LEMMA ClearKeeps ==
  ASSUME clearMetrics
  PROVE  /\ UNCHANGED <<job, history, coll, now, name>>
         /\ otel' = [n \in Names |-> EmptyMetrics] /\ cleared' = [h \in Handles |-> Len(history[h])]
  BY DEF clearMetrics, jobVars, statVars, boundVars, handleVars

\* The ends stay in order: a job ends last, and now.
LEMMA TimesNext ==
  ASSUME HandleTypes, JobInv, CountsInv, TimesInv, [Next]_vars
  PROVE  TimesInv'
  <1>0. HistoryInv /\ NamesInv /\ now \in Nat
    BY DEF CountsInv, JobInv
  <1>1. ASSUME Quiet PROVE TimesInv'
    <2>1. ASSUME NEW i \in DOMAIN job' PROVE job'[i].start <= job'[i].end /\ job'[i].end <= now'
      <3>1. CASE i \in DOMAIN job
        <4>1. job'[i].start = job[i].start /\ job'[i].end = job[i].end
          BY <1>1, <3>1 DEF Quiet, NoneFinishes
        <4>2. job[i].start \in Nat /\ job[i].end \in Nat
          BY <3>1, JobTypes
        <4>3. QED
          BY <1>0, <1>1, <3>1, <4>1, <4>2 DEF Quiet, TimesInv
      <3>2. CASE i \notin DOMAIN job
        BY <1>1, <2>1, <3>2 DEF Quiet
      <3>3. QED
        BY <3>1, <3>2
    <2>2. \A h \in Handles : \A k \in DOMAIN history[h] : job'[history[h][k]].end = job[history[h][k]].end
      BY <1>0, <1>1 DEF Quiet, NoneFinishes, HistoryInv
    <2>3. UNCHANGED history
      BY <1>1 DEF Quiet
    <2>4. QED
      BY <2>1, <2>2, <2>3 DEF TimesInv
  <1>2. ASSUME NEW i \in DOMAIN job, NEW success \in BOOLEAN, Finish(i, success) PROVE TimesInv'
    <2>1. /\ DOMAIN job' = DOMAIN job /\ job'[i].end = now /\ job'[i].start = job[i].start
          /\ \A o \in DOMAIN job \ {i} : job'[o] = job[o]
          /\ history' = [history EXCEPT ![job[i].w] = Append(@, i)] /\ job[i].st = "running"
      BY <1>0, <1>2, JobEnds
    <2>2. UNCHANGED now
      BY <1>2 DEF Finish, boundVars
    <2>t. \A o \in DOMAIN job : job[o].start \in Nat /\ job[o].end \in Nat
      BY JobTypes
    <2>3. ASSUME NEW o \in DOMAIN job' PROVE job'[o].start <= job'[o].end /\ job'[o].end <= now'
      BY <1>0, <2>1, <2>2, <2>t DEF TimesInv
    <2>4. ASSUME NEW h \in Handles, NEW k \in DOMAIN history'[h], NEW m \in DOMAIN history'[h], k <= m
          PROVE  job'[history'[h][k]].end <= job'[history'[h][m]].end
      <3>1. history[h] \in Seq(Nat) /\ i \in Nat
        BY <1>0 DEF HistoryInv, JobInv
      <3>2. \A x \in DOMAIN history[h] :
              history[h][x] \in DOMAIN job /\ history[h][x] # i
        BY <1>0, <2>1 DEF HistoryInv, Over
      <3>3. \A x \in DOMAIN history[h] : job'[history[h][x]] = job[history[h][x]]
        BY <2>1, <3>2
      <3>4. CASE h # job[i].w
        <4>1. history'[h] = history[h]
          BY <1>0, <2>1, <3>4 DEF HistoryInv
        <4>2. QED
          BY <2>4, <3>3, <4>1 DEF TimesInv
      <3>5. CASE h = job[i].w
        <4>1. history'[h] = Append(history[h], i)
          BY <1>0, <2>1, <3>5 DEF HistoryInv
        <4>2. /\ DOMAIN history[h] = 1..Len(history[h]) /\ DOMAIN history'[h] = 1..Len(history[h]) + 1
              /\ history'[h][Len(history[h]) + 1] = i
              /\ \A x \in DOMAIN history[h] : history'[h][x] = history[h][x]
          BY <3>1, <4>1
        <4>3. CASE m \in DOMAIN history[h]
          <5>1. k \in DOMAIN history[h]
            BY <2>4, <4>2, <4>3
          <5>2. QED
            BY <2>4, <3>3, <4>2, <4>3, <5>1 DEF TimesInv
        <4>4. CASE m = Len(history[h]) + 1
          <5>1. history'[h][k] \in DOMAIN job /\ job'[history'[h][m]].end = now
            BY <2>1, <2>4, <3>2, <4>2, <4>4
          <5>2. QED
            BY <2>1, <2>2, <2>3, <5>1
        <4>5. QED
          BY <2>4, <4>2, <4>3, <4>4
      <3>6. QED
        BY <3>4, <3>5
    <2>5. QED
      BY <2>3, <2>4 DEF TimesInv
  <1>3. ASSUME clearMetrics PROVE TimesInv'
    BY <1>3, ClearKeeps DEF TimesInv
  <1>4. QED
    BY <1>1, <1>2, <1>3, StepKinds

\* The latest of a buffer that ends with the newest sample: what is among the last MaxSamples.
LEMMA LatestIs ==
  ASSUME NEW n \in Nat, NEW s, DOMAIN s \subseteq 1..n, \A k \in DOMAIN s : k .. n \subseteq DOMAIN s,
         NEW x, NEW t, t = Latest(Put(s, n + 1, x))
  PROVE  /\ t = [k \in DOMAIN t |-> IF k = n + 1 THEN x ELSE s[k]]
         /\ \A k : k \in DOMAIN t <=> k \in DOMAIN s \cup {n + 1} /\ InLatest(k, n + 1)
  <1> DEFINE D == DOMAIN s \cup {n + 1}
             p == Put(s, n + 1, x)
             From(k) == {m \in D : m >= k}
  <1>1. DOMAIN p = D /\ \A k \in D : p[k] = IF k = n + 1 THEN x ELSE s[k]
    BY DEF Put
  <1>2. ASSUME NEW k \in D PROVE Cardinality(From(k)) = n + 2 - k
    <2>1. k \in 1..n + 1 /\ From(k) = k .. n + 1
      OBVIOUS
    <2>2. Cardinality(k .. n + 1) = n + 2 - k
      BY <2>1, FS_Interval
    <2>3. QED
      BY <2>1, <2>2
  <1>3. t = [k \in {m \in D : MaxSamples = 0 \/ Cardinality(From(m)) <= MaxSamples} |-> p[k]]
    BY <1>1 DEF Latest, Restrict
  <1>4. D \subseteq Nat /\ MaxSamples \in Nat
    BY StatsAssumption
  <1>5. \A k : k \in DOMAIN t <=> k \in D /\ InLatest(k, n + 1)
    <2>1. \A k : k \in DOMAIN t <=> k \in D /\ (MaxSamples = 0 \/ Cardinality(From(k)) <= MaxSamples)
      BY <1>3
    <2> HIDE DEF D, From
    <2>2. \A k \in D : MaxSamples = 0 \/ Cardinality(From(k)) <= MaxSamples <=> InLatest(k, n + 1)
      BY <1>2, <1>4 DEF InLatest
    <2>3. QED
      BY <2>1, <2>2
  <1>6. t = [k \in DOMAIN t |-> p[k]] /\ DOMAIN t \subseteq D
    BY <1>3
  <1> HIDE DEF D, p, From
  <1>7. t = [k \in DOMAIN t |-> IF k = n + 1 THEN x ELSE s[k]]
    BY <1>1, <1>6
  <1>8. QED
    BY <1>5, <1>7 DEF D

\* What a worker has in its buffer, of its jobs done.
Buffered(s, done) ==
  /\ DOMAIN s \subseteq DOMAIN done /\ s = [k \in DOMAIN s |-> SampleOf(done[k])]
  /\ \A k \in DOMAIN s : InLatest(k, Len(done)) /\ k .. Len(done) \subseteq DOMAIN s
  /\ \A k \in DOMAIN done \ DOMAIN s :
       ~InLatest(k, Len(done)) \/ job[done[k]].end < now - WindowMs

\* A buffer that is pruned at most, while time goes on, holds what it has to hold.
LEMMA BufferPruned ==
  ASSUME JobInv, HistoryInv, TimesInv, Quiet, NEW h \in Handles,
         NEW s, Buffered(s, history[h]), NEW t, t = s \/ t = Since(s, now - 2 * WindowMs)
  PROVE  Buffered(t, history[h])'
  <1>d. PICK done : done = history[h]
    OBVIOUS
  <1>1. /\ done \in Seq(Nat) /\ now \in Nat /\ now' \in Nat /\ now <= now' /\ WindowMs \in Nat
        /\ MaxSamples \in Nat /\ Len(done) \in Nat /\ DOMAIN done = 1..Len(done)
    BY <1>d, StatsAssumption DEF Quiet, HistoryInv, JobInv
  <1>2. history'[h] = done
    BY <1>d DEF Quiet
  <1>3. \A k \in DOMAIN done : /\ SampleOf(done[k])' = SampleOf(done[k])
                               /\ job'[done[k]].end = job[done[k]].end /\ job[done[k]].end \in Nat
    <2>1. \A k \in DOMAIN done : done[k] \in DOMAIN job
      BY <1>d DEF HistoryInv
    <2>2. \A i \in DOMAIN job : SampleOf(i)' = SampleOf(i) /\ job'[i].end = job[i].end
      BY DEF Quiet, NoneFinishes, SampleOf, Duration
    <2>3. \A i \in DOMAIN job : job[i].end \in Nat
      BY JobTypes
    <2>4. QED
      BY <2>1, <2>2, <2>3
  <1>4. \A k \in DOMAIN s : s[k].completedAt = job[done[k]].end
    BY <1>d DEF Buffered, SampleOf
  <1>5. \A k, m \in DOMAIN done : k <= m => job[done[k]].end <= job[done[m]].end
    BY <1>d DEF TimesInv
  <1>old. /\ DOMAIN s \subseteq DOMAIN done /\ s = [k \in DOMAIN s |-> SampleOf(done[k])]
          /\ \A k \in DOMAIN s : InLatest(k, Len(done)) /\ k .. Len(done) \subseteq DOMAIN s
          /\ \A k \in DOMAIN done \ DOMAIN s :
               ~InLatest(k, Len(done)) \/ job[done[k]].end < now - WindowMs
    BY <1>d DEF Buffered
  <1>6. /\ t = [k \in DOMAIN t |-> SampleOf(done[k])] /\ DOMAIN t \subseteq DOMAIN s
        /\ t # s => \A k \in DOMAIN s : k \in DOMAIN t <=> job[done[k]].end >= now - 2 * WindowMs
    <2>1. CASE t = s
      BY <1>old, <2>1
    <2>2. CASE t = Since(s, now - 2 * WindowMs)
      <3>1. t = [k \in {m \in DOMAIN s : s[m].completedAt >= now - 2 * WindowMs} |-> s[k]]
        BY <2>2 DEF Since, Restrict
      <3>2. \A k \in DOMAIN s : k \in DOMAIN t <=> job[done[k]].end >= now - 2 * WindowMs
        BY <1>4, <3>1
      <3>3. QED
        BY <1>old, <3>1, <3>2
    <2>3. QED
      BY <2>1, <2>2
  <1>7. ASSUME NEW k \in DOMAIN s, k \notin DOMAIN t PROVE t # s /\ job[done[k]].end < now - 2 * WindowMs
    <2>1. ~(job[done[k]].end >= now - 2 * WindowMs) /\ t # s
      BY <1>6, <1>7
    <2>2. job[done[k]].end \in Nat
      BY <1>3, <1>old
    <2>3. QED
      BY <1>1, <2>1, <2>2
  <1>8. \A k \in DOMAIN t : t = s \/ job[done[k]].end >= now - 2 * WindowMs
    BY <1>6
  <1>9. ASSUME NEW k \in DOMAIN t, NEW m \in k .. Len(done) PROVE m \in DOMAIN t
    <2>1. m \in DOMAIN s /\ k \in DOMAIN done /\ m \in DOMAIN done /\ k <= m
      BY <1>1, <1>6, <1>9, <1>old
    <2>2. job[done[k]].end <= job[done[m]].end /\ job[done[k]].end \in Nat /\ job[done[m]].end \in Nat
      BY <1>3, <1>5, <2>1
    <2>3. CASE t = s
      BY <2>1, <2>3
    <2>4. CASE t # s
      <3>1. job[done[k]].end >= now - 2 * WindowMs /\ now - 2 * WindowMs \in Int
        BY <1>1, <1>8, <2>4
      <3>2. job[done[m]].end >= now - 2 * WindowMs
        BY <2>2, <3>1
      <3>3. QED
        BY <1>6, <2>1, <2>4, <3>2
    <2>5. QED
      BY <2>3, <2>4
  <1>10. ASSUME NEW k \in DOMAIN done \ DOMAIN t
         PROVE  ~InLatest(k, Len(done)) \/ job[done[k]].end < now' - WindowMs
    <2>1. job[done[k]].end \in Nat
      BY <1>3, <1>10
    <2>2. CASE k \in DOMAIN s
      <3>1. job[done[k]].end < now - 2 * WindowMs
        BY <1>7, <1>10, <2>2
      <3>2. QED
        BY <1>1, <2>1, <3>1
    <2>3. CASE k \notin DOMAIN s
      <3>1. ~InLatest(k, Len(done)) \/ job[done[k]].end < now - WindowMs
        BY <1>10, <1>old, <2>3
      <3>2. QED
        BY <1>1, <2>1, <3>1
    <2>4. QED
      BY <2>2, <2>3
  <1>11. t = [k \in DOMAIN t |-> SampleOf(done[k])']
    BY <1>3, <1>6, <1>old
  <1>12. \A k \in DOMAIN t : InLatest(k, Len(done)) /\ k .. Len(done) \subseteq DOMAIN t
    BY <1>6, <1>9, <1>old
  <1>13. \A k \in DOMAIN done \ DOMAIN t : ~InLatest(k, Len(done)) \/ job'[done[k]].end < now' - WindowMs
    BY <1>3, <1>10
  <1>14. DOMAIN t \subseteq DOMAIN done
    BY <1>6, <1>old
  <1>15. QED
    BY <1>2, <1>11, <1>12, <1>13, <1>14 DEF Buffered

\* A job that ends leaves the other finished jobs as they are.
LEMMA DoneStay ==
  ASSUME JobInv, HistoryInv, NEW i \in DOMAIN job, NEW success \in BOOLEAN, Finish(i, success)
  PROVE  \A h \in Handles : \A k \in DOMAIN history[h] :
           history[h][k] \in DOMAIN job \ {i} /\ job'[history[h][k]] = job[history[h][k]]
  <1>1. job[i].st = "running" /\ \A o \in DOMAIN job \ {i} : job'[o] = job[o]
    BY JobEnds
  <1>2. \A h \in Handles : \A k \in DOMAIN history[h] :
          history[h][k] \in DOMAIN job /\ history[h][k] # i
    BY <1>1 DEF HistoryInv, Over
  <1>3. QED
    BY <1>1, <1>2

\* Every step keeps the latest samples.
LEMMA BufferNext ==
  ASSUME HandleTypes, JobInv, CountsInv, TimesInv, BufferInv, [Next]_vars
  PROVE  BufferInv'
  <1>0. HistoryInv /\ CollectorInv /\ now \in Nat /\ MaxSamples \in Nat
    BY StatsAssumption DEF CountsInv, JobInv
  <1>old. \A h \in Handles :
            coll[h].totals.processed = Len(history[h]) /\ Buffered(coll[h].samples, history[h])
    BY DEF BufferInv, Buffered
  <1>new. ASSUME \A h \in Handles :
                   coll'[h].totals.processed = Len(history'[h]) /\ Buffered(coll[h].samples, history[h])'
          PROVE  BufferInv'
    BY <1>new DEF BufferInv, Buffered
  <1>1. ASSUME Quiet PROVE BufferInv'
    <2>1. ASSUME NEW h \in Handles
          PROVE  coll'[h].totals.processed = Len(history'[h]) /\ Buffered(coll[h].samples, history[h])'
      <3>1. PICK s : s = coll[h].samples
        OBVIOUS
      <3>2. PICK t : t = coll'[h].samples
        OBVIOUS
      <3>3. coll'[h].totals = coll[h].totals /\ UNCHANGED history
            /\ (t = s \/ t = Since(s, now - 2 * WindowMs))
        BY <1>1, <3>1, <3>2 DEF Quiet, SameCounters
      <3>4. Buffered(s, history[h])
        BY <1>old, <3>1
      <3>5. Buffered(t, history[h])'
        BY <1>0, <1>1, <3>3, <3>4, BufferPruned
      <3>6. QED
        BY <1>old, <3>2, <3>3, <3>5
    <2>2. QED
      BY <1>new, <2>1
  <1>2. ASSUME NEW i \in DOMAIN job, NEW success \in BOOLEAN, Finish(i, success) PROVE BufferInv'
    <2>1. /\ job'[i].end = now /\ job'[i].start = job[i].start /\ job[i].w \in Handles /\ i \in Nat
          /\ history' = [history EXCEPT ![job[i].w] = Append(@, i)]
      BY <1>0, <1>2, JobEnds, JobTypes DEF JobInv
    <2>2. coll' = [coll EXCEPT ![job[i].w] = Record(@, job[i].label, now, now - job[i].start, success)]
          /\ UNCHANGED now
      BY <1>2 DEF Finish, boundVars
    <2>3. \A h \in Handles : \A k \in DOMAIN history[h] : job'[history[h][k]] = job[history[h][k]]
      BY <1>0, <1>2, DoneStay
    <2>4. ASSUME NEW h \in Handles
          PROVE  coll'[h].totals.processed = Len(history'[h]) /\ Buffered(coll[h].samples, history[h])'
      <3>d. PICK done : done = history[h]
        OBVIOUS
      <3>e. PICK e : e = history'[h]
        OBVIOUS
      <3>s. PICK s : s = coll[h].samples
        OBVIOUS
      <3>t. PICK t : t = coll'[h].samples
        OBVIOUS
      <3>1. /\ done \in Seq(Nat) /\ DOMAIN done = 1..Len(done) /\ Len(done) \in Nat
            /\ Buffered(s, done) /\ coll[h].totals.processed = Len(done)
        BY <1>0, <1>old, <3>d, <3>s DEF HistoryInv
      <3>2. \A k \in DOMAIN done : SampleOf(done[k])' = SampleOf(done[k]) /\ job'[done[k]] = job[done[k]]
        BY <2>3, <3>d DEF SampleOf, Duration
      <3>o. /\ DOMAIN s \subseteq DOMAIN done /\ s = [k \in DOMAIN s |-> SampleOf(done[k])]
            /\ \A k \in DOMAIN s : InLatest(k, Len(done)) /\ k .. Len(done) \subseteq DOMAIN s
            /\ \A k \in DOMAIN done \ DOMAIN s :
                 ~InLatest(k, Len(done)) \/ job[done[k]].end < now - WindowMs
        BY <3>1 DEF Buffered
      <3>3. CASE h # job[i].w
        <4>1. coll'[h] = coll[h] /\ e = done
          BY <1>0, <2>1, <2>2, <3>3, <3>d, <3>e DEF HistoryInv, CollectorInv
        <4>2. s = [k \in DOMAIN s |-> SampleOf(done[k])']
          BY <3>2, <3>o
        <4>3. \A k \in DOMAIN done \ DOMAIN s :
                ~InLatest(k, Len(done)) \/ job'[done[k]].end < now' - WindowMs
          BY <2>2, <3>2, <3>o
        <4>4. Buffered(s, done)'
          BY <3>o, <4>2, <4>3 DEF Buffered
        <4>5. QED
          BY <3>1, <3>d, <3>e, <3>s, <4>1, <4>4
      <3>4. CASE h = job[i].w
        <4>x. PICK x : x = SampleOf(i)'
          BY Zenon
        <4>n. PICK n \in Nat : n = Len(done)
          BY <3>1
        <4>1. e = Append(done, i)
          BY <1>0, <2>1, <3>4, <3>d, <3>e DEF HistoryInv
        <4>2. /\ Len(e) = n + 1 /\ DOMAIN e = 1..n + 1 /\ e[n + 1] = i
              /\ \A k \in 1..n : e[k] = done[k]
          BY <2>1, <3>1, <4>1, <4>n
        <4>3. CollectorShape(coll[h]) /\ coll'[h] = Record(coll[h], job[i].label, now, now - job[i].start, success)
          BY <1>0, <2>2, <3>4 DEF CollectorInv
        <4>4. coll'[h].totals.processed = Len(e)
          <5>1. job[i].label \in Labels
            BY <1>2, JobTypes
          <5>2. coll'[h].totals.processed = coll[h].totals.processed + 1
            BY <4>3, <5>1, Collected
          <5>3. QED
            BY <3>1, <4>2, <4>n, <5>2
        <4>5. t = Latest(Put(s, n + 1, x))
          <5>1. x = [completedAt |-> now, duration |-> now - job[i].start]
            BY <2>1, <4>x DEF SampleOf, Duration
          <5>2. t = Latest(Put(coll[h].samples, coll[h].totals.processed + 1,
                                [completedAt |-> now, duration |-> now - job[i].start]))
            BY <3>t, <4>3, Sampled
          <5>3. QED
            BY <3>1, <3>s, <4>n, <5>1, <5>2
        <4>6. DOMAIN s \subseteq 1..n /\ \A k \in DOMAIN s : k .. n \subseteq DOMAIN s
          BY <3>1, <3>o, <4>n
        <4>7. /\ t = [k \in DOMAIN t |-> IF k = n + 1 THEN x ELSE s[k]]
              /\ \A k : k \in DOMAIN t <=> k \in DOMAIN s \cup {n + 1} /\ InLatest(k, n + 1)
          BY <4>5, <4>6, LatestIs
        <4>8. DOMAIN t \subseteq DOMAIN e
          BY <4>2, <4>6, <4>7
        <4>9. t = [k \in DOMAIN t |-> SampleOf(e[k])']
          <5>1. ASSUME NEW k \in DOMAIN t PROVE t[k] = SampleOf(e[k])'
            <6>1. CASE k = n + 1
              BY <4>2, <4>7, <4>x, <6>1
            <6>2. CASE k # n + 1
              BY <3>1, <3>2, <3>o, <4>2, <4>6, <4>7, <6>2
            <6>3. QED
              BY <6>1, <6>2
          <5>2. t = [k \in DOMAIN t |-> t[k]]
            BY <4>7
          <5>3. QED
            BY <5>1, <5>2
        <4>10. ASSUME NEW k \in DOMAIN t PROVE InLatest(k, n + 1) /\ k .. n + 1 \subseteq DOMAIN t
          <5>1. k \in 1..n + 1 /\ InLatest(k, n + 1)
            BY <4>6, <4>7
          <5>2. ASSUME NEW m \in k .. n + 1 PROVE m \in DOMAIN s \cup {n + 1} /\ InLatest(m, n + 1)
            BY <1>0, <4>6, <4>7, <5>1 DEF InLatest
          <5>3. QED
            BY <4>7, <5>1, <5>2
        <4>11. ASSUME NEW k \in DOMAIN e \ DOMAIN t
               PROVE  ~InLatest(k, n + 1) \/ job'[e[k]].end < now' - WindowMs
          <5>1. CASE k \in DOMAIN s \/ k = n + 1
            BY <1>0, <4>2, <4>7, <4>11, <5>1 DEF InLatest
          <5>2. CASE k \notin DOMAIN s /\ k # n + 1
            <6>1. k \in DOMAIN done /\ e[k] = done[k]
              BY <3>1, <4>2, <4>11, <4>n, <5>2
            <6>2. ~InLatest(k, n) \/ job[done[k]].end < now - WindowMs
              BY <3>o, <4>n, <5>2, <6>1
            <6>3. ~InLatest(k, n) => ~InLatest(k, n + 1)
              BY <1>0, <4>2, <4>11 DEF InLatest
            <6>4. QED
              BY <2>2, <3>2, <6>1, <6>2, <6>3
          <5>3. QED
            BY <5>1, <5>2
        <4>12. Buffered(t, e)'
          <5>1. PICK z \in Nat : z = n + 1 /\ z = Len(e)
            BY <4>2
          <5>2. \A k \in DOMAIN t : InLatest(k, z) /\ k .. z \subseteq DOMAIN t
            BY <1>0, <4>2, <4>8, <4>10, <5>1
          <5>3. \A k \in DOMAIN e \ DOMAIN t : ~InLatest(k, z) \/ job'[e[k]].end < now' - WindowMs
            BY <1>0, <4>2, <4>11, <5>1
          <5>4. QED
            BY <4>8, <4>9, <5>1, <5>2, <5>3 DEF Buffered
        <4>13. QED
          BY <3>e, <3>t, <4>4, <4>12
      <3>5. QED
        BY <3>3, <3>4
    <2>5. QED
      BY <1>new, <2>4
  <1>3. ASSUME clearMetrics PROVE BufferInv'
    <2>1. UNCHANGED <<job, history, coll, now>>
      BY <1>3, ClearKeeps
    <2>2. QED
      BY <2>1 DEF BufferInv, SampleOf, Duration
  <1>4. QED
    BY <1>1, <1>2, <1>3, StepKinds

\* A job took no longer than the clock shows.
LEMMA DurationsBounded ==
  ASSUME JobInv, TimesInv, NEW i \in DOMAIN job
  PROVE  Duration(i) \in 0..now /\ now - job[i].start \in 0..now
  <1>1. job[i].start \in Nat /\ job[i].end \in Nat /\ now \in Nat
    BY JobTypes DEF JobInv
  <1>2. job[i].start <= job[i].end /\ job[i].end <= now
    BY DEF TimesInv
  <1>3. QED
    BY <1>1, <1>2 DEF Duration

\* Every step keeps the sums of the durations.
LEMMA SumNext ==
  ASSUME HandleTypes, JobInv, CountsInv, TimesInv, SumInv, [Next]_vars
  PROVE  SumInv'
  <1>0. NamesInv /\ HistoryInv /\ CollectorInv /\ now \in Nat /\ job \in Seq(JobRecords)
    BY DEF CountsInv, JobInv
  <1>f. \A h, l : LabelJobs(h, l) \subseteq Finished(h) /\ LabelJobs(h, l) \subseteq DOMAIN job
    BY DEF LabelJobs, Finished
  <1>1. ASSUME Quiet PROVE SumInv'
    <2>1. ASSUME NEW h \in Handles, NEW l \in Labels
          PROVE  coll'[h].byName[l].durationTotalMs = SumOf([i \in LabelJobs(h, l)' |-> Duration(i)'])
      <3>1. LabelJobs(h, l)' = LabelJobs(h, l) /\ \A i \in LabelJobs(h, l) : Duration(i)' = Duration(i)
        BY <1>0, <1>1, <1>f, SameJobs DEF Quiet
      <3>2. [i \in LabelJobs(h, l)' |-> Duration(i)'] = [i \in LabelJobs(h, l) |-> Duration(i)]
        BY <3>1
      <3>3. coll'[h].byName = coll[h].byName
        BY <1>1 DEF Quiet, SameCounters
      <3>4. QED
        BY <3>2, <3>3 DEF SumInv
    <2>2. QED
      BY <2>1 DEF SumInv
  <1>2. ASSUME NEW i \in DOMAIN job, NEW success \in BOOLEAN, Finish(i, success) PROVE SumInv'
    <2>0. job[i].w \in Handles /\ job[i].label \in Labels
      BY JobTypes
    <2>1. coll' = [coll EXCEPT ![job[i].w] = Record(@, job[i].label, now, now - job[i].start, success)]
      BY <1>2 DEF Finish
    <2>2. ASSUME NEW h \in Handles, NEW l \in Labels
          PROVE  coll'[h].byName[l].durationTotalMs = SumOf([o \in LabelJobs(h, l)' |-> Duration(o)'])
      <3>s. PICK S : S = LabelJobs(h, l)
        OBVIOUS
      <3>f. PICK f : f = [o \in S |-> Duration(o)]
        OBVIOUS
      <3>g. PICK g : g = [o \in LabelJobs(h, l)' |-> Duration(o)']
        BY Zenon
      <3>1. /\ i \notin S /\ S \in SUBSET DOMAIN job /\ \A o \in S : Duration(o)' = Duration(o)
            /\ coll[h].byName[l].durationTotalMs = SumOf(f)
        BY <1>0, <1>2, <1>f, <3>f, <3>s, JobsOver DEF SumInv
      <3>2. CollectorShape(coll[h])
        BY <1>0 DEF CollectorInv
      <3>3. CASE h = job[i].w /\ l = job[i].label
        <4>v. PICK v \in 0..now : v = now - job[i].start
          BY DurationsBounded
        <4>1. LabelJobs(h, l)' = S \cup {i} /\ Duration(i)' = v
          BY <1>0, <1>2, <3>3, <3>s, <4>v, JobsOver
        <4>2. DOMAIN g = S \cup {i} /\ g[i] = v /\ \A o \in S : g[o] = f[o]
          <5>1. g = [o \in S \cup {i} |-> Duration(o)']
            BY <3>g, <4>1
          <5>2. QED
            BY <3>1, <3>f, <4>1, <5>1
        <4>3. IsFiniteSet(S) /\ f \in [S -> 0..now]
          BY <1>0, <3>1, <3>f, JobsFinite, DurationsBounded
        <4>4. SumOf(g) = SumOf(f) + v
          <5>1. now \in Nat /\ i \notin S
            BY <1>0, <3>1
          <5>2. Extends(g, f, S, i, v, now)
            BY <4>2, <4>3, <5>1 DEF Extends
          <5>3. QED
            BY <4>3, <5>2, SumPut
        <4>5. coll'[h].byName[l].durationTotalMs = coll[h].byName[l].durationTotalMs + v
          <5>1. coll'[h] = Record(coll[h], l, now, v, success)
            BY <1>0, <2>0, <2>1, <3>3, <4>v DEF CollectorInv
          <5>2. QED
            BY <3>2, <5>1, Collected
        <4>6. QED
          BY <3>1, <3>g, <4>4, <4>5
      <3>4. CASE ~(h = job[i].w /\ l = job[i].label)
        <4>1. LabelJobs(h, l)' = S
          BY <1>0, <1>2, <3>4, <3>s, JobsOver
        <4>2. g = f
          BY <3>1, <3>f, <3>g, <4>1
        <4>3. coll'[h].byName[l] = coll[h].byName[l]
          <5>1. CASE h # job[i].w
            BY <1>0, <2>1, <5>1 DEF CollectorInv
          <5>2. CASE h = job[i].w
            <6>1. coll'[h] = Record(coll[h], job[i].label, now, now - job[i].start, success)
              BY <1>0, <2>1, <5>2 DEF CollectorInv
            <6>2. l # job[i].label
              BY <3>4, <5>2
            <6>3. QED
              BY <2>0, <3>2, <6>1, <6>2, Collected
          <5>3. QED
            BY <5>1, <5>2
        <4>4. QED
          BY <3>1, <3>g, <4>2, <4>3
      <3>5. QED
        BY <3>3, <3>4
    <2>3. QED
      BY <2>2 DEF SumInv
  <1>3. ASSUME clearMetrics PROVE SumInv'
    <2>1. UNCHANGED <<job, coll>>
      BY <1>3, ClearKeeps
    <2>2. QED
      BY <2>1 DEF SumInv, LabelJobs, Finished, Duration
  <1>4. QED
    BY <1>1, <1>2, <1>3, StepKinds

\* A time bucket begins no later than the time, and less than BucketMs before it.
LEMMA TimeBucketIs ==
  ASSUME NEW t \in Nat
  PROVE  TimeBucket(t) \in Nat /\ TimeBucket(t) <= t /\ TimeBucket(t) >= t - BucketMs + 1
  <1>1. BucketMs \in Nat \ {0}
    BY StatsAssumption
  <1> DEFINE k == t \div BucketMs
  <1>2. k \in Nat /\ k * BucketMs <= t /\ (k + 1) * BucketMs > t
    BY <1>1
  <1> HIDE DEF k
  <1>3. (k + 1) * BucketMs = k * BucketMs + BucketMs /\ k * BucketMs \in Nat
    BY <1>1, <1>2
  <1>4. TimeBucket(t) = k * BucketMs
    BY DEF TimeBucket, k
  <1>5. QED
    BY <1>1, <1>2, <1>3, <1>4

\* The jobs a registry has seen whose time bucket is t.
InBucket(n, t) == {i \in SeenJobs(n) : TimeBucket(job[i].end) = t}

\* Every step keeps the time buckets.
LEMMA RecentNext ==
  ASSUME HandleTypes, JobInv, CountsInv, TimesInv, RecentInv, [Next]_vars
  PROVE  RecentInv'
  <1>0. /\ NamesInv /\ HistoryInv /\ RegistryInv /\ DOMAIN otel = Names
        /\ now \in Nat /\ job \in Seq(JobRecords) /\ ThroughputWindowMs \in Nat
    BY StatsAssumption DEF CountsInv, RegistryInv, JobInv
  <1>seen. \A n : SeenJobs(n) \subseteq DOMAIN job
    BY <1>0, SeenIs
  <1>old. \A n \in Names :
            /\ otel[n].recent = [t \in DOMAIN otel[n].recent |-> Cardinality(InBucket(n, t))]
            /\ \A i \in SeenJobs(n) : \/ TimeBucket(job[i].end) \in DOMAIN otel[n].recent
                                      \/ TimeBucket(job[i].end) < now - ThroughputWindowMs
    BY DEF RecentInv, InBucket
  <1>new. ASSUME \A n \in Names :
            /\ otel'[n].recent = [t \in DOMAIN otel'[n].recent |-> Cardinality(InBucket(n, t)')]
            /\ \A i \in SeenJobs(n)' : \/ TimeBucket(job'[i].end) \in DOMAIN otel'[n].recent
                                       \/ TimeBucket(job'[i].end) < now' - ThroughputWindowMs
          PROVE  RecentInv'
    BY <1>new DEF RecentInv, InBucket
  <1>b. \A i \in DOMAIN job : TimeBucket(job[i].end) \in Nat
    BY JobTypes, TimeBucketIs
  <1>1. ASSUME Quiet PROVE RecentInv'
    <2>1. ASSUME NEW n \in Names
          PROVE  /\ otel'[n].recent = [t \in DOMAIN otel'[n].recent |-> Cardinality(InBucket(n, t)')]
                 /\ \A i \in SeenJobs(n)' : \/ TimeBucket(job'[i].end) \in DOMAIN otel'[n].recent
                                            \/ TimeBucket(job'[i].end) < now' - ThroughputWindowMs
      <3>1. SeenJobs(n)' = SeenJobs(n) /\ \A i \in SeenJobs(n) : job'[i].end = job[i].end
        BY <1>0, <1>1, <1>seen, SameJobs DEF Quiet
      <3>2. \A t : InBucket(n, t)' = InBucket(n, t)
        BY <3>1 DEF InBucket
      <3>3. otel'[n].recent = otel[n].recent /\ now' \in Nat /\ now <= now'
        BY <1>1 DEF Quiet
      <3>4. ASSUME NEW i \in SeenJobs(n)
            PROVE  \/ TimeBucket(job[i].end) \in DOMAIN otel[n].recent
                   \/ TimeBucket(job[i].end) < now' - ThroughputWindowMs
        <4>1. TimeBucket(job[i].end) \in Nat
          BY <1>b, <1>seen
        <4>2. \/ TimeBucket(job[i].end) \in DOMAIN otel[n].recent
              \/ TimeBucket(job[i].end) < now - ThroughputWindowMs
          BY <1>old
        <4>3. QED
          BY <1>0, <3>3, <4>1, <4>2
      <3>5. QED
        BY <1>old, <3>1, <3>2, <3>3, <3>4
    <2>2. QED
      BY <1>new, <2>1
  <1>2. ASSUME NEW i \in DOMAIN job, NEW success \in BOOLEAN, Finish(i, success) PROVE RecentInv'
    <2>w. job[i].w \in Handles /\ kind[job[i].w] = "worker"
      BY <1>0, JobTypes DEF NamesInv
    <2>n. PICK n \in Names : n = name[job[i].w]
      BY <2>w DEF HandleTypes, Registry
    <2>1. /\ otel' = [otel EXCEPT ![n] = recordMetrics(@, job[i].name, now, now - job[i].start, success)]
          /\ UNCHANGED now
      BY <1>2, <2>n DEF Finish, boundVars
    <2>2. job'[i].end = now /\ \A o \in DOMAIN job \ {i} : job'[o].end = job[o].end
      BY <1>0, <1>2, JobsOver
    <2>3. SeenJobs(n)' = SeenJobs(n) \cup {i} /\ \A m : m # n => SeenJobs(m)' = SeenJobs(m)
      BY <1>0, <1>2, <2>w, <2>n, JobsSeen
    <2>4. \A m : i \notin SeenJobs(m)
      <3>1. job[i].st \notin Over
        BY <1>0, <1>2, JobEnds DEF Over
      <3>2. QED
        BY <1>0, <3>1, SeenIs
    <2>5. ASSUME NEW m \in Names, m # n
          PROVE  /\ otel'[m].recent = [t \in DOMAIN otel'[m].recent |-> Cardinality(InBucket(m, t)')]
                 /\ \A o \in SeenJobs(m)' : \/ TimeBucket(job'[o].end) \in DOMAIN otel'[m].recent
                                            \/ TimeBucket(job'[o].end) < now' - ThroughputWindowMs
      <3>1. otel'[m] = otel[m] /\ SeenJobs(m)' = SeenJobs(m)
        BY <1>0, <2>1, <2>3, <2>5
      <3>2. \A o \in SeenJobs(m) : job'[o].end = job[o].end
        BY <1>seen, <2>2, <2>4
      <3>3. \A t : InBucket(m, t)' = InBucket(m, t)
        BY <3>1, <3>2 DEF InBucket
      <3>4. QED
        BY <1>old, <2>1, <3>1, <3>2, <3>3
    <2>6. /\ otel'[n].recent = [t \in DOMAIN otel'[n].recent |-> Cardinality(InBucket(n, t)')]
          /\ \A o \in SeenJobs(n)' : \/ TimeBucket(job'[o].end) \in DOMAIN otel'[n].recent
                                     \/ TimeBucket(job'[o].end) < now' - ThroughputWindowMs
      <3>r. PICK r : r = otel[n].recent
        OBVIOUS
      <3>s. PICK s : s = otel'[n].recent
        OBVIOUS
      <3>b. PICK b \in Nat : b = TimeBucket(now)
        BY <1>0, TimeBucketIs
      <3>1. s = RecentAfter(r, now)
        <4>q. PICK q : q = otel[n]
          OBVIOUS
        <4>d. PICK duration : duration = now - job[i].start
          OBVIOUS
        <4>p. PICK p : p = recordMetrics(q, job[i].name, now, duration, success)
          OBVIOUS
        <4>1. MetricsShape(q)
          BY <1>0, <4>q DEF RegistryInv
        <4>2. p.recent = RecentAfter(q.recent, now)
          BY <4>1, <4>p, Bucketed
        <4>3. otel'[n] = p
          BY <1>0, <2>1, <4>d, <4>p, <4>q
        <4>4. QED
          BY <3>r, <3>s, <4>2, <4>3, <4>q
      <3>2. /\ DOMAIN s = {t \in DOMAIN r \cup {b} : t >= now - ThroughputWindowMs}
            /\ s = [t \in DOMAIN s |-> IF t = b THEN (IF b \in DOMAIN r THEN r[b] ELSE 0) + 1 ELSE r[t]]
        BY <3>1, <3>b DEF RecentAfter, pruneRecent, Put, Restrict
      <3>3. /\ r = [t \in DOMAIN r |-> Cardinality(InBucket(n, t))]
            /\ \A o \in SeenJobs(n) :
                 TimeBucket(job[o].end) \in DOMAIN r \/ TimeBucket(job[o].end) < now - ThroughputWindowMs
        BY <1>old, <3>r
      <3>4. \A o \in SeenJobs(n) : job'[o].end = job[o].end
        BY <1>seen, <2>2, <2>4
      <3>5. \A t : InBucket(n, t)' = IF t = b THEN InBucket(n, t) \cup {i} ELSE InBucket(n, t)
        BY <2>2, <2>3, <3>4, <3>b DEF InBucket
      <3>6. \A t : InBucket(n, t) \in SUBSET DOMAIN job /\ i \notin InBucket(n, t)
        BY <1>seen, <2>4 DEF InBucket
      <3>7. Cardinality(InBucket(n, b)') = Cardinality(InBucket(n, b)) + 1
        <4>1. IsFiniteSet(InBucket(n, b))
          BY <1>0, <3>6, JobsFinite
        <4>2. QED
          BY <3>5, <3>6, <4>1, FS_AddElement
      <3>8. ASSUME b \in DOMAIN s, b \notin DOMAIN r PROVE Cardinality(InBucket(n, b)) = 0
        <4>1. ~(b < now - ThroughputWindowMs)
          BY <1>0, <3>2, <3>8
        <4>2. InBucket(n, b) = {}
          BY <3>3, <3>8, <4>1 DEF InBucket
        <4>3. QED
          BY <4>2, FS_EmptySet
      <3>9. ASSUME NEW t \in DOMAIN s PROVE s[t] = Cardinality(InBucket(n, t)')
        <4>1. CASE t # b
          BY <3>2, <3>3, <3>5, <3>9, <4>1
        <4>2. CASE t = b /\ b \in DOMAIN r
          BY <3>2, <3>3, <3>7, <3>9, <4>2
        <4>3. CASE t = b /\ b \notin DOMAIN r
          <5>1. s[b] = 0 + 1
            BY <3>2, <3>9, <4>3
          <5>2. QED
            BY <3>7, <3>8, <3>9, <4>3, <5>1
        <4>4. QED
          BY <4>1, <4>2, <4>3
      <3>10. s = [t \in DOMAIN s |-> Cardinality(InBucket(n, t)')]
        BY <3>2, <3>9
      <3>11. ASSUME NEW o \in SeenJobs(n)'
             PROVE  TimeBucket(job'[o].end) \in DOMAIN s \/ TimeBucket(job'[o].end) < now' - ThroughputWindowMs
        <4>t. PICK t : t = TimeBucket(job'[o].end)
          OBVIOUS
        <4>1. t \in Nat /\ (t \in DOMAIN r \cup {b} \/ t < now - ThroughputWindowMs)
          <5>1. CASE o = i
            BY <2>2, <3>b, <4>t, <5>1
          <5>2. CASE o # i
            BY <1>b, <1>seen, <2>3, <3>3, <3>4, <3>11, <4>t, <5>2
          <5>3. QED
            BY <5>1, <5>2
        <4>2. t >= now - ThroughputWindowMs \/ t < now - ThroughputWindowMs
          BY <1>0, <4>1
        <4>3. QED
          BY <2>1, <3>2, <4>1, <4>2, <4>t
      <3>12. QED
        BY <3>10, <3>11, <3>s
    <2>7. QED
      BY <1>new, <2>5, <2>6
  <1>3. ASSUME clearMetrics PROVE RecentInv'
    <2>1. otel' = [n \in Names |-> EmptyMetrics] /\ \A n : SeenJobs(n)' = {}
      BY <1>0, <1>3, ClearKeeps, ClearCounts
    <2>2. EmptyMetrics.recent = <<>> /\ DOMAIN <<>> = {}
      BY DEF EmptyMetrics
    <2>3. \A n \in Names : otel'[n].recent = <<>>
      BY <2>1, <2>2
    <2>4. <<>> = [t \in {} |-> 0]
      OBVIOUS
    <2>5. QED
      BY <1>new, <2>1, <2>2, <2>3, <2>4
  <1>4. QED
    BY <1>1, <1>2, <1>3, StepKinds

\* Every step keeps the longest duration.
LEMMA LongestNext ==
  ASSUME HandleTypes, JobInv, CountsInv, TimesInv, LongestInv, [Next]_vars
  PROVE  LongestInv'
  <1>0. NamesInv /\ HistoryInv /\ RegistryInv /\ DOMAIN otel = Names /\ now \in Nat
    BY DEF CountsInv, RegistryInv, JobInv
  <1>seen. \A n : SeenJobs(n) \subseteq DOMAIN job
    BY <1>0, SeenIs
  <1>1. ASSUME Quiet PROVE LongestInv'
    <2>1. \A n : SeenJobs(n)' = SeenJobs(n) /\ \A i \in SeenJobs(n) : Duration(i)' = Duration(i)
      BY <1>0, <1>1, <1>seen, SameJobs DEF Quiet
    <2>2. \A n \in Names : otel'[n].maxDuration = otel[n].maxDuration
      BY <1>1 DEF Quiet
    <2>3. QED
      BY <2>1, <2>2 DEF LongestInv
  <1>2. ASSUME NEW i \in DOMAIN job, NEW success \in BOOLEAN, Finish(i, success) PROVE LongestInv'
    <2>w. job[i].w \in Handles /\ kind[job[i].w] = "worker"
      BY <1>0, JobTypes DEF NamesInv
    <2>n. PICK n \in Names : n = name[job[i].w]
      BY <2>w DEF HandleTypes, Registry
    <2>d. PICK d \in 0..now : d = now - job[i].start
      BY DurationsBounded
    <2>q. PICK q : q = otel[n]
      OBVIOUS
    <2>p. PICK p : p = recordMetrics(q, job[i].name, now, d, success)
      OBVIOUS
    <2>1. otel' = [otel EXCEPT ![n] = p]
      BY <1>2, <2>d, <2>n, <2>p, <2>q DEF Finish
    <2>2. Duration(i)' = d /\ \A o \in DOMAIN job \ {i} : Duration(o)' = Duration(o)
      BY <1>0, <1>2, <2>d, JobsOver
    <2>3. SeenJobs(n)' = SeenJobs(n) \cup {i} /\ \A m : m # n => SeenJobs(m)' = SeenJobs(m)
      BY <1>0, <1>2, <2>w, <2>n, JobsSeen
    <2>4. \A m : \A o \in SeenJobs(m) : o # i /\ Duration(o)' = Duration(o) /\ Duration(o) \in Nat
      <3>1. job[i].st \notin Over
        BY <1>0, <1>2, JobEnds DEF Over
      <3>2. \A m : \A o \in SeenJobs(m) : o \in DOMAIN job \ {i}
        BY <1>0, <3>1, SeenIs
      <3>3. \A o \in DOMAIN job : Duration(o) \in Nat
        BY <1>0, DurationsBounded
      <3>4. QED
        BY <2>2, <3>2, <3>3
    <2>old. /\ q.maxDuration \in Nat
            /\ \A o \in SeenJobs(n) : Duration(o) <= q.maxDuration
            /\ q.maxDuration = 0 \/ \E o \in SeenJobs(n) : Duration(o) = q.maxDuration
      BY <2>q DEF LongestInv
    <2>5. p.maxDuration = Larger(q.maxDuration, d)
      BY <1>0, <2>old, <2>p, <2>q, Lengthened DEF RegistryInv
    <2>6. ASSUME NEW m \in Names, m # n
          PROVE  /\ otel'[m].maxDuration \in Nat
                 /\ \A o \in SeenJobs(m)' : Duration(o)' <= otel'[m].maxDuration
                 /\ otel'[m].maxDuration = 0 \/ \E o \in SeenJobs(m)' : Duration(o)' = otel'[m].maxDuration
      <3>1. otel'[m] = otel[m] /\ SeenJobs(m)' = SeenJobs(m)
        BY <1>0, <2>1, <2>3, <2>6
      <3>2. QED
        BY <2>4, <3>1 DEF LongestInv
    <2>7. /\ otel'[n].maxDuration \in Nat
          /\ \A o \in SeenJobs(n)' : Duration(o)' <= otel'[n].maxDuration
          /\ otel'[n].maxDuration = 0 \/ \E o \in SeenJobs(n)' : Duration(o)' = otel'[n].maxDuration
      <3>z. PICK z : z = otel'[n].maxDuration
        OBVIOUS
      <3>1. z = Larger(q.maxDuration, d)
        BY <1>0, <2>1, <2>5, <3>z
      <3>2. z \in Nat /\ q.maxDuration <= z /\ d <= z /\ (z = d \/ z = q.maxDuration)
        BY <1>0, <2>old, <3>1 DEF Larger
      <3>3. ASSUME NEW o \in SeenJobs(n)' PROVE Duration(o)' <= z
        <4>1. CASE o = i
          BY <2>2, <3>2, <4>1
        <4>2. CASE o # i
          BY <2>3, <2>4, <2>old, <3>2, <3>3, <4>2
        <4>3. QED
          BY <4>1, <4>2
      <3>4. z = 0 \/ \E o \in SeenJobs(n)' : Duration(o)' = z
        <4>1. CASE z = d
          BY <2>2, <2>3, <4>1
        <4>2. CASE z = q.maxDuration
          BY <2>3, <2>4, <2>old, <4>2
        <4>3. QED
          BY <3>2, <4>1, <4>2
      <3>5. QED
        BY <3>2, <3>3, <3>4, <3>z
    <2>8. QED
      BY <2>6, <2>7 DEF LongestInv
  <1>3. ASSUME clearMetrics PROVE LongestInv'
    <2>1. otel' = [n \in Names |-> EmptyMetrics] /\ \A n : SeenJobs(n)' = {}
      BY <1>0, <1>3, ClearKeeps, ClearCounts
    <2>2. EmptyMetrics.maxDuration = 0
      BY DEF EmptyMetrics
    <2>3. \A n \in Names : otel'[n].maxDuration = 0
      BY <2>1, <2>2
    <2>4. QED
      BY <2>1, <2>3 DEF LongestInv
  <1>4. QED
    BY <1>1, <1>2, <1>3, StepKinds

\* Initially the windows are empty.
LEMMA WindowsInit == Init => WindowsInv
  <1> SUFFICES ASSUME Init PROVE WindowsInv
    OBVIOUS
  <1>1. /\ job = <<>> /\ history = [h \in Handles |-> <<>>] /\ cleared = [h \in Handles |-> 0]
        /\ coll = [h \in Handles |-> EmptyCollector] /\ otel = [n \in Names |-> EmptyMetrics]
    BY DEF Init
  <1>2. DOMAIN <<>> = {} /\ Len(<<>>) = 0 /\ <<>> = [k \in {} |-> 0]
    OBVIOUS
  <1>3. EmptyCollector.totals.processed = 0 /\ EmptyCollector.samples = <<>>
        /\ \A l \in Labels : EmptyCollector.byName[l].durationTotalMs = 0
    <2>1. NoNameTotals.durationTotalMs = 0 /\ NoTotals.processed = 0
      BY DEF NoNameTotals, NoTotals
    <2>2. /\ EmptyCollector.totals = NoTotals /\ EmptyCollector.byName = [l \in Labels |-> NoNameTotals]
          /\ EmptyCollector.samples = <<>>
      BY DEF EmptyCollector
    <2>3. QED
      BY <2>1, <2>2
  <1>4. EmptyMetrics.recent = <<>> /\ EmptyMetrics.maxDuration = 0
    BY DEF EmptyMetrics
  <1>5. \A n : SeenJobs(n) = {}
    <2>1. \A h \in Handles : SinceClear(h) = {}
      BY <1>1, <1>2 DEF SinceClear
    <2>2. QED
      BY <2>1 DEF SeenJobs
  <1>6. TimesInv
    BY <1>1, <1>2 DEF TimesInv
  <1>7. BufferInv
    <2>1. ASSUME NEW h \in Handles
          PROVE  history[h] = <<>> /\ coll[h].samples = <<>> /\ coll[h].totals.processed = 0
      BY <1>1, <1>3
    <2>2. QED
      BY <1>2, <2>1 DEF BufferInv
  <1>8. SumInv
    <2>1. ASSUME NEW h \in Handles, NEW l \in Labels
          PROVE  coll[h].byName[l].durationTotalMs = SumOf([i \in LabelJobs(h, l) |-> Duration(i)])
      <3>f. PICK f : f = [i \in LabelJobs(h, l) |-> Duration(i)]
        OBVIOUS
      <3>1. LabelJobs(h, l) = {}
        BY <1>1, <1>2 DEF LabelJobs, Finished
      <3>2. DOMAIN f = {}
        BY <3>1, <3>f
      <3>3. UNION {{x} \X (1 .. f[x]) : x \in DOMAIN f} = {}
        BY <3>2
      <3>4. SumOf(f) = 0
        BY <3>3, FS_EmptySet DEF SumOf
      <3>5. QED
        BY <1>1, <1>3, <3>4, <3>f
    <2>2. QED
      BY <2>1 DEF SumInv
  <1>9. RecentInv /\ LongestInv
    <2>1. \A n \in Names : otel[n].recent = <<>> /\ otel[n].maxDuration = 0
      BY <1>1, <1>4
    <2>2. RecentInv
      BY <1>2, <1>5, <2>1 DEF RecentInv
    <2>3. LongestInv
      BY <1>5, <2>1 DEF LongestInv
    <2>4. QED
      BY <2>2, <2>3
  <1>10. QED
    BY <1>6, <1>7, <1>8, <1>9 DEF WindowsInv

\* Every step preserves WindowsInv.
LEMMA WindowsNext == HandleTypes /\ JobInv /\ CountsInv /\ WindowsInv /\ [Next]_vars => WindowsInv'
  BY TimesNext, BufferNext, SumNext, RecentNext, LongestNext DEF WindowsInv

\* The windows of a worker are those of WindowsExact.
LEMMA WorkerWindows ==
  ASSUME HistoryInv, BufferInv, JobInv, NEW h \in Handles
  PROVE  LET done   == history[h]
             window == {k \in DOMAIN done :
                          InLatest(k, Len(done)) /\ job[done[k]].end >= now - WindowMs} IN
         /\ MaxSamples > 0 => Cardinality(DOMAIN coll[h].samples) <= MaxSamples
         /\ getWindowSamples(coll[h], now) = [k \in window |-> SampleOf(done[k])]
  <1>d. PICK done : done = history[h]
    OBVIOUS
  <1>s. PICK s : s = coll[h].samples
    OBVIOUS
  <1>n. PICK n \in Nat : n = Len(done) /\ DOMAIN done = 1..n
    BY <1>d DEF HistoryInv
  <1>m. PICK m \in Nat : m = MaxSamples
    BY StatsAssumption
  <1>1. /\ DOMAIN s \subseteq 1..n /\ s = [k \in DOMAIN s |-> SampleOf(done[k])]
        /\ \A k \in DOMAIN s : InLatest(k, n)
        /\ \A k \in DOMAIN done \ DOMAIN s : ~InLatest(k, n) \/ job[done[k]].end < now - WindowMs
    BY <1>d, <1>m, <1>n, <1>s DEF BufferInv
  <1>2. m > 0 => Cardinality(DOMAIN s) <= m
    <2> SUFFICES ASSUME m > 0 PROVE Cardinality(DOMAIN s) <= m
      OBVIOUS
    <2>1. DOMAIN s \in SUBSET (n - m + 1 .. n)
      BY <1>1, <1>m DEF InLatest
    <2>2. IsFiniteSet(n - m + 1 .. n) /\ Cardinality(n - m + 1 .. n) = m
      BY FS_Interval
    <2>3. QED
      BY <2>1, <2>2, FS_Subset
  <1> DEFINE window == {k \in DOMAIN done : InLatest(k, n) /\ job[done[k]].end >= now - WindowMs}
             kept == {k \in DOMAIN s : s[k].completedAt >= now - WindowMs}
  <1>3. \A k \in DOMAIN s : s[k] = SampleOf(done[k]) /\ s[k].completedAt = job[done[k]].end
    BY <1>1 DEF SampleOf
  <1>4. kept = window
    <2>1. ASSUME NEW k \in window PROVE k \in DOMAIN s
      <3>1. job[done[k]].end \in Nat /\ now \in Nat /\ WindowMs \in Nat
        <4>1. done[k] \in DOMAIN job
          BY <1>d DEF HistoryInv
        <4>2. QED
          BY <4>1, JobTypes, StatsAssumption DEF JobInv
      <3>2. InLatest(k, n) /\ ~(job[done[k]].end < now - WindowMs) /\ k \in DOMAIN done
        BY <1>n, <2>1, <3>1
      <3>3. QED
        BY <1>1, <3>2
    <2>2. QED
      BY <1>1, <1>3, <1>n, <2>1
  <1>5. getWindowSamples(coll[h], now) = [k \in kept |-> s[k]]
    BY <1>s DEF getWindowSamples, Since, Restrict
  <1>6. [k \in kept |-> s[k]] = [k \in window |-> SampleOf(done[k])]
    BY <1>3, <1>4
  <1>7. QED
    BY <1>2, <1>5, <1>6, <1>d, <1>m, <1>n, <1>s

\* The throughput counts no job that left the window, and misses at most those of
\* the time bucket its edge cuts.
LEMMA QueueWindow ==
  ASSUME JobInv, HistoryInv, RecentInv, NEW n \in Names
  PROVE  LET later(t) == Cardinality({i \in SeenJobs(n) : job[i].end >= t}) IN
         /\ JobsInWindow(otel[n], now) \in Nat
         /\ JobsInWindow(otel[n], now) <= later(now - ThroughputWindowMs)
         /\ JobsInWindow(otel[n], now) >= later(now - ThroughputWindowMs + BucketMs - 1)
  <1>S. PICK S : S = SeenJobs(n)
    OBVIOUS
  <1>r. PICK r : r = otel[n].recent
    OBVIOUS
  <1>c. PICK cut \in Int : cut = now - ThroughputWindowMs
    BY StatsAssumption DEF JobInv
  <1>b. PICK b : b = [i \in S |-> TimeBucket(job[i].end)]
    OBVIOUS
  <1>D. PICK D : D = {t \in DOMAIN r : t >= cut}
    OBVIOUS
  <1>f. PICK f : f = pruneRecent(r, now)
    OBVIOUS
  <1>1. S \in SUBSET DOMAIN job /\ \A T \in SUBSET S : IsFiniteSet(T) /\ Cardinality(T) \in Nat
    BY <1>S, SeenIs, JobsFinite, FS_CardinalityType DEF JobInv
  <1>2. ASSUME NEW i \in S
        PROVE  /\ b[i] = TimeBucket(job[i].end) /\ b[i] \in Nat /\ job[i].end \in Nat
               /\ b[i] <= job[i].end /\ b[i] >= job[i].end - BucketMs + 1
               /\ b[i] \in DOMAIN r \/ b[i] < cut
    <2>1. b[i] = TimeBucket(job[i].end) /\ job[i].end \in Nat
      BY <1>1, <1>b, JobTypes
    <2>2. TimeBucket(job[i].end) \in DOMAIN r \/ TimeBucket(job[i].end) < cut
      BY <1>S, <1>c, <1>r DEF RecentInv
    <2>3. QED
      BY <2>1, <2>2, TimeBucketIs
  <1>3. f = [t \in D |-> Cardinality({i \in S : b[i] = t})]
    <2>1. f = [t \in D |-> r[t]]
      BY <1>D, <1>c, <1>f DEF pruneRecent, Restrict
    <2>2. \A t \in DOMAIN r : r[t] = Cardinality({i \in S : TimeBucket(job[i].end) = t})
      BY <1>S, <1>r DEF RecentInv
    <2>3. \A t : {i \in S : TimeBucket(job[i].end) = t} = {i \in S : b[i] = t}
      BY <1>2
    <2>4. QED
      BY <1>D, <2>1, <2>2, <2>3
  <1>4. JobsInWindow(otel[n], now) = Cardinality({i \in S : b[i] \in D})
    <2>1. JobsInWindow(otel[n], now) = SumOf(f)
      BY <1>f, <1>r DEF JobsInWindow
    <2>2. IsFiniteSet(S)
      BY <1>1
    <2>3. QED
      BY <1>3, <2>1, <2>2, SumFibres
  <1> DEFINE In == {i \in S : b[i] \in D}
             Later(t) == {i \in S : job[i].end >= t}
  <1>5. In \in SUBSET Later(cut)
    BY <1>2, <1>D
  <1>6. Later(cut + BucketMs - 1) \in SUBSET In
    <2>1. BucketMs \in Nat
      BY StatsAssumption
    <2>2. ASSUME NEW i \in S, job[i].end >= cut + BucketMs - 1 PROVE b[i] \in D
      <3>1. b[i] >= cut /\ ~(b[i] < cut)
        BY <1>2, <2>1, <2>2
      <3>2. QED
        BY <1>2, <1>D, <3>1
    <2>3. QED
      BY <2>2
  <1>7. In \in SUBSET S /\ Later(cut) \in SUBSET S /\ Later(cut + BucketMs - 1) \in SUBSET S
    OBVIOUS
  <1> HIDE DEF In, Later
  <1>8. Cardinality(In) \in Nat /\ Cardinality(In) <= Cardinality(Later(cut))
        /\ Cardinality(Later(cut + BucketMs - 1)) <= Cardinality(In)
    BY <1>1, <1>5, <1>6, <1>7, FS_Subset
  <1>9. JobsInWindow(otel[n], now) = Cardinality(In)
    BY <1>4 DEF In
  <1>10. /\ {i \in SeenJobs(n) : job[i].end >= now - ThroughputWindowMs} = Later(cut)
         /\ {i \in SeenJobs(n) : job[i].end >= now - ThroughputWindowMs + BucketMs - 1}
              = Later(cut + BucketMs - 1)
    BY <1>S, <1>c DEF Later
  <1>11. QED
    BY <1>8, <1>9, <1>10

\* A percentile is read from the buckets as the smallest that is not below it.
LEMMA PercentileRead ==
  ASSUME JobInv, HistoryInv, RegistryInv, TimesInv, LongestInv,
         NEW n \in Names, SeenJobs(n) # {}, NEW p \in {50, 95, 99},
         NEW durations, durations = [i \in SeenJobs(n) |-> Duration(i)],
         NEW exact, exact = calculatePercentile(durations, p),
         NEW above, above = {b \in Buckets : b >= exact}
  PROVE  PercentileFromBuckets(otel[n], p) = IF above = {} THEN Max(Range(durations)) ELSE Min(above)
  <1>S. PICK S : S = SeenJobs(n) /\ S # {}
    OBVIOUS
  <1>q. PICK q : q = otel[n]
    OBVIOUS
  <1>1. S \in SUBSET DOMAIN job /\ IsFiniteSet(S)
    BY <1>S, SeenIs, JobsFinite DEF JobInv
  <1>2. durations \in [S -> 0..now] /\ now \in Nat /\ \A i \in S : durations[i] = Duration(i)
    BY <1>1, <1>S, DurationsBounded DEF JobInv
  <1>3. ASSUME NEW b \in Buckets
        PROVE  100 * q.bucketCounts[b] >= p * q.durationCount <=> b >= exact
    <2>1. b \in Nat
      BY StatsAssumption
    <2>2. AtMost(durations, b) = ShortJobs(n, b)
      BY <1>2, <1>S DEF AtMost, ShortJobs
    <2>3. q.bucketCounts[b] = Cardinality(AtMost(durations, b)) /\ q.durationCount = Cardinality(S)
      BY <1>S, <1>q, <2>2 DEF RegistryInv
    <2>4. 100 * Cardinality(AtMost(durations, b)) >= p * Cardinality(S) <=> b >= calculatePercentile(durations, p)
      BY <1>1, <1>2, <1>S, <2>1, BucketsAgree
    <2>5. QED
      BY <2>3, <2>4
  <1>4. {b \in Buckets : 100 * q.bucketCounts[b] >= p * q.durationCount} = above
    BY <1>3
  <1>5. q.maxDuration = Max(Range(durations))
    <2>1. Range(durations) = {durations[i] : i \in S}
      BY <1>2 DEF Range
    <2>2. q.maxDuration \in Nat /\ \A i \in S : durations[i] <= q.maxDuration
      BY <1>2, <1>S, <1>q DEF LongestInv
    <2>3. \E i \in S : durations[i] = q.maxDuration
      <3>1. CASE q.maxDuration = 0
        <4>1. PICK i \in S : TRUE
          BY <1>S
        <4>2. durations[i] \in Nat /\ durations[i] <= 0
          BY <1>2, <2>2, <3>1
        <4>3. QED
          BY <3>1, <4>2
      <3>2. CASE q.maxDuration # 0
        BY <1>2, <1>S, <1>q, <3>2 DEF LongestInv
      <3>3. QED
        BY <3>1, <3>2
    <2>4. /\ q.maxDuration \in Range(durations) /\ \A y \in Range(durations) : q.maxDuration >= y /\ y \in Nat
      BY <1>2, <2>1, <2>2, <2>3
    <2>5. QED
      BY <2>4 DEF Max
  <1>6. PercentileFromBuckets(q, p) = IF above = {} THEN q.maxDuration ELSE Min(above)
    BY <1>4 DEF PercentileFromBuckets
  <1>7. QED
    BY <1>5, <1>6, <1>q

------------------------------------------------------------------------------
(* The verdicts *)

\* The quotient of a division, from its bounds.
LEMMA DivBounds ==
  ASSUME NEW a \in Int, NEW b \in Nat \ {0}, NEW k \in Int
  PROVE  /\ a \div b \in Int
         /\ a >= k * b => a \div b >= k
         /\ a < k * b => a \div b < k
  OBVIOUS

\* The figures of a queue the verdicts are derived from.
Figures(q) == q.completed \in Nat /\ q.failed \in Nat /\ q.waiting \in Nat

\* A queue without more than 5% of errors and 100 waiting jobs scores above 80,
\* one with more than 50% of errors does not.
LEMMA Scores ==
  ASSUME NEW q, Figures(q), NEW rate \in Nat
  PROVE  /\ calculateHealth(q) = "excellent" => calculatePerformanceScore(q, rate) > 80
         /\ calculateHealth(q) = "critical" => calculatePerformanceScore(q, rate) <= 80
  <1> DEFINE t == Total(q)
             n == Max({1, t})
             base == 100 - Backlog(q) + (IF rate > 10000 THEN 5 ELSE IF rate < 100 THEN -10 ELSE 0)
             raw == (2 * (base * n - 50 * q.failed) + n) \div (2 * n)
  <1>1. t \in Nat /\ n \in Nat \ {0} /\ (t > 0 => n = t) /\ (t = 0 => n = 1) /\ q.failed \in Nat /\ q.failed <= t
    BY TwoMax DEF Figures, Total
  <1>2. base \in 70..105 /\ (q.waiting <= 100 => base >= 85)
    BY DEF Backlog, Figures
  <1>3. calculatePerformanceScore(q, rate) = Max({0, Min({100, raw})})
    BY DEF calculatePerformanceScore
  <1>4. ErrorRateOver(q, 50) <=> 100 * q.failed > 50 * t
    BY DEF ErrorRateOver
  <1>5. ErrorRateOver(q, 5) <=> 100 * q.failed > 5 * t
    BY DEF ErrorRateOver
  <1> HIDE DEF t, n, base
  <1>6. base * n \in Int /\ 2 * n \in Nat \ {0} /\ 2 * (base * n - 50 * q.failed) + n \in Int
    BY <1>1, <1>2
  <1>7. raw \in Int
    BY <1>6, DivBounds
  <1>8. calculatePerformanceScore(q, rate) =
          IF raw >= 100 THEN 100 ELSE IF raw >= 0 THEN raw ELSE 0
    <2> HIDE DEF raw
    <2>1. Min({100, raw}) = IF 100 <= raw THEN 100 ELSE raw
      BY <1>7, TwoMin
    <2>2. QED
      BY <1>3, <1>7, <2>1, TwoMax
  <1>9. ASSUME calculateHealth(q) = "excellent" PROVE calculatePerformanceScore(q, rate) > 80
    <2>1. ~ErrorRateOver(q, 5) /\ ~(q.waiting > 100)
      BY <1>9 DEF calculateHealth
    <2>2. 100 * q.failed <= 5 * t /\ base >= 85
      BY <1>1, <1>2, <1>5, <2>1 DEF Figures
    <2>3. base * n >= 85 * n
      BY <1>1, <1>2, <2>2
    <2>4. 2 * (base * n - 50 * q.failed) + n >= 81 * (2 * n)
      BY <1>1, <1>6, <2>2, <2>3
    <2>5. raw >= 81
      BY <1>6, <2>4, DivBounds
    <2> HIDE DEF raw
    <2>6. QED
      BY <1>7, <1>8, <2>5
  <1>10. ASSUME calculateHealth(q) = "critical" PROVE calculatePerformanceScore(q, rate) <= 80
    <2>1. ErrorRateOver(q, 50)
      BY <1>10 DEF calculateHealth
    <2>2. 100 * q.failed > 50 * t /\ t > 0
      BY <1>1, <1>4, <2>1
    <2>3. base * n <= 105 * n
      BY <1>1, <1>2
    <2>4. 2 * (base * n - 50 * q.failed) + n < 81 * (2 * n)
      BY <1>1, <1>6, <2>2, <2>3
    <2>5. raw < 81
      BY <1>6, <2>4, DivBounds
    <2> HIDE DEF raw
    <2>6. QED
      BY <1>7, <1>8, <2>5
  <1>11. QED
    BY <1>9, <1>10

\* The clear time is unknown only if jobs wait and none is done.
LEMMA ClearTimes ==
  ASSUME NEW q, Figures(q), NEW rate \in Nat
  PROVE  calculateEstimatedClearTime(q, rate) = -1 => calculateTrend(q, rate) = "falling_behind"
  <1>1. CASE q.waiting = 0
    BY <1>1 DEF calculateEstimatedClearTime
  <1>2. CASE q.waiting # 0 /\ rate = 0
    BY <1>2 DEF calculateTrend
  <1>3. CASE q.waiting # 0 /\ rate # 0
    <2>1. 200 * q.waiting * TicksPerMinute + rate \in Nat /\ 2 * rate \in Nat \ {0}
      <3>1. \A a, b \in Nat : a * b \in Nat
        OBVIOUS
      <3>2. 200 * q.waiting \in Nat /\ TicksPerMinute \in Nat
        BY StatsAssumption DEF Figures
      <3>3. 200 * q.waiting * TicksPerMinute \in Nat
        BY <3>1, <3>2
      <3>4. QED
        BY <1>3, <3>3
    <2>2. calculateEstimatedClearTime(q, rate) = (200 * q.waiting * TicksPerMinute + rate) \div (2 * rate)
      BY <1>3 DEF calculateEstimatedClearTime
    <2>3. calculateEstimatedClearTime(q, rate) >= 0
      BY <2>1, <2>2, DivBounds
    <2>4. QED
      BY <2>3
  <1>4. QED
    BY <1>1, <1>2, <1>3

\* A rate is a number.
LEMMA RateIs ==
  ASSUME NEW q, NEW t, JobsInWindow(q, t) \in Nat
  PROVE  Rate(q, t) \in Nat
  <1>1. ThroughputWindowMs \in Nat \ {0} /\ TicksPerMinute \in Nat /\ \A a, b \in Nat : a * b \in Nat
    BY StatsAssumption
  <1>2. 200 * JobsInWindow(q, t) * TicksPerMinute \in Nat
    BY <1>1
  <1>3. 200 * JobsInWindow(q, t) * TicksPerMinute + ThroughputWindowMs \in Nat
        /\ 2 * ThroughputWindowMs \in Nat \ {0}
    BY <1>1, <1>2
  <1>4. Rate(q, t) \in Int /\ Rate(q, t) >= 0
    BY <1>3, DivBounds DEF Rate
  <1>5. QED
    BY <1>4

------------------------------------------------------------------------------
(* The theorems *)

WorkersInv == HandleTypes /\ MapsInv /\ PauseInv /\ RunningInv /\ JobInv /\ CountsInv /\ WindowsInv

\* They hold in every reachable state.
THEOREM WorkersInvariant == Spec => []WorkersInv
  <1>1. Init => WorkersInv
    BY HandleTypesInit, MapsInit, FlagsInit, JobInit, CountsInit, WindowsInit DEF WorkersInv
  <1>2. WorkersInv /\ [Next]_vars => WorkersInv'
    BY HandleTypesNext, MapsNext, PauseNext, RunningNext, JobNext, CountsNext, WindowsNext DEF WorkersInv
  <1>3. QED
    BY <1>1, <1>2, PTL DEF Spec

\* The maps of the service hold handles of their kind under their own names, and
\* no worker counts fewer than zero active jobs, for any number of objects, names
\* and jobs (createWorker, closeWorker, wrapProcessor).
THEOREM WorkersTypes == Spec => []TypeOK
  <1>1. WorkersInv => TypeOK
    BY DEF WorkersInv, HandleTypes, MapInv, JobInv, TypeOK
  <1>2. QED
    BY <1>1, WorkersInvariant, PTL

\* Statistics are registered exactly while a worker is open, and one worker at a
\* time consumes a queue, whatever is created, closed, paused and resumed.
THEOREM WorkersStatsLive == Spec => []StatsAreLive
  <1>1. WorkersInv => StatsAreLive
    <2> SUFFICES ASSUME WorkersInv, phase = "up" PROVE StatsAreLive
      BY DEF StatsAreLive
    <2>1. \A n \in Names, h \in Handles : registered[n] = h <=> workers[n] = h /\ st[h] = "open"
      BY DEF WorkersInv, MapsInv, RegisteredInv
    <2>2. \A h, o \in Handles :
            (kind[h] = "worker" /\ kind[o] = "worker" /\ name[h] = name[o]
               /\ st[h] # "closed" /\ st[o] # "closed") => h = o
      BY DEF WorkersInv, MapsInv, InMaps
    <2>3. \A h \in Handles : kind[h] = "worker" =>
            (isRunning[h] <=> st[h] = "open") /\ (coll[h].pruning <=> isRunning[h])
      BY DEF WorkersInv, RunningInv
    <2>4. \A h \in Handles : pending[h] = {} /\ ~crossed[h] => isPaused[h] = paused[h]
      BY DEF WorkersInv, PauseInv
    <2>5. QED
      BY <2>1, <2>2, <2>3, <2>4 DEF StatsAreLive
  <1>2. QED
    BY <1>1, WorkersInvariant, PTL

\* When the shutdown is over, every object it could know of has settled, and the
\* queues are closed after the workers, for any number of objects.
THEOREM ShutdownComplete == Spec => []ShutdownClosesAll
  <1>1. WorkersInv => ShutdownClosesAll
    BY DEF WorkersInv, MapsInv, ShutdownInv, ShutdownClosesAll
  <1>2. QED
    BY <1>1, WorkersInvariant, PTL

\* Every finished job is in the counters of its worker, of its name and of its
\* duration buckets exactly once (wrapProcessor, record, recordMetrics), for any
\* number of jobs that overlap, workers that close and registries that are cleared.
THEOREM JobsCounted == Spec => []JobsCountedOnce
  <1>1. WorkersInv => JobsCountedOnce
    <2> SUFFICES ASSUME JobInv, CountsInv PROVE JobsCountedOnce
      BY DEF WorkersInv
    <2>1. ASSUME NEW h \in Handles
          PROVE  /\ activeJobCount[h] =
                      Cardinality({i \in BullActive(h) : job[i].st \in {"starting", "running"}})
                 /\ coll[h].totals.processed = Cardinality(Finished(h))
                 /\ coll[h].totals.completed = Cardinality({i \in Finished(h) : job[i].ok})
                 /\ coll[h].totals.failed = Cardinality({i \in Finished(h) : ~job[i].ok})
                 /\ Cardinality(jobNameSet[h]) <= MaxJobNameEntries
      BY DEF JobInv, Active, CountsInv, NamesInv, CollectorInv, OkJobs, FailedJobs
    <2>2. ASSUME NEW h \in Handles
          PROVE  /\ \A l \in jobNameSet[h] :
                      coll[h].byName[l].processed = Cardinality({i \in Finished(h) : job[i].name = l})
                 /\ coll[h].byName[Other].processed =
                      Cardinality({i \in Finished(h) : job[i].name \notin jobNameSet[h]})
      <3>1. \A l \in Labels : coll[h].byName[l].processed = Cardinality(LabelJobs(h, l))
        BY DEF CountsInv, CollectorInv
      <3>2. jobNameSet[h] \subseteq JobNames /\ Other \notin JobNames /\ Labels = JobNames \cup {Other}
        BY StatsAssumption DEF CountsInv, NamesInv, Labels
      <3>3. \A i \in Finished(h) :
              /\ job[i].name \in jobNameSet[h] => job[i].label = job[i].name
              /\ job[i].name \notin jobNameSet[h] => job[i].label = Other
        BY DEF CountsInv, NamesInv, Finished
      <3>4. ASSUME NEW l \in jobNameSet[h] PROVE LabelJobs(h, l) = {i \in Finished(h) : job[i].name = l}
        BY <3>2, <3>3, <3>4 DEF LabelJobs
      <3>5. LabelJobs(h, Other) = {i \in Finished(h) : job[i].name \notin jobNameSet[h]}
        BY <3>2, <3>3 DEF LabelJobs
      <3>6. QED
        BY <3>1, <3>2, <3>4, <3>5
    <2>3. ASSUME NEW n \in Names
          PROVE  /\ otel[n].durationCount = Cardinality(SeenJobs(n))
                 /\ ~pushed => otel[n].completed + otel[n].failed = Cardinality(SeenJobs(n))
                 /\ \A b \in Buckets :
                      otel[n].bucketCounts[b] = Cardinality({i \in SeenJobs(n) : Duration(i) <= b})
                 /\ Cardinality(otel[n].tracked) <= MaxJobNameEntries
                 /\ \A l \in otel[n].tracked :
                      otel[n].byJobName[l].count = Cardinality({i \in SeenJobs(n) : job[i].name = l})
      <3>1. otel[n].tracked \subseteq JobNames /\ Cardinality(otel[n].tracked) <= MaxJobNameEntries
        BY DEF CountsInv, RegistryInv, MetricsShape
      <3>2. QED
        BY <3>1 DEF CountsInv, RegistryInv, NameJobs, ShortJobs
    <2>4. QED
      BY <2>1, <2>2, <2>3 DEF JobsCountedOnce
  <1>2. QED
    BY <1>1, WorkersInvariant, PTL

\* The verdicts of transformOTelToQueuebert agree, whatever the rate.
Verdicts == \A n \in Names, rate \in Nat :
  LET q == otel[n] IN
  /\ calculateHealth(q) = "excellent" => calculatePerformanceScore(q, rate) > 80
  /\ calculateHealth(q) = "critical" => calculatePerformanceScore(q, rate) <= 80
  /\ calculateEstimatedClearTime(q, rate) = -1 => calculateTrend(q, rate) = "falling_behind"

\* A queue called excellent always scores above one called critical, and one
\* whose clear time is unknown falls behind (the last part of SnapshotSound), for
\* any counts a registry can reach and any push of queue counts.
THEOREM VerdictsAgree == Spec => []Verdicts
  <1>1. WorkersInv => Verdicts
    <2> SUFFICES ASSUME CountsInv PROVE Verdicts
      BY DEF WorkersInv
    <2>1. \A n \in Names : Figures(otel[n])
      BY DEF CountsInv, RegistryInv, MetricsShape, Figures
    <2>2. QED
      BY <2>1, Scores, ClearTimes DEF Verdicts
  <1>2. QED
    BY <1>1, WorkersInvariant, PTL

\* The window of a worker's statistics holds exactly the jobs that finished in it,
\* or the latest of them, its durations add up, and the throughput misses at most
\* the jobs of one time bucket (record, prune, getThroughput), for any number of
\* jobs, any sizes of the windows and any times at which they are pruned.
THEOREM WindowsAreExact == Spec => []WindowsExact
  <1>1. WorkersInv => WindowsExact
    <2> SUFFICES ASSUME WorkersInv PROVE WindowsExact
      OBVIOUS
    <2>0. JobInv /\ HistoryInv /\ BufferInv /\ SumInv /\ RecentInv
      BY DEF WorkersInv, CountsInv, WindowsInv
    <2>1. ASSUME NEW h \in Handles
          PROVE  LET done   == history[h]
                     window == {k \in DOMAIN done :
                                  InLatest(k, Len(done)) /\ job[done[k]].end >= now - WindowMs} IN
                 /\ MaxSamples > 0 => Cardinality(DOMAIN coll[h].samples) <= MaxSamples
                 /\ getWindowSamples(coll[h], now) = [k \in window |-> SampleOf(done[k])]
      BY <2>0, WorkerWindows
    <2>2. \A h \in Handles, l \in Labels :
            coll[h].byName[l].durationTotalMs = SumOf([i \in LabelJobs(h, l) |-> Duration(i)])
      BY <2>0 DEF SumInv
    <2>3. ASSUME NEW n \in Names
          PROVE  LET later(t) == Cardinality({i \in SeenJobs(n) : job[i].end >= t}) IN
                 /\ JobsInWindow(otel[n], now) <= later(now - ThroughputWindowMs)
                 /\ JobsInWindow(otel[n], now) >= later(now - ThroughputWindowMs + BucketMs - 1)
      BY <2>0, QueueWindow
    <2>4. QED
      BY <2>1, <2>2, <2>3, Zenon DEF WindowsExact, SampleOf, LabelJobs
  <1>2. QED
    BY <1>1, WorkersInvariant, PTL

\* A percentile read from the cumulative buckets is the exact nearest-rank
\* percentile of the durations rounded up to a bucket, and the verdicts agree
\* (calculatePercentileFromBuckets, transformOTelToQueuebert), for any buckets.
THEOREM SnapshotIsSound == Spec => []SnapshotSound
  <1>1. WorkersInv => SnapshotSound
    <2> SUFFICES ASSUME WorkersInv PROVE SnapshotSound
      OBVIOUS
    <2>0. JobInv /\ HistoryInv /\ RegistryInv /\ TimesInv /\ RecentInv /\ LongestInv
      BY DEF WorkersInv, CountsInv, WindowsInv
    <2>1. ASSUME NEW n \in Names, NEW p \in {50, 95, 99}, SeenJobs(n) # {}
          PROVE  LET durations == [i \in SeenJobs(n) |-> Duration(i)]
                     above == {b \in Buckets : b >= calculatePercentile(durations, p)} IN
                 PercentileFromBuckets(otel[n], p) = IF above = {} THEN Max(Range(durations)) ELSE Min(above)
      <3>1. PICK durations : durations = [i \in SeenJobs(n) |-> Duration(i)]
        OBVIOUS
      <3>2. PICK exact : exact = calculatePercentile(durations, p)
        OBVIOUS
      <3>3. PICK above : above = {b \in Buckets : b >= exact}
        OBVIOUS
      <3>4. PercentileFromBuckets(otel[n], p) = IF above = {} THEN Max(Range(durations)) ELSE Min(above)
        BY <2>0, <2>1, <3>1, <3>2, <3>3, PercentileRead
      <3>5. QED
        BY <3>1, <3>2, <3>3, <3>4
    <2>2. ASSUME NEW n \in Names
          PROVE  LET q == otel[n]
                     rate == Rate(q, now)
                     score == calculatePerformanceScore(q, rate) IN
                 /\ calculateHealth(q) = "excellent" => score > 80
                 /\ calculateHealth(q) = "critical" => score <= 80
                 /\ calculateEstimatedClearTime(q, rate) = -1 => calculateTrend(q, rate) = "falling_behind"
      <3>1. Rate(otel[n], now) \in Nat
        BY <2>0, QueueWindow, RateIs
      <3>2. Figures(otel[n])
        BY <2>0 DEF RegistryInv, MetricsShape, Figures
      <3>3. QED
        BY <3>1, <3>2, Scores, ClearTimes
    <2>3. QED
      BY <2>1, <2>2, Zenon DEF SnapshotSound
  <1>2. QED
    BY <1>1, WorkersInvariant, PTL

===============================================================================
