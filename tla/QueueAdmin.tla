------------------------------- MODULE QueueAdmin -------------------------------
(***************************************************************************)
(* The administration of the queues: QueuebertModule with its queue        *)
(* provider, the requests QueuebertController serves, and the parts of     *)
(* QueuebertService that answer them (statistics, clean, drain, pause,     *)
(* resume, and the queues a migration is given), with the jobs, other      *)
(* requests and the shutdown of the module between any two awaits.         *)
(* A request is a record [kind, slots, source, target, cache, bad]: slots  *)
(* are the queues in its path (none: all), source and target are pairs of  *)
(* a queue name and a Redis id, bad says that a parameter does not parse.  *)
(***************************************************************************)
EXTENDS QueueConfig, QueueRates

CONSTANTS
  Requests,    \* bound: the requests that are served
  Slots,       \* bound: the positions of options.queues
  Scenarios,   \* bound: [options, asks, requests, faults, jobs, ticks, reported], where a
               \* processor reports a [perMinute, avgMs, failurePercent]
  Threshold, SampleSize   \* options.jobTypeDiscovery

NoSample == [completed |-> -1, backlog |-> 0, timestamp |-> 0]
NoFigures == [trend |-> "none"]
NoHandle == [type |-> "none", at |-> 0]
Roles == {"source", "target"}

\* The injected and the given queues are on the instance the options say.
Consistent(o) ==
  \A i \in DOMAIN o.queues : o.queues[i].at = getRedisInstanceId(o, o.queues[i])

ASSUME AdminAssumption ==
  /\ Slots \subseteq Nat \ {0}
  /\ \A s \in Scenarios :
    /\ DOMAIN s.options.queues \subseteq Slots /\ Consistent(s.options)
    /\ \E n \in Slots \cup {0} : DOMAIN s.options.queues = 1..n
    /\ None \notin s.asks /\ s.faults \in BOOLEAN
    /\ \A i \in DOMAIN s.options.queues : Empty \notin {s.options.queues[i].statsKey, s.options.queues[i].redis}
    /\ \A a \in s.asks, role \in Roles : a[role] = <<a[role][1], a[role][2]>>
    /\ s.reported \subseteq [perMinute : Nat, avgMs : Nat, failurePercent : Nat]

ASSUME SampleAssumption == Threshold \in Nat /\ SampleSize \in Nat /\ TicksPerMinute \in Nat \ {0}

VARIABLES
  scenario,     \* chosen in Init
  now,          \* the clock
  life,         \* "init", "up", "failed", "closing", "down"
  hooks,        \* of "provider" and "service": whose onModuleDestroy is under way
  awaited,      \* the migrations that the service waits for
  queuesMap,    \* QueuebertQueuesProvider.queuesMap
  ownedQueues,  \* QueuebertQueuesProvider.ownedQueues
  closed,       \* the Queue objects of entries that were closed
  unclosed,     \* those whose close() rejected
  ask, stage, answer,  \* of a request; stage is where its handler stands
  handle,       \* what it was given in each role
  open, toClose,\* the roles of its temporary queues, and those it still has to close
  rejected,     \* history: a close() of the request rejected
  phase,        \* of its migration: "none", "hold", "move", "restore", "undo", "failed"
  hold,         \* in each role, what is under way to the queue's pause flag: "ask" for it,
                \* "running" and to be paused, "held" until it is resumed, or "none"
  cmd, seen, figures,  \* of a request and a queue: the next command, its counts, its answer
  q, reason, finished, done,  \* of a queue: Redis, the pause reason, the jobs that ended, the
                              \* completions its processor counted
  context,      \* QueuebertProcessorAdapter.queueContext: [backlog, added]
  rateSamples,  \* QueuebertService.rateSamples
  rate,         \* history: the completions before, in and lost between the rates, the time
                \* these cover, and the completions they amount to, times TicksPerMinute
  clash,        \* history: queues on which an opposite control or a migration was in flight
  settled       \* history: the control a queue obeys

boundVars   == <<scenario, now>>
lifeVars    == <<life, hooks, awaited, queuesMap, ownedQueues, closed, unclosed>>
guardVars   == <<phase, hold>>
handleVars  == <<handle, open, toClose, rejected, guardVars>>
readVars    == <<seen, figures, rateSamples, rate>>
controlVars == <<reason, clash, settled>>
jobVars     == <<q, finished, done, context>>
vars == <<boundVars, lifeVars, ask, stage, answer, handleVars, cmd, readVars, controlVars, jobVars>>

Options == scenario.options
ProcessorOf(i) == IF i \in DOMAIN Options.queues THEN Options.queues[i].processor ELSE "none"
Processed(i) == ProcessorOf(i) \in {"found", "adapted"}
Untouched == [role \in Roles |-> "none"]
NoRates == [before |-> 0, counted |-> 0, lost |-> 0, time |-> 0, answered |-> 0]

Init ==
  /\ scenario \in Scenarios /\ now = 0
  /\ life = "init" /\ hooks = {} /\ awaited = {} /\ queuesMap = {} /\ ownedQueues = {} /\ closed = {} /\ unclosed = {}
  /\ ask = [r \in Requests |-> None] /\ stage = [r \in Requests |-> "idle"]
  /\ answer = [r \in Requests |-> "none"]
  /\ handle = [r \in Requests |-> [role \in Roles |-> NoHandle]]
  /\ open = [r \in Requests |-> {}] /\ toClose = [r \in Requests |-> {}]
  /\ rejected = [r \in Requests |-> FALSE]
  /\ phase = [r \in Requests |-> "none"] /\ hold = [r \in Requests |-> Untouched]
  /\ cmd = [r \in Requests |-> [i \in Slots |-> "none"]]
  /\ seen = [r \in Requests |-> [i \in Slots |-> [waiting |-> 0, active |-> 0, completed |-> 0, paused |-> FALSE]]]
  /\ figures = [r \in Requests |-> [i \in Slots |-> NoFigures]]
  /\ q = [i \in Slots |-> [waiting |-> 0, active |-> 0, completed |-> 0, paused |-> FALSE]]
  /\ reason = [i \in Slots |-> FALSE]
  /\ finished = [i \in Slots |-> 0] /\ done = [i \in Slots |-> 0]
  /\ context = [i \in Slots |-> [backlog |-> 0, added |-> 0]]
  /\ rateSamples = [i \in Slots |-> NoSample]
  /\ rate = [i \in Slots |-> NoRates]
  /\ clash = [r \in Requests |-> {}] /\ settled = [i \in Slots |-> "none"]

------------------------------------------------------------------------------
(* The module: resolution of the queues, shutdown *)

\* forRoot and onModuleInit. When an entry cannot be resolved the module fails,
\* after the other entries were resolved and their connections opened.
onModuleInit ==
  /\ life = "init"
  /\ IF validateQueuebertOptions(Options)
     THEN /\ queuesMap' = Resolved(Options) /\ ownedQueues' = Owned(Options)
          /\ life' = IF Resolved(Options) = DOMAIN Options.queues THEN "up" ELSE "failed"
     ELSE life' = "failed" /\ UNCHANGED <<queuesMap, ownedQueues>>
  /\ UNCHANGED <<boundVars, hooks, awaited, closed, unclosed, ask, stage, answer, handleVars, cmd, readVars>>
  /\ UNCHANGED <<controlVars, jobVars>>

\* A migration has nothing more to await: what it still has in flight is not
\* looked at any more.
RunOver(r) ==
  phase[r] = "failed" \/ (phase[r] \in {"restore", "undo"} /\ \A role \in Roles : hold[r][role] # "held")

\* A start was answered: its migration runs in the background.
Started(r) == stage[r] = "answered" /\ ask[r].kind = "start" /\ answer[r] = "ok"

\* The hooks of the provider and of the service run side by side.
onModuleDestroy ==
  /\ life = "up" /\ scenario.faults /\ life' = "closing"
  /\ hooks' = {"provider", "service"} /\ awaited' = {r \in Requests : Started(r) /\ ~RunOver(r)}
  /\ UNCHANGED <<queuesMap, ownedQueues, closed, unclosed>>
  /\ UNCHANGED <<boundVars, ask, stage, answer, handleVars, cmd, readVars, controlVars, jobVars>>

\* The provider's close of an owned queue settles; a rejection is logged.
CloseOwned(i) ==
  /\ life = "closing" /\ i \in ownedQueues \ (closed \cup unclosed)
  /\ \/ closed' = closed \cup {i} /\ UNCHANGED unclosed
     \/ unclosed' = unclosed \cup {i} /\ UNCHANGED closed
  /\ UNCHANGED <<life, hooks, awaited, queuesMap, ownedQueues>>
  /\ UNCHANGED <<boundVars, ask, stage, answer, handleVars, cmd, readVars, controlVars, jobVars>>

HookEnds(hook) ==
  /\ hook \in hooks /\ hooks' = hooks \ {hook}
  /\ life' = IF hooks = {hook} THEN "down" ELSE life

\* All owned queues have settled.
ProviderDestroyed ==
  /\ HookEnds("provider") /\ ownedQueues \subseteq closed \cup unclosed /\ ownedQueues' = {}
  /\ UNCHANGED <<awaited, queuesMap, closed, unclosed, ask, stage, answer, handleVars, cmd, readVars>>
  /\ UNCHANGED <<boundVars, controlVars, jobVars>>

\* The migrations have settled; the service drops its samples.
ServiceDestroyed ==
  /\ HookEnds("service") /\ \A r \in awaited : RunOver(r)
  /\ rateSamples' = [i \in Slots |-> NoSample] /\ rate' = [i \in Slots |-> NoRates]
  /\ UNCHANGED <<awaited, queuesMap, ownedQueues, closed, unclosed, ask, stage, answer, handleVars, cmd>>
  /\ UNCHANGED <<seen, figures, boundVars, controlVars, jobVars>>

------------------------------------------------------------------------------
(* A request arrives *)

Migrations == {"preview", "execute", "start"}
CacheRequests == {"cachePreview", "cacheStart"}
Controls == {"pause", "resume"}
Counting == {"stats", "queueStats", "metrics", "clean", "drain"}

\* requireEndpoint: the endpoint behind a kind of request
Endpoint(kind) ==
  IF kind \in Migrations \cup CacheRequests THEN "migrations"
  ELSE IF kind = "queueStats" THEN "stats" ELSE kind
isEndpointEnabled(kind) == Endpoint(kind) \in Options.endpoints \cup {"stats"}

\* The queues in the path of the request, all of them when there is none.
Addressed(a) == IF a.slots = {} THEN queuesMap ELSE a.slots

\* Seeded bug: nobody looks whether the queue in the path is there.
RefusedUnchecked(a) == ~isEndpointEnabled(a.kind) \/ a.bad

Refused(a) ==
  \/ ~isEndpointEnabled(a.kind) \/ a.bad
  \/ a.kind \in Counting \cup Controls /\ ~(Addressed(a) \subseteq queuesMap)

MayAsk(r, a) ==
  /\ stage[r] = "idle" /\ life \in {"up", "closing", "down"} /\ a \in scenario.asks
  /\ Cardinality({o \in Requests : stage[o] # "idle"}) < scenario.requests
  /\ ask' = [ask EXCEPT ![r] = a]

Answer(r, what) ==
  /\ stage' = [stage EXCEPT ![r] = "answered"] /\ answer' = [answer EXCEPT ![r] = what]

Refuse(r, a) ==
  /\ MayAsk(r, a) /\ Refused(a) /\ Answer(r, "error")
  /\ UNCHANGED <<boundVars, lifeVars, handleVars, cmd, readVars, controlVars, jobVars>>

\* Statistics, metrics, clean and drain first count the jobs of their queues.
AskCounts(r, a) ==
  /\ a.kind \in Counting /\ MayAsk(r, a) /\ ~Refused(a)
  /\ stage' = [stage EXCEPT ![r] = "before"]
  /\ cmd' = [cmd EXCEPT ![r] = [i \in Slots |-> IF i \in Addressed(a) THEN "waiting" ELSE "none"]]
  /\ UNCHANGED <<boundVars, answer, lifeVars, handleVars, readVars, controlVars, jobVars>>

\* A control of queue i that is not answered, or has a command that may still take effect
InFlight(o, i) ==
  /\ ask[o] # None /\ ask[o].kind \in Controls
  /\ cmd[o][i] \in {"command", "reason"} \/ (cmd[o][i] # "none" /\ stage[o] = "control")
Opposite(o, a) == ask[o] # None /\ ask[o].kind \in Controls \ {a.kind}

\* The entry whose queue a request was given in a role, 0 when there is none
At(r, role) == EntryBehind(Options, handle[r][role], ask[r][role])

\* A migration is reading or setting the pause flag of queue i, or is to give it back.
Touches(r, i) == \E role \in Roles : hold[r][role] # "none" /\ At(r, role) = i

\* Pause and resume send the command to every queue before any reason changes.
AskControl(r, a) ==
  LET mine == Addressed(a)
      hit(o) == IF Opposite(o, a) THEN {i \in mine : InFlight(o, i)} ELSE {}
      touched == {i \in mine : \E o \in Requests : Touches(o, i)} IN
  /\ a.kind \in Controls /\ MayAsk(r, a) /\ ~Refused(a)
  /\ stage' = [stage EXCEPT ![r] = "control"]
  /\ cmd' = [cmd EXCEPT ![r] = [i \in Slots |-> IF i \in mine THEN "command" ELSE "none"]]
  /\ clash' = [o \in Requests |-> IF o = r THEN touched \cup UNION {hit(p) : p \in Requests \ {r}}
                                  ELSE clash[o] \cup hit(o)]
  /\ settled' = [i \in Slots |-> IF i \in mine THEN "none" ELSE settled[i]]
  /\ UNCHANGED <<boundVars, answer, reason, lifeVars, handleVars, readVars, jobVars>>

Found(a, role) == getQueueForRedisInstance(Options, queuesMap, a[role][1], a[role][2])
Temporary(h) == {role \in Roles : h[role].type = "temporary"}

\* assertDistinctMigrationTargets: one object, or one name on one id
Same(a, h) ==
  a.source = a.target
  \/ (h.source.type = "registered" /\ h.target.type = "registered" /\ h.source.at = h.target.at)

\* Seeded bug: whatever was looked up is closed, not only the temporary queues.
ToCloseAll(a, h) == {role \in Roles : h[role].type # "none"}

\* Seeded bug: the target is forgotten.
ToCloseSource(a, h) == Temporary(h) \ {"target"}

\* What the handler closes before it answers. A start only takes registered
\* queues, and does not look for its target when the source is none.
ToClose(a, h) == Temporary(h)

\* The queues a migration request is given. They work on it when both are
\* there, and for a start both are registered.
Lookup(a) ==
  LET s == Found(a, "source")
      t == IF s.type = "none" \/ (a.kind = "start" /\ s.type = "temporary")
           THEN NoHandle ELSE Found(a, "target")
  IN [role \in Roles |-> IF role = "source" THEN s ELSE t]

Accepted(a, h) ==
  /\ \A role \in Roles : h[role].type # "none" /\ (a.kind = "start" => h[role].type = "registered")
  /\ ~Same(a, h)

AskMigration(r, a) ==
  LET h == Lookup(a) IN
  /\ a.kind \in Migrations /\ MayAsk(r, a) /\ ~Refused(a)
  /\ handle' = [handle EXCEPT ![r] = h] /\ open' = [open EXCEPT ![r] = Temporary(h)]
  /\ IF Accepted(a, h)
     THEN /\ stage' = [stage EXCEPT ![r] = "work"] /\ UNCHANGED <<toClose, answer>>
     ELSE /\ toClose' = [toClose EXCEPT ![r] = ToClose(a, h)]
          /\ IF ToClose(a, h) = {} THEN Answer(r, "error")
             ELSE stage' = [stage EXCEPT ![r] = "closing"] /\ answer' = [answer EXCEPT ![r] = "error"]
  /\ UNCHANGED <<boundVars, rejected, guardVars, lifeVars, cmd, readVars, controlVars, jobVars>>

\* The clients of a cache request: a preview asks the queue of the cache when it
\* is on the source instance; else the first queue on the instance is asked.
Client(i) == [type |-> IF i = 0 THEN "none" ELSE "registered", at |-> i]
CacheClients(a) ==
  LET any(role) == FirstOf(QueuesOn(Options, queuesMap, a[role][2])) IN
  [role \in Roles |->
     IF a.kind = "cachePreview"
     THEN IF role = "source" THEN Client(CacheClient(Options, queuesMap, a.cache, a.source[2])) ELSE NoHandle
     ELSE Client(any(role))]

AskCache(r, a) ==
  LET h == CacheClients(a)
      served == /\ findCacheConfig(Options, queuesMap, a.cache) # 0 /\ a.source[2] # a.target[2]
                /\ h.source.type # "none" /\ (a.kind = "cacheStart" => h.target.type # "none") IN
  /\ a.kind \in CacheRequests /\ MayAsk(r, a) /\ ~Refused(a)
  /\ handle' = [handle EXCEPT ![r] = h]
  /\ IF served THEN stage' = [stage EXCEPT ![r] = "work"] /\ UNCHANGED answer ELSE Answer(r, "error")
  /\ UNCHANGED <<boundVars, open, toClose, rejected, guardVars, lifeVars, cmd, readVars, controlVars, jobVars>>

------------------------------------------------------------------------------
(* Migration requests: the work, then the temporary queues are closed *)

\* The preview is over, also the one before a start, or the execution is.
WorkEnds(r, ok) ==
  LET roles == IF ask[r].kind \in Migrations THEN ToClose(ask[r], handle[r]) ELSE {} IN
  /\ stage[r] = "work"
  /\ ask[r].kind = "execute" => RunOver(r) /\ (ok => phase[r] = "restore")
  /\ answer' = [answer EXCEPT ![r] = IF ok THEN "ok" ELSE "error"]
  /\ stage' = [stage EXCEPT ![r] = IF roles = {} THEN "answered" ELSE "closing"]
  /\ toClose' = [toClose EXCEPT ![r] = roles]
  /\ UNCHANGED <<boundVars, ask, handle, open, rejected, guardVars, lifeVars, cmd, readVars, controlVars, jobVars>>

\* The source is closed before the target.
Closing(r) == IF "source" \in toClose[r] THEN "source" ELSE "target"

Closes(r) ==
  LET role == Closing(r) IN
  /\ stage[r] = "closing"
  /\ IF handle[r][role].type = "temporary"
     THEN open' = [open EXCEPT ![r] = @ \ {role}] /\ UNCHANGED closed
     ELSE closed' = closed \cup {handle[r][role].at} /\ UNCHANGED open
  /\ toClose' = [toClose EXCEPT ![r] = @ \ {role}]
  /\ stage' = [stage EXCEPT ![r] = IF toClose[r] = {role} THEN "answered" ELSE "closing"]
  /\ UNCHANGED <<life, hooks, awaited, queuesMap, ownedQueues, unclosed, ask, answer, handle, rejected, guardVars>>
  /\ UNCHANGED <<boundVars, cmd, readVars, controlVars, jobVars>>

\* A close that rejects is what the caller hears of, whatever the work gave.
CloseRejects(r) ==
  /\ stage[r] = "closing" /\ scenario.faults /\ Answer(r, "error")
  /\ rejected' = [rejected EXCEPT ![r] = TRUE]
  /\ UNCHANGED <<boundVars, ask, handle, open, toClose, guardVars, lifeVars, cmd, readVars, controlVars, jobVars>>

------------------------------------------------------------------------------
(* The pause flags of a migration, executed or in the background. The jobs it *)
(* moves one by one, and what can go wrong with them, are in Migration.       *)

Works(i) == i \notin closed
Reaches(r, role) == handle[r][role].type = "temporary" \/ Works(handle[r][role].at)
Asking(r) == \E role \in Roles : hold[r][role] = "ask"
MayFail(r) == scenario.faults \/ \E role \in Roles : ~Reaches(r, role)

\* What no step of a migration changes
Beside == <<boundVars, lifeVars, ask, stage, answer, handle, open, toClose, rejected, cmd, readVars,
            reason, finished, done, context>>

MayRun(r) ==
  phase[r] = "none" /\ (Started(r) \/ (stage[r] = "work" /\ ask[r].kind = "execute"))

\* Another run has the lease of the source. One that ran out is a fault.
Leased(r) == \E o \in Requests \ {r} : phase[o] # "none" /\ ~RunOver(o) /\ ask[o].source = ask[r].source

\* The lease is taken, and both queues are asked whether they are paused.
pauseQueuesForMigration(r) ==
  /\ MayRun(r) /\ (Leased(r) => scenario.faults)
  /\ phase' = [phase EXCEPT ![r] = "hold"] /\ hold' = [hold EXCEPT ![r] = [role \in Roles |-> "ask"]]
  /\ clash' = [o \in Requests |-> clash[o] \cup {i \in {At(r, role) : role \in Roles} \cap Slots : InFlight(o, i)}]
  /\ UNCHANGED <<Beside, q, settled>>

NoLease(r) ==
  /\ MayRun(r) /\ (Leased(r) \/ MayFail(r)) /\ phase' = [phase EXCEPT ![r] = "failed"]
  /\ UNCHANGED <<Beside, hold, q, clash, settled>>

\* Seeded bug: the run forgets that the queue was paused before it came.
FoundForgotten(wasPaused) == IF wasPaused THEN "held" ELSE "running"
FoundAs(wasPaused) == IF wasPaused THEN "none" ELSE "running"

\* What a queue that is none of the options answers is up to it.
IsPaused(r, role) ==
  /\ phase[r] = "hold" /\ hold[r][role] = "ask" /\ Reaches(r, role)
  /\ \E wasPaused \in BOOLEAN :
       /\ At(r, role) \in Slots => wasPaused = q[At(r, role)].paused
       /\ hold' = [hold EXCEPT ![r][role] = FoundAs(wasPaused)]
  /\ UNCHANGED <<Beside, phase, q, clash, settled>>

WithFlag(i, paused) == [j \in Slots |-> IF j = i THEN [q[j] EXCEPT !.paused = paused] ELSE q[j]]

\* Those that are running are paused, when both have answered; the pause may
\* take effect after the run has failed.
Pause(r, role) ==
  /\ hold[r][role] = "running" /\ ~Asking(r) /\ Reaches(r, role)
  /\ q' = WithFlag(At(r, role), TRUE)
  /\ hold' = [hold EXCEPT ![r][role] = IF phase[r] = "hold" THEN "held" ELSE "none"]
  /\ UNCHANGED <<Beside, phase, clash, settled>>

\* A source with active jobs is given back at once.
CountActive(r) ==
  /\ phase[r] = "hold" /\ \A role \in Roles : hold[r][role] \in {"none", "held"}
  /\ Reaches(r, "source")
  /\ \E busy \in BOOLEAN :
       /\ At(r, "source") \in Slots => busy = (q[At(r, "source")].active > 0)
       /\ phase' = [phase EXCEPT ![r] = IF busy THEN "undo" ELSE "move"]
  /\ UNCHANGED <<Beside, hold, q, clash, settled>>

\* A job is moved; a queue has room for scenario.jobs.
MoveJob(r) ==
  LET from == At(r, "source") to == At(r, "target") IN
  /\ phase[r] = "move" /\ \A role \in Roles : Reaches(r, role)
  /\ from \in Slots => q[from].waiting > 0
  /\ to \in Slots => finished[to] + q[to].waiting + q[to].active < scenario.jobs
  /\ q' = [i \in Slots |-> [q[i] EXCEPT !.waiting = @ + (IF i = to THEN 1 ELSE 0) - (IF i = from THEN 1 ELSE 0)]]
  /\ UNCHANGED <<Beside, guardVars, clash, settled>>

\* A migration goes and gives no queue back that it found running: the controls
\* of these do not hold any more.
Leaves(r) == settled' = [i \in Slots |-> IF Touches(r, i) THEN "none" ELSE settled[i]]

\* restore, unless the queues are left paused
MoveEnds(r, leavePaused) ==
  /\ phase[r] = "move" /\ phase' = [phase EXCEPT ![r] = "restore"]
  /\ IF leavePaused THEN MayFail(r) /\ hold' = [hold EXCEPT ![r] = Untouched] /\ Leaves(r)
     ELSE UNCHANGED <<hold, settled>>
  /\ UNCHANGED <<Beside, q, clash>>

\* The target is resumed, then the source.
Restore(r) ==
  LET role == IF hold[r].target = "held" THEN "target" ELSE "source" IN
  /\ phase[r] \in {"restore", "undo"} /\ hold[r][role] = "held" /\ Reaches(r, role)
  /\ q' = WithFlag(At(r, role), FALSE) /\ hold' = [hold EXCEPT ![r][role] = "none"]
  /\ UNCHANGED <<Beside, phase, clash, settled>>

\* A command rejects. When it is a pause, the other one may still be in flight.
RunFails(r) ==
  LET pausing == IF Asking(r) THEN {} ELSE {role \in Roles : hold[r][role] = "running"} IN
  /\ phase[r] = "hold" \/ (phase[r] # "none" /\ phase[r] # "move" /\ hold[r] # Untouched)
  /\ MayFail(r) /\ phase' = [phase EXCEPT ![r] = "failed"]
  /\ \E role \in Roles :
       /\ pausing # {} => role \in pausing
       /\ hold' = [hold EXCEPT ![r] = [o \in Roles |-> IF o \in pausing \ {role} THEN "running" ELSE "none"]]
  /\ IF Asking(r) THEN UNCHANGED settled ELSE Leaves(r)
  /\ UNCHANGED <<Beside, q, clash>>

------------------------------------------------------------------------------
(* Statistics *)

Counts == {"waiting", "active", "completed"}

\* The counts of a queue, then whether it is paused; the memory of its Redis last.
NextRead(what, kind) ==
  CASE what = "waiting" -> "active"
    [] what = "active" -> "completed"
    [] what = "completed" -> IF kind = "metrics" THEN "done" ELSE "paused"
    [] what = "paused" -> "sample"
    [] what = "types" -> IF kind = "queueStats" THEN "memory" ELSE "done"

\* A queue of request r is done with: the handler goes on when all are.
Over(c) == c \in {"none", "done", "failed"}
Proceed(r, cmds) ==
  IF \E i \in Slots : ~Over(cmds[i])
  THEN cmd' = [cmd EXCEPT ![r] = cmds] /\ UNCHANGED <<stage, answer>>
  ELSE IF stage[r] = "before" /\ ask[r].kind \in {"clean", "drain"}
  THEN /\ stage' = [stage EXCEPT ![r] = "act"] /\ UNCHANGED answer
       /\ cmd' = [cmd EXCEPT ![r] = [i \in Slots |-> IF cmds[i] = "done" THEN "act" ELSE "none"]]
  ELSE cmd' = [cmd EXCEPT ![r] = cmds] /\ Answer(r, "ok")

Reading(r) == stage[r] \in {"before", "after"}

ReadCount(r, i) ==
  LET what == cmd[r][i] IN
  /\ Reading(r) /\ what \in Counts \cup {"paused"} /\ Works(i)
  /\ seen' = [seen EXCEPT ![r][i][what] = q[i][what]]
  /\ Proceed(r, [cmd[r] EXCEPT ![i] = NextRead(what, ask[r].kind)])
  /\ UNCHANGED <<boundVars, ask, lifeVars, handleVars, figures, rateSamples, rate, controlVars, jobVars>>

\* Seeded bug: the completions are those Redis still keeps.
SampleOfRedis(r, i) ==
  [completed |-> seen[r][i].completed,
   backlog |-> seen[r][i].waiting + seen[r][i].active, timestamp |-> now]

\* The processor's counter, which is read with the clock, or the count in Redis.
SampleOf(r, i) ==
  [completed |-> IF Processed(i) THEN done[i] ELSE seen[r][i].completed,
   backlog |-> seen[r][i].waiting + seen[r][i].active, timestamp |-> now]

NothingReported == [perMinute |-> 0, avgMs |-> 0, failurePercent |-> 0]

\* History of a queue's rates: what they count, over which time, and what they say.
RateAfter(h, perMinute, current, previous) ==
  LET more == current.completed - previous.completed
      time == current.timestamp - previous.timestamp IN
  IF previous = NoSample THEN [NoRates EXCEPT !.before = current.completed]
  ELSE IF time <= 0 THEN [h EXCEPT !.lost = @ + more]
  ELSE [h EXCEPT !.counted = @ + more, !.time = @ + time, !.answered = @ + perMinute * time]

\* The rates since the previous sample of the queue, which this one replaces,
\* and the verdict on them: the service's own, or the one that the adapter has
\* put into its statistics, which knows the queue from its context alone.
Sample(r, i, reported) ==
  LET s         == seen[r][i]
      current   == SampleOf(r, i)
      previous  == rateSamples[i]
      isFirst   == previous = NoSample
      rates     == IF isFirst THEN [throughputPerMin |-> 0, addedPerMin |-> 0]
                   ELSE calculateRatesFromCounters(current, previous)
      throughput == IF rates.throughputPerMin > 0 THEN rates.throughputPerMin ELSE reported.perMinute
      provided  == ProcessorOf(i) = "adapted"
      Verdict(perMin, added, backlog, isPaused) ==
        calculatePerformanceMetrics(perMin, added, backlog, reported.avgMs, reported.failurePercent, isPaused)
      verdict == IF provided
                 THEN Verdict(reported.perMinute, context[i].added, context[i].backlog, FALSE)
                 ELSE Verdict(throughput, rates.addedPerMin, current.backlog, s.paused) IN
  /\ Reading(r) /\ cmd[r][i] = "sample"
  /\ reported \in IF Processed(i) THEN scenario.reported ELSE {NothingReported}
  /\ rateSamples' = [rateSamples EXCEPT ![i] = current]
  /\ rate' = [rate EXCEPT ![i] = RateAfter(@, rates.throughputPerMin, current, previous)]
  /\ figures' = [figures EXCEPT ![r][i] =
       [trend |-> verdict.trend, health |-> verdict.health, clear |-> verdict.clear,
        rise |-> IF isFirst THEN 0 ELSE current.backlog - previous.backlog,
        estimated |-> rates.throughputPerMin = 0 /\ throughput > 0, provided |-> provided, types |-> 0]]
  /\ Proceed(r, [cmd[r] EXCEPT ![i] = "types"])
  /\ UNCHANGED <<boundVars, ask, seen, lifeVars, handleVars, controlVars, jobVars>>

\* discoverJobTypes: as many jobs of each state as were counted, and one more,
\* or SampleSize of each, which are all when it is 0. An error only leaves the types out.
Fetched(r, i, what) ==
  LET s == seen[r][i] IN
  IF s.waiting + s.active > Threshold
  THEN IF SampleSize = 0 THEN q[i][what] ELSE Least(q[i][what], SampleSize)
  ELSE IF s.waiting + s.active = 0 THEN 0 ELSE Least(q[i][what], s[what] + 1)

discoverJobTypes(r, i) ==
  /\ Reading(r) /\ cmd[r][i] = "types"
  /\ \/ Works(i) /\ figures' = [figures EXCEPT ![r][i].types = Fetched(r, i, "waiting") + Fetched(r, i, "active")]
     \/ (scenario.faults \/ ~Works(i)) /\ UNCHANGED figures
  /\ Proceed(r, [cmd[r] EXCEPT ![i] = NextRead("types", ask[r].kind)])
  /\ UNCHANGED <<boundVars, ask, seen, rateSamples, rate, lifeVars, handleVars, controlVars, jobVars>>

\* getRedisMemoryStats
ReadMemory(r, i) ==
  /\ Reading(r) /\ cmd[r][i] = "memory" /\ Works(i) /\ Proceed(r, [cmd[r] EXCEPT ![i] = "done"])
  /\ UNCHANGED <<boundVars, ask, lifeVars, handleVars, readVars, controlVars, jobVars>>

\* A command of a statistics request rejects. getAllQueueStats reports the
\* queue under errors, the others answer with the error.
ReadFails(r, i) ==
  /\ Reading(r) /\ cmd[r][i] \in Counts \cup {"paused", "memory"} /\ (scenario.faults \/ ~Works(i))
  /\ IF ask[r].kind = "stats" THEN Proceed(r, [cmd[r] EXCEPT ![i] = "failed"])
     ELSE cmd' = [cmd EXCEPT ![r][i] = "failed"] /\ Answer(r, "error")
  /\ UNCHANGED <<boundVars, ask, lifeVars, handleVars, readVars, controlVars, jobVars>>

\* clean removes some of the finished jobs, drain all that wait; then the jobs
\* are counted again.
Act(r, i) ==
  /\ stage[r] = "act" /\ cmd[r][i] = "act" /\ Works(i)
  /\ IF ask[r].kind = "drain" THEN q' = [q EXCEPT ![i].waiting = 0]
     ELSE \E kept \in 0..q[i].completed : q' = [q EXCEPT ![i].completed = kept]
  /\ stage' = [stage EXCEPT ![r] = "after"] /\ cmd' = [cmd EXCEPT ![r][i] = "waiting"]
  /\ UNCHANGED <<boundVars, ask, answer, finished, done, context, lifeVars, handleVars, readVars, controlVars>>

ActFails(r, i) ==
  /\ stage[r] = "act" /\ cmd[r][i] = "act" /\ (scenario.faults \/ ~Works(i))
  /\ cmd' = [cmd EXCEPT ![r][i] = "failed"] /\ Answer(r, "error")
  /\ UNCHANGED <<boundVars, ask, lifeVars, handleVars, readVars, controlVars, jobVars>>

------------------------------------------------------------------------------
(* Pause and resume *)

\* Promise.all of the commands: when the last one is done, the reasons follow.
AfterCommand(r, cmds) ==
  IF stage[r] = "control" /\ \A i \in Slots : cmds[i] \in {"none", "commanded"}
  THEN [i \in Slots |-> IF cmds[i] = "commanded" THEN "reason" ELSE "none"] ELSE cmds

\* A command takes effect, also one whose request has answered an error already.
Command(r, i) ==
  /\ InFlight(r, i) /\ cmd[r][i] = "command" /\ Works(i)
  /\ q' = [q EXCEPT ![i].paused = ask[r].kind = "pause"]
  /\ cmd' = [cmd EXCEPT ![r] = AfterCommand(r, [@ EXCEPT ![i] = "commanded"])]
  /\ UNCHANGED <<boundVars, ask, stage, answer, finished, done, context, lifeVars, handleVars, readVars, controlVars>>

Reason(r, i) == [reason EXCEPT ![i] = ask[r].kind = "pause"]

SetReason(r, i) ==
  LET cmds == [cmd[r] EXCEPT ![i] = "done"]
      last == \A j \in Slots : Over(cmds[j]) IN
  /\ InFlight(r, i) /\ cmd[r][i] = "reason" /\ Works(i)
  /\ reason' = Reason(r, i) /\ cmd' = [cmd EXCEPT ![r] = cmds]
  /\ IF stage[r] = "control" /\ last
     THEN /\ Answer(r, "ok")
          /\ settled' = [j \in Slots |->
               IF cmds[j] = "done" /\ j \notin clash[r] THEN ask[r].kind ELSE settled[j]]
     ELSE UNCHANGED <<stage, answer, settled>>
  /\ UNCHANGED <<boundVars, ask, clash, lifeVars, handleVars, readVars, jobVars>>

ControlFails(r, i) ==
  /\ InFlight(r, i) /\ cmd[r][i] \in {"command", "reason"} /\ (scenario.faults \/ ~Works(i))
  /\ cmd' = [cmd EXCEPT ![r][i] = "failed"]
  /\ IF stage[r] = "control" THEN Answer(r, "error") ELSE UNCHANGED <<stage, answer>>
  /\ UNCHANGED <<boundVars, ask, lifeVars, handleVars, readVars, controlVars, jobVars>>

------------------------------------------------------------------------------
(* The jobs of a queue and the clock *)

Job(i, change) ==
  /\ q' = [q EXCEPT ![i] = change]
  /\ UNCHANGED <<boundVars, context, ask, stage, answer, lifeVars, handleVars, cmd, readVars, controlVars>>

JobArrives(i) ==
  /\ finished[i] + q[i].waiting + q[i].active < scenario.jobs
  /\ Job(i, [q[i] EXCEPT !.waiting = @ + 1]) /\ UNCHANGED <<finished, done>>

JobTaken(i) ==
  /\ q[i].waiting > 0 /\ ~q[i].paused
  /\ Job(i, [q[i] EXCEPT !.waiting = @ - 1, !.active = @ + 1]) /\ UNCHANGED <<finished, done>>

\* The processor counts a completion before BullMQ moves the job.
JobCounted(i) ==
  /\ Processed(i) /\ done[i] < finished[i] + q[i].active
  /\ done' = [done EXCEPT ![i] = @ + 1] /\ UNCHANGED <<finished, q, context>>
  /\ UNCHANGED <<boundVars, ask, stage, answer, lifeVars, handleVars, cmd, readVars, controlVars>>

JobCompletes(i) ==
  /\ q[i].active > 0 /\ (Processed(i) => done[i] > finished[i])
  /\ finished' = [finished EXCEPT ![i] = @ + 1] /\ UNCHANGED done
  /\ Job(i, [q[i] EXCEPT !.active = @ - 1, !.completed = @ + 1])

\* The application hands the adapter the counts of its queue, and what is added
\* to it in a minute.
updateQueueContext(i, added) ==
  /\ ProcessorOf(i) = "adapted"
  /\ context' = [context EXCEPT ![i] = [backlog |-> q[i].waiting + q[i].active, added |-> added]]
  /\ UNCHANGED <<boundVars, q, finished, done, ask, stage, answer, lifeVars, handleVars, cmd, readVars, controlVars>>

Tick ==
  /\ now < scenario.ticks /\ now' = now + 1
  /\ UNCHANGED <<scenario, lifeVars, ask, stage, answer, handleVars, cmd, readVars, controlVars, jobVars>>

------------------------------------------------------------------------------

Module ==
  \/ onModuleInit
  \/ onModuleDestroy
  \/ \E i \in Slots : CloseOwned(i)
  \/ ProviderDestroyed
  \/ ServiceDestroyed

Asked ==
  \/ \E r \in Requests, a \in scenario.asks : Refuse(r, a)
  \/ \E r \in Requests, a \in scenario.asks : AskCounts(r, a)
  \/ \E r \in Requests, a \in scenario.asks : AskControl(r, a)
  \/ \E r \in Requests, a \in scenario.asks : AskMigration(r, a)
  \/ \E r \in Requests, a \in scenario.asks : AskCache(r, a)

Migrating ==
  \/ \E r \in Requests, ok \in BOOLEAN : WorkEnds(r, ok)
  \/ \E r \in Requests : Closes(r)
  \/ \E r \in Requests : CloseRejects(r)

Guarding ==
  \/ \E r \in Requests : pauseQueuesForMigration(r)
  \/ \E r \in Requests : NoLease(r)
  \/ \E r \in Requests, role \in Roles : IsPaused(r, role)
  \/ \E r \in Requests, role \in Roles : Pause(r, role)
  \/ \E r \in Requests : CountActive(r)
  \/ \E r \in Requests : MoveJob(r)
  \/ \E r \in Requests, leavePaused \in BOOLEAN : MoveEnds(r, leavePaused)
  \/ \E r \in Requests : Restore(r)
  \/ \E r \in Requests : RunFails(r)

Stats ==
  \/ \E r \in Requests, i \in Slots : ReadCount(r, i)
  \/ \E r \in Requests, i \in Slots, reported \in scenario.reported \cup {NothingReported} : Sample(r, i, reported)
  \/ \E r \in Requests, i \in Slots : discoverJobTypes(r, i)
  \/ \E r \in Requests, i \in Slots : ReadMemory(r, i)
  \/ \E r \in Requests, i \in Slots : ReadFails(r, i)
  \/ \E r \in Requests, i \in Slots : Act(r, i)
  \/ \E r \in Requests, i \in Slots : ActFails(r, i)

Controlled ==
  \/ \E r \in Requests, i \in Slots : Command(r, i)
  \/ \E r \in Requests, i \in Slots : SetReason(r, i)
  \/ \E r \in Requests, i \in Slots : ControlFails(r, i)

Jobs ==
  \/ \E i \in DOMAIN Options.queues : JobArrives(i)
  \/ \E i \in DOMAIN Options.queues : JobTaken(i)
  \/ \E i \in DOMAIN Options.queues : JobCounted(i)
  \/ \E i \in DOMAIN Options.queues : JobCompletes(i)
  \/ \E i \in DOMAIN Options.queues, added \in {0, TicksPerMinute} : updateQueueContext(i, added)

Next == Module \/ Asked \/ Migrating \/ Guarding \/ Stats \/ Controlled \/ Jobs \/ Tick

Spec == Init /\ [][Next]_vars
------------------------------------------------------------------------------
(* Properties *)

Stages == {"idle", "before", "act", "after", "control", "work", "closing", "answered"}
Phases == {"none", "hold", "move", "restore", "undo", "failed"}
Flag == {"none", "ask", "running", "held"}
Flags == rejected \in [Requests -> BOOLEAN] /\ reason \in [Slots -> BOOLEAN]

\* The type invariant: the map only holds queues that could be resolved and a
\* request only uses those, a temporary queue belongs to a request that was given
\* one, and no counter of jobs is negative or ahead of the queue.
TypeOK ==
  /\ Flags /\ now \in Nat /\ life \in {"init", "up", "failed", "closing", "down"}
  /\ queuesMap \subseteq Resolved(Options) /\ ownedQueues \subseteq Owned(Options)
  /\ hooks \subseteq {"provider", "service"} /\ awaited \subseteq Requests
  /\ phase \in [Requests -> Phases] /\ hold \in [Requests -> [Roles -> Flag]]
  /\ stage \in [Requests -> Stages] /\ answer \in [Requests -> {"none", "ok", "error"}]
  /\ \A r \in Requests :
       /\ open[r] \subseteq Temporary(handle[r]) /\ toClose[r] \subseteq Roles
       /\ stage[r] = "closing" => toClose[r] # {}
       /\ {i \in Slots : cmd[r][i] # "none"} \subseteq queuesMap
       /\ stage[r] = "answered" <=> answer[r] # "none" /\ stage[r] # "closing"
  /\ \A i \in Slots :
       /\ q[i].waiting >= 0 /\ q[i].active >= 0
       /\ Processed(i) => done[i] \in finished[i]..(finished[i] + q[i].active)

\* previewMigration, executeMigration, startMigration: when a request has been
\* answered, whichever step failed, no temporary queue it opened is still
\* connected, unless a close() itself rejected; and while it works, the queues it
\* works on are connected.
TemporariesClosed == \A r \in Requests :
  /\ stage[r] = "answered" /\ ~rejected[r] => open[r] = {}
  /\ stage[r] = "work" => open[r] = Temporary(handle[r])

\* A registered queue is closed by the shutdown of the module alone, and only
\* when the provider opened it: never by a request that was merely given it,
\* and never one the application injected.
OnlyOwnClosed == closed # {} => life \in {"closing", "down"} /\ closed \subseteq Owned(Options)

\* Options in which the default id is the instance of the entries without one.
WellNamed(o) ==
  \A i \in DOMAIN o.queues : o.queues[i].redis # None \/ o.redis = <<>> \/ o.redis[1].id = DefaultId

\* The queue a handle stands for, by name and instance
PlaceOf(r, role) ==
  LET h == handle[r][role] IN IF h.type = "registered" THEN Place(Options, h.at) ELSE ask[r][role]

\* What the listings of queues and caches show is what a request for it is given.
ShownIsFound(o) ==
  /\ WellNamed(o) => \A l \in Listed(o, queuesMap) : l.name = QueueName(o.queues[l.queue]) =>
       LET found == getQueueForRedisInstance(o, queuesMap, l.name, l.redisId) IN
       /\ found.type = "registered" /\ Home(o, found.at) = Home(o, l.queue)
       /\ QueueName(o.queues[found.at]) = l.name
  /\ \A i \in queuesMap : \A cache \in o.queues[i].caches :
       LET id == CacheShownOn(o, queuesMap, cache)
           client == CacheClient(o, queuesMap, cache, id) IN
       o.queues[i].processor = "found" => client # 0 /\ Home(o, client) = id

\* A request works on the queues, and on the Redis instances, that it named:
\* source and target of a migration differ, a cache is read and written through
\* clients of the instances named, the memory shown for an instance was asked of
\* it, and what is listed can be asked for. For queues, the options name the
\* instances of their entries or have the default one first.
RightInstance ==
  /\ ShownIsFound(Options)
  /\ \A r \in Requests : stage[r] = "work" =>
       IF ask[r].kind \in Migrations
       THEN WellNamed(Options) =>
              /\ \A role \in Roles : PlaceOf(r, role) = ask[r][role]
              /\ PlaceOf(r, "source") # PlaceOf(r, "target")
       ELSE \A role \in Roles : handle[r][role].type # "none" =>
              PlaceOf(r, role)[2] = ask[r][role][2]
  /\ \A r \in Requests : ask[r] # None /\ ask[r].kind = "stats" =>
       LET answered == {i \in Slots : cmd[r][i] = "done"}
           Id(n) == Options.redis[n].id IN
       \A n \in DOMAIN Options.redis : MemoryClient(Options, answered, Id(n)) # 0 =>
         Home(Options, MemoryClient(Options, answered, Id(n))) = Id(n)

\* The rates of a queue with a processor add up (getSingleQueueStats,
\* calculateRatesFromCounters): however many requests read at once, and whatever
\* is cleaned meanwhile, what the rates say of the time they cover differs from
\* the completions in it by less than the rounding, half a job a minute; and a
\* completion before that time was in the first sample, or is lost because two
\* samples fell on the same tick.
RatesAddUp == \A i \in Slots : rateSamples[i] # NoSample /\ Processed(i) =>
  LET h == rate[i]
      difference == h.answered - h.counted * TicksPerMinute IN
  /\ 2 * difference \in -h.time..h.time
  /\ rateSamples[i].completed = h.before + h.counted + h.lost

\* pauseQueues and resumeQueues, with pauseQueuesForMigration and its restore: a
\* control that was answered, with no opposite one and no migration in flight on
\* the queue meanwhile, has put both the queue and the pause reason where it
\* says, and they stay there until the next control is asked for, whatever an
\* earlier control that failed half-way left in flight. A migration that comes
\* later never resumes a queue that was paused; one that was resumed it may
\* pause, to resume it again, unless it fails or leaves its queues paused.
ControlsHold == \A i \in Slots : settled[i] # "none" =>
  /\ reason[i] <=> settled[i] = "pause"
  /\ settled[i] = "pause" => q[i].paused
  /\ settled[i] = "resume" /\ q[i].paused =>
       \E r \in Requests, role \in Roles : hold[r][role] = "held" /\ At(r, role) = i

\* The verdict agrees with what was counted (calculatePerformanceMetrics): the
\* service calls a queue idle only when nothing waits, says that it falls behind
\* only when its backlog grew since the previous sample, and that it catches up
\* only when it shrank, unless the throughput is the processor's own estimate; and
\* the types of jobs shown exceed the jobs counted by one per state at most, or
\* are of a sample's jobs when there are too many and a size is given.
PerformanceAgrees == \A r \in Requests, i \in Slots :
  LET f == figures[r][i] backlog == seen[r][i].waiting + seen[r][i].active IN
  f # NoFigures /\ stage[r] \in {"before", "answered"} /\ cmd[r][i] \in {"types", "memory", "done"} =>
    /\ ~f.provided =>
         /\ f.trend = "idle" => backlog = 0
         /\ f.trend = "falling_behind" => f.rise > 0
         /\ f.trend = "catching_up" /\ ~f.estimated => f.rise < 0
    /\ f.clear >= 0 => f.trend # "idle"
    /\ backlog <= Threshold => f.types <= backlog + 2
    /\ backlog > Threshold /\ SampleSize > 0 => f.types <= 2 * SampleSize

\* QueuebertQueueConfig.redis, "If not specified and multi-Redis is configured,
\* defaults to the first Redis instance": a queue that is listed for migrations
\* under its own name is what a request that names it as listed is given.
ListedIsFound == life = "up" =>
  \A l \in Listed(Options, queuesMap) : l.name = QueueName(Options.queues[l.queue]) =>
    getQueueForRedisInstance(Options, queuesMap, l.name, l.redisId).type = "registered"
===============================================================================
