------------------------------ MODULE QueueConfig ------------------------------
(***************************************************************************)
(* The options of QueuebertModule and what its parts derive from them: the *)
(* queues the provider resolves, the Redis instance the service and the    *)
(* controller take a queue to be on, and the queue a request is given.     *)
(* Options are a record [redis, queues, endpoints]:                        *)
(*   redis   a sequence of [id, connection]: whether a connection is given *)
(*   queues  a sequence of [name, statsKey, redis, queue, di, processor,   *)
(*           caches, at]: queue is the name of a Queue instance that was   *)
(*           given, di says whether the container knows the queue, at is   *)
(*           the instance a given or injected Queue is connected to, and   *)
(*           processor is "none", "missing", "found" or "adapted": found   *)
(*           in the container, as a QueuebertProcessorAdapter or another.  *)
(* A queue is referred to by its position in options.queues; the map of    *)
(* the provider is the set of positions that were resolved, in that order. *)
(***************************************************************************)
EXTENDS Integers, Sequences, FiniteSets, FiniteSetsExt

CONSTANTS
  None,       \* an option that was left out
  Empty,      \* the empty string
  DefaultId   \* DEFAULT_REDIS_INSTANCE_ID

ALL_OPTIONAL_ENDPOINTS == {"metrics", "pause", "resume", "clean", "drain", "migrations"}

StatsKey(q) == IF q.statsKey # None THEN q.statsKey ELSE q.name

\* name of the BullMQ queue behind an entry
QueueName(q) == IF q.queue # None THEN q.queue ELSE q.name

validateQueuebertOptions(o) ==
  LET ids == {o.redis[i].id : i \in DOMAIN o.redis} IN
  /\ o.queues # <<>>
  /\ \A i, j \in DOMAIN o.redis : o.redis[i].id = o.redis[j].id => i = j
  /\ Empty \notin ids /\ \A i \in DOMAIN o.queues : o.queues[i].name # Empty
  /\ \A i, j \in DOMAIN o.queues : StatsKey(o.queues[i]) = StatsKey(o.queues[j]) => i = j
  /\ \A i \in DOMAIN o.queues : o.queues[i].redis \in ids \cup {None}
  /\ o.endpoints \subseteq ALL_OPTIONAL_ENDPOINTS

\* The service: an entry without an instance is on the first one.
getRedisInstanceId(o, q) ==
  IF q.redis # None THEN q.redis ELSE IF o.redis # <<>> THEN o.redis[1].id ELSE DefaultId

\* The controller, when it looks for a queue: on the default one.
LookupId(q) == IF q.redis # None THEN q.redis ELSE DefaultId

HasConnection(o, id) == \E i \in DOMAIN o.redis : o.redis[i].id = id /\ o.redis[i].connection

\* QueuebertQueuesProvider: where the Queue of an entry comes from.
Origin(o, q) ==
  IF q.queue # None THEN "given"
  ELSE IF HasConnection(o, getRedisInstanceId(o, q)) THEN "owned"
  ELSE IF q.di THEN "injected" ELSE "missing"

Owned(o) == {i \in DOMAIN o.queues : Origin(o, o.queues[i]) = "owned"}
Resolved(o) ==
  {i \in DOMAIN o.queues : Origin(o, o.queues[i]) # "missing" /\ o.queues[i].processor # "missing"}

\* The instance the queue really is on.
Home(o, i) ==
  IF i \in Owned(o) THEN getRedisInstanceId(o, o.queues[i]) ELSE o.queues[i].at

\* What a request for a queue gets: a registered one, a temporary one, or a 404.
Given(o, found, id) ==
  IF found # {} THEN [type |-> "registered", at |-> Min(found)]
  ELSE IF HasConnection(o, id) THEN [type |-> "temporary", at |-> 0] ELSE [type |-> "none", at |-> 0]

\* Seeded bug: only the name has to match.
getQueueByNameOnly(o, map, name, id) ==
  Given(o, {i \in map : QueueName(o.queues[i]) = name}, id)

getQueueForRedisInstance(o, map, name, id) ==
  Given(o, {i \in map : QueueName(o.queues[i]) = name /\ LookupId(o.queues[i]) = id}, id)

FirstOf(s) == IF s = {} THEN 0 ELSE Min(s)

\* The entry about the queue behind a handle: a temporary one can be connected to
\* the queue of an entry as well.
Place(o, i) == <<QueueName(o.queues[i]), Home(o, i)>>
EntryBehind(o, h, place) ==
  IF h.type = "registered" THEN h.at ELSE FirstOf({i \in DOMAIN o.queues : Place(o, i) = place})

\* The queues on an instance, as getRedisIdForStatsKey and buildQueueRedisMapping see it.
QueuesOn(o, map, id) == {i \in map : getRedisInstanceId(o, o.queues[i]) = id}

\* findCacheConfig: the first processor with the cache.
findCacheConfig(o, map, cache) ==
  FirstOf({i \in map : o.queues[i].processor \in {"found", "adapted"} /\ cache \in o.queues[i].caches})

\* The queue whose client a cache migration reads from: the cache's own if it
\* is on the requested instance, else the first one there.
CacheClient(o, map, cache, id) ==
  LET own == findCacheConfig(o, map, cache)
  IN IF own \in QueuesOn(o, map, id) THEN own ELSE FirstOf(QueuesOn(o, map, id))

\* The queue whose client getAllQueueStats asks for the memory of an instance.
MemoryClient(o, answered, id) == FirstOf(QueuesOn(o, answered, id))

\* getAvailableQueuesForMigration
Listed(o, map) ==
  {[queue |-> i, name |-> StatsKey(o.queues[i]), redisId |-> getRedisInstanceId(o, o.queues[i])] : i \in map}

\* collectCacheStats: the last processor with the cache is the one shown.
CacheShownOn(o, map, cache) ==
  LET having == {i \in map : o.queues[i].processor \in {"found", "adapted"} /\ cache \in o.queues[i].caches}
  IN IF having = {} THEN None ELSE getRedisInstanceId(o, o.queues[Max(having)])
===============================================================================
