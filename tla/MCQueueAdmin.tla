----------------------------- MODULE MCQueueAdmin -----------------------------
(* Instances of QueueAdmin for TLC. *)
EXTENDS QueueAdmin, TLC

CONSTANTS r1, r2, r3, old, fresh, mail, images, sessions

Entry(name, redis, di, processor, caches, at) ==
  [name |-> name, statsKey |-> None, redis |-> redis, queue |-> None,
   di |-> di, processor |-> processor, caches |-> caches, at |-> at]
Instance(id, connection) == [id |-> id, connection |-> connection]
All == ALL_OPTIONAL_ENDPOINTS

\* One Redis; both queues are injected, one has a processor.
Single == [redis |-> <<>>, endpoints |-> All,
  queues |-> <<Entry(mail, None, TRUE, "found", {}, DefaultId), Entry(images, None, TRUE, "none", {}, DefaultId)>>]
Adapted == [Single EXCEPT !.queues = <<[@[1] EXCEPT !.processor = "adapted"]>>]
OnlyMail == [Single EXCEPT !.queues = <<@[1]>>]
OnlyImages == [Single EXCEPT !.queues = <<@[2]>>]
Missing == [Single EXCEPT !.queues[2].processor = "missing", !.redis = <<Instance(DefaultId, TRUE)>>]
Twice == [Single EXCEPT !.queues[2].name = mail]

\* The same queue on two instances, the newer one with its own connection; the
\* cache is the older one's. A queue of the application is given as well.
Two == [redis |-> <<Instance(DefaultId, FALSE), Instance(fresh, TRUE), Instance(old, TRUE)>>,
  endpoints |-> All,
  queues |-> <<Entry(mail, None, TRUE, "found", {sessions}, DefaultId),
               [Entry(mail, fresh, FALSE, "none", {}, fresh) EXCEPT !.statsKey = fresh],
               [Entry(images, fresh, FALSE, "none", {}, fresh) EXCEPT !.queue = images]>>]
TwoMail == [Two EXCEPT !.queues = <<@[1], @[2]>>]
ReadOnly == [Two EXCEPT !.endpoints = {"metrics"}]
Unknown == [Two EXCEPT !.endpoints = {"metrics", "pauses"}]
Nameless == {[Two EXCEPT !.redis[2].id = Empty], [Two EXCEPT !.queues[3].name = Empty], Unknown}

\* The example of QueuebertQueueConfig: the fresh queue is injected and does
\* not name its instance, the old one is given.
Example == [redis |-> <<Instance(fresh, FALSE), Instance(old, FALSE)>>, endpoints |-> All,
  queues |-> <<Entry(mail, None, TRUE, "found", {}, fresh),
               [Entry(mail, old, FALSE, "none", {}, old) EXCEPT !.statsKey = old, !.queue = mail]>>]

Request(kind, slots) ==
  [kind |-> kind, slots |-> slots, source |-> <<mail, DefaultId>>, target |-> <<mail, fresh>>,
   cache |-> sessions, bad |-> FALSE]
Move(kind, source, target) == [Request(kind, {}) EXCEPT !.source = source, !.target = target]

\* The jobs of an entry are moved to the second one.
Hand(kind, i) ==
  [Request(kind, {}) EXCEPT !.source = IF i = 1 THEN <<mail, DefaultId>> ELSE <<images, fresh>>,
                            !.target = <<mail, fresh>>]

Places == {<<mail, DefaultId>>, <<mail, fresh>>, <<images, fresh>>, <<images, old>>, <<images, DefaultId>>}
Moves == {Move(kind, source, target) : kind \in Migrations, source \in Places, target \in Places}

Loaded == {NothingReported, [perMinute |-> 90, avgMs |-> 900, failurePercent |-> 20]}
Scenario(o, asks, requests, faults, jobs, ticks, reported) ==
  [options |-> o, asks |-> asks, requests |-> requests, faults |-> faults, jobs |-> jobs,
   ticks |-> ticks, reported |-> reported]
Quiet(o, asks, requests, faults, jobs, ticks) ==
  Scenario(o, asks, requests, faults, jobs, ticks, {NothingReported})

\* Every lookup and how it ends, alone and with a shutdown; caches; options that
\* are refused; controls of one and of all queues that overlap and fail;
\* statistics of a queue with and without a processor under load; cleaning and
\* draining beside statistics and controls; migrations that hold the queues which
\* are paused and resumed, that overlap in one of them, and that fail.
MCScenarios == {Quiet(o, {}, 0, FALSE, 0, 0) : o \in Nameless} \cup {
  Quiet(Two, Moves \cup {[Request("preview", {}) EXCEPT !.bad = TRUE]}, 1, TRUE, 0, 0),
  Quiet(Two, {Move(kind, source, target) : kind \in CacheRequests, source \in Places, target \in Places},
        1, FALSE, 0, 0),
  Quiet(Two, {Move("execute", <<images, old>>, <<mail, fresh>>), Request("queueStats", {2})}, 2, TRUE, 0, 0),
  Quiet(Two, {Request("stats", {})}, 1, TRUE, 0, 0),
  Quiet(ReadOnly, {Request("pause", {}), Request("metrics", {1}), Request("stats", {})}, 1, TRUE, 0, 0),
  Quiet(Missing, {}, 0, FALSE, 0, 0),
  Quiet(Twice, {}, 0, FALSE, 0, 0),
  Quiet(Single, {Request("pause", {}), Request("resume", {}), Request("resume", {1})}, 3, FALSE, 0, 0),
  Quiet(Single, {Request("pause", {}), Request("resume", {}), Request("resume", {1}), Request("pause", {3})},
        2, TRUE, 0, 0),
  Scenario(OnlyMail, {Request("queueStats", {1})}, 2, FALSE, 1, 2, Loaded),
  Quiet(OnlyMail, {Request("stats", {}), Request("clean", {1})}, 2, FALSE, 1, 1),
  Scenario(Adapted, {Request("queueStats", {1})}, 1, FALSE, 1, 1, Loaded),
  Quiet(OnlyImages, {Request("stats", {})}, 2, FALSE, 2, 1),
  Quiet(OnlyMail, {Request("clean", {1}), Request("drain", {1})}, 1, FALSE, 2, 1),
  Quiet(OnlyMail, {Request("pause", {1}), Request("drain", {1})}, 1, TRUE, 1, 1),
  Quiet(OnlyMail, {Request("pause", {1}), Request("drain", {1})}, 2, FALSE, 1, 0),
  Quiet(TwoMail, {Hand("execute", 1), Request("pause", {1}), Request("resume", {1})}, 3, FALSE, 1, 0),
  Quiet(Two, {Hand("execute", 1), Hand("start", 3), Request("resume", {2}), Request("pause", {2})}, 3, FALSE, 0, 0),
  Quiet(Two, {Hand("start", 3), Request("pause", {2, 3}), Request("resume", {2})}, 2, TRUE, 0, 0)}

\* The jobs of the old queue are moved to the fresh one.
ExampleScenarios == {
  Quiet(Example, {Move("start", <<mail, old>>, <<mail, fresh>>)}, 1, FALSE, 0, 0)}

Symmetry == Permutations(Requests)
===============================================================================
