# A TLA+ model of news-stream-analyzer

The repository is a pipeline of small asyncio services: collectors publish posts
to Redis Streams, a processor deduplicates and indexes them, an NLP worker
enriches them, a graph builder writes them to Neo4j; an API gateway and a
dashboard read the stores, and scripts migrate and measure them. This directory
models the services whose correctness depends on interleavings, failures and
restarts and the loops whose results are easy to get subtly wrong, checks them
with TLC on small instances, and proves the most important properties with TLAPS
for every value of the constants.

    tlc -config MCProcessor.cfg MCProcessor      # a run
    tlapm ProcessorProofs.tla                    # a proof

Paths below are relative to `src/`. `SVC/x` stands for
`services/<service>/src/<service>/x`, `LIB` for `libs/common/src/news_common`.

## Inventory

| Component | State it keeps | Operations | Talks to |
|---|---|---|---|
| Stream bus, `LIB/clients/redis_bus.py` | in Redis: the streams, a consumer group per stream (last-delivered id, pending list); in memory: the reply a generator walks through | `publish`, `ensure_group`, `consume` | every service |
| VK collector, `vk_collector` | Redis: one cursor per community; memory: the cycle (chunk, attempt, answers, community) | `run_real`, `wall_get_many`, `_call`, `_filter_fresh`, `publish_many`, cursor get and set | VK API, Redis |
| Rate limiter, token pool, `vk_collector/clients` | last call, round-robin index, one lock each | `acquire`, `next`, retries of `_call`, by any number of tasks | VK API |
| Telegram collector | none (Telethon's session) | a callback that publishes one post | Redis |
| Processor, `processor` | Redis: LSH index, clean stream; OpenSearch: `raw_posts`; memory: a buffer and a last flush per stream, one lock | two consumers, a timer, a final flush | bus, OpenSearch |
| NLP worker, `nlp_worker` | Redis: Wikidata cache, enriched stream; OpenSearch: `entities`, `sentiments`; memory: two buffers | one consumer, one look-up per mention at once | bus, Wikidata, OpenSearch |
| Relation extractor, `SVC/services/relations.py` | none | `extract`: pairs of mentions in a window of sentences | NLP worker |
| NER, sentiment | none | functions of the text | NLP worker |
| Graph builder, `graph_builder` | Neo4j: nodes and edges; memory: two buffers, a last flush, one lock | one consumer, a timer, a final flush | bus, Neo4j |
| API gateway, `/locations` | Redis: coordinates cache with expiry | two queries, `mget`, batches to Wikidata, one transaction of `set` | OpenSearch, Redis, Wikidata |
| API gateway, other routes | none | read-only queries; `/sankey`, `/graph/subgraph` and `/stats` compute something | OpenSearch, Neo4j |
| Migrations, `scripts/migrate.py` | applied versions in OpenSearch and Neo4j, indices, constraints | list, plan, apply part by part, record | both |
| Dashboard | none | views that number nodes, merge edges, cut a window of days | API gateway |
| Evaluation scripts, `scripts/eval_*.py` | tallies of one run | a loop over documents, samples, requests or polls, and a report | NER, sentiment, HTTP API |
| Mocks, configuration, logging, metrics | none of interest | | |

What makes these hard, and what has to hold:

* **Bus.** Reads ask for `>` only, so an entry delivered and not acknowledged is
  never delivered again: the bus is at-most-once over restarts. An ack must
  belong to an entry whose handler returned; no entry may come twice or out of
  order; the entries lost to a restart must be bounded.
* **Processor.** Four kinds of task share buffers under an `asyncio.Lock`.
  `gather` raises the first failure and leaves the other consumer running;
  cancelling the timer can hit it at the lock or inside a bulk request; bulk
  failures are swallowed; the LSH index outlives the process, the buffers do not.
  The clean stream must carry no near-duplicates, every post must be accounted
  for, and what is only in memory must be bounded and leave the memory.
* **VK collector.** A failed chunk discards the cycle; a crash falls between
  publishing and moving the cursor; walls move on while cycles fail. The cursor
  must skip nothing and one process must not repeat posts.
* **NLP worker.** Look-ups race for one cache key and go on after a failure;
  exceptions end the process with two buffers in its locals. The stream, the two
  indices and the cache must tell the same story. There is no timer: documents of a
  quiet stream stay in memory, and only their number is bounded.
* **Relation extractor.** Every pair of names in the window must come out once per
  distance, whichever is mentioned first; the key that detects repetitions must not
  take different pairs for one.
* **Rate limiter, token pool.** A task sleeps while it holds the lock, others queue
  up behind it, any of them may be cancelled, and every retry takes a new turn: the
  requests of all tasks must keep the interval, and tokens must be used evenly.
* **Coordinates.** A failed batch caches "no coordinates"; concurrent requests
  overwrite each other's findings. Only such a failure may hide a place, and not for ever.
* **Migrations.** A runner may end between any two requests, be run again, or meet
  another one. What is recorded must be applied, in order, and nothing skipped.
* **Evaluation and charts.** Tallies over documents must not mix documents, classes
  or stages; numbers of nodes and windows of days are off by one easily; an edge
  comes twice from an undirected query; statistics are read while documents arrive.
* **Graph builder.** Rows leave the buffers before they are written, in two
  transactions; a relation needs its nodes. No mention may be lost except to a
  failure, none may count twice, no relation may miss its nodes.

The list of hazards, line by line, with the properties aimed at each, is
`hazards` in `PROJECT.json`.

## Modules

| Module | Models | Uses |
|---|---|---|
| `AtMostOnce` | what the bus promises: entries are taken in order, then settled or stranded | |
| `StreamBus` | `redis_bus.py`, for any set of streams | refines `AtMostOnce` |
| `Processor` | `processor`: `_consume`, `_timer_loop`, `run`, `Deduper` | extends `StreamBus` |
| `VKCollector` | `vk_collector` in real mode | |
| `NlpWorker` | `nlp_worker`: `NLPPipeline.run`, linker, `WikidataClient`, its cache | extends `StreamBus` |
| `Relations` | `RelationExtractorService.extract` | |
| `GraphWriter` | `graph_builder`: `main`, `GraphWriterService`, the two upserts of `GraphRepository` | extends `StreamBus` |
| `Migrations` | `scripts/migrate.py`, several runners | |
| `VKCalls` | `rate_limiter.py`, `token_pool.py` and `VKApiClient._call`, several callers | |
| `Locations` | `GET /locations`: `locations.py` of the gateway, its cache and queries | |
| `Evaluation` | `eval_ner.py`, `eval_sentiment.py`, `eval_latency.py`, `eval_throughput.py`, the lexicon's choice, the type filter of NER | |
| `Charts` | `/sankey`, `/graph/subgraph`, `/stats` and the dashboard's views of them | |
| `Counting` | what several loops count with: sums, ranks in order, the j-th smallest | used by `Locations`, `Evaluation`, `Charts` |
| `MCServices` | constants for TLC | extends `StreamBus`, `Migrations`, `VKCalls`, `Locations` |
| `MCAlgorithms` | constants for TLC | extends `Relations`, `Evaluation`, `Charts` |
| other `MC*` | constants for TLC | the module of their name |
| `StreamBusProofs` | theorems | extends `StreamBus` |
| `ProcessorProofs` | theorems | extends `Processor`, `StreamBusProofs` |
| `CountingProofs` | lemmas on sums, ends and ranks | extends `Counting` |
| `VKCollectorProofs` | theorems | extends `VKCollector`, `CountingProofs` |
| `NlpWorkerProofs` | theorems | extends `NlpWorker`, `StreamBusProofs` |
| `GraphWriterProofs` | theorems | extends `GraphWriter`, `StreamBusProofs`, `CountingProofs` |
| `AlgorithmsProofs` | theorems on relations, charts, reports | extends `Relations`, `Charts`, `Evaluation`, `CountingProofs` |
| `ServicesProofs` | theorems on migrations, VK calls, places | extends `MCServices`, `StreamBusProofs`, `CountingProofs` |

An action is the code between two awaits of one task: asyncio switches tasks
only there. What a request does at the server and what the caller does with the
reply are separate steps whenever a failure in between matters. Definitions named
"mutated" in a comment are wrong on purpose: replacing the definition after them
by one of these must break a property, which shows that the property can fail.

**StreamBus.** `log[s]` is the stream, `lastId[s]` and `pel[s]` the group,
`phase[s]` and `batch[s]` the generator. `StartConsume` is `ensure_group`,
`ReadGroup` is `xreadgroup`, `Yield` hands an entry to the loop body,
`HandlerReturns` resumes the generator, `Ack` is `xack`. `Close` is anything that
ends the generator: an exception of Redis, of `orjson.loads` or of the body, or
the end of the process. `finished`, `handed` and `closes` are history.

**Processor.** The bus's phase "handling" is refined by `step[s]`: "checking" (up
to `_process_one`'s return), "publishing", "published" (the XADD is done, the
reply is not used yet), "queued" at the lock, "indexing". `lockq` is the
`asyncio.Lock`, first in first out. `_flush_locked` is `MoveOut` (copy, clear, last
flush) and, after its await, `BulkAnswers` with any part of the snapshot.
`Fail(s)` is an exception in a consumer; `CancelTimer`, `MainWantsBuffer`,
`MainFlushes`, `LeaveRun` and `Exit` are `run`'s `finally` and `main`'s. A post's text is abstracted
to the set `Blank` (empty after cleaning) and the symmetric relation `Near` (the
LSH index finds one by the other). `Near` is deterministic, as MinHash with fixed
seeds is, and needs not be transitive. A failure in the middle of `is_duplicate` has the effect
of one just before or just after the insert. The clock is the set `fresh`: streams
flushed since the timer fell asleep. For a stream outside it the timer's condition
holds for certain; inside it, it may or may not.

**VKCollector.** A cycle asks chunk after chunk (`ChunkAnswered`, with any subset
of failed subcalls), retries (`CallRetried`), gives up, meets a captcha or an
authorisation error, then filters, publishes and moves the cursor community by
community. `Newest(c)` is the window of 50 newest posts; `overrun` records posts
that were no longer in it. Without communities a cycle asks nothing and goes to sleep
(`wall_get_many` loops over no chunk).

**NlpWorker.** `search[i]` is the look-up of the i-th mention: `CacheGet`,
`RemoteAnswers` (an exception gives `NoQid` like an empty answer), `CacheSet`; they
interleave, and survive a failure of the worker until the process exits. `enriched`
is the stream, `entBuffer` and `sentBuffer` the buffers, `entityDocs` the index
keyed by post id. `CutShort` is what a failure leaves of the step it cuts. A bulk request
does not raise for the documents the server rejects: `bulk_index` counts the others, and
`run` ignores the count and clears the buffer (`pipeline.py:86-90`). `BulkEntities` and
`BulkSentiments` therefore index any part of their buffer, and the histories `rejected`
and `unscored` hold the rest. A request that leaves something out is one of the `MaxFaults`.

**Relations.** The nested loops are a walk over the set `todo` of pairs of mentions
in the order `IsBefore`, one step per round of the innermost loop. A mention carries
the sentence its span lies in; texts and types are numbers because the code orders
them; the distance stands for the weight, which is a function of it. The key of
`seen` orders texts and types independently, so the pairs (a, T)-(b, U) and
(a, U)-(b, T) share one and the second of them is not reported: a flaw of the code,
which `WindowIsCovered` states exactly, as the only way a pair is missed. `RelationsAreReal`
states that a relation joins two mentions of different names within the window, at
its distance; it implies what `GraphWriter` assumes of the relations of a payload
(`PairAssumption`).

**GraphWriter.** Rows carry the keys `entity_key` gives them. `MoveOut` empties
both buffers, `EntitiesUpserted` and `RelationsUpserted` are the two transactions, `UpsertFails`
either of them raising with or without having been committed, `Stop` is
`GraphWriterService.stop` after a failure of Redis. `nodes` and `edges` are the counters of
Neo4j, `missed` and `severed` what failures lost of either (`LoseRows`). An edge counts relation
rows, not posts: one post adds several to one edge when it has the pair at two distances
(`relations.py:47`) or two forms of one QID (`graph.py:45-53`), and `RelationsAreConserved`
is an account of rows.

**Migrations.** A runner lists the applied versions of a store, plans the rest sorted
by version, and applies each file part by part (an index, a mapping, a statement)
before it records it. `indices.exists` and `indices.create` are two steps, so two
runners can meet between them; the loser's request raises (`Collides`). `Cut` ends a
runner before or after any request. A file's content is the sequence of what it creates.

**VKCalls.** `lockq` is the limiter's lock, first in first out, `wake` when the holder's
sleep ends (it may oversleep). `Send` is everything from the limiter's return to the
request, because nothing is awaited in between but the pool's lock, which no task
holds across an await. `Retry` is an error that tenacity tries again. `VKCollector`
has one task and abstracts all this to one call.

**Locations.** Several requests over one cache. `Ask` is the two queries, `GetMany` the
`mget`, `FetchBatch` one batch to Wikidata, which answers or fails, `SetMany` the
transaction with the reply. `coords` and `fetched` are the dicts of the code: a batch
that failed leaves the `None` it started with, and `SetMany` caches that.

**Evaluation.** One action per round of each script's loop: a document (exact spans
per type), a sample (the lexicon's class against the label), a request (a sample or an
error), a poll. `Spans` and `Objects` are how the corpus files are read, `Percentile` has
Python's `round`. `eval_throughput` starts a new clock for each of its three
waits (`scripts/eval_throughput.py:21`), so the times follow each other, and
`ThroughputAddsUp` states what they are. That they are end to end, as the report says, is
`TimesAreEndToEnd`, which the run `throughput_end_to_end` refutes.

**Charts.** A step is a row of the sankey view's loop, a record of the graph view's, or
one of the two concurrent requests of `/stats`, between which documents are indexed.
`nx.Graph` keeps one edge per pair, so of two stored edges in opposite directions the
view shows the weight of the one whose record came last, which is what `GraphIsTrue`
requires. The statistics ask without `track_total_hits` (`posts.py:39-51`), and `stats.py:19`
reads `hits.total.value`: OpenSearch stops counting there at `TrackedHits` (10,000 by
default), while the aggregations count every post. So `StatsAreTrue` says that the bars add
up to the posts of one moment and that the total is their number or `TrackedHits`. The
aggregation over sources returns ten buckets at most, and `SourcesAssumption` says that there
are no more sources. `Days` is 30 days back from the last one, that is 31 calendar days.

`MCServices` and `MCAlgorithms` put parts that share no state into one instance: the
initial state chooses which part a behaviour is of, the others rest.

## Runs

| Run | Question | Instance |
|---|---|---|
| `processor` | what may the clean stream, the index and the buffers hold; how much is in memory only, for how long? | two streams, up to three entries on one and one on the other, near-duplicates across them, a post published again, flush at two, one failure or crash |
| `processor_live` | do posts, entries and failures come to an end? | a pair of near-duplicates and a blank post, one fault, fair |
| `processor_dedup_cut` | is dedup stable across restarts? No | as `processor` |
| `vk_collector` | cursor, repetition, arrival | three communities in two chunks, walls of 3, 2 and 1 posts, window 2, two faults |
| `vk_captcha` | does the collector go on after a captcha? No | as `vk_collector` |
| `nlp_worker` | stream, indices and buffers against each other | three posts with 1, 3 and 0 mentions, one name in two spellings, flush at two, two faults, a bulk request that indexes a part being one |
| `nlp_cache` | is a cached no-match definite? No | one fault |
| `nlp_entity_docs` | is every indexed mention found? No | no fault |
| `algorithms` | which pairs come out, how often? do counts of spans, times of stages, the graph and the statistics agree with their inputs? | every list of up to four mentions of two texts with two types, in three sentences or none, radius 1; corpora of up to two documents, three samples, six requests, loads of five posts; up to two channels, three edges, three documents per index, two tracked hits |
| `throughput_end_to_end` | are the times of the stages end to end? No | the loads of `algorithms` |
| `services` | acks, order, stranding, does the bus implement `AtMostOnce`? what do migrations record, how are calls spaced, why is a place missing? | two streams, three entries each, replies of two, each consumer down once; two runners, three files of four parts, two cuts; two callers, two tokens, interval 2, two attempts, time to 7, four requests; two requests over three ids and four texts, batches of two, one of which may fail |
| `graph_writer` | accounts of mentions and of relation rows, nodes before relations, liveness | three posts, an entity linked and not linked in one post, flush at four rows, two faults |

The bounds are small and reach the cases that matter: a reply of two entries can
be cut between them and followed by another one; a post can be published again
after a crash; a flush can be due by size and by time; a wall outgrows the window
during a cycle; two look-ups of one post meet at one cache key; two runners meet
between `exists` and `create`; one task waits for the limiter while another oversleeps under it;
a failed batch overwrites what a concurrent request found; a third post passes the
tracked hits. `MaxLog`,
`MaxCloses`, `MaxFaults`, `MaxPosts`, `MaxCuts`, `MaxFailed` and `MaxStored` bound
behaviours and appear in guards of environment and failure actions only, so they
never stop the system's own steps; `MaxTime` and `MaxSent` end the clock and the calls
of `VKCalls`, which has no liveness property. In `processor` the state
constraint `MCOneBusy` leaves out behaviours with three entries on one stream and any
on the other, and `p2` and `p4`, which no definition tells apart, are symmetric.
Deadlock is checked except where the system may rightly stop: `nlp_worker` and the bus of
`services` end with everything published and the consumers blocked in `XREADGROUP` (the processor
and the graph builder have a timer that always runs, the collector polls);
`algorithms` ends when the loop returns, the rest of `services` when the clock, the calls
and the requests are used up. Four mentions are the fewest in which two
pairs can share a key.

### What the violations say

* `processor_dedup_cut`: `is_duplicate` inserts into the Redis-backed index before
  `publish_clean`. A failure in between leaves a mark without a post, and when the
  collector republishes the post after its own restart the processor drops it as a duplicate
  of itself. `README.md:29` promises dedup that is stable across restarts.
  `DupHasOriginal`, which allows such posts explicitly, holds and is proved.
* `vk_captcha`: `README.md:79` says the collector waits a minute and goes on with the
  next community. The code drops the cycle and starts over from the first chunk after `poll_interval`.
* `nlp_cache`: `wikidata_cache.py:6` calls the sentinel a "definitely no match"; a
  failed request is cached as one for the TTL (30 days by default).
* `nlp_entity_docs`: entities are indexed under their post's id, so of the entities of a post
  only the last is found; `README.md:103` promises the mentions of an entity.
* `throughput_end_to_end`: the report says "Times are end-to-end from publish to durable
  persistence" (`scripts/eval_throughput.py:119`; `README.md:139` calls the script
  end-to-end too). A later stage's time starts where the stage before it ended, so it says 0
  of a stage that took as long as that one, and the rate computed from it is too high.

## Fairness

Weak fairness of the steps of each task: the event loop runs every task that can
go on; a request ends because its client has a timeout; `sleep` returns; a service that
exits is started again (`restart: unless-stopped` in the compose files). The
`asyncio.Lock` is a queue, so weak fairness is enough at the lock. Publishers,
failures and crashes have no fairness, nor has the expiry of the linker's cache. The
coordinates do expire (weak fairness of `Expire` in `MCServices`, which repeats the
fairness of `StreamBus` for its bus): Redis removes a key
after its `EX` seconds, and `DenialsExpire` rests on that alone, once requests stop
failing (`MaxFailed`). In `VKCollector` and `NlpWorker` an endless series of failures is excluded by `MaxFaults` alone; liveness there says what happens once
failures stop.

## Proofs

All theorems hold for every set of streams and messages and every value of the
bounds that satisfies the named assumptions (`CountAssumption`, `BoundAssumption`,
`TaskAssumption`, `NearAssumption`, `HomeAssumption`, `FlushAssumption`,
`FaultAssumption`, and those named below); TLC evaluates these in the runs.

**StreamBusProofs.** `BusInv` is `BusTypeOK` and, per stream, `GroupFirst` (a running
consumer has its group), `HoldsTheLatest` (a held batch is the run of entries that
ends at the last delivered id), `PendingBehind` (it is pending, and pending entries lie behind the group),
`SettledWereHandled` (`AckedWereHandled`, and the entry being acked has finished) and
`HandedBehind` (what was handed over is increasing and does not pass the frontier of
the batch). The invariants alone are not inductive: that an ack hits a finished entry,
and that the next entry handed over is newer than all before, need the shape of the batch. Theorems: `BusTypes`, `AckAfterHandler`,
`AtMostOnceInOrder`, `StrandedIsBounded`. The last adds that what is stranded grows
by at most the batch in hand when a consumer goes down. `BusKeepsPromise` is the safety
half of `DeliversAtMostOnce`: the initial state and every step of `StreamBus` map to
those of `AtMostOnce` (a reply takes entries, an ack settles one, a consumer that goes
down strands its batch, all else stutters). The lemmas
`EntryInLog` and `EntryStays` (what a consumer has in its hands is an entry of the log
and does not change under it) serve the three services built on the bus.

**ProcessorProofs.** `ProcessorRunsOnBus` shows that each step of the processor is a
bus step or leaves the bus alone, so bus theorems carry over
(`RawAckAfterHandler`). `ProcInv` is `BusInv`, the types, and four parts:
`ShortBuffers` (buffers stay short of a flush), `InStep` (where `_consume` and the
bus's generator stand agree), `OffWhenDown` (no consumer before `run` made them) and
`LockHeld` (who scans the buffers or has a bulk request in flight holds the lock).
`ProcessorTypes` follows. `LockHeld` is what the types need: releasing the lock takes
the head off `lockq`, and `CancelTimer` takes the timer out of it.
`DedupInv` is `IndexIsSparse` (posts in the LSH index are pairwise
not near), `CleanIsMarked` (clean posts are in it and distinct), `PendingIsMarked` (a
post about to be published is in it, not yet clean, and in the hands of one consumer only),
`MarkedIsAccounted` (a post in it is clean, about to be, or cut off) and
`DroppedIsMarked` (a dropped post is represented in it). `CleanIsDistinct` and
`DuplicateHasOriginal` follow.

For the way from there to the index, `FlushInv` says whose posts are in memory: a bulk
request in flight has a task that waits for it (`SnapshotOwned`), carries posts of one raw
stream whose buffer is empty meanwhile, as many as a flush only if the consumer itself sent
it (`SnapshotOfOne`), and the timer lives only while `run` waits in `gather`
(`TimerInGather`). `AtRiskIsBounded` follows by counting: the buffer, the request and the
post in hand share one `flush_every`. `PassedOnce` is `FlushLag` with the stream's place in
the scan, without which it is not inductive; `FlushLagsOnePass` follows. `AccountInv` adds
that a consumer past its publish has a clean post in its hands (`BodyPublished`);
`FinishedDecided` and `PublishedAccounted` follow.

**VKCollectorProofs.** `CollectorInv` adds to `CursorSkipsNothing` and `OncePerLife`
what makes them inductive. A batch comes from an earlier moment, so it has to lie on the
wall still (`BatchesOnWall`) and leave no gap but posts on the stream or overrun
(`BatchesLeaveNoGap`); what is being published is the batch beyond the cursor
(`FreshOfBatch`); and a post this life may still publish was published in earlier lives
only (`FewerThanLives`), where what `publish_many` has sent before the cursor moves is
the one exception (`SentNow`). `CursorIsSafe`, `DuplicatesNeedRestarts` and
`CollectorTypes` follow, and the action property `CursorsAdvance`: no step moves a
cursor back.

**NlpWorkerProofs.** `NlpRunsOnBus` is as for the processor. `NlpInv` ties the look-ups
to the post in hand (`SearchFits`), keeps of every enriched post each document in an index,
in a buffer or among those a bulk request rejected, unless the post is lost or its body is
not done (`DocumentsKept`),
allows only enriched posts in buffers (`BufferedWereEnriched`) and bounds the buffers by
where `run` stands (`BufferSizes`). `NlpWorkerTypes`, `SettledEnriched`,
`EnrichedAccounted` and `InMemoryIsBounded` follow. `MentionAssumption` says that
`Mentions`, `Lower` and `Answer` are functions that fit each other.

**GraphWriterProofs.** `GraphRunsOnBus` is as before. `GraphInv` has the lock with a
holder and a waiter at most (`LockFits`), rows in flight exactly while somebody writes
(`FlightFits`), relations never without the entities they join (`TravelTogether`), and
two accounts per key and per edge. `AllTraced`: what the node counts, what was missed, what is
buffered and what is in flight add up to the mentions in the payloads written.
`AllCounted`: the same of the edge, its severed rows and the relation rows in them.
`GraphWriterTypes`, `RelationsFindTheirEnds`, `MentionsConserved` and
`RelationsConserved` follow. Both sides of an account are sums over `FoldLeft`, whose definition
recurs over sets of places. That appending a payload adds its share (`TotalAppend`) is an induction, which is carried
out as the absence of a least counterexample: `WFMin` of the library takes a set and a
relation, no operator. `PairAssumption` is what `RelationsReal` proves of the
extractor; `RowsAssumption` says that payloads list their mentions and relations as sequences.

**CountingProofs.** What the proofs about counting share. `Total` sums a function over its
finite domain by the folds of the library, whose definition recurs over sets; that there is
a function that obeys this recursion (`AdderExists`), that it does not depend on which
member is taken first (`SumOverMember`), and that the sizes of the classes of a set add up
to its own (`SumOfClasses`) are inductions, carried out over a smallest subset that goes
wrong (`SmallestWrong`). `SmallestFits` says what `sorted(s)[j]` is, `NthFits` that ranks
are taken in order and all of them, `EndsExist` that a finite set of integers has its ends.

**AlgorithmsProofs.** Three parts.

*Relations.* `RelInv` adds to the types that what is left to visit is what
the loops reach (`TodoAreVisited`), that `seen` holds exactly the keys of the
relations, each of one relation (`SeenAreReported`), that relations lie in the window (`RelsAreInWindow`), and that a pair behind the loops is
of one name or has its key in `seen` (`VisitedAreSeen`). `KeyMeans` says what a key
determines: the two texts, the two types and the distance. `ReportsOnce`,
`RelationsReal`, their conjunction `RelationsSound` and `CoversWindow` follow, for every set of posts and every radius
(`PostsAssumption`, `RadiusAssumption`).

*Charts.* `ChartsInv` has one part per chart. `SankeyInv`: a row is among those drawn only when
its two ends have their numbers; that links join the right labels then holds whatever
is numbered later. `GraphInv`: each record of a match is still to come or has its line, and the
line has the weight of the record of its pair that came last (`IsLastOf`); the records the query may
answer are those that match, or as many as the limit allows
(`AnswersFit`). `StatsInv`: an answer once given is that of the first n documents of its
index, and stays so when others are indexed (`BeginningStays`).
`FlowsAreTrue` (`SankeyIsTrue`), `LinesAreTrue` (`GraphIsTrue`) and `CountsAreTrue`
(`StatsAreTrue`) follow, the last with `TallyAddsUp` (the bars of a tally add up to what was
counted) and `LineFits` (what the window of days keeps), for any flows, graphs,
documents and limits (`ChartsAssumption`: graphs are finite, the limit and the window
naturals, the days of posts integers; `TrackedHitsAssumption`; `SourcesAssumption`).

*Reports.* `EvalInv` has one part per script. `NerInv`: the pooled spans are those of
the documents read, each with the number of its document; counts over the pool are
then sums over documents (`CountByDocument`). `SentimentInv`: the tallies of a class are its cell, row and
column of the confusion matrix. `LatencyInv`: every request is a sample or an error;
`PercentileFits` adds that the value picked lies at the nearest rank, Python's rounding
to even and the clamps included. `ThroughputInv`: a stage began when those before it
ended, and one poll ago it was not at its target; `ThroughputAddsUp` speaks of finished stages only and is not
inductive without that. `NerIsTrue`, `SentimentIsTrue`, `LatencyIsTrue` and
`ThroughputIsTrue` follow, one per script (`NerAddsUp`, `SentimentAddsUp`, `LatencyAddsUp`,
`ThroughputAddsUp`), for any corpora, samples, timings and loads
(`CorporaAssumption`, `DatasetsAssumption`, `TimingsAssumption`, `LoadsAssumption`:
inputs are finite sequences, labels map to the three classes, times are naturals). TLC
checked `ChartsInv` and `EvalInv` on the instance of `algorithms` before they were proved.
`SankeyIsTrue`, `SentimentAddsUp` and `LatencyAddsUp` are proved and no run checks them.

**ServicesProofs.** Three parts, and their composition with the bus.

*VK calls.* `CallsInv` is the types and `QueueIsKept` (who waits or sleeps is in
the queue, who sleeps is its head, until an interval after the last call at least),
`Spaced` (the spacing, counted from the last call too) and `Even` (tokens before the
index were used once more than the rest). `CallsKeepLimits` alone is not inductive: that
the next request comes late enough needs the last call, that it may be sent at all
needs that nobody else sleeps. `LimitsAreKept` follows for any number of tasks, tokens
and attempts and any interval (`PaceAssumption`).

*Migrations.* `MigrationInv` is, per runner, `ListFits` (its list is of one store, sorted by
version), `PartsMade` (the parts before the one it is at exist) and `PassesRecorded`
(what its list left out is recorded), and for the stores `RecordsInOrder` and
`OneRecord` (while no two runners met, a file on a list of Neo4j has no record yet).
`ByVersion` is a choice of a sorted enumeration; `SortedExists` and
`ByVersionSorts` show that there is one and that it keeps every file, by counting the
files up to each version. `RecordsTrue` and `OneRecordEach` follow for any number of
runners and files, distinct in store and version (`FilesAssumption`).

*Places.* `LocationsInv` is `StageFits` (what a request has at each of its stages),
`DictsFit` and `CacheFits`: a `None` in the dicts or the cache is Wikidata's own, is that of
a batch yet to be asked for, or was in a failed one. An answer that leaves a place out is full
because `Shown` takes ranks in order and as many as there are (`NthFits`,
`ShownIsComplete`, by counting again). `MissingIsCaused` follows for any requests, rankings,
ids and batches (`PlacesAssumption`).

`ServicesTypes` proves `ServicesTypeOK` of `ServicesSpec`, the composition of the bus and
these three without fairness. A step of the composition is a step of one part, or leaves it alone.

Left to TLC:

* liveness (`PostsArrive`, `CleanSettle`, `RowsSettle`, `PublishedSettle`, `RawSettle`,
  `FailureEndsProcess`, `DenialsExpire` and the
  fairness of `AtMostOnce` in `DeliversAtMostOnce`): it rests on weak fairness, hence on
  ENABLED, which this version of TLAPS does not reason about;
* the violations, which a counterexample shows.

Every safety invariant that a passing run checks is proved.

## Not modelled

The tagger, the transformer and the text functions (no state); the Telegram callback
(its effect is `PublishRaw`); mock generators; API routes and views that hand one
query's hits on; rendering, colours, ratios of tallies; weights, sentiment sums and
aliases in Neo4j; configuration, logs and metrics. Redis, OpenSearch and Neo4j do not
lose what they acknowledged.

## Plan

What is left is a composition of collector, processor and NLP worker over one bus, with
what a post published once promises end to end. The refinements `ProcessorRunsOnBus`,
`NlpRunsOnBus` and `GraphRunsOnBus` are what its proofs would start from.
