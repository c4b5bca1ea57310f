------------------------------ MODULE NlpWorker ------------------------------
(***************************************************************************)
(* services/nlp_worker: NLPPipeline, EntityLinkerService, WikidataClient   *)
(* and its Redis cache over the StreamBus.                                 *)
(*                                                                         *)
(* One task takes a clean post, looks all its mentions up in Wikidata at   *)
(* once (asyncio.gather), publishes the enriched post and buffers its      *)
(* entities and its sentiment for two OpenSearch indices.  The buffers are *)
(* locals of run(): no timer and no final flush empties them.              *)
(*                                                                         *)
(* NER, sentiment and relations are functions of the post and are left     *)
(* out, except that Mentions gives what NER finds.                         *)
(***************************************************************************)
EXTENDS StreamBus, SequencesExt

CONSTANTS
    Clean,        \* the stream
    Mentions,     \* Mentions[p]: surface forms NER finds in p, in order
    Lower,        \* Lower[t]: the lower-case form of a text
    Answer,       \* Answer[k]: what Wikidata knows of k, a QID or NoQid
    NoQid,        \* no match: None, and the cache's "__none__"
    Uncached,     \* no such key in the cache
    FlushBatch,   \* buffered documents of a kind that trigger a flush
    MaxFaults     \* bound: failed look-ups, bulk requests that reject a document,
                  \* failures of Redis or OpenSearch, crashes

ASSUME StreamAssumption == Streams = {Clean}
ASSUME FlushAssumption == FlushBatch \in Nat \ {0}
ASSUME MentionAssumption ==
    Mentions \in [Msgs -> Seq(DOMAIN Lower)] /\ Lower \in [DOMAIN Lower -> DOMAIN Answer]
ASSUME CacheAssumption == Uncached \notin {Answer[k] : k \in DOMAIN Answer} \cup {NoQid}
ASSUME FaultAssumption == MaxFaults \in Nat /\ MaxFaults <= MaxCloses

VARIABLES
    worker,     \* where run() stands
    search,     \* search[i]: the look-up of the i-th mention of the post
    cache,      \* wd:<key> in Redis
    enriched,   \* the enriched stream: posts with the QIDs of their mentions
    entBuffer,  \* ent_buffer
    sentBuffer, \* sent_buffer
    entityDocs, \* the index "entities": by post_id
    scored,     \* the index "sentiments": posts
    indexed,    \* history: entities a bulk request has indexed
    rejected,   \* history: entities a bulk request was answered an error for
    unscored,   \* history: posts whose sentiment was rejected so
    lost,       \* history: posts of which a document was lost from memory
    faults      \* history: what MaxFaults bounds

bufferVars == <<entBuffer, sentBuffer>>
entityVars == <<entityDocs, indexed, rejected>>
sentimentVars == <<scored, unscored>>
indexVars == <<entityVars, sentimentVars>>
nlpVars == <<worker, search, cache, enriched, bufferVars, indexVars, lost, faults>>
vars == <<busVars, nlpVars>>

Keys == DOMAIN Answer
Qids == {Answer[k] : k \in Keys} \cup {NoQid}
NoEntity == [post |-> NoQid, at |-> 0, qid |-> NoQid]

Post == log[Clean][Head(batch[Clean])]

Fault == faults < MaxFaults /\ faults' = faults + 1
-----------------------------------------------------------------------------
Init ==
    /\ BusInit
    /\ worker = "down"
    /\ search = <<>>
    /\ cache = [k \in Keys |-> Uncached]
    /\ enriched = <<>>
    /\ entBuffer = <<>>
    /\ sentBuffer = <<>>
    /\ entityDocs = [p \in Msgs |-> NoEntity]
    /\ scored = {}
    /\ indexed = {}
    /\ rejected = {}
    /\ unscored = {}
    /\ lost = {}
    /\ faults = 0

\* The processor publishes a clean post, once.
PublishClean(p) ==
    /\ p \notin ToSet(log[Clean])
    /\ Publish(Clean, p)
    /\ UNCHANGED nlpVars

Start ==
    /\ worker = "down"
    /\ StartConsume(Clean)
    /\ worker' = "idle"
    /\ UNCHANGED <<search, cache, enriched, bufferVars, indexVars, lost, faults>>

Read == ReadGroup(Clean) /\ UNCHANGED nlpVars

AckClean == Ack(Clean) /\ UNCHANGED nlpVars

\* The body up to link()'s gather(): a look-up per mention.
Take ==
    /\ Yield(Clean)
    /\ worker' = "linking"
    /\ search' = [i \in DOMAIN Mentions[Post] |->
                     [at |-> "get", key |-> Lower[Mentions[Post][i]], qid |-> NoQid]]
    /\ UNCHANGED <<cache, enriched, bufferVars, indexVars, lost, faults>>

-----------------------------------------------------------------------------
(* WikidataClient.search.  The look-ups of a gather() that failed run on   *)
(* until the process exits.                                                *)

Searching(i, at) == i \in DOMAIN search /\ search[i].at = at

At(i, at, qid) == search' = [search EXCEPT ![i].at = at, ![i].qid = qid]

\* WikidataRedisCache.get: a hit ends the search, also one for "no match".
CacheGet(i) ==
    LET hit == cache[search[i].key]
    IN  /\ Searching(i, "get")
        /\ IF hit = Uncached THEN At(i, "remote", NoQid) ELSE At(i, "done", hit)
        /\ UNCHANGED <<busVars, worker, cache, enriched, bufferVars, indexVars>>
        /\ UNCHANGED <<lost, faults>>

\* _search_remote: an exception gives None, as an answer without results does.
RemoteAnswers(i) ==
    /\ Searching(i, "remote")
    /\ \/ At(i, "set", Answer[search[i].key]) /\ UNCHANGED faults
       \/ At(i, "set", NoQid) /\ Fault
    /\ UNCHANGED <<busVars, worker, cache, enriched, bufferVars, indexVars, lost>>

CacheSet(i) ==
    /\ Searching(i, "set")
    /\ cache' = [cache EXCEPT ![search[i].key] = search[i].qid]
    /\ At(i, "done", search[i].qid)
    /\ UNCHANGED <<busVars, worker, enriched, bufferVars, indexVars, lost, faults>>

\* The TTL of a key runs out.
Expire(k) ==
    /\ cache[k] # Uncached
    /\ cache' = [cache EXCEPT ![k] = Uncached]
    /\ UNCHANGED <<busVars, worker, search, enriched, bufferVars, indexVars, lost, faults>>

Linked == \A i \in DOMAIN search : search[i].at = "done"

Payload == [post |-> Post, qids |-> [i \in DOMAIN search |-> search[i].qid]]

\* mutated: an XADD that failed passes for one that succeeded.
SkipPublish ==
    /\ worker = "linking"
    /\ Linked
    /\ worker' = "published"
    /\ UNCHANGED <<busVars, search, cache, enriched, bufferVars, indexVars, lost, faults>>

\* gather() is over; publish() takes effect in Redis.
PublishEnriched ==
    /\ worker = "linking"
    /\ Linked
    /\ enriched' = Append(enriched, Payload)
    /\ worker' = "published"
    /\ UNCHANGED <<busVars, search, cache, bufferVars, indexVars, lost, faults>>

-----------------------------------------------------------------------------
\* mutated: one document too many is buffered.
IsLate(buffer) == Len(buffer) > FlushBatch

IsFull(buffer) == Len(buffer) >= FlushBatch

\* The rest of the body up to its next await or its end.
GoOn(ents, sents) ==
    IF IsFull(ents) THEN worker' = "entities" /\ UNCHANGED <<busVars, search>>
    ELSE IF IsFull(sents) THEN worker' = "sentiments" /\ UNCHANGED <<busVars, search>>
    ELSE worker' = "idle" /\ search' = <<>> /\ HandlerReturns(Clean)

Entities == [i \in DOMAIN search |-> [post |-> Post, at |-> i, qid |-> search[i].qid]]

\* The reply of publish() arrived: both buffers are extended.
BufferPost ==
    /\ worker = "published"
    /\ entBuffer' = entBuffer \o Entities
    /\ sentBuffer' = Append(sentBuffer, Post)
    /\ GoOn(entBuffer', sentBuffer')
    /\ UNCHANGED <<cache, enriched, indexVars, lost, faults>>

\* mutated: the buffer is cleared before it is indexed.
BulkNothing(got) == UNCHANGED entityVars

\* bulk_index with id_field="post_id" is answered: the documents got are in,
\* the others are only left out of the count, which run() ignores.  A later
\* document of a post replaces an earlier one.
BulkEntities(got) ==
    /\ entityDocs' = FoldLeft(LAMBDA docs, e : [docs EXCEPT ![e.post] = e],
                              entityDocs, SelectSeq(entBuffer, LAMBDA e : e \in got))
    /\ indexed' = indexed \cup got
    /\ rejected' = rejected \cup (ToSet(entBuffer) \ got)

BulkSentiments(got) ==
    /\ scored' = scored \cup got
    /\ unscored' = unscored \cup (ToSet(sentBuffer) \ got)

\* Every document of the request got in, or the request is a fault.
CountFault(got, buffer) == IF got = ToSet(buffer) THEN UNCHANGED faults ELSE Fault

EntitiesIndexed ==
    /\ worker = "entities"
    /\ \E got \in SUBSET ToSet(entBuffer) :
           BulkEntities(got) /\ CountFault(got, entBuffer)
    /\ entBuffer' = <<>>
    /\ GoOn(<<>>, sentBuffer)
    /\ UNCHANGED <<cache, enriched, sentBuffer, sentimentVars, lost>>

SentimentsIndexed ==
    /\ worker = "sentiments"
    /\ \E got \in SUBSET ToSet(sentBuffer) :
           BulkSentiments(got) /\ CountFault(got, sentBuffer)
    /\ sentBuffer' = <<>>
    /\ worker' = "idle"
    /\ search' = <<>>
    /\ HandlerReturns(Clean)
    /\ UNCHANGED <<cache, enriched, entBuffer, entityVars, lost>>

-----------------------------------------------------------------------------
\* Posts with a document in this process's memory only.
InMemory ==
    ToSet(sentBuffer) \cup {entBuffer[k].post : k \in DOMAIN entBuffer}
        \cup (IF worker = "published" THEN {Post} ELSE {})

\* run() is left in the middle of what it awaits; the server may have done it.
CutShort ==
    /\ \/ enriched' = enriched
       \/ worker = "linking" /\ Linked /\ enriched' = Append(enriched, Payload)
    /\ \/ UNCHANGED indexVars
       \/ /\ worker = "entities"
          /\ \E got \in SUBSET ToSet(entBuffer) : BulkEntities(got)
          /\ UNCHANGED sentimentVars
       \/ /\ worker = "sentiments"
          /\ \E got \in SUBSET ToSet(sentBuffer) : BulkSentiments(got)
          /\ UNCHANGED entityVars
    /\ lost' = lost \cup InMemory \cup
                   (IF enriched' # enriched THEN {Post} ELSE {})
    /\ entBuffer' = <<>>
    /\ sentBuffer' = <<>>

\* Redis, OpenSearch or the payload raises; run() catches nothing.
Fail ==
    /\ worker \notin {"down", "exiting"}
    /\ Fault
    /\ Close({Clean})
    /\ CutShort
    /\ worker' = "exiting"
    /\ UNCHANGED <<search, cache>>

\* mutated: the look-ups that still run are not cancelled.
ExitUncancelled ==
    /\ worker = "exiting"
    /\ worker' = "down"
    /\ UNCHANGED <<busVars, search, cache, enriched, bufferVars, indexVars, lost, faults>>

\* main()'s finally block closed the clients; asyncio.run cancels the rest.
Exit ==
    /\ worker = "exiting"
    /\ worker' = "down"
    /\ search' = <<>>
    /\ UNCHANGED <<busVars, cache, enriched, bufferVars, indexVars, lost, faults>>

\* The process is killed.
Crash ==
    /\ worker \notin {"down", "exiting"}
    /\ Fault
    /\ Close({Clean})
    /\ CutShort
    /\ worker' = "down"
    /\ search' = <<>>
    /\ UNCHANGED cache

WorkerStep ==
    \/ Start \/ Read \/ Take \/ AckClean
    \/ PublishEnriched \/ BufferPost
    \/ EntitiesIndexed \/ SentimentsIndexed
    \/ Exit

Search(i) == CacheGet(i) \/ RemoteAnswers(i) \/ CacheSet(i)

Next ==
    \/ \E p \in Msgs : PublishClean(p)
    \/ WorkerStep
    \/ \E i \in DOMAIN search : Search(i)
    \/ \E k \in Keys : Expire(k)
    \/ Fail
    \/ Crash

Spec == Init /\ [][Next]_vars

(* The event loop runs every task that can step, requests end (with a      *)
(* timeout) and docker-compose restarts the container.                     *)
FairSpec ==
    /\ Spec
    /\ WF_vars(WorkerStep)
    /\ WF_vars(\E i \in DOMAIN search : Search(i))
-----------------------------------------------------------------------------
\* Every variable has its type; look-ups exist only while a post is worked on.
TypeOK ==
    /\ BusTypeOK
    /\ worker \in {"down", "idle", "linking", "published", "entities", "sentiments", "exiting"}
    /\ cache \in [Keys -> Qids \cup {Uncached}]
    /\ \A i \in DOMAIN search : search[i].at \in {"get", "remote", "set", "done"}
    /\ \A j \in DOMAIN enriched : enriched[j].post \in Msgs
    /\ sentBuffer \in Seq(Msgs)
    /\ scored \cup unscored \subseteq Msgs
    /\ lost \in SUBSET Msgs
    /\ faults \in Nat
    /\ worker \in {"down", "idle"} => search = <<>>
    /\ phase[Clean] = "handling" <=>
           worker \in {"linking", "published", "entities", "sentiments"}

EnrichedPosts == {enriched[j].post : j \in DOMAIN enriched}

\* A clean entry whose handler returned, and every indexed document, belongs
\* to an enriched post: the graph and the indices are told of the same posts.
SettledWereEnriched ==
    /\ \A i \in finished[Clean] : log[Clean][i] \in EnrichedPosts
    /\ scored \cup {e.post : e \in indexed} \subseteq EnrichedPosts

\* Every document of an enriched post is in its index or its buffer, or a bulk
\* request was answered an error for it, or the post was about to be buffered
\* or in memory when run() was left: nothing else takes a document out.
EnrichedAreAccounted ==
    \A j \in DOMAIN enriched :
        LET p == enriched[j].post
        IN  \/ p \in lost
            \/ worker = "published" /\ p = Post
            \/ /\ p \in scored \cup unscored \cup ToSet(sentBuffer)
               /\ \A i \in DOMAIN Mentions[p] :
                      [post |-> p, at |-> i, qid |-> enriched[j].qids[i]]
                          \in indexed \cup rejected \cup ToSet(entBuffer)

\* The end of the process loses at most FlushBatch posts of each index, those
\* being worked on included, whatever was acknowledged.
InMemoryBound ==
    /\ Len(sentBuffer) + (IF worker = "published" THEN 1 ELSE 0) <= FlushBatch
    /\ worker \in {"down", "idle", "linking", "published"} => Len(entBuffer) < FlushBatch

\* A clean entry is settled or stranded, whatever Wikidata and the indices do.
CleanSettle ==
    \A i \in 1 .. MaxLog[Clean] :
        (i <= Len(log[Clean])) ~> (i <= lastId[Clean] /\ i \notin Held(Clean))

\* wikidata_cache.py: the sentinel is a "definitely no match".
NoMatchIsDefinite == \A k \in Keys : cache[k] = NoQid => Answer[k] = NoQid

\* README: GET /entity/{wikidata_id} returns the mentions of an entity.  What
\* was indexed with a QID is found under it.
MentionsAreFound ==
    \A e \in indexed : e.qid # NoQid => entityDocs[e.post].qid = e.qid
=============================================================================
