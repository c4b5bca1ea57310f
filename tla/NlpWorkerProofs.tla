--------------------------- MODULE NlpWorkerProofs ---------------------------
(* What the NLP worker keeps, for any posts, mentions, answers of Wikidata  *)
(* and sizes of its buffers, wherever run() fails or is killed.             *)
EXTENDS NlpWorker, StreamBusProofs

Looks == [at : {"get", "remote", "set", "done"}, key : Keys, qid : Qids]
Docs == [post : Msgs, at : Nat, qid : Qids]
Enrichments == [post : Msgs, qids : Seq(Qids)]

\* Where the worker is between the arrival of a post and the end of its body.
InBody == {"linking", "published", "entities", "sentiments"}

\* The type of what the worker adds to the bus, entityDocs left aside.
NlpTypes ==
    /\ worker \in {"down", "idle", "exiting"} \cup InBody
    /\ search \in Seq(Looks)
    /\ cache \in [Keys -> Qids \cup {Uncached}]
    /\ enriched \in Seq(Enrichments)
    /\ entBuffer \in Seq(Docs)
    /\ sentBuffer \in Seq(Msgs)
    /\ scored \in SUBSET Msgs /\ unscored \in SUBSET Msgs
    /\ indexed \in SUBSET Docs /\ rejected \in SUBSET Docs
    /\ lost \in SUBSET Msgs
    /\ faults \in Nat

\* Where run() stands and where the bus's generator stands agree.
InStep ==
    /\ phase[Clean] = "down" <=> worker \in {"down", "exiting"}
    /\ phase[Clean] = "handling" <=> worker \in InBody
    /\ worker \in {"down", "idle"} => search = <<>>

\* The look-ups in a body are those of its post; past the publish they are
\* done and the post is on the enriched stream.
SearchFits ==
    /\ worker \in InBody => DOMAIN search = DOMAIN Mentions[Post]
    /\ worker \in InBody \ {"linking"} => Linked /\ Post \in EnrichedPosts

Doc(j, i) == [post |-> enriched[j].post, at |-> i, qid |-> enriched[j].qids[i]]

\* Bulk requests were answered for all documents of the j-th enriched post, one
\* way or the other, or a buffer has them.
Documented(j) ==
    /\ enriched[j].post \in scored \cup unscored \cup ToSet(sentBuffer)
    /\ \A i \in DOMAIN Mentions[enriched[j].post] :
           Doc(j, i) \in indexed \cup rejected \cup ToSet(entBuffer)

\* Every enriched post is documented, about to be, or lost.
DocumentsKept ==
    \A j \in DOMAIN enriched :
        \/ enriched[j].post \in lost
        \/ Documented(j)
        \/ worker = "published" /\ enriched[j] = Payload

\* Only enriched posts are buffered.
BufferedWereEnriched ==
    /\ ToSet(sentBuffer) \subseteq EnrichedPosts
    /\ \A e \in ToSet(entBuffer) : e.post \in EnrichedPosts

\* A buffer is full only until the bulk request that empties it is answered.
BufferSizes ==
    /\ worker \notin {"entities", "sentiments"} => Len(sentBuffer) < FlushBatch
    /\ Len(sentBuffer) <= FlushBatch
    /\ worker # "entities" => Len(entBuffer) < FlushBatch

\* Handlers return for entries of the log.
FinishedInLog == finished[Clean] \subseteq 1 .. Len(log[Clean])

NlpInv ==
    /\ FinishedInLog
    /\ BusInv /\ NlpTypes /\ InStep /\ SearchFits /\ DocumentsKept
    /\ BufferedWereEnriched /\ SettledWereEnriched /\ BufferSizes
-----------------------------------------------------------------------------
\* The clean stream is a stream of the bus.
LEMMA CleanIsStream == Clean \in Streams /\ {Clean} \in SUBSET Streams
BY StreamAssumption

\* Every step of the worker is a step of the bus or leaves it alone.
LEMMA StepIsBusStep == [Next]_vars => [BusNext]_busVars
<1>1. ASSUME NEW p \in Msgs, PublishClean(p) PROVE [BusNext]_busVars
    BY <1>1, CleanIsStream DEF PublishClean, BusNext
<1>2. CASE Start \/ Read \/ Take \/ AckClean
    BY <1>2, CleanIsStream DEF Start, Read, Take, AckClean, BusNext
<1>3. CASE PublishEnriched \/ Exit
    BY <1>3 DEF PublishEnriched, Exit
<1>4. CASE BufferPost \/ EntitiesIndexed \/ SentimentsIndexed
    <2>1. HandlerReturns(Clean) \/ UNCHANGED busVars
        BY <1>4 DEF BufferPost, EntitiesIndexed, SentimentsIndexed, GoOn
    <2> QED
        BY <2>1, CleanIsStream DEF BusNext
<1>5. CASE \E i \in DOMAIN search : Search(i)
    BY <1>5 DEF Search, CacheGet, RemoteAnswers, CacheSet
<1>6. CASE \E k \in Keys : Expire(k)
    BY <1>6 DEF Expire
<1>7. CASE Fail \/ Crash
    BY <1>7, CleanIsStream DEF Fail, Crash, BusNext
<1>8. CASE UNCHANGED vars
    BY <1>8 DEF vars
<1> QED
    BY <1>1, <1>2, <1>3, <1>4, <1>5, <1>6, <1>7, <1>8 DEF Next, WorkerStep

\* The worker uses the bus as its consumers are meant to.
THEOREM NlpRunsOnBus == Spec => BusSpec
<1>1. Init => BusInit
    BY DEF Init
<1> QED
    BY <1>1, StepIsBusStep, PTL DEF Spec, BusSpec

\* A worker in the body of its loop has a post in its hands.
LEMMA PostOfBody ==
    ASSUME NlpInv, worker \in InBody
    PROVE  /\ Post \in Msgs /\ Mentions[Post] \in Seq(DOMAIN Lower)
           /\ Head(batch[Clean]) \in 1 .. Len(log[Clean])
<1>1. phase[Clean] = "handling" /\ BusInv
    BY DEF NlpInv, InStep
<1> QED
    BY <1>1, CleanIsStream, EntryInLog, MentionAssumption DEF Post, Entry

\* The documents a post adds to the buffer, and the payload it is published as.
LEMMA EntitiesTypes ==
    ASSUME NlpInv, worker \in InBody
    PROVE  /\ Entities \in Seq(Docs) /\ DOMAIN Entities = DOMAIN search
           /\ Payload \in Enrichments
<1>1. search \in Seq(Looks) /\ DOMAIN search = 1 .. Len(search) /\ Len(search) \in Nat
    BY DEF NlpInv, NlpTypes
<1>2. Post \in Msgs
    BY PostOfBody
<1>3. \A i \in 1 .. Len(search) : search[i].qid \in Qids /\ i \in Nat
    <2>1. \A i \in 1 .. Len(search) : search[i] \in Looks
        BY <1>1
    <2> QED
        BY <2>1 DEF Looks
<1>4. Entities \in Seq(Docs) /\ DOMAIN Entities = DOMAIN search
    BY <1>1, <1>2, <1>3 DEF Entities, Docs
<1>5. [i \in DOMAIN search |-> search[i].qid] \in Seq(Qids)
    BY <1>1, <1>3
<1> QED
    BY <1>2, <1>4, <1>5 DEF Payload, Enrichments

\* A step of a look-up touches the look-ups and the cache only, and happens
\* while the post waits for them or after gather() failed.
LEMMA SearchKinds ==
    ASSUME NlpInv, NEW i \in DOMAIN search, Search(i)
    PROVE  /\ UNCHANGED <<busVars, worker, enriched, bufferVars, indexVars, lost>>
           /\ faults' \in {faults, faults + 1}
           /\ search' \in Seq(Looks) /\ DOMAIN search' = DOMAIN search
           /\ cache' \in [Keys -> Qids \cup {Uncached}]
           /\ worker \in {"linking", "exiting"}
<1>1. UNCHANGED <<busVars, worker, enriched, bufferVars, indexVars, lost>>
    BY DEF Search, CacheGet, RemoteAnswers, CacheSet
<1>2. faults' \in {faults, faults + 1}
    BY DEF Search, CacheGet, RemoteAnswers, CacheSet, Fault
<1>3. /\ search \in Seq(Looks) /\ search[i] \in Looks /\ i \in 1 .. Len(search)
      /\ cache \in [Keys -> Qids \cup {Uncached}]
    BY DEF NlpInv, NlpTypes
<1>4. search[i].key \in Keys /\ search[i].qid \in Qids
    BY <1>3 DEF Looks
<1>5. cache' \in [Keys -> Qids \cup {Uncached}]
    BY <1>3, <1>4 DEF Search, CacheGet, RemoteAnswers, CacheSet
<1>6. \E at \in {"remote", "set", "done"}, q \in Qids : At(i, at, q)
    <2>1. CASE CacheGet(i)
        <3>1. NoQid \in Qids
            BY DEF Qids
        <3>2. cache[search[i].key] \in Qids \cup {Uncached}
            BY <1>3, <1>4
        <3> QED
            BY <2>1, <3>1, <3>2 DEF CacheGet
    <2>2. CASE RemoteAnswers(i)
        <3>1. NoQid \in Qids /\ Answer[search[i].key] \in Qids
            BY <1>4 DEF Qids
        <3> QED
            BY <2>2, <3>1 DEF RemoteAnswers
    <2>3. CASE CacheSet(i)
        BY <1>4, <2>3 DEF CacheSet
    <2> QED
        BY <2>1, <2>2, <2>3 DEF Search
<1>7. PICK at \in {"remote", "set", "done"}, q \in Qids : At(i, at, q)
    BY <1>6
<1>8. search' \in Seq(Looks) /\ DOMAIN search' = DOMAIN search
    <2> DEFINE e == [search[i] EXCEPT !.at = at, !.qid = q]
    <2>1. e \in Looks
        BY <1>3, <1>7 DEF Looks
    <2>2. search' = [search EXCEPT ![i] = e]
        BY <1>3, <1>7 DEF At
    <2> HIDE DEF e
    <2> QED
        BY <1>3, <2>1, <2>2, ExceptSeq
<1>9. worker \in {"linking", "exiting"}
    <2>1. search[i].at # "done"
        BY DEF Search, CacheGet, RemoteAnswers, CacheSet, Searching
    <2>2. ~ Linked
        BY <2>1 DEF Linked
    <2>3. worker \notin {"down", "idle"}
        <3>1. search # <<>>
            BY <1>3
        <3> QED
            BY <3>1 DEF NlpInv, InStep
    <2> QED
        BY <2>2, <2>3 DEF NlpInv, SearchFits, NlpTypes, InBody
<1> QED
    BY <1>1, <1>2, <1>5, <1>8, <1>9

\* How a post begins: a look-up per mention.
LEMMA TakeKinds ==
    ASSUME NlpInv, Take
    PROVE  /\ worker' = "linking" /\ phase[Clean] = "fetched"
           /\ search' \in Seq(Looks) /\ DOMAIN search' = DOMAIN Mentions[Post]
           /\ UNCHANGED <<cache, enriched, bufferVars, indexVars, lost, faults>>
           /\ Post' = Post
<1>1. /\ worker' = "linking" /\ UNCHANGED <<cache, enriched, bufferVars, indexVars, lost, faults>>
      /\ search' = [i \in DOMAIN Mentions[Post] |->
                       [at |-> "get", key |-> Lower[Mentions[Post][i]], qid |-> NoQid]]
    BY DEF Take
<1>2. phase[Clean] = "fetched" /\ UNCHANGED <<log, batch>>
    BY DEF Take, Yield
<1>3. Post \in Msgs
    BY <1>2, CleanIsStream, EntryInLog DEF NlpInv, Post, Entry
<1>4. PICK n \in Nat : DOMAIN Mentions[Post] = 1 .. n
    BY <1>3, MentionAssumption
<1>5. ASSUME NEW i \in 1 .. n
      PROVE  [at |-> "get", key |-> Lower[Mentions[Post][i]], qid |-> NoQid] \in Looks
    <2>1. Mentions[Post] \in Seq(DOMAIN Lower)
        BY <1>3, MentionAssumption
    <2>2. Mentions[Post][i] \in DOMAIN Lower
        BY <1>4, <2>1
    <2>3. Lower[Mentions[Post][i]] \in Keys
        BY <2>2, MentionAssumption DEF Keys
    <2>4. NoQid \in Qids
        BY DEF Qids
    <2> QED
        BY <2>3, <2>4 DEF Looks
<1>6. search' \in Seq(Looks) /\ DOMAIN search' = DOMAIN Mentions[Post]
    BY <1>1, <1>4, <1>5
<1> QED
    BY <1>1, <1>2, <1>6 DEF Post

\* What is in memory are posts.
LEMMA InMemoryTypes == ASSUME NlpInv PROVE InMemory \subseteq Msgs
<1>1. ToSet(sentBuffer) \subseteq Msgs
    BY ElementsOfSeq DEF NlpInv, NlpTypes
<1>2. ASSUME NEW k \in DOMAIN entBuffer PROVE entBuffer[k].post \in Msgs
    <2>1. entBuffer[k] \in Docs
        BY DEF NlpInv, NlpTypes
    <2> QED
        BY <2>1 DEF Docs
<1>3. worker = "published" => Post \in Msgs
    BY PostOfBody DEF InBody
<1> QED
    BY <1>1, <1>2, <1>3 DEF InMemory

\* What is left when run() is cut short: the stream and the indices may have
\* taken what was sent, what was in memory only is lost.
LEMMA CutKinds ==
    ASSUME NlpInv, Fail \/ Crash
    PROVE  /\ UNCHANGED <<log, finished, cache>> /\ phase'[Clean] = "down"
           /\ worker \notin {"down", "exiting"} /\ worker' \in {"down", "exiting"}
           /\ search' \in {search, <<>>}
           /\ worker' = "down" => search' = <<>>
           /\ entBuffer' = <<>> /\ sentBuffer' = <<>> /\ faults' = faults + 1
           /\ \/ enriched' = enriched
              \/ /\ worker = "linking" /\ enriched' = Append(enriched, Payload)
                 /\ Post \in lost'
           /\ indexed \subseteq indexed' /\ indexed' \subseteq indexed \cup ToSet(entBuffer)
           /\ scored \subseteq scored' /\ scored' \subseteq scored \cup ToSet(sentBuffer)
           /\ rejected \subseteq rejected' /\ rejected' \subseteq rejected \cup ToSet(entBuffer)
           /\ unscored \subseteq unscored' /\ unscored' \subseteq unscored \cup ToSet(sentBuffer)
           /\ lost' \in SUBSET Msgs /\ lost \cup InMemory \subseteq lost'
<1>1. CutShort
    BY DEF Fail, Crash
<1>2. /\ UNCHANGED <<log, finished, cache>>
      /\ worker \notin {"down", "exiting"} /\ worker' \in {"down", "exiting"}
      /\ search' \in {search, <<>>}
      /\ worker' = "down" => search' = <<>>
      /\ faults' = faults + 1
    BY DEF Fail, Crash, Close, Fault
<1>3. phase'[Clean] = "down"
    BY CleanIsStream DEF Fail, Crash, Close
<1>4. entBuffer' = <<>> /\ sentBuffer' = <<>>
    BY <1>1 DEF CutShort
<1>5. lost' = lost \cup InMemory \cup (IF enriched' # enriched THEN {Post} ELSE {})
    BY <1>1 DEF CutShort
<1>6. \/ enriched' = enriched
      \/ worker = "linking" /\ enriched' = Append(enriched, Payload)
    BY <1>1 DEF CutShort
<1>7. /\ indexed \subseteq indexed' /\ indexed' \subseteq indexed \cup ToSet(entBuffer)
      /\ rejected \subseteq rejected' /\ rejected' \subseteq rejected \cup ToSet(entBuffer)
      /\ scored \subseteq scored' /\ scored' \subseteq scored \cup ToSet(sentBuffer)
      /\ unscored \subseteq unscored' /\ unscored' \subseteq unscored \cup ToSet(sentBuffer)
    <2>1. CASE UNCHANGED indexVars
        BY <2>1 DEF indexVars, entityVars, sentimentVars
    <2>2. CASE \E got \in SUBSET ToSet(entBuffer) : BulkEntities(got) /\ UNCHANGED sentimentVars
        BY <2>2 DEF BulkEntities, sentimentVars
    <2>3. CASE \E got \in SUBSET ToSet(sentBuffer) : BulkSentiments(got) /\ UNCHANGED entityVars
        BY <2>3 DEF BulkSentiments, entityVars
    <2> QED
        BY <1>1, <2>1, <2>2, <2>3 DEF CutShort
<1>8. lost' \in SUBSET Msgs
    <2>1. enriched' # enriched => Post \in Msgs
        BY <1>6, PostOfBody DEF InBody
    <2>2. lost \subseteq Msgs
        BY DEF NlpInv, NlpTypes
    <2> QED
        BY <1>5, <2>1, <2>2, InMemoryTypes
<1> QED
    BY <1>2, <1>3, <1>4, <1>5, <1>6, <1>7, <1>8

\* What an answered bulk request does: it takes every document of its buffer
\* for indexed or for rejected.
LEMMA BulkKinds ==
    ASSUME NlpInv, EntitiesIndexed \/ SentimentsIndexed
    PROVE  /\ worker \in {"entities", "sentiments"} /\ UNCHANGED <<cache, enriched, lost>>
           /\ faults' \in {faults, faults + 1}
           /\ entBuffer' \in {entBuffer, <<>>} /\ sentBuffer' \in {sentBuffer, <<>>}
           /\ indexed' \subseteq indexed \cup ToSet(entBuffer)
           /\ rejected' \subseteq rejected \cup ToSet(entBuffer)
           /\ scored' \subseteq scored \cup ToSet(sentBuffer)
           /\ unscored' \subseteq unscored \cup ToSet(sentBuffer)
           /\ indexed \cup rejected \cup ToSet(entBuffer)
                  \subseteq indexed' \cup rejected' \cup ToSet(entBuffer')
           /\ scored \cup unscored \cup ToSet(sentBuffer)
                  \subseteq scored' \cup unscored' \cup ToSet(sentBuffer')
<1>0. ToSet(<<>>) = {}
    BY DEF ToSet
<1>1. CASE EntitiesIndexed
    <2>1. PICK got \in SUBSET ToSet(entBuffer) :
              BulkEntities(got) /\ CountFault(got, entBuffer)
        BY <1>1 DEF EntitiesIndexed
    <2>2. /\ worker = "entities" /\ entBuffer' = <<>>
          /\ UNCHANGED <<cache, enriched, sentBuffer, scored, unscored, lost>>
        BY <1>1 DEF EntitiesIndexed, sentimentVars
    <2> QED
        BY <1>0, <2>1, <2>2 DEF BulkEntities, CountFault, Fault
<1>2. CASE SentimentsIndexed
    <2>1. PICK got \in SUBSET ToSet(sentBuffer) :
              BulkSentiments(got) /\ CountFault(got, sentBuffer)
        BY <1>2 DEF SentimentsIndexed
    <2>2. /\ worker = "sentiments" /\ sentBuffer' = <<>>
          /\ UNCHANGED <<cache, enriched, entBuffer, indexed, rejected, lost>>
        BY <1>2 DEF SentimentsIndexed, entityVars
    <2> QED
        BY <1>0, <2>1, <2>2 DEF BulkSentiments, CountFault, Fault
<1> QED
    BY <1>1, <1>2

\* How a body goes on: to a bulk request, or to its end.
LEMMA GoOnKinds ==
    ASSUME NEW ents, NEW sents, Len(ents) \in Nat, Len(sents) \in Nat, GoOn(ents, sents),
           BusTypeOK
    PROVE  \/ worker' = "entities" /\ UNCHANGED <<busVars, search>>
           \/ /\ worker' = "sentiments" /\ UNCHANGED <<busVars, search>>
              /\ Len(ents) < FlushBatch
           \/ /\ worker' = "idle" /\ search' = <<>> /\ HandlerReturns(Clean)
              /\ UNCHANGED log /\ phase'[Clean] = "acking"
              /\ finished' = [finished EXCEPT ![Clean] = @ \cup {Head(batch[Clean])}]
              /\ Len(ents) < FlushBatch /\ Len(sents) < FlushBatch
<1>1. FlushBatch \in Nat
    BY FlushAssumption
<1>2. HandlerReturns(Clean) =>
          /\ UNCHANGED log /\ phase'[Clean] = "acking"
          /\ finished' = [finished EXCEPT ![Clean] = @ \cup {Head(batch[Clean])}]
    BY CleanIsStream DEF HandlerReturns, BusTypeOK
<1> QED
    BY <1>1, <1>2 DEF GoOn, IsFull

\* Every step keeps the types.
LEMMA NlpTypesStep == NlpInv /\ [Next]_vars => NlpTypes'
<1> SUFFICES ASSUME NlpInv, [Next]_vars PROVE NlpTypes'
    OBVIOUS
<1>0. /\ NlpTypes /\ BusTypeOK
      /\ <<>> \in Seq(Looks) /\ <<>> \in Seq(Docs) /\ <<>> \in Seq(Msgs)
    BY DEF NlpInv, BusInv
<1>1. CASE UNCHANGED nlpVars
    BY <1>0, <1>1 DEF NlpTypes, nlpVars, bufferVars, indexVars, entityVars, sentimentVars
<1>2. CASE Start \/ Exit
    BY <1>0, <1>2
       DEF NlpTypes, Start, Exit, bufferVars, indexVars, entityVars, sentimentVars
<1>3. CASE Take
    BY <1>0, <1>3, TakeKinds
       DEF NlpTypes, InBody, bufferVars, indexVars, entityVars, sentimentVars
<1>4. ASSUME NEW i \in DOMAIN search, Search(i) PROVE NlpTypes'
    <2>1. /\ UNCHANGED <<worker, enriched, entBuffer, sentBuffer, lost>>
          /\ UNCHANGED <<indexed, rejected, scored, unscored>>
          /\ search' \in Seq(Looks) /\ cache' \in [Keys -> Qids \cup {Uncached}]
        BY <1>4, SearchKinds DEF bufferVars, indexVars, entityVars, sentimentVars
    <2>2. faults' \in Nat
        <3>1. faults' \in {faults, faults + 1}
            BY <1>4, SearchKinds
        <3> QED
            BY <1>0, <3>1 DEF NlpTypes
    <2> QED
        BY <1>0, <2>1, <2>2 DEF NlpTypes
<1>5. ASSUME NEW k \in Keys, Expire(k) PROVE NlpTypes'
    BY <1>0, <1>5 DEF NlpTypes, Expire, bufferVars, indexVars, entityVars, sentimentVars
<1>6. CASE PublishEnriched
    <2>1. Append(enriched, Payload) \in Seq(Enrichments)
        BY <1>0, <1>6, EntitiesTypes, AppendProperties DEF NlpTypes, PublishEnriched, InBody
    <2> QED
        BY <1>0, <1>6, <2>1
           DEF NlpTypes, PublishEnriched, InBody, bufferVars, indexVars, entityVars,
               sentimentVars
<1>7. CASE BufferPost
    <2>1. /\ entBuffer' = entBuffer \o Entities /\ sentBuffer' = Append(sentBuffer, Post)
          /\ GoOn(entBuffer', sentBuffer')
          /\ UNCHANGED <<cache, enriched, indexVars, lost, faults>> /\ worker = "published"
        BY <1>7 DEF BufferPost
    <2>2. Entities \in Seq(Docs) /\ Post \in Msgs
        BY <2>1, EntitiesTypes, PostOfBody DEF InBody
    <2>3. entBuffer' \in Seq(Docs) /\ sentBuffer' \in Seq(Msgs)
        BY <1>0, <2>1, <2>2, ConcatProperties, AppendProperties DEF NlpTypes
    <2>4. search' \in {search, <<>>} /\ worker' \in {"entities", "sentiments", "idle"}
        BY <2>1 DEF GoOn
    <2> QED
        BY <1>0, <2>1, <2>3, <2>4 DEF NlpTypes, InBody, indexVars, entityVars, sentimentVars
<1>8. CASE EntitiesIndexed \/ SentimentsIndexed
    <2>1. search' \in {search, <<>>} /\ worker' \in {"entities", "sentiments", "idle"}
        BY <1>8 DEF GoOn, EntitiesIndexed, SentimentsIndexed
    <2>2. ToSet(entBuffer) \subseteq Docs /\ ToSet(sentBuffer) \subseteq Msgs
        BY <1>0, ElementsOfSeq DEF NlpTypes
    <2>3. /\ indexed' \in SUBSET Docs /\ rejected' \in SUBSET Docs
          /\ scored' \in SUBSET Msgs /\ unscored' \in SUBSET Msgs
        BY <1>0, <1>8, <2>2, BulkKinds DEF NlpTypes
    <2>4. /\ UNCHANGED <<cache, enriched, lost>> /\ faults' \in {faults, faults + 1}
          /\ entBuffer' \in {entBuffer, <<>>} /\ sentBuffer' \in {sentBuffer, <<>>}
        BY <1>8, BulkKinds
    <2>5. entBuffer' \in Seq(Docs) /\ sentBuffer' \in Seq(Msgs)
        BY <1>0, <2>4 DEF NlpTypes
    <2>6. search' \in Seq(Looks)
        BY <1>0, <2>1 DEF NlpTypes
    <2>7. faults' \in Nat
        BY <1>0, <2>4 DEF NlpTypes
    <2> QED
        BY <1>0, <2>1, <2>3, <2>4, <2>5, <2>6, <2>7 DEF NlpTypes, InBody
<1>9. CASE Fail \/ Crash
    <2>0. /\ worker' \in {"down", "exiting"} /\ search' \in {search, <<>>} /\ cache' = cache
          /\ entBuffer' = <<>> /\ sentBuffer' = <<>> /\ faults' = faults + 1
          /\ lost' \in SUBSET Msgs
          /\ indexed' \subseteq indexed \cup ToSet(entBuffer)
          /\ scored' \subseteq scored \cup ToSet(sentBuffer)
          /\ rejected' \subseteq rejected \cup ToSet(entBuffer)
          /\ unscored' \subseteq unscored \cup ToSet(sentBuffer)
          /\ \/ enriched' = enriched
             \/ worker = "linking" /\ enriched' = Append(enriched, Payload)
        BY <1>9, CutKinds
    <2>1. enriched' \in Seq(Enrichments)
        <3>1. CASE enriched' = enriched
            BY <1>0, <3>1 DEF NlpTypes
        <3>2. CASE worker = "linking" /\ enriched' = Append(enriched, Payload)
            <4>1. Payload \in Enrichments
                BY <3>2, EntitiesTypes DEF InBody
            <4> QED
                BY <1>0, <3>2, <4>1, AppendProperties DEF NlpTypes
        <3> QED
            BY <2>0, <3>1, <3>2
    <2>2. /\ indexed' \in SUBSET Docs /\ rejected' \in SUBSET Docs
          /\ scored' \in SUBSET Msgs /\ unscored' \in SUBSET Msgs
        <3>1. ToSet(entBuffer) \subseteq Docs /\ ToSet(sentBuffer) \subseteq Msgs
            BY <1>0, ElementsOfSeq DEF NlpTypes
        <3> QED
            BY <1>0, <2>0, <3>1 DEF NlpTypes
    <2>3. faults' \in Nat
        BY <1>0, <2>0 DEF NlpTypes
    <2> QED
        BY <1>0, <2>0, <2>1, <2>2, <2>3 DEF NlpTypes
<1> QED
    BY <1>1, <1>2, <1>3, <1>4, <1>5, <1>6, <1>7, <1>8, <1>9
    DEF Next, WorkerStep, PublishClean, Read, AckClean, vars
-----------------------------------------------------------------------------
\* The loop and the generator of the bus stay in step.
LEMMA InStepStep == NlpInv /\ [Next]_vars => InStep'
<1> SUFFICES ASSUME NlpInv, [Next]_vars PROVE InStep'
    OBVIOUS
<1>0. /\ InStep /\ BusTypeOK /\ phase \in [Streams -> Phases] /\ Clean \in Streams
      /\ worker \in {"down", "idle", "exiting"} \cup InBody
    BY CleanIsStream DEF NlpInv, BusInv, BusTypeOK, NlpTypes
<1> USE DEF InStep, InBody
<1>1. CASE UNCHANGED vars \/ \E p \in Msgs : PublishClean(p)
    BY <1>0, <1>1 DEF vars, busVars, nlpVars, PublishClean, Publish
<1>2. CASE Start
    BY <1>0, <1>2 DEF Start, StartConsume
<1>3. CASE Read
    BY <1>0, <1>3 DEF Read, ReadGroup, nlpVars
<1>4. CASE Take
    BY <1>0, <1>4 DEF Take, Yield
<1>5. CASE AckClean
    BY <1>0, <1>5 DEF AckClean, Ack, AfterAck, nlpVars
<1>6. ASSUME NEW i \in DOMAIN search, Search(i) PROVE InStep'
    BY <1>0, <1>6, SearchKinds DEF busVars
<1>7. CASE PublishEnriched \/ \E k \in Keys : Expire(k)
    BY <1>0, <1>7 DEF PublishEnriched, Expire, busVars
<1>8. CASE BufferPost \/ EntitiesIndexed
    <2>1. worker \in {"published", "entities"}
        BY <1>8 DEF BufferPost, EntitiesIndexed
    <2>2. \/ worker' \in {"entities", "sentiments"} /\ UNCHANGED phase
          \/ worker' = "idle" /\ search' = <<>> /\ phase'[Clean] = "acking"
        BY <1>0, <1>8 DEF BufferPost, EntitiesIndexed, GoOn, busVars, HandlerReturns
    <2> QED
        BY <1>0, <2>1, <2>2
<1>9. CASE SentimentsIndexed
    BY <1>0, <1>9 DEF SentimentsIndexed, HandlerReturns
<1>10. CASE Fail \/ Crash
    BY <1>10, CutKinds
<1>11. CASE Exit
    BY <1>0, <1>11 DEF Exit, busVars
<1> QED
    BY <1>1, <1>2, <1>3, <1>4, <1>5, <1>6, <1>7, <1>8, <1>9, <1>10, <1>11
    DEF Next, WorkerStep

\* The post in the worker's hands stays the same from gather() to the last
\* bulk request.
LEMMA PostStays ==
    ASSUME NlpInv, [Next]_vars, worker \in InBody, worker' \in InBody
    PROVE  Post' = Post
<1>1. phase[Clean] = "handling" /\ phase'[Clean] = "handling"
    BY InStepStep DEF NlpInv, InStep
<1> QED
    BY <1>1, StepIsBusStep, EntryStays, CleanIsStream DEF NlpInv, Post, Entry

\* The steps that leave the stream, the buffers and the indices alone.
Quiet ==
    /\ UNCHANGED <<enriched, entBuffer, sentBuffer, indexed, rejected, scored, unscored, lost>>
    /\ UNCHANGED finished
    /\ \/ worker' = worker /\ search' = search
       \/ worker' = worker /\ worker \in {"linking", "exiting"} /\ DOMAIN search' = DOMAIN search
       \/ worker' \in {"idle", "down"} /\ worker \in {"down", "exiting"}
       \/ /\ worker = "idle" /\ worker' = "linking"
          /\ DOMAIN search' = DOMAIN Mentions[Post] /\ Post' = Post

\* The steps of the worker, by what they do to the post in hand.
LEMMA NlpKinds ==
    ASSUME NlpInv, [Next]_vars
    PROVE  \/ Quiet \/ PublishEnriched \/ BufferPost \/ EntitiesIndexed \/ SentimentsIndexed
           \/ Fail \/ Crash
<1> USE DEF Quiet, bufferVars, indexVars, entityVars, sentimentVars
<1>1. CASE UNCHANGED vars \/ \E p \in Msgs : PublishClean(p)
    BY <1>1 DEF vars, busVars, nlpVars, PublishClean, Publish
<1>2. CASE Start
    BY <1>2 DEF Start, StartConsume
<1>3. CASE Read \/ AckClean
    BY <1>3 DEF Read, ReadGroup, AckClean, Ack, nlpVars
<1>4. CASE Take
    <2>1. worker = "idle"
        <3>1. phase[Clean] = "fetched"
            BY <1>4, TakeKinds
        <3> QED
            BY <3>1 DEF NlpInv, InStep, NlpTypes
    <2>2. UNCHANGED finished
        BY <1>4 DEF Take, Yield
    <2> QED
        BY <1>4, <2>1, <2>2, TakeKinds
<1>5. ASSUME NEW i \in DOMAIN search, Search(i) PROVE Quiet
    BY <1>5, SearchKinds DEF busVars
<1>6. CASE \E k \in Keys : Expire(k)
    BY <1>6 DEF Expire, busVars
<1>7. CASE Exit
    BY <1>7 DEF Exit, busVars
<1> QED
    BY <1>1, <1>2, <1>3, <1>4, <1>5, <1>6, <1>7 DEF Next, WorkerStep
-----------------------------------------------------------------------------
\* The stream of enriched posts keeps what it has; a new one is the payload.
LEMMA EnrichedGrows ==
    ASSUME NlpInv, [Next]_vars
    PROVE  /\ EnrichedPosts \subseteq EnrichedPosts'
           /\ enriched' # enriched => Post \in EnrichedPosts'
           /\ \A j \in DOMAIN enriched' :
                  \/ j \in DOMAIN enriched /\ enriched'[j] = enriched[j]
                  \/ enriched' # enriched /\ enriched'[j] = Payload
<1>1. \/ enriched' = enriched
      \/ worker = "linking" /\ enriched' = Append(enriched, Payload)
    <2>1. CASE Quiet \/ BufferPost \/ EntitiesIndexed \/ SentimentsIndexed
        BY <2>1 DEF Quiet, BufferPost, EntitiesIndexed, SentimentsIndexed
    <2>2. CASE PublishEnriched
        BY <2>2 DEF PublishEnriched
    <2> QED
        BY <2>1, <2>2, NlpKinds, CutKinds
<1>2. CASE enriched' = enriched
    BY <1>2 DEF EnrichedPosts
<1>3. CASE worker = "linking" /\ enriched' = Append(enriched, Payload)
    <2>1. Payload \in Enrichments /\ enriched \in Seq(Enrichments) /\ Payload.post = Post
        BY <1>3, EntitiesTypes DEF NlpInv, NlpTypes, InBody, Payload
    <2> DEFINE n == Len(enriched)
    <2>2. /\ n \in Nat /\ DOMAIN enriched = 1 .. n /\ DOMAIN enriched' = 1 .. n + 1
          /\ \A j \in 1 .. n : enriched'[j] = enriched[j]
          /\ enriched'[n + 1] = Payload
        BY <1>3, <2>1, AppendProperties
    <2> HIDE DEF n
    <2>3. \A j : j \in 1 .. n + 1 <=> j \in 1 .. n \/ j = n + 1
        BY <2>2
    <2>4. enriched' # enriched
        <3>1. n + 1 \in DOMAIN enriched' /\ n + 1 \notin DOMAIN enriched
            BY <2>2
        <3> QED
            BY <3>1
    <2>5. EnrichedPosts' = {enriched'[j].post : j \in 1 .. n + 1}
        BY <2>2 DEF EnrichedPosts
    <2>6. EnrichedPosts \subseteq EnrichedPosts' /\ Post \in EnrichedPosts'
        <3>1. EnrichedPosts = {enriched[j].post : j \in 1 .. n}
            BY <2>2 DEF EnrichedPosts
        <3>2. \A j \in 1 .. n : enriched[j].post \in EnrichedPosts'
            BY <2>2, <2>3, <2>5
        <3>3. Post \in EnrichedPosts'
            BY <2>1, <2>2, <2>3, <2>5
        <3> QED
            BY <3>1, <3>2, <3>3
    <2>7. ASSUME NEW j \in DOMAIN enriched'
          PROVE  \/ j \in DOMAIN enriched /\ enriched'[j] = enriched[j]
                 \/ enriched'[j] = Payload
        BY <2>2, <2>3
    <2> QED
        BY <2>4, <2>6, <2>7
<1> QED
    BY <1>1, <1>2, <1>3

\* The look-ups are those of the post in hand after every step.
LEMMA SearchFitsStep == NlpInv /\ [Next]_vars => SearchFits'
<1> SUFFICES ASSUME NlpInv, [Next]_vars PROVE SearchFits'
    OBVIOUS
<1>1. SearchFits /\ EnrichedPosts \subseteq EnrichedPosts'
    BY EnrichedGrows DEF NlpInv
<1>2. worker \in InBody /\ worker' \in InBody => Post' = Post
    BY PostStays
<1>3. CASE Quiet
    <2>1. CASE worker' = worker /\ search' = search
        BY <1>1, <1>2, <2>1 DEF SearchFits, Linked
    <2>2. CASE worker' = worker /\ worker \in {"linking", "exiting"} /\ DOMAIN search' = DOMAIN search
        BY <1>1, <1>2, <2>2 DEF SearchFits, InBody
    <2>3. CASE worker' \in {"idle", "down"}
        BY <2>3 DEF SearchFits, InBody
    <2>4. CASE worker' = "linking" /\ DOMAIN search' = DOMAIN Mentions[Post] /\ Post' = Post
        BY <2>4 DEF SearchFits, InBody
    <2> QED
        BY <1>3, <2>1, <2>2, <2>3, <2>4 DEF Quiet
<1>4. CASE PublishEnriched
    <2>1. /\ worker = "linking" /\ worker' = "published" /\ Linked /\ search' = search
          /\ enriched' = Append(enriched, Payload)
        BY <1>4 DEF PublishEnriched
    <2>2. Post \in EnrichedPosts'
        <3>1. enriched' # enriched
            <4>1. enriched \in Seq(Enrichments) /\ Payload \in Enrichments
                BY <2>1, EntitiesTypes DEF NlpInv, NlpTypes, InBody
            <4>2. Len(enriched') = Len(enriched) + 1 /\ Len(enriched) \in Nat
                BY <2>1, <4>1, AppendProperties
            <4> QED
                BY <4>2
        <3> QED
            BY <3>1, EnrichedGrows
    <2> QED
        BY <1>1, <1>2, <2>1, <2>2 DEF SearchFits, InBody, Linked
<1>5. CASE BufferPost \/ EntitiesIndexed \/ SentimentsIndexed
    <2>1. /\ worker \in InBody \ {"linking"}
          /\ worker' = "idle" \/ worker' \in InBody \ {"linking"}
          /\ worker' # "idle" => search' = search
        BY <1>5 DEF BufferPost, EntitiesIndexed, SentimentsIndexed, GoOn, InBody
    <2> QED
        BY <1>1, <1>2, <2>1 DEF SearchFits, InBody, Linked
<1>6. CASE Fail \/ Crash
    BY <1>6, CutKinds DEF SearchFits, InBody
<1> QED
    BY <1>3, <1>4, <1>5, <1>6, NlpKinds

\* What waits in a buffer was published after every step.
LEMMA BufferedWereEnrichedStep == NlpInv /\ [Next]_vars => BufferedWereEnriched'
<1> SUFFICES ASSUME NlpInv, [Next]_vars PROVE BufferedWereEnriched'
    OBVIOUS
<1>1. BufferedWereEnriched /\ EnrichedPosts \subseteq EnrichedPosts'
    BY EnrichedGrows DEF NlpInv
<1>2. CASE UNCHANGED <<entBuffer, sentBuffer>>
    BY <1>1, <1>2 DEF BufferedWereEnriched
<1>3. CASE BufferPost
    <2>1. /\ entBuffer' = entBuffer \o Entities /\ sentBuffer' = Append(sentBuffer, Post)
          /\ worker = "published" /\ enriched' = enriched
        BY <1>3 DEF BufferPost
    <2>2. Post \in EnrichedPosts
        BY <2>1 DEF NlpInv, SearchFits, InBody
    <2>3. /\ Entities \in Seq(Docs) /\ Post \in Msgs
          /\ entBuffer \in Seq(Docs) /\ sentBuffer \in Seq(Msgs)
        BY <2>1, EntitiesTypes, PostOfBody DEF InBody, NlpInv, NlpTypes
    <2>4. ToSet(sentBuffer') = ToSet(sentBuffer) \cup {Post}
        BY <2>1, <2>3, ElementsOfAppend
    <2>5. ToSet(entBuffer') = ToSet(entBuffer) \cup ToSet(Entities)
        BY <2>1, <2>3, ElementsOfConcat
    <2>6. \A e \in ToSet(Entities) : e.post = Post
        BY DEF Entities, ToSet
    <2> QED
        BY <1>1, <2>2, <2>4, <2>5, <2>6 DEF BufferedWereEnriched
<1>4. CASE EntitiesIndexed \/ SentimentsIndexed \/ Fail \/ Crash
    <2>1. entBuffer' \in {entBuffer, <<>>} /\ sentBuffer' \in {sentBuffer, <<>>}
        BY <1>4, CutKinds DEF EntitiesIndexed, SentimentsIndexed
    <2>2. ToSet(<<>>) = {}
        BY DEF ToSet
    <2> QED
        BY <1>1, <2>1, <2>2 DEF BufferedWereEnriched
<1> QED
    BY <1>2, <1>3, <1>4, NlpKinds DEF Quiet, PublishEnriched, bufferVars

\* An entry is acknowledged only after its post was published.
LEMMA SettledWereEnrichedStep == NlpInv /\ [Next]_vars => SettledWereEnriched'
<1> SUFFICES ASSUME NlpInv, [Next]_vars PROVE SettledWereEnriched'
    OBVIOUS
<1> DEFINE Known == EnrichedPosts'
<1>1. /\ SettledWereEnriched /\ BufferedWereEnriched
      /\ EnrichedPosts \subseteq EnrichedPosts'
    BY EnrichedGrows DEF NlpInv
<1>2. scored' \subseteq scored \cup ToSet(sentBuffer) /\ indexed' \subseteq indexed \cup ToSet(entBuffer)
    <2>1. CASE Quiet \/ PublishEnriched \/ BufferPost
        BY <2>1 DEF Quiet, PublishEnriched, BufferPost, indexVars, entityVars, sentimentVars
    <2>2. CASE EntitiesIndexed \/ SentimentsIndexed
        BY <2>2, BulkKinds
    <2> QED
        BY <2>1, <2>2, NlpKinds, CutKinds
<1>3. scored' \cup {e.post : e \in indexed'} \subseteq EnrichedPosts'
    BY <1>1, <1>2 DEF SettledWereEnriched, BufferedWereEnriched
<1>4. ASSUME NEW i \in finished'[Clean] PROVE log'[Clean][i] \in EnrichedPosts'
    <2>1. CASE i \in finished[Clean]
        <3>1. log[Clean][i] \in EnrichedPosts
            BY <1>1, <2>1 DEF SettledWereEnriched
        <3>2. log'[Clean][i] = log[Clean][i]
            <4>1. i \in 1 .. Len(log[Clean])
                BY <2>1 DEF NlpInv, FinishedInLog
            <4> QED
                BY <4>1, LogGrows, StepIsBusStep, CleanIsStream DEF NlpInv, BusInv
        <3> QED
            BY <1>1, <3>1, <3>2
    <2>2. CASE i \notin finished[Clean]
        <3>1. i = Head(batch[Clean]) /\ UNCHANGED log
            BY <2>2, FinishedGrows, StepIsBusStep, CleanIsStream DEF NlpInv, BusInv
        <3>2. worker \in InBody \ {"linking"}
            <4>1. ~ Quiet /\ ~ PublishEnriched /\ ~ Fail /\ ~ Crash
                BY <2>2, CutKinds DEF Quiet, PublishEnriched, busVars
            <4> QED
                BY <4>1, NlpKinds DEF BufferPost, EntitiesIndexed, SentimentsIndexed, InBody
        <3> QED
            BY <1>1, <3>1, <3>2 DEF NlpInv, SearchFits, Post
    <2> QED
        BY <2>1, <2>2
<1> QED
    BY <1>3, <1>4 DEF SettledWereEnriched

\* Finished entries are entries of the stream after every step.
LEMMA FinishedInLogStep == NlpInv /\ [Next]_vars => FinishedInLog'
<1> SUFFICES ASSUME NlpInv, [Next]_vars, NEW i \in finished'[Clean]
             PROVE  i \in 1 .. Len(log'[Clean])
    BY DEF FinishedInLog
<1>1. i \in 1 .. Len(log[Clean])
    <2>1. CASE i \in finished[Clean]
        BY <2>1 DEF NlpInv, FinishedInLog
    <2>2. CASE i \notin finished[Clean]
        <3>1. i = Head(batch[Clean]) /\ phase[Clean] = "handling"
            BY <2>2, FinishedGrows, StepIsBusStep, CleanIsStream DEF NlpInv, BusInv
        <3> QED
            BY <3>1, EntryInLog, CleanIsStream DEF NlpInv
    <2> QED
        BY <2>1, <2>2
<1>2. /\ Len(log[Clean]) \in Nat /\ Len(log'[Clean]) \in Nat
      /\ Len(log[Clean]) <= Len(log'[Clean])
    BY LogGrows, StepIsBusStep, CleanIsStream DEF NlpInv
<1> QED
    BY <1>1, <1>2

\* The documents of a post that is buffered: one per mention, at its place.
LEMMA BufferKinds ==
    ASSUME NlpInv, BufferPost
    PROVE  /\ worker = "published" /\ UNCHANGED <<enriched, indexVars, lost>>
           /\ ToSet(sentBuffer') = ToSet(sentBuffer) \cup {Post}
           /\ ToSet(entBuffer') = ToSet(entBuffer) \cup ToSet(Entities)
           /\ Len(sentBuffer') = Len(sentBuffer) + 1
           /\ GoOn(entBuffer', sentBuffer')
<1>1. /\ entBuffer' = entBuffer \o Entities /\ sentBuffer' = Append(sentBuffer, Post)
      /\ worker = "published" /\ UNCHANGED <<enriched, indexVars, lost>>
      /\ GoOn(entBuffer', sentBuffer')
    BY DEF BufferPost
<1>2. /\ Entities \in Seq(Docs) /\ Post \in Msgs
      /\ entBuffer \in Seq(Docs) /\ sentBuffer \in Seq(Msgs)
    BY <1>1, EntitiesTypes, PostOfBody DEF InBody, NlpInv, NlpTypes
<1>3. ToSet(sentBuffer') = ToSet(sentBuffer) \cup {Post}
    BY <1>1, <1>2, ElementsOfAppend
<1>4. ToSet(entBuffer') = ToSet(entBuffer) \cup ToSet(Entities)
    BY <1>1, <1>2, ElementsOfConcat
<1>5. Len(sentBuffer') = Len(sentBuffer) + 1
    BY <1>1, <1>2, AppendProperties
<1> QED
    BY <1>1, <1>3, <1>4, <1>5

\* Enriched posts keep their documents in an index, in memory or lost to a failure.
LEMMA DocumentsKeptStep == NlpInv /\ [Next]_vars => DocumentsKept'
<1> SUFFICES ASSUME NlpInv, [Next]_vars, NEW j \in DOMAIN enriched'
             PROVE  \/ enriched'[j].post \in lost'
                    \/ Documented(j)'
                    \/ worker' = "published" /\ enriched'[j] = Payload'
    BY DEF DocumentsKept
<1>1. j \in DOMAIN enriched =>
          \/ enriched[j].post \in lost
          \/ Documented(j)
          \/ worker = "published" /\ enriched[j] = Payload
    BY DEF NlpInv, DocumentsKept
<1>2. worker \in InBody /\ worker' \in InBody /\ search' = search => Payload' = Payload
    BY PostStays DEF Payload
<1>3. CASE Quiet
    <2>1. /\ UNCHANGED <<enriched, entBuffer, sentBuffer, lost>>
          /\ UNCHANGED <<indexed, rejected, scored, unscored>>
        BY <1>3 DEF Quiet
    <2>2. Documented(j) => Documented(j)'
        BY <2>1 DEF Documented, Doc
    <2>3. worker = "published" => worker' = "published" /\ search' = search
        BY <1>3 DEF Quiet
    <2> QED
        BY <1>1, <1>2, <2>1, <2>2, <2>3 DEF InBody
<1>4. CASE PublishEnriched
    <2>1. /\ worker = "linking" /\ worker' = "published"
          /\ UNCHANGED <<search, entBuffer, sentBuffer, lost>>
          /\ UNCHANGED <<indexed, rejected, scored, unscored>>
        BY <1>4 DEF PublishEnriched, bufferVars, indexVars, entityVars, sentimentVars
    <2>2. CASE j \in DOMAIN enriched /\ enriched'[j] = enriched[j]
        <3>1. Documented(j) => Documented(j)'
            BY <2>1, <2>2 DEF Documented, Doc
        <3> QED
            BY <1>1, <2>1, <2>2, <3>1
    <2>3. CASE enriched'[j] = Payload
        BY <1>2, <2>1, <2>3 DEF InBody
    <2> QED
        BY <2>2, <2>3, EnrichedGrows
<1>5. CASE BufferPost
    <2>1. /\ worker = "published"
          /\ UNCHANGED <<enriched, indexed, rejected, scored, unscored, lost>>
          /\ ToSet(sentBuffer') = ToSet(sentBuffer) \cup {Post}
          /\ ToSet(entBuffer') = ToSet(entBuffer) \cup ToSet(Entities)
        BY <1>5, BufferKinds DEF indexVars, entityVars, sentimentVars
    <2>2. Documented(j) => Documented(j)'
        BY <2>1 DEF Documented, Doc
    <2>3. ASSUME enriched[j] = Payload PROVE Documented(j)'
        <3>1. enriched'[j].post = Post /\ enriched'[j].qids = [i \in DOMAIN search |-> search[i].qid]
            BY <2>1, <2>3 DEF Payload
        <3>2. DOMAIN search = DOMAIN Mentions[Post]
            BY <2>1 DEF NlpInv, SearchFits, InBody
        <3>3. ASSUME NEW i \in DOMAIN Mentions[Post]
              PROVE  Doc(j, i)' \in ToSet(Entities)
            <4>1. Doc(j, i)' = [post |-> Post, at |-> i, qid |-> search[i].qid]
                BY <3>1, <3>2 DEF Doc
            <4>2. Doc(j, i)' = Entities[i] /\ i \in DOMAIN Entities
                BY <3>2, <4>1 DEF Entities
            <4> QED
                BY <4>2 DEF ToSet
        <3> QED
            BY <2>1, <3>1, <3>3 DEF Documented
    <2> QED
        BY <1>1, <2>1, <2>2, <2>3
<1>6. CASE EntitiesIndexed \/ SentimentsIndexed
    <2>1. /\ worker # "published" /\ UNCHANGED <<enriched, lost>>
          /\ scored \cup unscored \cup ToSet(sentBuffer)
                 \subseteq scored' \cup unscored' \cup ToSet(sentBuffer')
          /\ indexed \cup rejected \cup ToSet(entBuffer)
                 \subseteq indexed' \cup rejected' \cup ToSet(entBuffer')
        BY <1>6, BulkKinds
    <2>2. Documented(j) => Documented(j)'
        BY <2>1 DEF Documented, Doc
    <2> QED
        BY <1>1, <2>1, <2>2
<1>7. CASE Fail \/ Crash
    <2>1. /\ indexed \subseteq indexed' /\ scored \subseteq scored'
          /\ rejected \subseteq rejected' /\ unscored \subseteq unscored'
          /\ lost \cup InMemory \subseteq lost'
          /\ enriched' # enriched => Post \in lost'
        BY <1>7, CutKinds
    <2>2. CASE enriched' # enriched /\ enriched'[j] = Payload
        BY <2>1, <2>2 DEF Payload
    <2>3. CASE j \in DOMAIN enriched /\ enriched'[j] = enriched[j]
        <3>1. CASE enriched[j].post \in lost
            BY <2>1, <2>3, <3>1
        <3>2. CASE worker = "published" /\ enriched[j] = Payload
            BY <2>1, <2>3, <3>2 DEF Payload, InMemory
        <3>3. CASE Documented(j)
            <4>1. CASE enriched[j].post \in ToSet(sentBuffer)
                BY <2>1, <2>3, <4>1 DEF InMemory
            <4>2. CASE \E i \in DOMAIN Mentions[enriched[j].post] : Doc(j, i) \in ToSet(entBuffer)
                <5>1. PICK i : Doc(j, i) \in ToSet(entBuffer)
                    BY <4>2
                <5>2. PICK k \in DOMAIN entBuffer : entBuffer[k] = Doc(j, i)
                    BY <5>1 DEF ToSet
                <5>3. entBuffer[k].post = enriched[j].post
                    BY <5>2 DEF Doc
                <5>4. enriched[j].post \in InMemory
                    BY <5>3 DEF InMemory
                <5> QED
                    BY <2>1, <2>3, <5>4
            <4>3. CASE /\ enriched[j].post \in scored \cup unscored
                       /\ \A i \in DOMAIN Mentions[enriched[j].post] :
                              Doc(j, i) \in indexed \cup rejected
                BY <2>1, <2>3, <4>3 DEF Documented, Doc
            <4> QED
                BY <3>3, <4>1, <4>2, <4>3 DEF Documented
        <3> QED
            BY <1>1, <2>3, <3>1, <3>2, <3>3
    <2> QED
        BY <2>2, <2>3, EnrichedGrows
<1> QED
    BY <1>3, <1>4, <1>5, <1>6, <1>7, NlpKinds

\* The buffers keep their sizes after every step.
LEMMA BufferSizesStep == NlpInv /\ [Next]_vars => BufferSizes'
<1> SUFFICES ASSUME NlpInv, [Next]_vars PROVE BufferSizes'
    OBVIOUS
<1>1. BufferSizes /\ BusTypeOK /\ FlushBatch \in Nat \ {0} /\ Len(<<>>) = 0
    BY FlushAssumption DEF NlpInv, BusInv
<1>2. Len(sentBuffer) \in Nat /\ Len(entBuffer) \in Nat
    BY DEF NlpInv, NlpTypes
<1>3. Len(sentBuffer') \in Nat /\ Len(entBuffer') \in Nat
    BY NlpTypesStep DEF NlpTypes
<1>4. CASE Quiet \/ PublishEnriched
    <2>1. /\ UNCHANGED <<entBuffer, sentBuffer>>
          /\ worker \notin {"entities", "sentiments"} \/ worker' = worker
        BY <1>4 DEF Quiet, PublishEnriched, bufferVars
    <2> QED
        BY <1>1, <2>1, <1>4 DEF BufferSizes, Quiet, PublishEnriched
<1>5. CASE BufferPost
    <2>1. /\ GoOn(entBuffer', sentBuffer') /\ Len(sentBuffer') = Len(sentBuffer) + 1
          /\ worker = "published"
        BY <1>5, BufferKinds
    <2>2. Len(sentBuffer') <= FlushBatch
        BY <1>1, <1>2, <2>1 DEF BufferSizes
    <2> QED
        BY <1>1, <1>3, <2>1, <2>2, GoOnKinds DEF BufferSizes
<1>6. CASE EntitiesIndexed
    <2>1. /\ GoOn(<<>>, sentBuffer) /\ entBuffer' = <<>> /\ sentBuffer' = sentBuffer
        BY <1>6 DEF EntitiesIndexed
    <2> QED
        BY <1>1, <1>2, <2>1, GoOnKinds DEF BufferSizes
<1>7. CASE SentimentsIndexed
    BY <1>1, <1>7 DEF SentimentsIndexed, BufferSizes
<1>8. CASE Fail \/ Crash
    <2>1. entBuffer' = <<>> /\ sentBuffer' = <<>>
        BY <1>8, CutKinds
    <2> QED
        BY <1>1, <2>1 DEF BufferSizes
<1> QED
    BY <1>4, <1>5, <1>6, <1>7, <1>8, NlpKinds
-----------------------------------------------------------------------------
\* The invariant of the worker holds at the start.
LEMMA NlpInit == Init => NlpInv
<1> SUFFICES ASSUME Init PROVE NlpInv
    OBVIOUS
<1>1. BusInv
    BY BusInvInit DEF Init
<1>2. NlpTypes
    BY DEF Init, NlpTypes
<1>3. InStep /\ SearchFits /\ FinishedInLog
    BY CleanIsStream DEF Init, BusInit, InStep, SearchFits, InBody, FinishedInLog
<1>4. enriched = <<>> /\ entBuffer = <<>> /\ sentBuffer = <<>> /\ ToSet(<<>>) = {}
    BY DEF Init, ToSet
<1>5. DocumentsKept /\ BufferedWereEnriched
    BY <1>4 DEF DocumentsKept, BufferedWereEnriched
<1>6. SettledWereEnriched
    BY CleanIsStream DEF Init, BusInit, SettledWereEnriched
<1>7. BufferSizes
    BY <1>4, FlushAssumption DEF BufferSizes
<1> QED
    BY <1>1, <1>2, <1>3, <1>5, <1>6, <1>7 DEF NlpInv

\* The inductive invariant of NLPPipeline.run.
THEOREM NlpInvariant == Spec => []NlpInv
<1>1. NlpInv /\ [Next]_vars => NlpInv'
    <2>1. NlpInv /\ [Next]_vars => BusInv'
        BY StepIsBusStep, BusInvStep DEF NlpInv
    <2> QED
        BY <2>1, NlpTypesStep, InStepStep, SearchFitsStep, DocumentsKeptStep,
           BufferedWereEnrichedStep, SettledWereEnrichedStep, BufferSizesStep,
           FinishedInLogStep DEF NlpInv
<1> QED
    BY <1>1, NlpInit, PTL DEF Spec

\* Type correctness: the look-ups of gather() exist only while a post is
\* worked on or run() is on its way out, and where the worker stands agrees
\* with where the bus's generator stands.
THEOREM NlpWorkerTypes == Spec => []TypeOK
<1>1. NlpInv => TypeOK
    <2> SUFFICES ASSUME NlpInv PROVE TypeOK
        OBVIOUS
    <2>1. \A i \in DOMAIN search : search[i].at \in {"get", "remote", "set", "done"}
        <3>1. \A i \in DOMAIN search : search[i] \in Looks
            BY DEF NlpInv, NlpTypes
        <3> QED
            BY <3>1 DEF Looks
    <2>2. \A j \in DOMAIN enriched : enriched[j].post \in Msgs
        <3>1. \A j \in DOMAIN enriched : enriched[j] \in Enrichments
            BY DEF NlpInv, NlpTypes
        <3> QED
            BY <3>1 DEF Enrichments
    <2> QED
        BY <2>1, <2>2 DEF NlpInv, BusInv, NlpTypes, InStep, InBody, TypeOK
<1> QED
    BY <1>1, NlpInvariant, PTL

\* A clean entry whose handler returned, and every indexed document, belongs to
\* a post on the enriched stream: publish() comes before the bulk requests and
\* the XACK.
THEOREM SettledEnriched == Spec => []SettledWereEnriched
<1>1. NlpInv => SettledWereEnriched
    BY DEF NlpInv
<1> QED
    BY <1>1, NlpInvariant, PTL

\* A document of an enriched post is indexed, buffered, rejected in a bulk
\* answer nobody reads, about to be buffered, or of a post that was in memory
\* when run() was left.
THEOREM EnrichedAccounted == Spec => []EnrichedAreAccounted
<1>1. NlpInv => EnrichedAreAccounted
    <2> SUFFICES ASSUME NlpInv, NEW j \in DOMAIN enriched
                 PROVE  \/ enriched[j].post \in lost
                        \/ worker = "published" /\ enriched[j].post = Post
                        \/ Documented(j)
        BY DEF EnrichedAreAccounted, Documented, Doc
    <2> QED
        BY DEF NlpInv, DocumentsKept, Payload
<1> QED
    BY <1>1, NlpInvariant, PTL

\* The end of the process loses at most FLUSH_BATCH posts of each index.
THEOREM InMemoryIsBounded == Spec => []InMemoryBound
<1>1. NlpInv => InMemoryBound
    <2> SUFFICES ASSUME NlpInv PROVE InMemoryBound
        OBVIOUS
    <2>1. /\ BufferSizes /\ FlushBatch \in Nat
          /\ Len(sentBuffer) \in Nat /\ Len(entBuffer) \in Nat
        BY FlushAssumption DEF NlpInv, NlpTypes
    <2> QED
        BY <2>1 DEF BufferSizes, InMemoryBound
<1> QED
    BY <1>1, NlpInvariant, PTL
=============================================================================
