----------------------------- MODULE GraphWriter -----------------------------
(***************************************************************************)
(* services/graph_builder: main() and GraphWriterService over the          *)
(* StreamBus, writing to Neo4j through GraphRepository.                    *)
(*                                                                         *)
(* main() consumes the enriched posts.  write_payload turns a payload into *)
(* entity and relation rows in two buffers; whoever finds a flush due, the *)
(* consumer or the timer task, moves both buffers out and upserts the      *)
(* entities, then the relations, all under one asyncio.Lock.  A relation   *)
(* row whose end nodes are not in the graph matches nothing and is lost    *)
(* without an error.                                                       *)
(*                                                                         *)
(* The clock is abstracted as in Processor: recent says that a flush       *)
(* happened since the timer fell asleep.                                   *)
(***************************************************************************)
EXTENDS StreamBus, SequencesExt

CONSTANTS
    Enriched,     \* the stream
    Timer, Main,  \* the two tasks
    Mentions,     \* Mentions[m]: entities of payload m, in order
    Pairs,        \* Pairs[m]: relations of payload m, in order
    Lower,        \* Lower[t]: the lower-case form of a text
    NoQid,        \* wikidata_id is None
    FlushEvery,   \* rows of a kind that trigger a flush
    MaxFaults     \* bound: failed upserts, failures of Redis and crashes

ASSUME StreamAssumption == Streams = {Enriched}
ASSUME TaskAssumption == Timer # Main
ASSUME RowsAssumption ==
    \A m \in Msgs : Mentions[m] \in Seq(ToSet(Mentions[m])) /\ Pairs[m] \in Seq(ToSet(Pairs[m]))
ASSUME FlushAssumption == FlushEvery \in Nat \ {0}
ASSUME FaultAssumption == MaxFaults \in Nat /\ MaxFaults <= MaxCloses

\* The relations of a payload join entities of it.  (relations.py)
ASSUME PairAssumption ==
    \A m \in Msgs : \A k \in DOMAIN Pairs[m] :
        \E i, j \in DOMAIN Mentions[m] :
            /\ Mentions[m][i].text = Pairs[m][k].head
            /\ Mentions[m][i].type = Pairs[m][k].head_type
            /\ Mentions[m][j].text = Pairs[m][k].tail
            /\ Mentions[m][j].type = Pairs[m][k].tail_type

VARIABLES
    main,        \* where main() stands
    timer,       \* where _timer_loop stands
    lockq,       \* asyncio.Lock: the holder, then the waiter
    stage,       \* the upsert of the flush in flight
    entities,    \* _entities: rows waiting for a flush
    relations,   \* _relations: rows waiting for a flush
    flight,      \* the rows moved out by the flush in flight
    recent,      \* a flush happened since the timer fell asleep
    nodes,       \* nodes[k]: mention_count of the node with key k, 0 if absent
    edges,       \* edges[e]: update_count of the edge e
    unmatched,   \* history: relation rows whose MATCH found no end node
    missed,      \* history: missed[k], mentions of k a failure lost
    severed,     \* history: severed[e], relation rows of e a failure lost
    written,     \* history: payloads in the buffers or beyond, in order
    faults       \* history: failed upserts, failures of Redis and crashes

bufferVars == <<entities, relations, flight, stage, recent>>
graphVars == <<nodes, edges, unmatched>>
lossVars == <<missed, severed>>
writerVars == <<main, timer, lockq, bufferVars, graphVars, lossVars, written, faults>>
vars == <<busVars, writerVars>>

EntityKey(text, type, qid) ==
    IF qid # NoQid THEN <<type, "wd", qid>> ELSE <<type, Lower[text]>>

\* mutated: the QID is not looked up.
NoQidOf(m, text, type) == NoQid

\* qid_by_form: the last mention of a surface form wins.
QidOf(m, text, type) ==
    LET same == {i \in DOMAIN Mentions[m] :
                    Mentions[m][i].text = text /\ Mentions[m][i].type = type}
    IN  IF same = {} THEN NoQid ELSE Mentions[m][Max(same)].qid

EntityRows(m) ==
    [k \in DOMAIN Mentions[m] |->
        [key |-> EntityKey(Mentions[m][k].text, Mentions[m][k].type, Mentions[m][k].qid),
         post |-> m]]

RelationRows(m) ==
    [k \in DOMAIN Pairs[m] |->
        LET r == Pairs[m][k]
        IN  [head |-> EntityKey(r.head, r.head_type, QidOf(m, r.head, r.head_type)),
             tail |-> EntityKey(r.tail, r.tail_type, QidOf(m, r.tail, r.tail_type)),
             post |-> m]]

Keys == UNION {{EntityRows(m)[k].key : k \in DOMAIN Mentions[m]} : m \in Msgs}
Edges == Keys \X Keys

\* How often a row of rows has the key.
Mentioned(rows, key) == Cardinality({k \in DOMAIN rows : rows[k].key = key})

\* How often a row of rows is the edge.
Joined(rows, e) == Cardinality({k \in DOMAIN rows : <<rows[k].head, rows[k].tail>> = e})

NoRows == [entities |-> <<>>, relations |-> <<>>]

Holds(t) == lockq # <<>> /\ Head(lockq) = t
-----------------------------------------------------------------------------
Init ==
    /\ BusInit
    /\ main = "down"
    /\ timer = "off"
    /\ lockq = <<>>
    /\ stage = "none"
    /\ entities = <<>>
    /\ relations = <<>>
    /\ flight = NoRows
    /\ recent = FALSE
    /\ nodes = [k \in Keys |-> 0]
    /\ edges = [e \in Edges |-> 0]
    /\ unmatched = {}
    /\ missed = [k \in Keys |-> 0]
    /\ severed = [e \in Edges |-> 0]
    /\ written = <<>>
    /\ faults = 0

\* The NLP worker publishes an enriched post, once.
PublishEnriched(m) ==
    /\ m \notin ToSet(log[Enriched])
    /\ Publish(Enriched, m)
    /\ UNCHANGED writerVars

\* main() makes the writer, starts its timer and enters consume().
Start ==
    /\ main = "down"
    /\ StartConsume(Enriched)
    /\ main' = "idle"
    /\ timer' = "asleep"
    /\ UNCHANGED <<lockq, bufferVars, graphVars, lossVars, written, faults>>

Read ==
    /\ ReadGroup(Enriched)
    /\ UNCHANGED writerVars

AckEnriched ==
    /\ Ack(Enriched)
    /\ UNCHANGED writerVars

\* write_payload up to the lock.
Take ==
    /\ Yield(Enriched)
    /\ main' = "queued"
    /\ lockq' = Append(lockq, Main)
    /\ UNCHANGED <<timer, bufferVars, graphVars, lossVars, written, faults>>

Post == log[Enriched][Head(batch[Enriched])]

\* mutated: the buffers are not cleared.
CopyOut(ents, rels) ==
    /\ recent' = TRUE
    /\ entities' = ents
    /\ relations' = rels
    /\ flight' = [entities |-> ents, relations |-> rels]
    /\ stage' = IF ents = <<>> THEN "none" ELSE "entities"

\* _flush_locked up to its first await.  No rows: only the last flush is now.
MoveOut(ents, rels) ==
    /\ recent' = TRUE
    /\ entities' = <<>>
    /\ relations' = <<>>
    /\ flight' = [entities |-> ents, relations |-> rels]
    /\ stage' = IF ents = <<>> THEN "none" ELSE "entities"

\* The buffers are full, or flush_seconds may have passed.
IsFull(ents, rels) == Len(ents) >= FlushEvery \/ Len(rels) >= FlushEvery

\* The consumer holds the lock, appends the rows and needs no flush.
Buffer ==
    LET ents == entities \o EntityRows(Post)
        rels == relations \o RelationRows(Post)
    IN  /\ main = "queued"
        /\ Holds(Main)
        /\ ~IsFull(ents, rels)
        /\ entities' = ents
        /\ relations' = rels
        /\ written' = Append(written, Post)
        /\ HandlerReturns(Enriched)
        /\ main' = "idle"
        /\ lockq' = Tail(lockq)
        /\ UNCHANGED <<timer, flight, stage, recent, graphVars, lossVars, faults>>

\* The consumer holds the lock, appends the rows and flushes: _should_flush
\* says so, for the size or for the time.
BufferAndFlush ==
    LET ents == entities \o EntityRows(Post)
        rels == relations \o RelationRows(Post)
    IN  /\ main = "queued"
        /\ Holds(Main)
        /\ MoveOut(ents, rels)
        /\ written' = Append(written, Post)
        /\ IF ents = <<>>
           THEN main' = "idle" /\ lockq' = Tail(lockq) /\ HandlerReturns(Enriched)
           ELSE main' = "writing" /\ UNCHANGED <<lockq, busVars>>
        /\ UNCHANGED <<timer, graphVars, lossVars, faults>>

-----------------------------------------------------------------------------
TimerWakes ==
    /\ timer = "asleep"
    /\ timer' = "queued"
    /\ lockq' = Append(lockq, Timer)
    /\ UNCHANGED <<busVars, main, bufferVars, graphVars, lossVars, written, faults>>

\* A flush happened less than flush_seconds ago, or there is nothing to flush.
TimerSkips ==
    /\ timer = "queued"
    /\ Holds(Timer)
    /\ recent \/ entities = <<>>
    /\ timer' = "asleep"
    /\ lockq' = Tail(lockq)
    /\ recent' = FALSE
    /\ UNCHANGED <<busVars, main, entities, relations, flight, stage>>
    /\ UNCHANGED <<graphVars, lossVars, written, faults>>

TimerFlushes ==
    /\ timer = "queued"
    /\ Holds(Timer)
    /\ entities # <<>>
    /\ MoveOut(entities, relations)
    /\ timer' = "writing"
    /\ UNCHANGED <<busVars, main, lockq, graphVars, lossVars, written, faults>>

-----------------------------------------------------------------------------
\* UPSERT_ENTITIES_BATCH, one transaction.
MergeNodes == nodes' = [k \in Keys |-> nodes[k] + Mentioned(flight.entities, k)]

Matches(row) == nodes[row.head] > 0 /\ nodes[row.tail] > 0

\* UPSERT_RELATIONS_BATCH, one transaction.
MergeEdges ==
    LET rows == flight.relations
    IN  /\ edges' = [e \in Edges |-> edges[e] +
                        Cardinality({k \in DOMAIN rows :
                            Matches(rows[k]) /\ <<rows[k].head, rows[k].tail>> = e})]
        /\ unmatched' = unmatched \cup {r \in ToSet(rows) : ~Matches(r)}

\* A failure lost the rows.
LoseRows(ents, rels) ==
    /\ missed' = [k \in Keys |-> missed[k] + Mentioned(ents, k)]
    /\ severed' = [e \in Edges |-> severed[e] + Joined(rels, e)]

\* The entities of the flush in flight that are not upserted yet.
Unmerged == IF stage = "entities" THEN flight.entities ELSE <<>>

Fault == faults < MaxFaults /\ faults' = faults + 1

\* mutated: an exception ends the timer task.
TimerDies ==
    timer' = IF timer = "writing" THEN "off" ELSE timer

\* _timer_loop logs an exception and goes on.
TimerGoesOn ==
    timer' = IF timer = "writing" THEN "asleep" ELSE timer

\* The flush is over, for well or with an exception: the lock is released and
\* its holder goes on.  The consumer's handler returns and main() acks, also
\* after an exception; the final flush of stop() leads to the exit.
FlushOver ==
    /\ stage' = "none"
    /\ flight' = NoRows
    /\ lockq' = Tail(lockq)
    /\ recent' = IF timer = "writing" THEN FALSE ELSE recent
    /\ IF main = "writing"
       THEN main' = "idle" /\ HandlerReturns(Enriched)
       ELSE main' = (IF main = "last" THEN "exiting" ELSE main) /\ UNCHANGED busVars

\* The entities are in; with no relations the flush is over.
EntitiesUpserted ==
    /\ stage = "entities"
    /\ MergeNodes
    /\ IF flight.relations = <<>>
       THEN FlushOver /\ TimerGoesOn
       ELSE stage' = "relations" /\ UNCHANGED <<flight, lockq, recent, main, timer, busVars>>
    /\ UNCHANGED <<entities, relations, edges, unmatched, lossVars, written, faults>>

RelationsUpserted ==
    /\ stage = "relations"
    /\ MergeEdges
    /\ FlushOver
    /\ TimerGoesOn
    /\ UNCHANGED <<entities, relations, nodes, lossVars, written, faults>>

\* mutated: the rows go back to the buffers.
KeepRows ==
    /\ entities' = flight.entities \o entities
    /\ relations' = flight.relations \o relations

\* The rows of a flush that failed are gone.
DropRows == UNCHANGED <<entities, relations>>

\* An upsert raises; the server may have committed it.
UpsertFails ==
    /\ stage # "none"
    /\ Fault
    /\ DropRows
    /\ \/ /\ stage = "entities"
          /\ MergeNodes
          /\ LoseRows(<<>>, flight.relations)
          /\ UNCHANGED <<edges, unmatched>>
       \/ stage = "relations" /\ MergeEdges /\ UNCHANGED <<nodes, lossVars>>
       \/ LoseRows(Unmerged, flight.relations) /\ UNCHANGED graphVars
    /\ FlushOver
    /\ TimerGoesOn
    /\ UNCHANGED written

-----------------------------------------------------------------------------
\* Redis raises in consume(): finally, writer.stop() cancels the timer, whose
\* flush in flight is dropped (CancelledError is no Exception), and flushes.
Stop ==
    /\ main = "idle"
    /\ Fault
    /\ Close({Enriched})
    /\ timer' = "off"
    /\ \/ /\ stage = "entities"
          /\ MergeNodes
          /\ LoseRows(<<>>, flight.relations)
          /\ UNCHANGED <<edges, unmatched>>
       \/ stage = "relations" /\ MergeEdges /\ UNCHANGED <<nodes, lossVars>>
       \/ LoseRows(Unmerged, flight.relations) /\ UNCHANGED graphVars
    /\ MoveOut(entities, relations)
    /\ IF entities = <<>>
       THEN main' = "exiting" /\ lockq' = <<>>
       ELSE main' = "last" /\ lockq' = <<Main>>
    /\ UNCHANGED written

\* The process is gone with everything in its memory.
Halt ==
    /\ main' = "down"
    /\ timer' = "off"
    /\ lockq' = <<>>
    /\ stage' = "none"
    /\ entities' = <<>>
    /\ relations' = <<>>
    /\ flight' = NoRows
    /\ recent' = FALSE
    /\ UNCHANGED written

Exit ==
    /\ main = "exiting"
    /\ Halt
    /\ UNCHANGED <<busVars, graphVars, lossVars, faults>>

\* Killed: an upsert in flight may be committed or not.
Crash ==
    /\ main # "down"
    /\ Fault
    /\ IF phase[Enriched] = "down" THEN UNCHANGED busVars ELSE Close({Enriched})
    /\ Halt
    /\ \/ /\ stage = "entities"
          /\ MergeNodes
          /\ LoseRows(entities, relations \o flight.relations)
          /\ UNCHANGED <<edges, unmatched>>
       \/ /\ stage = "relations"
          /\ MergeEdges
          /\ LoseRows(entities, relations)
          /\ UNCHANGED nodes
       \/ /\ LoseRows(entities \o Unmerged, relations \o flight.relations)
          /\ UNCHANGED graphVars

MainStep ==
    \/ Start \/ Read \/ Take \/ AckEnriched
    \/ Buffer \/ BufferAndFlush
    \/ Exit

TimerStep == TimerWakes \/ TimerSkips \/ TimerFlushes

Upsert == EntitiesUpserted \/ RelationsUpserted

Next ==
    \/ \E m \in Msgs : PublishEnriched(m)
    \/ MainStep
    \/ TimerStep
    \/ Upsert
    \/ UpsertFails \/ Stop \/ Crash

Spec == Init /\ [][Next]_vars

(* The event loop runs both tasks, an upsert ends, sleep() returns and     *)
(* docker-compose restarts the container.                                  *)
FairSpec ==
    /\ Spec
    /\ WF_vars(MainStep)
    /\ WF_vars(TimerStep)
    /\ WF_vars(Upsert)
-----------------------------------------------------------------------------
Rows == entities \o flight.entities

\* Every variable has its type; rows are in flight exactly during a flush, and
\* the buffers stay short of a flush whenever nobody works on them.
TypeOK ==
    /\ BusTypeOK
    /\ main \in {"down", "idle", "queued", "writing", "last", "exiting"}
    /\ timer \in {"off", "asleep", "queued", "writing"}
    /\ lockq \in Seq({Timer, Main})
    /\ stage \in {"none", "entities", "relations"}
    /\ recent \in BOOLEAN
    /\ nodes \in [Keys -> Nat]
    /\ edges \in [Edges -> Nat]
    /\ missed \in [Keys -> Nat]
    /\ severed \in [Edges -> Nat]
    /\ written \in Seq(Msgs)
    /\ faults \in Nat
    /\ stage # "none" <=> flight.entities # <<>>
    /\ stage # "none" <=> main \in {"writing", "last"} \/ timer = "writing"
    /\ ~IsFull(entities, relations)

\* Mentions are neither lost nor counted twice: each one is in the graph, in
\* the buffers, in flight, or was lost to a failure.
MentionsAreConserved ==
    \A k \in Keys :
        nodes[k] + missed[k] + Mentioned(entities, k) + Mentioned(Unmerged, k)
          = FoldLeft(LAMBDA n, m : n + Mentioned(EntityRows(m), k), 0, written)

\* No relation is lost for want of an end node: entities and relations of a
\* post travel together, under the same keys, the entities first.
NoRelationUnmatched ==
    /\ unmatched = {}
    /\ stage = "relations" => \A r \in ToSet(flight.relations) : Matches(r)

\* Relation rows are neither lost nor counted twice: each row of a payload is
\* in its edge's update_count, in the buffers, in flight, or was lost to a
\* failure.  A payload with several rows for an edge counts as often.
RelationsAreConserved ==
    \A e \in Edges :
        edges[e] + severed[e] + Joined(relations, e) + Joined(flight.relations, e)
          = FoldLeft(LAMBDA n, m : n + Joined(RelationRows(m), e), 0, written)

\* The rows of a post leave the process's memory, whatever fails and however
\* quiet the stream is.
RowsSettle ==
    \A m \in Msgs :
        (\E r \in ToSet(entities) : r.post = m) ~>
            ~(\E r \in ToSet(entities) \cup ToSet(flight.entities) : r.post = m)
=============================================================================
