------------------------------ MODULE StreamBus ------------------------------
(***************************************************************************)
(* news_common.clients.redis_bus.StreamBus: Redis streams read through a   *)
(* consumer group.  Every stream of this system has exactly one group and  *)
(* one consumer name (processor/p1, nlp/n1, graph/g1), so the group's      *)
(* state is kept per stream.                                               *)
(*                                                                         *)
(* consume() is an async generator: the body of the caller's `async for`   *)
(* runs while the generator is suspended at its `yield`, and the entry is  *)
(* acknowledged when the caller asks for the next one.  The handler is     *)
(* abstract here; modules that EXTEND this one refine the phase "handling" *)
(* into the handler of their service.                                      *)
(***************************************************************************)
EXTENDS Naturals, Sequences, FiniteSets

CONSTANTS
    Streams,     \* the streams some service consumes
    Msgs,        \* the payloads
    Count,       \* xreadgroup's count: entries asked for at a time
    MaxLog,      \* bound: MaxLog[s] entries are published to s
    MaxCloses    \* bound: times the consumer of one stream goes down

ASSUME CountAssumption == Count \in Nat \ {0}
ASSUME BoundAssumption == MaxLog \in [Streams -> Nat] /\ MaxCloses \in Nat

VARIABLES
    log,       \* log[s]: payloads of s, entry i is its i-th XADD
    group,     \* group[s]: the consumer group of s exists
    lastId,    \* lastId[s]: the group's last-delivered id
    pel,       \* pel[s]: the group's pending entries (delivered, no XACK)
    phase,     \* phase[s]: where the consumer of s stands in consume()
    batch,     \* batch[s]: entries of the last reply that are not acked
    handed,    \* history: entries yielded to the handler, in order
    finished,  \* history: entries whose handler returned
    closes     \* history: times the consumer of s went down

busVars == <<log, group, lastId, pel, phase, batch, handed, finished, closes>>

Phases == {"down", "reading", "fetched", "handling", "acking"}

Held(s) == {batch[s][k] : k \in DOMAIN batch[s]}

\* Pending entries no running consumer holds: ">" never returns them again.
Stranded(s) == pel[s] \ Held(s)

Lesser(a, b) == IF a < b THEN a ELSE b
-----------------------------------------------------------------------------
BusInit ==
    /\ log = [s \in Streams |-> <<>>]
    /\ group = [s \in Streams |-> FALSE]
    /\ lastId = [s \in Streams |-> 0]
    /\ pel = [s \in Streams |-> {}]
    /\ phase = [s \in Streams |-> "down"]
    /\ batch = [s \in Streams |-> <<>>]
    /\ handed = [s \in Streams |-> <<>>]
    /\ finished = [s \in Streams |-> {}]
    /\ closes = [s \in Streams |-> 0]

\* publish: XADD without MAXLEN, so nothing is ever trimmed.
Publish(s, m) ==
    /\ Len(log[s]) < MaxLog[s]
    /\ log' = [log EXCEPT ![s] = Append(@, m)]
    /\ UNCHANGED <<group, lastId, pel, phase, batch, handed, finished, closes>>

\* mutated: a group that exists is created again.
RecreateGroup(s) ==
    /\ group' = [group EXCEPT ![s] = TRUE]
    /\ lastId' = [lastId EXCEPT ![s] = 0]

\* mutated: the group is created at "$".
EnsureGroupAtEnd(s) ==
    /\ group' = [group EXCEPT ![s] = TRUE]
    /\ lastId' = [lastId EXCEPT ![s] = IF group[s] THEN @ ELSE Len(log[s])]

\* XGROUP CREATE at "0" with MKSTREAM; a group that exists is left alone
\* (BUSYGROUP is swallowed).
EnsureGroup(s) ==
    /\ group' = [group EXCEPT ![s] = TRUE]
    /\ lastId' = [lastId EXCEPT ![s] = IF group[s] THEN @ ELSE 0]

\* The first step of consume(): ensure_group, then the read loop.
StartConsume(s) ==
    /\ phase[s] = "down"
    /\ EnsureGroup(s)
    /\ phase' = [phase EXCEPT ![s] = "reading"]
    /\ UNCHANGED <<log, pel, batch, handed, finished, closes>>

\* mutated: no count is passed.
FetchedAll(s) == Len(log[s])

\* XREADGROUP ... STREAMS s > with its count: the server moves up to Count
\* new entries into the pending list and replies with them.
Fetched(s) == Lesser(lastId[s] + Count, Len(log[s]))

ReadGroup(s) ==
    /\ phase[s] = "reading"
    /\ lastId[s] < Len(log[s])
    /\ lastId' = [lastId EXCEPT ![s] = Fetched(s)]
    /\ batch' = [batch EXCEPT ![s] =
                    [k \in 1 .. Fetched(s) - lastId[s] |-> lastId[s] + k]]
    /\ pel' = [pel EXCEPT ![s] = @ \cup ((lastId[s] + 1) .. Fetched(s))]
    /\ phase' = [phase EXCEPT ![s] = "fetched"]
    /\ UNCHANGED <<log, group, handed, finished, closes>>

\* yield: the handler gets the next entry of the reply.
Yield(s) ==
    /\ phase[s] = "fetched"
    /\ handed' = [handed EXCEPT ![s] = Append(@, Head(batch[s]))]
    /\ phase' = [phase EXCEPT ![s] = "handling"]
    /\ UNCHANGED <<log, group, lastId, pel, batch, finished, closes>>

\* The loop body ends; the generator resumes after its yield.
HandlerReturns(s) ==
    /\ phase[s] = "handling"
    /\ finished' = [finished EXCEPT ![s] = @ \cup {Head(batch[s])}]
    /\ phase' = [phase EXCEPT ![s] = "acking"]
    /\ UNCHANGED <<log, group, lastId, pel, batch, handed, closes>>

\* mutated: the whole reply is acknowledged with its first entry.
AckedBatch(s) == Held(s)

Acked(s) == {Head(batch[s])}

\* mutated: the rest of the reply is dropped.
AfterAckRead(s) == "reading"

AfterAck(s) == IF Len(batch[s]) > 1 THEN "fetched" ELSE "reading"

\* XACK of the entry just handled, then the next one of the reply or the
\* next read.

Ack(s) ==
    /\ phase[s] = "acking"
    /\ pel' = [pel EXCEPT ![s] = @ \ Acked(s)]
    /\ batch' = [batch EXCEPT ![s] = Tail(@)]
    /\ phase' = [phase EXCEPT ![s] = AfterAck(s)]
    /\ UNCHANGED <<log, group, lastId, handed, finished, closes>>

\* The consumers of S go down at any point: an exception of the handler, of
\* orjson.loads or of Redis leaves the generator, or the process dies.  What
\* the server holds stays, what the generator held is gone.
Close(S) ==
    /\ \E s \in S : phase[s] # "down"
    /\ \A s \in S : phase[s] # "down" => closes[s] < MaxCloses
    /\ phase' = [s \in Streams |-> IF s \in S THEN "down" ELSE phase[s]]
    /\ batch' = [s \in Streams |-> IF s \in S THEN <<>> ELSE batch[s]]
    /\ closes' = [s \in Streams |->
                     IF s \in S /\ phase[s] # "down" THEN closes[s] + 1 ELSE closes[s]]
    /\ UNCHANGED <<log, group, lastId, pel, handed, finished>>

BusNext ==
    \/ \E s \in Streams, m \in Msgs : Publish(s, m)
    \/ \E s \in Streams :
           \/ StartConsume(s)
           \/ ReadGroup(s)
           \/ Yield(s)
           \/ HandlerReturns(s)
           \/ Ack(s)
    \/ \E S \in SUBSET Streams : Close(S)

BusSpec == BusInit /\ [][BusNext]_busVars

(* docker-compose restarts a service that went down, and the event loop    *)
(* runs a consumer that can step; publishers and failures owe nothing.     *)
BusFairness ==
    \A s \in Streams :
        /\ WF_busVars(StartConsume(s))
        /\ WF_busVars(ReadGroup(s))
        /\ WF_busVars(Yield(s))
        /\ WF_busVars(HandlerReturns(s))
        /\ WF_busVars(Ack(s))

FairBusSpec == BusSpec /\ BusFairness
-----------------------------------------------------------------------------
\* Every variable has its type; a consumer holds entries of a reply exactly
\* while it is between a read and the ack of the reply's last entry.
BusTypeOK ==
    /\ log \in [Streams -> Seq(Msgs)]
    /\ group \in [Streams -> BOOLEAN]
    /\ lastId \in [Streams -> Nat]
    /\ pel \in [Streams -> SUBSET Nat]
    /\ phase \in [Streams -> Phases]
    /\ batch \in [Streams -> Seq(Nat)]
    /\ handed \in [Streams -> Seq(Nat)]
    /\ finished \in [Streams -> SUBSET Nat]
    /\ closes \in [Streams -> Nat]
    /\ \A s \in Streams : phase[s] \in {"fetched", "handling", "acking"} <=> Len(batch[s]) > 0

\* An entry the group has moved past leaves the pending list only after a
\* handler returned for it: no entry is acknowledged early, acknowledged in
\* another entry's place, or skipped (the group starting past it).
AckedWereHandled ==
    \A s \in Streams : \A i \in 1 .. lastId[s] :
        i \notin pel[s] => i \in finished[s]

\* No entry is handed to a handler twice and none overtakes an older one, over
\* all restarts of the consumer.
HandedOnceInOrder ==
    \A s \in Streams : \A j, k \in DOMAIN handed[s] :
        j < k => handed[s][j] < handed[s][k]

\* A consumer that goes down strands at most one reply of Count entries, and
\* nothing else is ever stranded.
StrandedBound ==
    \A s \in Streams : Cardinality(Stranded(s)) <= Count * closes[s]

\* The abstract bus: settled entries are those the group moved past and no
\* longer lists as pending.
Promise == INSTANCE AtMostOnce WITH
    sent <- [s \in Streams |-> Len(log[s])],
    out <- [s \in Streams |-> Held(s)],
    done <- [s \in Streams |-> (1 .. lastId[s]) \ pel[s]],
    stranded <- [s \in Streams |-> Stranded(s)]

\* The bus delivers at most once and in order: it implements AtMostOnce.
DeliversAtMostOnce == Promise!Spec
=============================================================================
