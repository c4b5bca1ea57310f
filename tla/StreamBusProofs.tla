--------------------------- MODULE StreamBusProofs ---------------------------
(***************************************************************************)
(* What StreamBus guarantees for every set of streams, payloads and read   *)
(* sizes, and every bound.                                                 *)
(***************************************************************************)
EXTENDS StreamBus, SequencesExt, TLAPS, FiniteSetTheorems, SequenceTheorems

USE DEF Phases

\* A consumer that runs has its group; a group that was never made has read
\* nothing.
GroupFirst(s) ==
    /\ phase[s] # "down" => group[s]
    /\ ~group[s] => lastId[s] = 0

\* The entries a consumer holds are the last ones its group moved past.
HoldsTheLatest(s) ==
    /\ lastId[s] <= Len(log[s])
    /\ Len(batch[s]) <= lastId[s]
    /\ Len(batch[s]) <= Count
    /\ \A k \in 1 .. Len(batch[s]) : batch[s][k] = lastId[s] - Len(batch[s]) + k

\* Pending entries lie behind the group; what a consumer holds is pending.
PendingBehind(s) ==
    /\ pel[s] \subseteq 1 .. lastId[s]
    /\ \A k \in 1 .. Len(batch[s]) : batch[s][k] \in pel[s]

\* An entry that is not pending was handled, and so was the one being acked.
SettledWereHandled(s) ==
    /\ \A i \in 1 .. lastId[s] : i \notin pel[s] => i \in finished[s]
    /\ phase[s] = "acking" => batch[s][1] \in finished[s]

\* The newest entry a handler may have got.
Frontier(s) ==
    lastId[s] - Len(batch[s]) + (IF phase[s] \in {"handling", "acking"} THEN 1 ELSE 0)

\* Entries were handed out in order and none lies ahead of the frontier.
HandedBehind(s) ==
    /\ \A j, k \in 1 .. Len(handed[s]) : j < k => handed[s][j] < handed[s][k]
    /\ \A k \in 1 .. Len(handed[s]) : handed[s][k] <= Frontier(s)

StreamInv(s) ==
    /\ GroupFirst(s)
    /\ HoldsTheLatest(s)
    /\ PendingBehind(s)
    /\ SettledWereHandled(s)
    /\ HandedBehind(s)

BusInv == BusTypeOK /\ \A s \in Streams : StreamInv(s)
-----------------------------------------------------------------------------
\* What Head and Tail do to a sequence that is not empty.
LEMMA NonEmptySeq ==
    ASSUME NEW S, NEW q \in Seq(S), Len(q) > 0
    PROVE  /\ Head(q) \in S
           /\ Head(q) = q[1]
           /\ Tail(q) \in Seq(S)
           /\ Len(Tail(q)) = Len(q) - 1
           /\ \A k \in 1 .. Len(q) - 1 : Tail(q)[k] = q[k + 1]
<1>1. ASSUME q = <<>> PROVE FALSE
    <2>1. Len(<<>>) = 0
        OBVIOUS
    <2>2. Len(q) = 0
        BY <1>1, <2>1, Zenon
    <2> QED
        BY <2>2
<1> QED
    BY <1>1, HeadTailProperties

\* A read moves the group forward by one to Count entries, within the log.
LEMMA FetchedBounds ==
    ASSUME BusTypeOK, NEW s \in Streams, lastId[s] < Len(log[s])
    PROVE  /\ Fetched(s) \in Nat
           /\ lastId[s] < Fetched(s)
           /\ Fetched(s) <= lastId[s] + Count
           /\ Fetched(s) <= Len(log[s])
BY CountAssumption DEF BusTypeOK, Fetched, Lesser

\* Type correctness is inductive.
LEMMA BusTypeStep == BusTypeOK /\ [BusNext]_busVars => BusTypeOK'
<1> SUFFICES ASSUME BusTypeOK, [BusNext]_busVars PROVE BusTypeOK'
    OBVIOUS
<1>1. CASE \E s \in Streams, m \in Msgs : Publish(s, m)
    BY <1>1 DEF Publish, BusTypeOK
<1>2. CASE \E s \in Streams : StartConsume(s)
    BY <1>2 DEF StartConsume, EnsureGroup, BusTypeOK
<1>3. ASSUME NEW s \in Streams, ReadGroup(s) PROVE BusTypeOK'
    <2> DEFINE reply == [k \in 1 .. Fetched(s) - lastId[s] |-> lastId[s] + k]
    <2>1. /\ Fetched(s) \in Nat
          /\ lastId[s] \in Nat
          /\ lastId[s] < Fetched(s)
        BY <1>3, FetchedBounds DEF ReadGroup, BusTypeOK
    <2>2. Fetched(s) - lastId[s] \in Nat
        BY <2>1
    <2>3. reply \in Seq(Nat) /\ Len(reply) > 0
        BY <2>1, <2>2
    <2>4. batch' = [batch EXCEPT ![s] = reply]
        BY <1>3 DEF ReadGroup
    <2>5. pel' \in [Streams -> SUBSET Nat]
        BY <1>3, <2>1 DEF ReadGroup, BusTypeOK
    <2> HIDE DEF reply
    <2>6. batch' \in [Streams -> Seq(Nat)]
        BY <2>3, <2>4 DEF BusTypeOK
    <2>7. \A t \in Streams : phase'[t] \in {"fetched", "handling", "acking"} <=> Len(batch'[t]) > 0
        BY <1>3, <2>3, <2>4 DEF ReadGroup, BusTypeOK
    <2> QED
        BY <1>3, <2>1, <2>5, <2>6, <2>7 DEF ReadGroup, BusTypeOK
<1>4. ASSUME NEW s \in Streams, Yield(s) PROVE BusTypeOK'
    <2>1. Head(batch[s]) \in Nat
        BY <1>4 DEF Yield, BusTypeOK
    <2>2. Append(handed[s], Head(batch[s])) \in Seq(Nat)
        BY <2>1 DEF BusTypeOK
    <2>3. handed' \in [Streams -> Seq(Nat)]
        BY <1>4, <2>2 DEF Yield, BusTypeOK
    <2>4. phase' \in [Streams -> Phases]
        BY <1>4 DEF Yield, BusTypeOK
    <2>5. \A t \in Streams : phase'[t] \in {"fetched", "handling", "acking"} <=> Len(batch'[t]) > 0
        BY <1>4 DEF Yield, BusTypeOK
    <2> QED
        BY <1>4, <2>3, <2>4, <2>5 DEF Yield, BusTypeOK
<1>5. ASSUME NEW s \in Streams, HandlerReturns(s) PROVE BusTypeOK'
    <2>1. Head(batch[s]) \in Nat
        BY <1>5 DEF HandlerReturns, BusTypeOK
    <2> QED
        BY <1>5, <2>1 DEF HandlerReturns, BusTypeOK
<1>6. ASSUME NEW s \in Streams, Ack(s) PROVE BusTypeOK'
    <2>1. batch[s] \in Seq(Nat) /\ Len(batch[s]) > 0
        BY <1>6 DEF Ack, BusTypeOK
    <2>2. Tail(batch[s]) \in Seq(Nat) /\ Len(Tail(batch[s])) = Len(batch[s]) - 1
        BY <2>1, NonEmptySeq
    <2>3. Len(Tail(batch[s])) > 0 <=> AfterAck(s) = "fetched"
        BY <2>1, <2>2 DEF AfterAck
    <2> QED
        BY <1>6, <2>2, <2>3 DEF Ack, AfterAck, BusTypeOK
<1>7. ASSUME NEW S \in SUBSET Streams, Close(S) PROVE BusTypeOK'
    <2>1. /\ phase' \in [Streams -> Phases]
          /\ closes' \in [Streams -> Nat]
        BY <1>7 DEF Close, BusTypeOK
    <2>2. batch' \in [Streams -> Seq(Nat)]
        BY <1>7 DEF Close, BusTypeOK
    <2>3. \A t \in Streams : phase'[t] \in {"fetched", "handling", "acking"} <=> Len(batch'[t]) > 0
        BY <1>7 DEF Close, BusTypeOK
    <2> QED
        BY <1>7, <2>1, <2>2, <2>3 DEF Close, BusTypeOK
<1>8. CASE UNCHANGED busVars
    BY <1>8 DEF busVars, BusTypeOK
<1> QED
    BY <1>1, <1>2, <1>3, <1>4, <1>5, <1>6, <1>7, <1>8 DEF BusNext

\* The state of every consumer keeps its type.  (StreamBus.consume)
THEOREM BusTypes == BusSpec => []BusTypeOK
<1>1. BusInit => BusTypeOK
    BY DEF BusInit, BusTypeOK
<1> QED
    BY <1>1, BusTypeStep, PTL DEF BusSpec
-----------------------------------------------------------------------------
\* What type correctness says of one stream.
LEMMA TypesOf ==
    ASSUME BusTypeOK, NEW s \in Streams
    PROVE  /\ Len(log[s]) \in Nat
           /\ group[s] \in BOOLEAN
           /\ lastId[s] \in Nat
           /\ pel[s] \subseteq Nat
           /\ phase[s] \in Phases
           /\ batch[s] \in Seq(Nat)
           /\ Len(batch[s]) \in Nat
           /\ \A k \in 1 .. Len(batch[s]) : batch[s][k] \in Nat
           /\ handed[s] \in Seq(Nat)
           /\ Len(handed[s]) \in Nat
           /\ \A k \in 1 .. Len(handed[s]) : handed[s][k] \in Nat
           /\ closes[s] \in Nat
           /\ phase[s] \in {"fetched", "handling", "acking"} => Len(batch[s]) > 0
           /\ phase[s] \in {"down", "reading"} => Len(batch[s]) <= 0
<1>1. batch[s] \in Seq(Nat) /\ handed[s] \in Seq(Nat)
    BY DEF BusTypeOK
<1>2. \A q \in Seq(Nat) : Len(q) \in Nat /\ \A k \in 1 .. Len(q) : q[k] \in Nat
    OBVIOUS
<1> QED
    BY <1>1, <1>2 DEF BusTypeOK

\* A stream whose group and consumer a step leaves alone; its log may grow.
LEMMA StreamUntouched ==
    ASSUME NEW s \in Streams, StreamInv(s), BusTypeOK, BusTypeOK',
           Len(log[s]) <= Len(log'[s]),
           group'[s] = group[s], lastId'[s] = lastId[s], pel'[s] = pel[s],
           phase'[s] = phase[s], batch'[s] = batch[s],
           handed'[s] = handed[s], finished'[s] = finished[s]
    PROVE  StreamInv(s)'
<1>1. Len(log[s]) \in Nat /\ Len(log'[s]) \in Nat /\ lastId[s] \in Nat
    BY DEF BusTypeOK
<1>2. HoldsTheLatest(s)'
    BY <1>1 DEF StreamInv, HoldsTheLatest
<1> QED
    BY <1>2
       DEF StreamInv, GroupFirst, PendingBehind, SettledWereHandled, HandedBehind, Frontier

\* A published entry leaves the group, the batches and the pending entries as they are.
LEMMA PublishStep ==
    ASSUME BusInv, BusTypeOK', NEW s \in Streams, NEW m \in Msgs, Publish(s, m)
    PROVE  BusInv'
<1>1. \A t \in Streams : Len(log[t]) <= Len(log'[t])
    BY DEF Publish, BusInv, BusTypeOK
<1> QED
    BY <1>1, StreamUntouched DEF Publish, BusInv

\* A consumer that starts has its group and an empty batch.
LEMMA StartStep ==
    ASSUME BusInv, BusTypeOK', NEW s \in Streams, StartConsume(s)
    PROVE  BusInv'
<1>1. SUFFICES ASSUME NEW t \in Streams PROVE StreamInv(t)'
    BY DEF BusInv
<1>2. StreamInv(t) /\ BusTypeOK
    BY DEF BusInv
<1>3. UNCHANGED <<log, pel, batch, handed, finished>>
    BY DEF StartConsume
<1>4. lastId' = lastId
    BY DEF StartConsume, EnsureGroup, BusInv, StreamInv, GroupFirst, BusTypeOK
<1>5. CASE t # s
    <2>1. group'[t] = group[t] /\ phase'[t] = phase[t]
        BY <1>2, <1>5 DEF StartConsume, EnsureGroup, BusTypeOK
    <2>2. Len(log[t]) <= Len(log'[t])
        BY <1>2, <1>3, TypesOf
    <2> QED
        BY <1>2, <1>3, <1>4, <2>1, <2>2, StreamUntouched
<1>6. CASE t = s
    <2>1. phase[t] = "down" /\ phase'[t] = "reading" /\ group'[t]
        BY <1>2, <1>6 DEF StartConsume, EnsureGroup, BusTypeOK
    <2> QED
        BY <1>2, <1>3, <1>4, <2>1
           DEF StreamInv, GroupFirst, HoldsTheLatest, PendingBehind,
               SettledWereHandled, HandedBehind, Frontier
<1> QED
    BY <1>5, <1>6

\* A reply is the run of entries behind the last delivered one, all pending.
LEMMA ReadStep ==
    ASSUME BusInv, BusTypeOK', NEW s \in Streams, ReadGroup(s)
    PROVE  BusInv'
<1>1. SUFFICES ASSUME NEW t \in Streams PROVE StreamInv(t)'
    BY DEF BusInv
<1>2. StreamInv(t) /\ BusTypeOK
    BY DEF BusInv
<1>3. UNCHANGED <<log, group, handed, finished>>
    BY DEF ReadGroup
<1>4. CASE t # s
    <2>1. /\ lastId'[t] = lastId[t]
          /\ pel'[t] = pel[t]
          /\ phase'[t] = phase[t]
          /\ batch'[t] = batch[t]
        BY <1>2, <1>4 DEF ReadGroup, BusTypeOK
    <2>2. Len(log[t]) <= Len(log'[t])
        BY <1>2, <1>3, TypesOf
    <2> QED
        BY <1>2, <1>3, <2>1, <2>2, StreamUntouched
<1>5. CASE t = s
    <2>1. PICK n \in Nat : n = Fetched(s) - lastId[s]
        <3>1. /\ Fetched(s) \in Nat
              /\ lastId[s] \in Nat
              /\ lastId[s] < Fetched(s)
            BY FetchedBounds, TypesOf, <1>2 DEF ReadGroup
        <3> QED
            BY <3>1
    <2>2. /\ lastId[t] \in Nat
          /\ Count \in Nat
          /\ 0 < n
          /\ n <= Count
          /\ Fetched(t) = lastId[t] + n
          /\ lastId[t] + n <= Len(log[t])
        <3>1. BusTypeOK /\ lastId[s] < Len(log[s]) /\ Count \in Nat
            BY <1>2, CountAssumption DEF ReadGroup
        <3>2. /\ Fetched(s) \in Nat
              /\ lastId[s] < Fetched(s)
              /\ Fetched(s) <= lastId[s] + Count
              /\ Fetched(s) <= Len(log[s])
            BY <3>1, FetchedBounds
        <3>3. lastId[s] \in Nat
            BY <1>2, TypesOf
        <3> QED
            BY <1>5, <2>1, <3>1, <3>2, <3>3
    <2>3. /\ lastId'[t] = lastId[t] + n
          /\ pel'[t] = pel[t] \cup ((lastId[t] + 1) .. (lastId[t] + n))
          /\ phase[t] = "reading"
          /\ phase'[t] = "fetched"
        BY <1>2, <1>5, <2>2 DEF ReadGroup, BusTypeOK
    <2>4. batch'[t] = [k \in 1 .. n |-> lastId[t] + k]
        BY <1>2, <1>5, <2>1 DEF ReadGroup, BusTypeOK
    <2>5. Len(batch'[t]) = n /\ \A k \in 1 .. n : batch'[t][k] = lastId[t] + k
        BY <2>1, <2>4
    <2>6. Len(batch[t]) <= 0 /\ Len(batch[t]) \in Nat
        BY <1>2, <2>3, TypesOf
    <2>7. GroupFirst(t)'
        BY <1>2, <1>3, <2>3 DEF StreamInv, GroupFirst
    <2>8. HoldsTheLatest(t)'
        BY <1>3, <2>2, <2>3, <2>5 DEF HoldsTheLatest
    <2>9. PendingBehind(t)'
        <3>1. pel[t] \subseteq 1 .. lastId[t]
            BY <1>2 DEF StreamInv, PendingBehind
        <3>2. pel'[t] \subseteq 1 .. lastId'[t]
            BY <2>2, <2>3, <3>1
        <3>3. ASSUME NEW k \in 1 .. n PROVE batch'[t][k] \in pel'[t]
            <4>1. lastId[t] + k \in (lastId[t] + 1) .. (lastId[t] + n)
                BY <2>2
            <4> QED
                BY <2>3, <2>5, <4>1
        <3> QED
            BY <2>5, <3>2, <3>3 DEF PendingBehind
    <2>10. SettledWereHandled(t)'
        BY <1>2, <1>3, <2>2, <2>3 DEF StreamInv, SettledWereHandled
    <2>11. HandedBehind(t)'
        <3>1. Frontier(t)' = lastId[t]
            BY <2>2, <2>3, <2>5 DEF Frontier
        <3>2. Frontier(t) <= lastId[t] /\ Frontier(t) \in Int
            BY <2>2, <2>3, <2>6 DEF Frontier
        <3>3. \A k \in 1 .. Len(handed[t]) : handed[t][k] \in Nat
            BY <1>2, TypesOf
        <3> QED
            <4>1. /\ \A j, k \in 1 .. Len(handed[t]) : j < k => handed[t][j] < handed[t][k]
                  /\ \A k \in 1 .. Len(handed[t]) : handed[t][k] <= Frontier(t)
                BY <1>2 DEF StreamInv, HandedBehind
            <4>2. ASSUME NEW k \in 1 .. Len(handed[t]) PROVE handed[t][k] <= lastId[t]
                BY <2>2, <3>2, <3>3, <4>1
            <4> QED
                BY <1>3, <3>1, <4>1, <4>2 DEF HandedBehind
    <2> QED
        BY <2>7, <2>8, <2>9, <2>10, <2>11 DEF StreamInv
<1> QED
    BY <1>4, <1>5

\* The entry handed over is newer than all before and stays in the batch.
LEMMA YieldStep ==
    ASSUME BusInv, BusTypeOK', NEW s \in Streams, Yield(s)
    PROVE  BusInv'
<1>1. SUFFICES ASSUME NEW t \in Streams PROVE StreamInv(t)'
    BY DEF BusInv
<1>2. StreamInv(t) /\ BusTypeOK
    BY DEF BusInv
<1>3. UNCHANGED <<log, group, lastId, pel, batch, finished>>
    BY DEF Yield
<1>4. CASE t # s
    <2>1. phase'[t] = phase[t] /\ handed'[t] = handed[t]
        BY <1>2, <1>4 DEF Yield, BusTypeOK
    <2>2. Len(log[t]) <= Len(log'[t])
        BY <1>2, <1>3, TypesOf
    <2> QED
        BY <1>2, <1>3, <2>1, <2>2, StreamUntouched
<1>5. CASE t = s
    <2>1. phase[t] = "fetched" /\ phase'[t] = "handling"
        BY <1>2, <1>5 DEF Yield, BusTypeOK
    <2>2. Len(batch[t]) > 0 /\ batch[t] \in Seq(Nat) /\ Len(batch[t]) \in Nat
        BY <1>2, <2>1, TypesOf
    <2>3. Head(batch[t]) = lastId[t] - Len(batch[t]) + 1
        BY <1>2, <2>2, NonEmptySeq DEF StreamInv, HoldsTheLatest
    <2>4. PICK e \in Nat : e = Head(batch[t])
        BY <2>2, NonEmptySeq
    <2>5. /\ handed[t] \in Seq(Nat)
          /\ Len(handed[t]) \in Nat
          /\ \A k \in 1 .. Len(handed[t]) : handed[t][k] \in Nat
          /\ lastId[t] \in Nat
        BY <1>2, TypesOf
    <2>6. handed'[t] = Append(handed[t], e)
        BY <1>2, <1>5, <2>4 DEF Yield, BusTypeOK
    <2>7. /\ Len(handed'[t]) = Len(handed[t]) + 1
          /\ \A k \in 1 .. Len(handed[t]) : handed'[t][k] = handed[t][k]
          /\ handed'[t][Len(handed[t]) + 1] = e
        BY <2>4, <2>5, <2>6, AppendProperties
    <2>8. GroupFirst(t)' /\ HoldsTheLatest(t)' /\ PendingBehind(t)'
        BY <1>2, <1>3, <2>1 DEF StreamInv, GroupFirst, HoldsTheLatest, PendingBehind
    <2>9. SettledWereHandled(t)'
        BY <1>2, <1>3, <2>1 DEF StreamInv, SettledWereHandled
    <2>10. HandedBehind(t)'
        <3>1. Frontier(t) = lastId[t] - Len(batch[t])
            BY <2>1, <2>2, <2>5 DEF Frontier
        <3>2. Frontier(t)' = e
            BY <1>3, <2>1, <2>2, <2>3, <2>4, <2>5 DEF Frontier
        <3>3. e = lastId[t] - Len(batch[t]) + 1
            BY <2>3, <2>4
        <3>4. \A k \in 1 .. Len(handed[t]) : handed[t][k] <= lastId[t] - Len(batch[t])
            BY <1>2, <3>1 DEF StreamInv, HandedBehind
        <3>5. \A k \in 1 .. Len(handed[t]) : handed[t][k] < e
            <4>1. lastId[t] - Len(batch[t]) \in Int
                BY <2>2, <2>5
            <4>2. PICK d \in Int : d = lastId[t] - Len(batch[t])
                BY <4>1
            <4>3. ASSUME NEW k \in 1 .. Len(handed[t]) PROVE handed[t][k] < e
                <5>1. handed[t][k] \in Nat /\ handed[t][k] <= d /\ e = d + 1
                    BY <2>5, <3>3, <3>4, <4>2
                <5> QED
                    BY <5>1
            <4> QED
                BY <4>3
        <3>6. \A k \in 1 .. Len(handed'[t]) :
                  k \in 1 .. Len(handed[t]) \/ k = Len(handed[t]) + 1
            BY <2>5, <2>7
        <3>7. \A k \in 1 .. Len(handed'[t]) : handed'[t][k] <= e
            <4>1. \A k \in 1 .. Len(handed[t]) : handed[t][k] <= e
                BY <2>4, <2>5, <3>5
            <4> QED
                BY <2>4, <2>7, <3>6, <4>1
        <3>8. \A j, k \in 1 .. Len(handed'[t]) :
                  j < k => handed'[t][j] < handed'[t][k]
            <4> SUFFICES ASSUME NEW j \in 1 .. Len(handed'[t]),
                                NEW k \in 1 .. Len(handed'[t]), j < k
                         PROVE  handed'[t][j] < handed'[t][k]
                OBVIOUS
            <4>1. j \in 1 .. Len(handed[t])
                BY <2>5, <2>7
            <4>2. CASE k \in 1 .. Len(handed[t])
                BY <1>2, <2>7, <4>1, <4>2 DEF StreamInv, HandedBehind
            <4>3. CASE k = Len(handed[t]) + 1
                BY <2>7, <3>5, <4>1, <4>3
            <4> QED
                BY <3>6, <4>2, <4>3
        <3> QED
            BY <3>2, <3>7, <3>8 DEF HandedBehind
    <2> QED
        BY <2>8, <2>9, <2>10 DEF StreamInv
<1> QED
    BY <1>4, <1>5

\* A handler that returns has finished the entry about to be acknowledged.
LEMMA ReturnStep ==
    ASSUME BusInv, BusTypeOK', NEW s \in Streams, HandlerReturns(s)
    PROVE  BusInv'
<1>1. SUFFICES ASSUME NEW t \in Streams PROVE StreamInv(t)'
    BY DEF BusInv
<1>2. StreamInv(t) /\ BusTypeOK
    BY DEF BusInv
<1>3. UNCHANGED <<log, group, lastId, pel, batch, handed>>
    BY DEF HandlerReturns
<1>4. CASE t # s
    <2>1. phase'[t] = phase[t] /\ finished'[t] = finished[t]
        BY <1>2, <1>4 DEF HandlerReturns, BusTypeOK
    <2>2. Len(log[t]) <= Len(log'[t])
        BY <1>2, <1>3, TypesOf
    <2> QED
        BY <1>2, <1>3, <2>1, <2>2, StreamUntouched
<1>5. CASE t = s
    <2>1. /\ phase[t] = "handling"
          /\ phase'[t] = "acking"
          /\ finished'[t] = finished[t] \cup {Head(batch[t])}
        BY <1>2, <1>5 DEF HandlerReturns, BusTypeOK
    <2>2. Head(batch[t]) = batch[t][1]
        BY <1>2, <2>1, TypesOf, NonEmptySeq
    <2>3. SettledWereHandled(t)'
        BY <1>2, <1>3, <2>1, <2>2 DEF StreamInv, SettledWereHandled
    <2>4. Frontier(t)' = Frontier(t)
        BY <1>3, <2>1 DEF Frontier
    <2> QED
        BY <1>2, <1>3, <2>1, <2>3, <2>4
           DEF StreamInv, GroupFirst, HoldsTheLatest, PendingBehind, HandedBehind
<1> QED
    BY <1>4, <1>5

\* An ack takes a finished entry out of the batch and of the pending ones.
LEMMA AckStep ==
    ASSUME BusInv, BusTypeOK', NEW s \in Streams, Ack(s)
    PROVE  BusInv'
<1>1. SUFFICES ASSUME NEW t \in Streams PROVE StreamInv(t)'
    BY DEF BusInv
<1>2. StreamInv(t) /\ BusTypeOK
    BY DEF BusInv
<1>3. UNCHANGED <<log, group, lastId, handed, finished>>
    BY DEF Ack
<1>4. CASE t # s
    <2>1. phase'[t] = phase[t] /\ pel'[t] = pel[t] /\ batch'[t] = batch[t]
        BY <1>2, <1>4 DEF Ack, BusTypeOK
    <2>2. Len(log[t]) <= Len(log'[t])
        BY <1>2, <1>3, TypesOf
    <2> QED
        BY <1>2, <1>3, <2>1, <2>2, StreamUntouched
<1>5. CASE t = s
    <2>1. /\ phase[t] = "acking"
          /\ phase'[t] \in {"fetched", "reading"}
          /\ pel'[t] = pel[t] \ {Head(batch[t])}
          /\ batch'[t] = Tail(batch[t])
        BY <1>2, <1>5 DEF Ack, Acked, AfterAck, BusTypeOK
    <2>2. /\ Len(batch[t]) > 0
          /\ Len(batch[t]) \in Nat
          /\ lastId[t] \in Nat
          /\ Len(log[t]) \in Nat
          /\ batch[t] \in Seq(Nat)
        BY <1>2, <2>1, TypesOf
    <2>3. /\ Head(batch[t]) = batch[t][1]
          /\ Len(batch'[t]) = Len(batch[t]) - 1
          /\ \A k \in 1 .. Len(batch[t]) - 1 : batch'[t][k] = batch[t][k + 1]
        BY <2>1, <2>2, NonEmptySeq
    <2>4. PICK n \in Nat : n = Len(batch[t]) - 1
        BY <2>2
    <2>5. /\ Len(batch[t]) = n + 1
          /\ Len(batch'[t]) = n
          /\ \A k \in 1 .. n : batch'[t][k] = batch[t][k + 1]
        BY <2>2, <2>3, <2>4
    <2>6. \A k \in 1 .. n + 1 : batch[t][k] = lastId[t] - n - 1 + k
        BY <1>2, <2>2, <2>5 DEF StreamInv, HoldsTheLatest
    <2>7. \A k \in 1 .. n : batch'[t][k] = lastId[t] - n + k
        <3> SUFFICES ASSUME NEW k \in 1 .. n
                     PROVE  batch'[t][k] = lastId[t] - n + k
            OBVIOUS
        <3>1. k + 1 \in 1 .. n + 1
            OBVIOUS
        <3>2. batch[t][k + 1] = lastId[t] - n - 1 + (k + 1)
            BY <2>6, <3>1
        <3>3. lastId[t] - n - 1 + (k + 1) = lastId[t] - n + k
            <4>1. lastId[t] \in Int /\ n \in Int /\ k \in Int
                BY <2>2
            <4> QED
                BY <4>1
        <3> QED
            BY <2>5, <3>2, <3>3
    <2>8. Count \in Nat
        BY CountAssumption
    <2>9. HoldsTheLatest(t)'
        BY <1>2, <1>3, <2>2, <2>5, <2>7, <2>8 DEF StreamInv, HoldsTheLatest
    <2>10. PendingBehind(t)'
        <3>1. \A k \in 1 .. n : batch'[t][k] # batch[t][1]
            <4>1. PICK l \in Nat : l = lastId[t]
                BY <2>2
            <4>2. 1 \in 1 .. n + 1
                BY <2>4
            <4>3. batch[t][1] = l - n - 1 + 1
                BY <2>6, <4>1, <4>2
            <4>4. \A k \in 1 .. n : batch'[t][k] = l - n + k
                BY <2>7, <4>1
            <4>5. ASSUME NEW k \in 1 .. n PROVE l - n + k # l - n - 1 + 1
                <5>1. k \in Int /\ k > 0
                    OBVIOUS
                <5>2. l \in Int /\ n \in Int
                    BY <4>1
                <5> QED
                    BY <5>1, <5>2
            <4> QED
                BY <4>3, <4>4, <4>5
        <3>2. \A k \in 1 .. n : batch'[t][k] \in pel[t]
            BY <1>2, <2>5 DEF StreamInv, PendingBehind
        <3> QED
            BY <1>2, <1>3, <2>1, <2>3, <2>5, <3>1, <3>2 DEF StreamInv, PendingBehind
    <2>11. SettledWereHandled(t)'
        <3>1. batch[t][1] \in finished[t] /\ phase'[t] # "acking"
            BY <1>2, <2>1 DEF StreamInv, SettledWereHandled
        <3> QED
            BY <1>2, <1>3, <2>1, <2>3, <3>1 DEF StreamInv, SettledWereHandled
    <2>12. Frontier(t)' = Frontier(t)
        BY <1>3, <2>1, <2>2, <2>4, <2>5 DEF Frontier
    <2>13. GroupFirst(t)' /\ HandedBehind(t)'
        BY <1>2, <1>3, <2>1, <2>12 DEF StreamInv, GroupFirst, HandedBehind
    <2> QED
        BY <2>9, <2>10, <2>11, <2>13 DEF StreamInv
<1> QED
    BY <1>4, <1>5

\* A consumer that goes down drops its batch and leaves its entries pending.
LEMMA CloseStep ==
    ASSUME BusInv, BusTypeOK', NEW S \in SUBSET Streams, Close(S)
    PROVE  BusInv'
<1>1. SUFFICES ASSUME NEW t \in Streams PROVE StreamInv(t)'
    BY DEF BusInv
<1>2. StreamInv(t) /\ BusTypeOK
    BY DEF BusInv
<1>3. UNCHANGED <<log, group, lastId, pel, handed, finished>>
    BY DEF Close
<1>4. CASE t \notin S
    <2>1. phase'[t] = phase[t] /\ batch'[t] = batch[t]
        BY <1>4 DEF Close
    <2>2. Len(log[t]) <= Len(log'[t])
        BY <1>2, <1>3, TypesOf
    <2> QED
        BY <1>2, <1>3, <2>1, <2>2, StreamUntouched
<1>5. CASE t \in S
    <2>1. phase'[t] = "down" /\ batch'[t] = <<>> /\ Len(batch'[t]) = 0
        BY <1>5 DEF Close
    <2>2. /\ lastId[t] \in Nat
          /\ Len(batch[t]) \in Nat
          /\ Count \in Nat
          /\ Len(handed[t]) \in Nat
          /\ \A k \in 1 .. Len(handed[t]) : handed[t][k] \in Nat
        BY <1>2, TypesOf, CountAssumption
    <2>3. GroupFirst(t)' /\ HoldsTheLatest(t)' /\ PendingBehind(t)' /\ SettledWereHandled(t)'
        BY <1>2, <1>3, <2>1, <2>2
           DEF StreamInv, GroupFirst, HoldsTheLatest, PendingBehind, SettledWereHandled
    <2>4. HandedBehind(t)'
        <3>1. Frontier(t)' = lastId[t]
            BY <1>3, <2>1, <2>2 DEF Frontier
        <3>2. Frontier(t) <= lastId[t] /\ Frontier(t) \in Int
            <4>1. CASE phase[t] \in {"handling", "acking"}
                BY <1>2, <2>2, <4>1, TypesOf DEF Frontier
            <4>2. CASE phase[t] \notin {"handling", "acking"}
                BY <2>2, <4>2 DEF Frontier
            <4> QED
                BY <4>1, <4>2
        <3> QED
            BY <1>2, <1>3, <2>2, <3>1, <3>2 DEF StreamInv, HandedBehind
    <2> QED
        BY <2>3, <2>4 DEF StreamInv
<1> QED
    BY <1>4, <1>5

\* The invariant of the bus is inductive.
LEMMA BusInvStep == BusInv /\ [BusNext]_busVars => BusInv'
<1> SUFFICES ASSUME BusInv, [BusNext]_busVars PROVE BusInv'
    OBVIOUS
<1>1. BusTypeOK'
    BY BusTypeStep DEF BusInv
<1>2. CASE UNCHANGED busVars
    <2>1. \A s \in Streams : Len(log[s]) <= Len(log'[s])
        BY <1>2, TypesOf DEF BusInv, busVars
    <2> QED
        BY <1>1, <1>2, <2>1, StreamUntouched DEF BusInv, busVars
<1> QED
    BY <1>1, <1>2, PublishStep, StartStep, ReadStep, YieldStep, ReturnStep, AckStep, CloseStep
       DEF BusNext

\* The invariant of the bus holds at the start.
LEMMA BusInvInit == BusInit => BusInv
<1> SUFFICES ASSUME BusInit PROVE BusInv
    OBVIOUS
<1>1. BusTypeOK
    BY DEF BusInit, BusTypeOK
<1>2. ASSUME NEW s \in Streams PROVE StreamInv(s)
    <2>1. /\ ~group[s]
          /\ lastId[s] = 0
          /\ pel[s] = {}
          /\ phase[s] = "down"
          /\ Len(log[s]) = 0
          /\ Len(batch[s]) = 0
          /\ Len(handed[s]) = 0
        BY DEF BusInit
    <2> QED
        BY <2>1, CountAssumption
           DEF StreamInv, GroupFirst, HoldsTheLatest, PendingBehind,
               SettledWereHandled, HandedBehind, Frontier
<1> QED
    BY <1>1, <1>2 DEF BusInv

THEOREM BusInvariant == BusSpec => []BusInv
BY BusInvInit, BusInvStep, PTL DEF BusSpec

\* No entry is acknowledged before a handler returned for it, and none is
\* skipped.  (redis_bus.py: the xack follows the yield; the group starts at 0)
THEOREM AckAfterHandler == BusSpec => []AckedWereHandled
<1>1. BusInv => AckedWereHandled
    BY DEF BusInv, StreamInv, SettledWereHandled, AckedWereHandled
<1> QED
    BY <1>1, BusInvariant, PTL

\* No entry is handed out twice or out of order, over all restarts.
THEOREM AtMostOnceInOrder == BusSpec => []HandedOnceInOrder
<1>1. BusInv => HandedOnceInOrder
    <2> SUFFICES ASSUME BusInv, NEW s \in Streams PROVE
            \A j, k \in DOMAIN handed[s] : j < k => handed[s][j] < handed[s][k]
        BY DEF HandedOnceInOrder
    <2>1. handed[s] \in Seq(Nat)
        BY DEF BusInv, BusTypeOK
    <2>2. DOMAIN handed[s] = 1 .. Len(handed[s])
        BY <2>1
    <2> QED
        BY <2>2 DEF BusInv, StreamInv, HandedBehind
<1> QED
    BY <1>1, BusInvariant, PTL
-----------------------------------------------------------------------------
\* The elements of a run of consecutive numbers that ends in l.
LEMMA RunIsInterval ==
    ASSUME NEW q \in Seq(Nat), NEW l \in Nat, Len(q) <= l,
           \A k \in 1 .. Len(q) : q[k] = l - Len(q) + k
    PROVE  /\ {q[k] : k \in DOMAIN q} = (l - Len(q) + 1) .. l
           /\ IsFiniteSet({q[k] : k \in DOMAIN q})
           /\ Cardinality({q[k] : k \in DOMAIN q}) = Len(q)
<1>1. PICK n \in Nat : n = Len(q)
    OBVIOUS
<1>2. DOMAIN q = 1 .. n /\ n <= l /\ \A k \in 1 .. n : q[k] = l - n + k
    BY <1>1
<1>3. {q[k] : k \in DOMAIN q} = (l - n + 1) .. l
    <2>1. ASSUME NEW k \in 1 .. n PROVE q[k] \in (l - n + 1) .. l
        <3>1. l - n + k \in (l - n + 1) .. l
            BY <1>2
        <3> QED
            BY <1>2, <3>1
    <2>2. ASSUME NEW i \in (l - n + 1) .. l PROVE \E k \in 1 .. n : i = q[k]
        <3>1. i - (l - n) \in 1 .. n /\ i = l - n + (i - (l - n))
            BY <1>2
        <3>2. q[i - (l - n)] = i
            BY <1>2, <3>1
        <3> QED
            BY <3>1, <3>2
    <2> QED
        BY <1>2, <2>1, <2>2
<1>4. IsFiniteSet((l - n + 1) .. l) /\ Cardinality((l - n + 1) .. l) = n
    <2>1. l - n + 1 \in Int /\ l \in Int
        OBVIOUS
    <2>2. IF l - n + 1 > l THEN n = 0 ELSE l - (l - n + 1) + 1 = n
        BY <1>2
    <2> QED
        BY <2>1, <2>2, FS_Interval
<1> QED
    BY <1>1, <1>3, <1>4

\* What a consumer holds, as a set: the newest Len(batch[s]) entries of the
\* group, and no more than Count.
LEMMA HeldIsInterval ==
    ASSUME BusInv, NEW s \in Streams
    PROVE  /\ Held(s) = (lastId[s] - Len(batch[s]) + 1) .. lastId[s]
           /\ IsFiniteSet(Held(s))
           /\ Cardinality(Held(s)) <= Count
<1>1. /\ Len(batch[s]) \in Nat
      /\ lastId[s] \in Nat
      /\ batch[s] \in Seq(Nat)
    BY TypesOf DEF BusInv
<1>2. HoldsTheLatest(s)
    BY DEF BusInv, StreamInv
<1> QED
    BY <1>1, <1>2, RunIsInterval DEF HoldsTheLatest, Held

\* The same of the state after a step.
LEMMA HeldIsIntervalNext ==
    ASSUME BusInv', NEW s \in Streams
    PROVE  Held(s)' = (lastId'[s] - Len(batch'[s]) + 1) .. lastId'[s]
<1>1. lastId'[s] \in Nat /\ batch'[s] \in Seq(Nat)
    BY DEF BusInv, BusTypeOK
<1>2. HoldsTheLatest(s)'
    BY DEF BusInv, StreamInv
<1> QED
    BY <1>1, <1>2, RunIsInterval DEF HoldsTheLatest, Held

\* Every stranded entry was in a reply that some closing cut off.
StrandedInv ==
    \A s \in Streams :
        /\ IsFiniteSet(Stranded(s))
        /\ Cardinality(Stranded(s)) <= Count * closes[s]

\* A stream whose pending entries a step leaves stranded as they were.
LEMMA SameStranded ==
    ASSUME StrandedInv, NEW s \in Streams, Stranded(s)' = Stranded(s), closes'[s] = closes[s]
    PROVE  /\ IsFiniteSet(Stranded(s)')
           /\ Cardinality(Stranded(s)') <= Count * closes'[s]
BY DEF StrandedInv

\* What is stranded grows only when a consumer goes down, by its batch at most.
LEMMA StrandedStep == BusInv /\ StrandedInv /\ [BusNext]_busVars => StrandedInv'
<1> SUFFICES ASSUME BusInv, StrandedInv, [BusNext]_busVars,
                    NEW t \in Streams
             PROVE  /\ IsFiniteSet(Stranded(t)')
                    /\ Cardinality(Stranded(t)') <= Count * closes'[t]
    BY DEF StrandedInv
<1>1. BusTypeOK /\ StreamInv(t) /\ BusInv'
    BY BusInvStep DEF BusInv
<1>2. CASE UNCHANGED <<pel, batch, closes>>
    <2>1. Stranded(t)' = Stranded(t)
        BY <1>2 DEF Stranded, Held
    <2> QED
        BY <1>2, <2>1, SameStranded
<1>3. ASSUME NEW s \in Streams, ReadGroup(s)
      PROVE  Stranded(t)' = Stranded(t) /\ closes'[t] = closes[t]
    <2>1. CASE t # s
        BY <1>1, <1>3, <2>1 DEF ReadGroup, Stranded, Held, BusTypeOK
    <2>2. CASE t = s
        <3>1. /\ lastId[s] \in Nat
              /\ Fetched(s) \in Nat
              /\ lastId[s] < Fetched(s)
              /\ phase[s] = "reading"
              /\ Len(batch[s]) \in Nat
              /\ Len(batch[s]) <= 0
            BY <1>1, <1>3, FetchedBounds, TypesOf DEF ReadGroup
        <3>2. Held(s) = {}
            <4>1. Held(s) = (lastId[s] - Len(batch[s]) + 1) .. lastId[s]
                BY HeldIsInterval
            <4> QED
                BY <3>1, <4>1
        <3>3. Held(s)' = (lastId[s] + 1) .. Fetched(s)
            <4>1. Held(s)' = (lastId'[s] - Len(batch'[s]) + 1) .. lastId'[s]
                BY <1>1, HeldIsIntervalNext
            <4>2. lastId'[s] = Fetched(s) /\ Len(batch'[s]) = Fetched(s) - lastId[s]
                <5>1. lastId'[s] = Fetched(s)
                    BY <1>1, <1>3 DEF ReadGroup, BusTypeOK
                <5>2. batch'[s] = [k \in 1 .. (Fetched(s) - lastId[s]) |-> lastId[s] + k]
                    BY <1>1, <1>3 DEF ReadGroup, BusTypeOK
                <5>3. Fetched(s) - lastId[s] \in Nat
                    BY <3>1
                <5> QED
                    BY <5>1, <5>2, <5>3
            <4> QED
                BY <3>1, <4>1, <4>2
        <3>4. pel'[s] = pel[s] \cup ((lastId[s] + 1) .. Fetched(s))
            BY <1>1, <1>3 DEF ReadGroup, BusTypeOK
        <3>5. pel[s] \subseteq 1 .. lastId[s]
            BY <1>1, <2>2 DEF StreamInv, PendingBehind
        <3>6. pel'[s] \ ((lastId[s] + 1) .. Fetched(s)) = pel[s]
            BY <3>1, <3>4, <3>5
        <3> QED
            BY <1>3, <2>2, <3>2, <3>3, <3>6 DEF Stranded, ReadGroup
    <2> QED
        BY <2>1, <2>2
<1>4. ASSUME NEW s \in Streams, Ack(s)
      PROVE  Stranded(t)' = Stranded(t) /\ closes'[t] = closes[t]
    <2>1. CASE t # s
        BY <1>1, <1>4, <2>1 DEF Ack, Stranded, Held, BusTypeOK
    <2>2. CASE t = s
        <3>1. /\ batch[s] \in Seq(Nat)
              /\ Len(batch[s]) \in Nat
              /\ Len(batch[s]) > 0
              /\ lastId[s] \in Nat
            BY <1>1, <1>4, TypesOf DEF Ack
        <3>2. /\ lastId'[s] = lastId[s]
              /\ Len(batch'[s]) = Len(batch[s]) - 1
              /\ pel'[s] = pel[s] \ {Head(batch[s])}
            BY <1>1, <1>4, <3>1, NonEmptySeq DEF Ack, Acked, BusTypeOK
        <3>3. Head(batch[s]) = lastId[s] - Len(batch[s]) + 1
            BY <1>1, <2>2, <3>1, NonEmptySeq DEF StreamInv, HoldsTheLatest
        <3>4. Held(s) = (lastId[s] - Len(batch[s]) + 1) .. lastId[s]
            BY HeldIsInterval
        <3>5. Held(s)' = (lastId[s] - (Len(batch[s]) - 1) + 1) .. lastId[s]
            <4>1. Held(s)' = (lastId'[s] - Len(batch'[s]) + 1) .. lastId'[s]
                BY <1>1, HeldIsIntervalNext
            <4> QED
                BY <3>2, <4>1
        <3>6. Held(s) = Held(s)' \cup {Head(batch[s])}
            <4>1. PICK n \in Nat, l \in Nat :
                      n = Len(batch[s]) /\ l = lastId[s] /\ n > 0
                BY <3>1
            <4>2. (l - n + 1) .. l = ((l - (n - 1) + 1) .. l) \cup {l - n + 1}
                <5>1. PICK m \in Int : m = l - n + 1
                    OBVIOUS
                <5>2. l - (n - 1) + 1 = m + 1 /\ m <= l
                    <6>1. n > 0
                        BY <4>1
                    <6> QED
                        BY <5>1, <6>1
                <5>3. m .. l = ((m + 1) .. l) \cup {m}
                    BY <5>2
                <5> QED
                    BY <5>1, <5>2, <5>3
            <4> QED
                BY <3>3, <3>4, <3>5, <4>1, <4>2
        <3> QED
            BY <1>4, <2>2, <3>2, <3>6 DEF Stranded, Ack
    <2> QED
        BY <2>1, <2>2
<1>5. ASSUME NEW S \in SUBSET Streams, Close(S), t \in S, phase[t] # "down"
      PROVE  /\ IsFiniteSet(Stranded(t)')
             /\ Cardinality(Stranded(t)') <= Count * closes'[t]
    <2>1. Held(t)' = {} /\ closes'[t] = closes[t] + 1
        BY <1>5 DEF Close, Held
    <2>2. Stranded(t)' = Stranded(t) \cup Held(t)
        <3>1. Held(t) \subseteq pel[t]
            BY <1>1 DEF StreamInv, PendingBehind, Held, BusTypeOK
        <3> QED
            BY <1>5, <2>1, <3>1 DEF Stranded, Close
    <2>3. /\ IsFiniteSet(Stranded(t))
          /\ Cardinality(Stranded(t)) <= Count * closes[t]
          /\ IsFiniteSet(Held(t))
          /\ Cardinality(Held(t)) <= Count
        BY HeldIsInterval DEF StrandedInv
    <2>4. /\ IsFiniteSet(Stranded(t) \cup Held(t))
          /\ Cardinality(Stranded(t) \cup Held(t)) <= Cardinality(Stranded(t)) + Cardinality(Held(t))
        <3>1. Stranded(t) \cap Held(t) = {}
            BY DEF Stranded
        <3>2. /\ IsFiniteSet(Stranded(t) \cup Held(t))
              /\ Cardinality(Stranded(t) \cup Held(t)) =
                    Cardinality(Stranded(t)) + Cardinality(Held(t))
                        - Cardinality(Stranded(t) \cap Held(t))
            BY <2>3, FS_Union
        <3>3. Cardinality(Stranded(t) \cap Held(t)) = 0
            BY <3>1, FS_EmptySet
        <3>4. Cardinality(Stranded(t)) \in Nat /\ Cardinality(Held(t)) \in Nat
            BY <2>3, FS_CardinalityType
        <3> QED
            BY <3>2, <3>3, <3>4
    <2>5. /\ Cardinality(Stranded(t)) \in Nat
          /\ Cardinality(Held(t)) \in Nat
          /\ Cardinality(Stranded(t) \cup Held(t)) \in Nat
        BY <2>3, <2>4, FS_CardinalityType
    <2>6. Count * (closes[t] + 1) = Count * closes[t] + Count /\ Count * closes[t] \in Nat
        BY <1>1, CountAssumption, TypesOf
    <2>7. Cardinality(Stranded(t) \cup Held(t)) <= Count * (closes[t] + 1)
        BY CountAssumption, <2>3, <2>4, <2>5, <2>6
    <2> QED
        BY <2>1, <2>2, <2>4, <2>7
<1>6. ASSUME NEW S \in SUBSET Streams, Close(S), t \in S, phase[t] = "down"
      PROVE  Stranded(t)' = Stranded(t) /\ closes'[t] = closes[t]
    <2>1. Len(batch[t]) \in Nat /\ Len(batch[t]) <= 0 /\ lastId[t] \in Nat
        BY <1>1, <1>6, TypesOf
    <2>2. Held(t) = {}
        <3>1. Held(t) = (lastId[t] - Len(batch[t]) + 1) .. lastId[t]
            BY HeldIsInterval
        <3> QED
            BY <2>1, <3>1
    <2>3. Held(t)' = {} /\ closes'[t] = closes[t] /\ pel'[t] = pel[t]
        BY <1>6 DEF Close, Held
    <2> QED
        BY <2>2, <2>3 DEF Stranded
<1>7. ASSUME NEW S \in SUBSET Streams, Close(S), t \notin S
      PROVE  Stranded(t)' = Stranded(t) /\ closes'[t] = closes[t]
    BY <1>7 DEF Close, Stranded, Held
<1> QED
    BY <1>2, <1>3, <1>4, <1>5, <1>6, <1>7, SameStranded
       DEF BusNext, Publish, StartConsume, Yield, HandlerReturns, busVars

\* A consumer that goes down strands at most one reply of Count entries.
THEOREM StrandedIsBounded == BusSpec => []StrandedBound
<1>1. BusInit => StrandedInv
    <2> SUFFICES ASSUME BusInit, NEW s \in Streams
                 PROVE  /\ IsFiniteSet(Stranded(s))
                        /\ Cardinality(Stranded(s)) <= Count * closes[s]
        BY DEF StrandedInv
    <2>1. Stranded(s) = {} /\ closes[s] = 0
        BY DEF BusInit, Stranded
    <2> QED
        BY <2>1, FS_EmptySet, CountAssumption
<1>2. StrandedInv => StrandedBound
    BY DEF StrandedInv, StrandedBound
<1> QED
    BY <1>1, <1>2, BusInvariant, StrandedStep, PTL DEF BusSpec

-----------------------------------------------------------------------------
(* The bus implements AtMostOnce: a read takes the oldest waiting entries, *)
(* an ack settles the oldest one held, a consumer that goes down strands   *)
(* what it holds, and every other step is none of the abstract bus.        *)

\* The entry in the hands of the consumer of s.
Entry(s) == log[s][Head(batch[s])]

\* The entry in a consumer's hands is an entry of its stream.
LEMMA EntryInLog ==
    ASSUME BusInv, NEW s \in Streams, phase[s] \in {"fetched", "handling", "acking"}
    PROVE  Head(batch[s]) \in 1 .. Len(log[s]) /\ Entry(s) \in Msgs
<1>1. PICK n \in Nat, l \in Nat, g \in Nat :
          /\ n = Len(batch[s])
          /\ l = lastId[s]
          /\ g = Len(log[s])
          /\ n > 0
    BY TypesOf DEF BusInv
<1>2. Head(batch[s]) = batch[s][1] /\ log[s] \in Seq(Msgs)
    BY <1>1, NonEmptySeq DEF BusInv, BusTypeOK
<1>3. n <= l /\ l <= g /\ batch[s][1] = l - n + 1
    <2>1. /\ lastId[s] <= Len(log[s])
          /\ Len(batch[s]) <= lastId[s]
          /\ \A k \in 1 .. Len(batch[s]) : batch[s][k] = lastId[s] - Len(batch[s]) + k
        BY DEF BusInv, StreamInv, HoldsTheLatest
    <2>2. \A k \in 1 .. n : batch[s][k] = l - n + k
        BY <1>1, <2>1
    <2>3. 1 \in 1 .. n
        BY <1>1
    <2> QED
        BY <1>1, <2>1, <2>2, <2>3
<1>4. l - n + 1 \in 1 .. g
    BY <1>1, <1>3
<1> QED
    BY <1>1, <1>2, <1>3, <1>4 DEF Entry

\* The entry a handler works on does not change under its hands, whatever the
\* other consumers and the publishers do.
LEMMA EntryStays ==
    ASSUME BusInv, [BusNext]_busVars, NEW s \in Streams,
           phase[s] = "handling", phase'[s] = "handling"
    PROVE  Entry(s)' = Entry(s)
<1>1. BusTypeOK
    BY DEF BusInv
<1>2. ASSUME NEW t \in Streams, NEW m \in Msgs, Publish(t, m) PROVE Entry(s)' = Entry(s)
    <2>1. log[s] \in Seq(Msgs) /\ batch' = batch
        BY <1>1, <1>2 DEF Publish, BusTypeOK
    <2>2. log'[s] = IF t = s THEN Append(log[s], m) ELSE log[s]
        BY <1>1, <1>2 DEF Publish, BusTypeOK
    <2>3. Head(batch[s]) \in 1 .. Len(log[s])
        BY EntryInLog
    <2>4. Append(log[s], m)[Head(batch[s])] = log[s][Head(batch[s])]
        BY <1>2, <2>1, <2>3, AppendProperties
    <2> QED
        BY <2>1, <2>2, <2>4 DEF Entry
<1>3. ASSUME NEW t \in Streams,
             StartConsume(t) \/ ReadGroup(t) \/ Yield(t) \/ HandlerReturns(t) \/ Ack(t)
      PROVE  Entry(s)' = Entry(s)
    <2>1. log' = log /\ batch'[s] = batch[s]
        BY <1>1, <1>3 DEF StartConsume, ReadGroup, Yield, HandlerReturns, Ack, BusTypeOK
    <2> QED
        BY <2>1 DEF Entry
<1>4. ASSUME NEW S \in SUBSET Streams, Close(S) PROVE Entry(s)' = Entry(s)
    BY <1>4 DEF Close, Entry
<1>5. CASE UNCHANGED busVars
    BY <1>5 DEF busVars, Entry
<1> QED
    BY <1>2, <1>3, <1>4, <1>5 DEF BusNext

\* Entries of a log stay where they are.
LEMMA LogGrows ==
    ASSUME BusInv, [BusNext]_busVars, NEW s \in Streams
    PROVE  /\ Len(log[s]) \in Nat /\ Len(log'[s]) \in Nat
           /\ Len(log[s]) <= Len(log'[s])
           /\ \A i \in 1 .. Len(log[s]) : log'[s][i] = log[s][i]
<1>1. BusTypeOK
    BY DEF BusInv
<1>2. ASSUME NEW t \in Streams, NEW m \in Msgs, Publish(t, m)
      PROVE  /\ Len(log[s]) \in Nat /\ Len(log'[s]) \in Nat
             /\ Len(log[s]) <= Len(log'[s])
             /\ \A i \in 1 .. Len(log[s]) : log'[s][i] = log[s][i]
    <2>1. log[s] \in Seq(Msgs)
        BY <1>1 DEF BusTypeOK
    <2>2. log'[s] = IF t = s THEN Append(log[s], m) ELSE log[s]
        BY <1>1, <1>2 DEF Publish, BusTypeOK
    <2> QED
        BY <2>1, <2>2, AppendProperties
<1>3. CASE UNCHANGED log
    BY <1>1, <1>3 DEF BusTypeOK
<1>4. (\E t \in Streams, m \in Msgs : Publish(t, m)) \/ UNCHANGED log
    BY DEF BusNext, StartConsume, ReadGroup, Yield, HandlerReturns, Ack, Close, busVars
<1> QED
    BY <1>2, <1>3, <1>4

\* An entry is finished when the handler that holds it returns.
LEMMA FinishedGrows ==
    ASSUME BusTypeOK, [BusNext]_busVars, NEW s \in Streams,
           NEW i \in finished'[s], i \notin finished[s]
    PROVE  /\ i = Head(batch[s]) /\ phase[s] = "handling" /\ phase'[s] = "acking"
           /\ log' = log
<1>1. PICK t \in Streams : HandlerReturns(t)
    <2>1. ~ UNCHANGED finished
        OBVIOUS
    <2> QED
        BY <2>1 DEF BusNext, busVars, Publish, StartConsume, ReadGroup, Yield, Ack, Close
<1> QED
    BY <1>1 DEF HandlerReturns, BusTypeOK

\* The elements of a sequence, and what appending adds to them.
LEMMA ElementsOfSeq ==
    ASSUME NEW S, NEW q \in Seq(S) PROVE ToSet(q) \subseteq S
BY DEF ToSet

\* Appending adds one element.
LEMMA ElementsOfAppend ==
    ASSUME NEW S, NEW q \in Seq(S), NEW e \in S
    PROVE  ToSet(Append(q, e)) = ToSet(q) \cup {e}
<1> DEFINE r == Append(q, e)
<1>1. /\ r \in Seq(S)
      /\ Len(r) = Len(q) + 1
      /\ Len(q) \in Nat
      /\ \A k \in 1 .. Len(q) : r[k] = q[k]
      /\ r[Len(q) + 1] = e
    BY AppendProperties
<1>2. DOMAIN q = 1 .. Len(q) /\ DOMAIN r = 1 .. Len(q) + 1
    BY <1>1
<1> HIDE DEF r
<1>3. \A k : k \in 1 .. Len(q) + 1 <=> k \in 1 .. Len(q) \/ k = Len(q) + 1
    BY <1>1
<1>4. ToSet(r) = {r[k] : k \in 1 .. Len(q) + 1} /\ ToSet(q) = {q[k] : k \in 1 .. Len(q)}
    BY <1>2 DEF ToSet
<1> QED
    BY <1>1, <1>3, <1>4 DEF r

\* Joining two sequences joins their elements.
LEMMA ElementsOfConcat ==
    ASSUME NEW S, NEW q \in Seq(S), NEW r \in Seq(S)
    PROVE  ToSet(q \o r) = ToSet(q) \cup ToSet(r)
<1> DEFINE b == q \o r
<1>1. /\ b \in Seq(S) /\ Len(b) = Len(q) + Len(r)
      /\ Len(q) \in Nat /\ Len(r) \in Nat
      /\ \A k \in 1 .. Len(q) + Len(r) : b[k] = IF k <= Len(q) THEN q[k] ELSE r[k - Len(q)]
    BY ConcatProperties
<1>2. ToSet(b) = {b[k] : k \in 1 .. Len(q) + Len(r)}
    BY <1>1 DEF ToSet
<1>3. ToSet(q) = {q[k] : k \in 1 .. Len(q)} /\ ToSet(r) = {r[k] : k \in 1 .. Len(r)}
    BY DEF ToSet
<1> HIDE DEF b
<1>4. ASSUME NEW k \in 1 .. Len(q) + Len(r) PROVE b[k] \in ToSet(q) \cup ToSet(r)
    <2>1. CASE k <= Len(q)
        BY <1>1, <1>3, <2>1
    <2>2. CASE k > Len(q)
        <3>1. k - Len(q) \in 1 .. Len(r) /\ b[k] = r[k - Len(q)]
            BY <1>1, <2>2
        <3> QED
            BY <1>3, <3>1
    <2> QED
        BY <1>1, <2>1, <2>2
<1>5. ASSUME NEW k \in 1 .. Len(q) PROVE q[k] \in ToSet(b)
    <2>1. k \in 1 .. Len(q) + Len(r) /\ b[k] = q[k]
        BY <1>1
    <2> QED
        BY <1>2, <2>1
<1>6. ASSUME NEW k \in 1 .. Len(r) PROVE r[k] \in ToSet(b)
    <2>1. Len(q) + k \in 1 .. Len(q) + Len(r) /\ b[Len(q) + k] = r[k]
        <3>1. /\ Len(q) + k \in 1 .. Len(q) + Len(r)
              /\ ~ (Len(q) + k <= Len(q)) /\ (Len(q) + k) - Len(q) = k
            BY <1>1
        <3> QED
            BY <1>1, <3>1
    <2> QED
        BY <1>2, <2>1
<1> QED
    BY <1>2, <1>3, <1>4, <1>5, <1>6 DEF b

-----------------------------------------------------------------------------
\* Entries the group moved past are held, settled or stranded.
LEMMA MovedPast ==
    ASSUME BusInv, NEW s \in Streams
    PROVE  /\ Held(s) \subseteq pel[s]
           /\ pel[s] \subseteq 1 .. lastId[s]
           /\ lastId[s] \in Nat /\ Len(log[s]) \in Nat /\ lastId[s] <= Len(log[s])
<1>1. batch[s] \in Seq(Nat) /\ lastId[s] \in Nat /\ Len(log[s]) \in Nat
    BY TypesOf DEF BusInv, BusTypeOK
<1>2. PendingBehind(s) /\ HoldsTheLatest(s)
    BY DEF BusInv, StreamInv
<1>3. DOMAIN batch[s] = 1 .. Len(batch[s])
    BY <1>1
<1> QED
    BY <1>1, <1>2, <1>3 DEF PendingBehind, HoldsTheLatest, Held

\* A step that changes neither the logs nor what is held, settled or stranded.
LEMMA AbstractStutter ==
    ASSUME \A s \in Streams :
               /\ Len(log'[s]) = Len(log[s])
               /\ Held(s)' = Held(s)
               /\ lastId'[s] = lastId[s]
               /\ pel'[s] = pel[s]
    PROVE  UNCHANGED Promise!vars
BY DEF Promise!vars, Stranded

\* A publish offers one more entry.
LEMMA PublishIsSend ==
    ASSUME BusInv, NEW s \in Streams, NEW m \in Msgs, Publish(s, m) PROVE Promise!Send(s)
<1>1. log[s] \in Seq(Msgs) /\ log \in [Streams -> Seq(Msgs)]
    BY DEF BusInv, BusTypeOK
<1>2. Len(Append(log[s], m)) = Len(log[s]) + 1
    BY <1>1, AppendProperties
<1>3. \A t \in Streams : Len(log'[t]) = IF t = s THEN Len(log[s]) + 1 ELSE Len(log[t])
    BY <1>1, <1>2 DEF Publish
<1>4. UNCHANGED <<batch, lastId, pel>>
    BY DEF Publish
<1> QED
    BY <1>3, <1>4 DEF Promise!Send, Held, Stranded

\* A read takes the oldest waiting entries, up to the last it fetched.
LEMMA ReadIsTake ==
    ASSUME BusInv, BusInv', NEW s \in Streams, ReadGroup(s) PROVE Promise!Take(s)
<1>1. PICK l \in Nat, f \in Nat, g \in Nat :
          /\ l = lastId[s] /\ f = Fetched(s) /\ g = Len(log[s])
          /\ l < f /\ f <= g
    BY FetchedBounds, MovedPast DEF ReadGroup, BusInv
<1>2. /\ lastId' = [lastId EXCEPT ![s] = f]
      /\ batch' = [batch EXCEPT ![s] = [k \in 1 .. f - l |-> l + k]]
      /\ pel' = [pel EXCEPT ![s] = @ \cup ((l + 1) .. f)]
      /\ log' = log
      /\ lastId \in [Streams -> Nat]
      /\ batch \in [Streams -> Seq(Nat)]
      /\ pel \in [Streams -> SUBSET Nat]
    BY <1>1 DEF ReadGroup, BusInv, BusTypeOK
<1>3. Held(s) = {} /\ pel[s] \subseteq 1 .. l
    <2>1. Len(batch[s]) \in Nat /\ ~(Len(batch[s]) > 0)
        <3>1. phase[s] = "reading"
            BY DEF ReadGroup
        <3>2. phase[s] \in {"fetched", "handling", "acking"} <=> Len(batch[s]) > 0
            BY DEF BusInv, BusTypeOK
        <3> QED
            BY <3>1, <3>2, TypesOf DEF BusInv
    <2>2. Held(s) = (lastId[s] - Len(batch[s]) + 1) .. lastId[s]
        BY HeldIsInterval
    <2> QED
        BY <1>1, <2>1, <2>2, MovedPast
<1>4. Held(s)' = (l + 1) .. f
    <2>1. batch'[s] = [k \in 1 .. f - l |-> l + k]
        BY <1>2
    <2>2. Held(s)' = {l + k : k \in 1 .. f - l}
        BY <2>1 DEF Held
    <2>3. \A i \in (l + 1) .. f : i - l \in 1 .. f - l /\ i = l + (i - l)
        BY <1>1
    <2>4. \A k \in 1 .. f - l : l + k \in (l + 1) .. f
        BY <1>1
    <2> QED
        BY <2>2, <2>3, <2>4
<1>5. \A t \in Streams \ {s} :
          Held(t)' = Held(t) /\ lastId'[t] = lastId[t] /\ pel'[t] = pel[t]
    BY <1>2 DEF Held
<1>6. ((1 .. f) \ (pel[s] \cup ((l + 1) .. f))) = (1 .. l) \ pel[s]
    BY <1>1, <1>3
<1>7. (pel[s] \cup ((l + 1) .. f)) \ ((l + 1) .. f) = pel[s]
    BY <1>1, <1>3
<1>8. Promise!Waiting(s) = (l + 1) .. g
    <2>1. Promise!Waiting(s) =
              (1 .. g) \ (Held(s) \cup ((1 .. l) \ pel[s]) \cup (pel[s] \ Held(s)))
        BY <1>1 DEF Promise!Waiting, Stranded
    <2> QED
        BY <1>1, <1>3, <2>1
<1>9. f \in (l + 1) .. g /\ {i \in (l + 1) .. g : i <= f} = (l + 1) .. f
    BY <1>1
<1>10. \A t \in Streams :
           /\ Held(t)' = IF t = s THEN (l + 1) .. f ELSE Held(t)
           /\ (1 .. lastId'[t]) \ pel'[t] = (1 .. lastId[t]) \ pel[t]
           /\ Stranded(t)' = Stranded(t)
    BY <1>1, <1>2, <1>3, <1>4, <1>5, <1>6, <1>7 DEF Stranded
<1>11. [t \in Streams |-> Held(t)]' =
           [[t \in Streams |-> Held(t)] EXCEPT ![s] = {i \in Promise!Waiting(s) : i <= f}]
    BY <1>8, <1>9, <1>10
<1>12. /\ [t \in Streams |-> (1 .. lastId[t]) \ pel[t]]' =
              [t \in Streams |-> (1 .. lastId[t]) \ pel[t]]
       /\ [t \in Streams |-> Stranded(t)]' = [t \in Streams |-> Stranded(t)]
       /\ [t \in Streams |-> Len(log[t])]' = [t \in Streams |-> Len(log[t])]
    BY <1>2, <1>10
<1>13. f \in Promise!Waiting(s) /\ [t \in Streams |-> Held(t)][s] = {}
    BY <1>3, <1>8, <1>9
<1> QED
    BY <1>11, <1>12, <1>13 DEF Promise!Take

\* An ack settles the oldest entry the consumer holds.
LEMMA AckIsSettle ==
    ASSUME BusInv, BusInv', NEW s \in Streams, Ack(s) PROVE Promise!Settle(s)
<1>1. PICK l \in Nat, n \in Nat : l = lastId[s] /\ n = Len(batch[s]) /\ n > 0 /\ n <= l
    BY TypesOf DEF BusInv, BusTypeOK, Ack, StreamInv, HoldsTheLatest
<1>2. /\ batch \in [Streams -> Seq(Nat)]
      /\ pel \in [Streams -> SUBSET Nat]
      /\ UNCHANGED <<log, lastId>>
    BY DEF Ack, BusInv, BusTypeOK
<1> DEFINE i == l - n + 1
<1>3. Head(batch[s]) = i
    <2>1. Head(batch[s]) = batch[s][1]
        BY <1>1, <1>2, NonEmptySeq
    <2>2. \A k \in 1 .. n : batch[s][k] = l - n + k
        BY <1>1 DEF BusInv, StreamInv, HoldsTheLatest
    <2> QED
        BY <1>1, <2>1, <2>2
<1>4. pel' = [pel EXCEPT ![s] = @ \ {i}] /\ batch' = [batch EXCEPT ![s] = Tail(@)]
    BY <1>3 DEF Ack, Acked
<1>5. Held(s) = i .. l /\ i \in pel[s] /\ pel[s] \subseteq 1 .. l
    <2>1. Held(s) = i .. l
        BY <1>1, HeldIsInterval
    <2> QED
        BY <1>1, <2>1, MovedPast
<1>6. Held(s)' = (i + 1) .. l
    <2>1. Len(Tail(batch[s])) = n - 1
        BY <1>1, <1>2, NonEmptySeq
    <2>2. Len(batch'[s]) = n - 1 /\ lastId'[s] = l
        BY <1>1, <1>2, <1>4, <2>1
    <2> QED
        BY <1>1, <2>2, HeldIsIntervalNext
<1>7. \A t \in Streams \ {s} : Held(t)' = Held(t) /\ pel'[t] = pel[t]
    BY <1>2, <1>4 DEF Held
<1>8. /\ (i + 1) .. l = (i .. l) \ {i}
      /\ i \in i .. l /\ \A j \in i .. l : i <= j
      /\ (1 .. l) \ (pel[s] \ {i}) = ((1 .. l) \ pel[s]) \cup {i}
      /\ (pel[s] \ {i}) \ ((i + 1) .. l) = pel[s] \ (i .. l)
    BY <1>1, <1>5
<1> HIDE DEF i
<1>9. \A t \in Streams :
          /\ Held(t)' = IF t = s THEN Held(s) \ {i} ELSE Held(t)
          /\ (1 .. lastId'[t]) \ pel'[t] =
                 IF t = s THEN ((1 .. lastId[s]) \ pel[s]) \cup {i} ELSE (1 .. lastId[t]) \ pel[t]
          /\ Stranded(t)' = Stranded(t)
    BY <1>1, <1>2, <1>4, <1>5, <1>6, <1>7, <1>8 DEF Stranded
<1>10. [t \in Streams |-> Held(t)]' = [[t \in Streams |-> Held(t)] EXCEPT ![s] = @ \ {i}]
    BY <1>9
<1>11. [t \in Streams |-> (1 .. lastId[t]) \ pel[t]]' =
           [[t \in Streams |-> (1 .. lastId[t]) \ pel[t]] EXCEPT ![s] = @ \cup {i}]
    BY <1>9
<1>12. /\ [t \in Streams |-> Stranded(t)]' = [t \in Streams |-> Stranded(t)]
       /\ [t \in Streams |-> Len(log[t])]' = [t \in Streams |-> Len(log[t])]
    BY <1>2, <1>9
<1>13. i \in [t \in Streams |-> Held(t)][s] /\ \A j \in [t \in Streams |-> Held(t)][s] : i <= j
    BY <1>5, <1>8
<1> QED
    BY <1>10, <1>11, <1>12, <1>13 DEF Promise!Settle

\* Consumers that go down strand what they hold.
LEMMA CloseIsStrand ==
    ASSUME BusInv, NEW S \in SUBSET Streams, Close(S) PROVE Promise!Strand(S)
<1>1. UNCHANGED <<log, lastId, pel>>
    BY DEF Close
<1>2. \A t \in Streams : Held(t)' = IF t \in S THEN {} ELSE Held(t)
    BY DEF Close, Held
<1>3. \A t \in Streams : Stranded(t)' = IF t \in S THEN Stranded(t) \cup Held(t) ELSE Stranded(t)
    BY <1>1, <1>2, MovedPast DEF Stranded
<1>4. [t \in Streams |-> Held(t)]' =
          [t \in Streams |-> IF t \in S THEN {} ELSE [u \in Streams |-> Held(u)][t]]
    BY <1>2
<1>5. [t \in Streams |-> Stranded(t)]' =
          [t \in Streams |-> IF t \in S
                             THEN [u \in Streams |-> Stranded(u)][t]
                                      \cup [u \in Streams |-> Held(u)][t]
                             ELSE [u \in Streams |-> Stranded(u)][t]]
    BY <1>3
<1> QED
    BY <1>1, <1>4, <1>5 DEF Promise!Strand

\* Every step of the bus is a step of the promise or leaves its state alone.
LEMMA StepImplements ==
    BusInv /\ BusInv' /\ [BusNext]_busVars => [Promise!Next]_Promise!vars
<1> SUFFICES ASSUME BusInv, BusInv', [BusNext]_busVars PROVE [Promise!Next]_Promise!vars
    OBVIOUS
<1>1. ASSUME NEW s \in Streams, StartConsume(s) PROVE UNCHANGED Promise!vars
    <2>1. lastId' = lastId
        <3>1. lastId \in [Streams -> Nat] /\ (~group[s] => lastId[s] = 0)
            BY DEF BusInv, BusTypeOK, StreamInv, GroupFirst
        <3> QED
            BY <1>1, <3>1 DEF StartConsume, EnsureGroup
    <2> QED
        BY <1>1, <2>1, AbstractStutter DEF StartConsume, Held
<1>2. ASSUME NEW s \in Streams, Yield(s) \/ HandlerReturns(s) PROVE UNCHANGED Promise!vars
    BY <1>2, AbstractStutter DEF Yield, HandlerReturns, Held
<1>3. CASE UNCHANGED busVars
    BY <1>3, AbstractStutter DEF busVars, Held
<1> QED
    BY <1>1, <1>2, <1>3, PublishIsSend, ReadIsTake, AckIsSettle, CloseIsStrand
       DEF BusNext, Promise!Next

\* The empty bus is an initial state of the promise.
LEMMA InitImplements == BusInit => Promise!Init
<1> SUFFICES ASSUME BusInit PROVE Promise!Init
    OBVIOUS
<1>1. Len(<<>>) = 0
    OBVIOUS
<1>2. \A s \in Streams :
          /\ Len(log[s]) = 0
          /\ Held(s) = {}
          /\ (1 .. lastId[s]) \ pel[s] = {}
          /\ Stranded(s) = {}
    BY <1>1 DEF BusInit, Held, Stranded
<1> QED
    BY <1>2 DEF Promise!Init

\* The safety part of DeliversAtMostOnce: entries are taken in order, settled
\* one at a time and stranded with the consumer that held them, and nothing
\* is ever offered twice.  (repositories/stream.py consume, ensure_group)
THEOREM BusKeepsPromise == BusSpec => Promise!Init /\ [][Promise!Next]_Promise!vars
BY InitImplements, StepImplements, BusInvariant, PTL DEF BusSpec
=============================================================================
