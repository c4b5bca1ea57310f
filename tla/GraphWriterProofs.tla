-------------------------- MODULE GraphWriterProofs --------------------------
(* What the graph builder keeps, for any posts, mentions and relations and   *)
(* any size of its buffers, wherever an upsert fails, Redis fails or the     *)
(* process is killed.                                                        *)
EXTENDS GraphWriter, StreamBusProofs, CountingProofs

EntityRow == [key : Keys, post : Msgs]
RelationRow == [head : Keys, tail : Keys, post : Msgs]

GraphTypes ==
    /\ main \in {"down", "idle", "queued", "writing", "last", "exiting"}
    /\ timer \in {"off", "asleep", "queued", "writing"}
    /\ stage \in {"none", "entities", "relations"}
    /\ recent \in BOOLEAN
    /\ entities \in Seq(EntityRow) /\ relations \in Seq(RelationRow)
    /\ flight \in [entities : Seq(EntityRow), relations : Seq(RelationRow)]
    /\ nodes \in [Keys -> Nat]
    /\ edges \in [Edges -> Nat]
    /\ missed \in [Keys -> Nat]
    /\ severed \in [Edges -> Nat]
    /\ written \in Seq(Msgs)
    /\ faults \in Nat

\* Where main() stands and where the bus's generator stands agree.
InStep ==
    /\ phase[Enriched] = "down" <=> main \in {"down", "last", "exiting"}
    /\ phase[Enriched] = "handling" <=> main \in {"queued", "writing"}

\* The lock has a holder and a waiter at most, and whoever writes holds it.
Queues == {<<>>, <<Main>>, <<Timer>>, <<Main, Timer>>, <<Timer, Main>>}

LockFits ==
    /\ lockq \in Queues
    /\ Main \in ToSet(lockq) <=> main \in {"queued", "writing", "last"}
    /\ Timer \in ToSet(lockq) <=> timer \in {"queued", "writing"}
    /\ main \in {"writing", "last"} => Holds(Main)
    /\ timer = "writing" => Holds(Timer)

\* Somebody writes exactly while entities are in flight; a writer that stopped
\* has no timer and nothing in its buffers.
FlightFits ==
    /\ stage # "none" <=> flight.entities # <<>>
    /\ stage # "none" <=> main \in {"writing", "last"} \/ timer = "writing"
    /\ main \in {"down", "exiting", "last"} =>
           timer = "off" /\ entities = <<>> /\ relations = <<>>
    /\ ~ IsFull(entities, relations)

EndsAmong(rels, ents) ==
    \A r \in ToSet(rels) :
        /\ \E e \in ToSet(ents) : e.key = r.head
        /\ \E e \in ToSet(ents) : e.key = r.tail

\* Relations travel with the entities they join.
TravelTogether ==
    /\ EndsAmong(relations, entities)
    /\ EndsAmong(flight.relations, flight.entities)

\* The mentions of k that are accounted for.
Traced(k) ==
    nodes[k] + missed[k] + Mentioned(entities, k)
        + (IF stage = "entities" THEN Mentioned(flight.entities, k) ELSE 0)

\* The mentions of k in the payloads of q.
MentionSum(q, k) == FoldLeft(LAMBDA n, m : n + Mentioned(EntityRows(m), k), 0, q)

AllTraced == \A k \in Keys : Traced(k) = MentionSum(written, k)

\* How often the payloads of q hold the edge e.
EdgeSum(q, e) == FoldLeft(LAMBDA n, m : n + Joined(RelationRows(m), e), 0, q)

\* The relation rows of e that are accounted for.
Counted(e) == edges[e] + severed[e] + Joined(relations, e) + Joined(flight.relations, e)

AllCounted == \A e \in Edges : Counted(e) = EdgeSum(written, e)

\* The two halves of LoseRows.
Misses(ents) == missed' = [k \in Keys |-> missed[k] + Mentioned(ents, k)]
Severs(rels) == severed' = [e \in Edges |-> severed[e] + Joined(rels, e)]

GraphInv ==
    /\ BusInv /\ GraphTypes /\ InStep /\ LockFits /\ FlightFits /\ TravelTogether
    /\ NoRelationUnmatched /\ AllTraced /\ AllCounted
-----------------------------------------------------------------------------
\* Of some places of a sequence one is the last.
LEMMA LastExists ==
    ASSUME NEW b \in Nat, NEW S \in SUBSET (1 .. b), S # {}
    PROVE  Max(S) \in S /\ \A y \in S : y <= Max(S)
<1>1. S \in SUBSET (0 .. b)
    OBVIOUS
<1> QED
    BY <1>1, MaxExists

\* h adds up the weights w of places, the last place last, as FoldLeft does.
IsTotal(h, n, w) ==
    h = [s \in SUBSET (1 .. n) |-> IF s = {} THEN 0 ELSE h[s \ {Max(s)}] + w[Max(s)]]

\* The last place of an interval.
LEMMA MaxOfInterval == ASSUME NEW n \in Nat, n > 0 PROVE Max(1 .. n) = n
<1>1. n \in 1 .. n /\ (1 .. n) \in SUBSET (1 .. n) /\ 1 .. n # {}
    OBVIOUS
<1>2. Max(1 .. n) \in 1 .. n /\ n <= Max(1 .. n)
    BY <1>1, LastExists
<1> QED
    BY <1>2

\* What the definition says of a set of places that is not empty.
LEMMA TotalOfSet ==
    ASSUME NEW n \in Nat, NEW w, NEW h, IsTotal(h, n, w), NEW s \in SUBSET (1 .. n), s # {}
    PROVE  h[s] = h[s \ {Max(s)}] + w[Max(s)]
<1> DEFINE D == SUBSET (1 .. n)
<1>1. h = [t \in D |-> IF t = {} THEN 0 ELSE h[t \ {Max(t)}] + w[Max(t)]]
    BY DEF IsTotal
<1>2. s \in D
    OBVIOUS
<1> HIDE DEF D
<1> QED
    BY <1>1, <1>2

\* The total of one place more.
LEMMA TotalOfInterval ==
    ASSUME NEW n \in Nat, NEW w, NEW h, IsTotal(h, n, w), NEW k \in 1 .. n
    PROVE  h[1 .. k] = h[1 .. k - 1] + w[k]
<1>1. (1 .. k) \in SUBSET (1 .. n) /\ 1 .. k # {} /\ k \in Nat /\ k > 0
    OBVIOUS
<1>2. Max(1 .. k) = k
    BY <1>1, MaxOfInterval
<1>3. (1 .. k) \ {k} = 1 .. k - 1
    OBVIOUS
<1>4. h[1 .. k] = h[(1 .. k) \ {Max(1 .. k)}] + w[Max(1 .. k)]
    <2> DEFINE s == 1 .. k
    <2>1. s \in SUBSET (1 .. n) /\ s # {}
        BY <1>1
    <2> HIDE DEF s
    <2>2. h[s] = h[s \ {Max(s)}] + w[Max(s)]
        BY <2>1, TotalOfSet
    <2> QED
        BY <2>2 DEF s
<1> QED
    BY <1>2, <1>3, <1>4

\* There is such a total: the least n without one would have one.
LEMMA TotalExists ==
    ASSUME NEW n \in Nat, NEW w, \A i \in 1 .. n : w[i] \in Nat
    PROVE  \E h : IsTotal(h, n, w)
<1> DEFINE Missing == {k \in 0 .. n : ~ \E h : IsTotal(h, k, w)}
<1> SUFFICES ASSUME Missing # {} PROVE FALSE
    OBVIOUS
<1>1. Missing \in SUBSET Nat
    OBVIOUS
<1>2. PICK k \in Missing : \A j \in Missing : k <= j
    BY <1>1, MinExists
<1>3. k \in 0 .. n /\ k \in Nat /\ ~ \E h : IsTotal(h, k, w)
    BY <1>1, <1>2
<1>4. CASE k = 0
    <2> DEFINE h == [s \in SUBSET (1 .. k) |-> 0]
    <2>1. \A s \in SUBSET (1 .. k) : s = {}
        BY <1>4
    <2>2. IsTotal(h, k, w)
        BY <2>1 DEF IsTotal
    <2> QED
        BY <1>3, <2>2
<1>5. CASE k > 0
    <2>1. k - 1 \in 0 .. n /\ k - 1 \in Nat /\ ~ (k <= k - 1)
        BY <1>3, <1>5
    <2>2. k - 1 \notin Missing
        BY <1>2, <2>1
    <2>3. PICK g : IsTotal(g, k - 1, w)
        BY <2>1, <2>2
    <2> DEFINE D == SUBSET (1 .. k)
               C == SUBSET (1 .. k - 1)
               h == [s \in D |-> IF k \in s THEN g[s \ {k}] + w[k] ELSE g[s]]
    <2>4. ASSUME NEW s \in D
          PROVE  h[s] = IF s = {} THEN 0 ELSE h[s \ {Max(s)}] + w[Max(s)]
        <3>0. \A x \in 1 .. k : x \in 1 .. k - 1 \/ x = k
            BY <1>3, <1>5
        <3>1. CASE s = {}
            <4>1. s \in C /\ k \notin s /\ g[s] = 0
                BY <2>3, <3>1 DEF IsTotal
            <4> QED
                BY <3>1, <4>1
        <3>2. CASE s # {} /\ k \notin s
            <4>1. s \in C
                BY <3>0, <3>2
            <4>2. Max(s) \in s
                BY <2>1, <3>2, <4>1, LastExists
            <4>3. s \ {Max(s)} \in D /\ k \notin s \ {Max(s)}
                BY <3>2
            <4>4. g[s] = g[s \ {Max(s)}] + w[Max(s)]
                BY <2>3, <3>2, <4>1 DEF IsTotal
            <4>5. h[s] = g[s] /\ h[s \ {Max(s)}] = g[s \ {Max(s)}]
                BY <3>2, <4>3
            <4> QED
                BY <3>2, <4>4, <4>5
        <3>3. CASE k \in s
            <4>1. Max(s) = k
                <5>1. Max(s) \in s /\ \A y \in s : y <= Max(s)
                    BY <1>3, <3>3, LastExists
                <5>2. Max(s) \in 1 .. k /\ k <= Max(s)
                    BY <3>3, <5>1
                <5> QED
                    BY <1>3, <5>2
            <4>2. s \ {k} \in D /\ k \notin s \ {k}
                OBVIOUS
            <4>3. h[s] = g[s \ {k}] + w[k] /\ h[s \ {k}] = g[s \ {k}]
                BY <3>3, <4>2
            <4> QED
                BY <3>3, <4>1, <4>3
        <3> QED
            BY <3>1, <3>2, <3>3
    <2>5. IsTotal(h, k, w)
        <3>1. h = [s \in D |-> h[s]]
            OBVIOUS
        <3> HIDE DEF h
        <3>2. h = [s \in D |-> IF s = {} THEN 0 ELSE h[s \ {Max(s)}] + w[Max(s)]]
            BY <2>4, <3>1
        <3> QED
            BY <3>2 DEF IsTotal
    <2> HIDE DEF h
    <2> QED
        BY <1>3, <2>5
<1> QED
    BY <1>3, <1>4, <1>5

\* Weights that agree up to n have the same total up to n, and the total up
\* to n + 1 adds the last one.
LEMMA TotalAppend ==
    ASSUME NEW n \in Nat, NEW w, NEW v, NEW h, NEW g,
           \A i \in 1 .. n : w[i] \in Nat, \A i \in 1 .. n : v[i] = w[i],
           v[n + 1] \in Nat,
           IsTotal(h, n, w), IsTotal(g, n + 1, v)
    PROVE  h[1 .. n] \in Nat /\ g[1 .. n + 1] = h[1 .. n] + v[n + 1]
<1> DEFINE Bad == {k \in 0 .. n : ~ (g[1 .. k] = h[1 .. k] /\ h[1 .. k] \in Nat)}
<1>2. Bad = {}
    <2> SUFFICES ASSUME Bad # {} PROVE FALSE
        OBVIOUS
    <2>1. Bad \in SUBSET Nat
        OBVIOUS
    <2>2. PICK k \in Bad : \A j \in Bad : k <= j
        BY <2>1, MinExists
    <2>3. k \in 0 .. n /\ k \in Nat
        BY <2>1, <2>2
    <2>4. (1 .. k) \in SUBSET (1 .. n) /\ (1 .. k) \in SUBSET (1 .. n + 1)
        BY <2>3
    <2>5. CASE k = 0
        <3>1. 1 .. k = {}
            BY <2>5
        <3>2. g[1 .. k] = 0 /\ h[1 .. k] = 0
            BY <2>4, <3>1 DEF IsTotal
        <3> QED
            BY <2>2, <3>2
    <2>6. CASE k > 0
        <3>1. k - 1 \in 0 .. n /\ ~ (k <= k - 1) /\ k \in 1 .. n
            BY <2>3, <2>6
        <3>2. g[1 .. k - 1] = h[1 .. k - 1] /\ h[1 .. k - 1] \in Nat
            BY <2>2, <3>1
        <3>3. h[1 .. k] = h[1 .. k - 1] + w[k]
            BY <3>1, TotalOfInterval
        <3>4. g[1 .. k] = g[1 .. k - 1] + v[k]
            <4>1. k \in 1 .. n + 1 /\ n + 1 \in Nat
                BY <3>1
            <4> QED
                BY <4>1, TotalOfInterval
        <3>5. h[1 .. k] \in Nat /\ g[1 .. k] = h[1 .. k]
            BY <3>1, <3>2, <3>3, <3>4
        <3> QED
            BY <2>2, <3>5
    <2> QED
        BY <2>3, <2>5, <2>6
<1>3. g[1 .. n] = h[1 .. n] /\ h[1 .. n] \in Nat
    BY <1>2
<1>4. g[1 .. n + 1] = g[1 .. n] + v[n + 1]
    <2>1. n + 1 \in Nat /\ n + 1 \in 1 .. n + 1 /\ (n + 1) - 1 = n
        OBVIOUS
    <2>2. g[1 .. n + 1] = g[1 .. (n + 1) - 1] + v[n + 1]
        BY <2>1, TotalOfInterval
    <2> QED
        BY <2>1, <2>2
<1> QED
    BY <1>3, <1>4

\* FoldLeft over a sequence of payloads is a total.
LEMMA MentionSumIsTotal ==
    ASSUME NEW q \in Seq(Msgs), NEW key, NEW w,
           \A i \in 1 .. Len(q) : w[i] = Mentioned(EntityRows(q[i]), key),
           \A i \in 1 .. Len(q) : w[i] \in Nat
    PROVE  \E h : IsTotal(h, Len(q), w) /\ MentionSum(q, key) = h[1 .. Len(q)]
<1> DEFINE n == Len(q)
           S == SUBSET (1 .. n)
           IsFold(h) == h = [s \in S |-> IF s = {} THEN 0
                              ELSE h[s \ {Max(s)}] + Mentioned(EntityRows(q[Max(s)]), key)]
<1>1. n \in Nat /\ DOMAIN q = 1 .. n
    OBVIOUS
<1>2. ASSUME NEW h PROVE IsFold(h) <=> IsTotal(h, n, w)
    <2>1. ASSUME NEW s \in S, s # {} PROVE w[Max(s)] = Mentioned(EntityRows(q[Max(s)]), key)
        <3>1. Max(s) \in 1 .. n
            BY <1>1, <2>1, LastExists
        <3> QED
            BY <3>1
    <2>2. [s \in S |-> IF s = {} THEN 0 ELSE h[s \ {Max(s)}] + w[Max(s)]]
              = [s \in S |-> IF s = {} THEN 0
                     ELSE h[s \ {Max(s)}] + Mentioned(EntityRows(q[Max(s)]), key)]
        <3> HIDE DEF S
        <3> QED
            BY <2>1
    <2> QED
        BY <2>2 DEF IsTotal
<1>3. MentionSum(q, key) = (CHOOSE h : IsFold(h))[1 .. n]
    BY <1>1 DEF MentionSum, FoldLeft, MapThenFoldSet
<1>4. \E h : IsTotal(h, n, w)
    BY <1>1, TotalExists
<1>5. IsFold(CHOOSE h : IsFold(h))
    <2>1. \E h : IsFold(h)
        BY <1>2, <1>4
    <2> HIDE DEF IsFold
    <2> QED
        BY <2>1
<1> QED
    BY <1>2, <1>3, <1>5

\* The mentions in one payload more.
LEMMA MentionSumOfAppend ==
    ASSUME NEW q \in Seq(Msgs), NEW p \in Msgs, NEW key,
           \A m \in Msgs : Mentioned(EntityRows(m), key) \in Nat
    PROVE  /\ MentionSum(q, key) \in Nat
           /\ MentionSum(Append(q, p), key)
                  = MentionSum(q, key) + Mentioned(EntityRows(p), key)
<1> DEFINE n == Len(q)
           r == Append(q, p)
           w == [i \in 1 .. n |-> Mentioned(EntityRows(q[i]), key)]
           v == [i \in 1 .. n + 1 |-> Mentioned(EntityRows(r[i]), key)]
<1>1. /\ n \in Nat /\ r \in Seq(Msgs) /\ Len(r) = n + 1 /\ r[n + 1] = p
      /\ \A i \in 1 .. n : r[i] = q[i]
    BY AppendProperties
<1>2. \A i \in 1 .. n : w[i] = Mentioned(EntityRows(q[i]), key) /\ w[i] \in Nat
    OBVIOUS
<1>3. \A i \in 1 .. n + 1 : v[i] = Mentioned(EntityRows(r[i]), key) /\ v[i] \in Nat
    <2>1. \A i \in 1 .. n + 1 : r[i] \in Msgs
        BY <1>1
    <2> HIDE DEF r
    <2> QED
        BY <2>1
<1>4. n + 1 \in 1 .. n + 1 /\ \A i \in 1 .. n : i \in 1 .. n + 1
    BY <1>1
<1>5. \A i \in 1 .. n : v[i] = w[i]
    BY <1>1, <1>2, <1>3, <1>4
<1>6. v[n + 1] = Mentioned(EntityRows(p), key) /\ v[n + 1] \in Nat
    BY <1>1, <1>3, <1>4
<1> HIDE DEF w, v, r
<1>7. PICK h : IsTotal(h, n, w) /\ MentionSum(q, key) = h[1 .. n]
    BY <1>2, MentionSumIsTotal
<1>8. PICK g : IsTotal(g, n + 1, v) /\ MentionSum(r, key) = g[1 .. n + 1]
    BY <1>1, <1>3, MentionSumIsTotal
<1>9. h[1 .. n] \in Nat /\ g[1 .. n + 1] = h[1 .. n] + v[n + 1]
    <2> HIDE DEF n
    <2>1. n \in Nat /\ \A i \in 1 .. n : w[i] \in Nat
        BY <1>1, <1>2
    <2>2. IsTotal(h, n, w) /\ IsTotal(g, n + 1, v)
        BY <1>7, <1>8
    <2> QED
        BY <1>5, <1>6, <2>1, <2>2, TotalAppend
<1> QED
    BY <1>6, <1>7, <1>8, <1>9 DEF r

\* No payload, no mention.
LEMMA NoneMentioned == ASSUME NEW key PROVE MentionSum(<<>>, key) = 0
<1>1. PICK h : IsTotal(h, 0, <<>>) /\ MentionSum(<<>>, key) = h[1 .. 0]
    <2> DEFINE q == <<>>
               w == <<>>
    <2>1. q \in Seq(Msgs) /\ Len(q) = 0
        OBVIOUS
    <2> HIDE DEF q, w
    <2>2. \A i \in 1 .. Len(q) : FALSE
        BY <2>1
    <2>3. /\ \A i \in 1 .. Len(q) : w[i] = Mentioned(EntityRows(q[i]), key)
          /\ \A i \in 1 .. Len(q) : w[i] \in Nat
        BY <2>2
    <2>4. \E h : IsTotal(h, Len(q), w) /\ MentionSum(q, key) = h[1 .. Len(q)]
        BY <2>1, <2>3, MentionSumIsTotal
    <2> QED
        BY <2>1, <2>4 DEF q, w
<1>2. h[{}] = 0 /\ 1 .. 0 = {}
    BY <1>1 DEF IsTotal
<1> QED
    BY <1>1, <1>2

\* The same for the relations.
LEMMA EdgeSumIsTotal ==
    ASSUME NEW q \in Seq(Msgs), NEW e, NEW w,
           \A i \in 1 .. Len(q) : w[i] = Joined(RelationRows(q[i]), e),
           \A i \in 1 .. Len(q) : w[i] \in Nat
    PROVE  \E h : IsTotal(h, Len(q), w) /\ EdgeSum(q, e) = h[1 .. Len(q)]
<1> DEFINE n == Len(q)
           S == SUBSET (1 .. n)
           IsFold(h) == h = [s \in S |-> IF s = {} THEN 0
                              ELSE h[s \ {Max(s)}] + Joined(RelationRows(q[Max(s)]), e)]
<1>1. n \in Nat /\ DOMAIN q = 1 .. n
    OBVIOUS
<1>2. ASSUME NEW h PROVE IsFold(h) <=> IsTotal(h, n, w)
    <2>1. ASSUME NEW s \in S, s # {} PROVE w[Max(s)] = Joined(RelationRows(q[Max(s)]), e)
        <3>1. Max(s) \in 1 .. n
            BY <1>1, <2>1, LastExists
        <3> QED
            BY <3>1
    <2>2. [s \in S |-> IF s = {} THEN 0 ELSE h[s \ {Max(s)}] + w[Max(s)]]
              = [s \in S |-> IF s = {} THEN 0
                     ELSE h[s \ {Max(s)}] + Joined(RelationRows(q[Max(s)]), e)]
        <3> HIDE DEF S
        <3> QED
            BY <2>1
    <2> QED
        BY <2>2 DEF IsTotal
<1>3. EdgeSum(q, e) = (CHOOSE h : IsFold(h))[1 .. n]
    BY <1>1 DEF EdgeSum, FoldLeft, MapThenFoldSet
<1>4. \E h : IsTotal(h, n, w)
    BY <1>1, TotalExists
<1>5. IsFold(CHOOSE h : IsFold(h))
    <2>1. \E h : IsFold(h)
        BY <1>2, <1>4
    <2> HIDE DEF IsFold
    <2> QED
        BY <2>1
<1> QED
    BY <1>2, <1>3, <1>5

\* The occurrences of an edge in one payload more.
LEMMA EdgeSumOfAppend ==
    ASSUME NEW q \in Seq(Msgs), NEW p \in Msgs, NEW e,
           \A m \in Msgs : Joined(RelationRows(m), e) \in Nat
    PROVE  /\ EdgeSum(q, e) \in Nat
           /\ EdgeSum(Append(q, p), e)
                  = EdgeSum(q, e) + Joined(RelationRows(p), e)
<1> DEFINE n == Len(q)
           r == Append(q, p)
           w == [i \in 1 .. n |-> Joined(RelationRows(q[i]), e)]
           v == [i \in 1 .. n + 1 |-> Joined(RelationRows(r[i]), e)]
<1>1. /\ n \in Nat /\ r \in Seq(Msgs) /\ Len(r) = n + 1 /\ r[n + 1] = p
      /\ \A i \in 1 .. n : r[i] = q[i]
    BY AppendProperties
<1>2. \A i \in 1 .. n : w[i] = Joined(RelationRows(q[i]), e) /\ w[i] \in Nat
    OBVIOUS
<1>3. \A i \in 1 .. n + 1 : v[i] = Joined(RelationRows(r[i]), e) /\ v[i] \in Nat
    <2>1. \A i \in 1 .. n + 1 : r[i] \in Msgs
        BY <1>1
    <2> HIDE DEF r
    <2> QED
        BY <2>1
<1>4. n + 1 \in 1 .. n + 1 /\ \A i \in 1 .. n : i \in 1 .. n + 1
    BY <1>1
<1>5. \A i \in 1 .. n : v[i] = w[i]
    BY <1>1, <1>2, <1>3, <1>4
<1>6. v[n + 1] = Joined(RelationRows(p), e) /\ v[n + 1] \in Nat
    BY <1>1, <1>3, <1>4
<1> HIDE DEF w, v, r
<1>7. PICK h : IsTotal(h, n, w) /\ EdgeSum(q, e) = h[1 .. n]
    BY <1>2, EdgeSumIsTotal
<1>8. PICK g : IsTotal(g, n + 1, v) /\ EdgeSum(r, e) = g[1 .. n + 1]
    BY <1>1, <1>3, EdgeSumIsTotal
<1>9. h[1 .. n] \in Nat /\ g[1 .. n + 1] = h[1 .. n] + v[n + 1]
    <2> HIDE DEF n
    <2>1. n \in Nat /\ \A i \in 1 .. n : w[i] \in Nat
        BY <1>1, <1>2
    <2>2. IsTotal(h, n, w) /\ IsTotal(g, n + 1, v)
        BY <1>7, <1>8
    <2> QED
        BY <1>5, <1>6, <2>1, <2>2, TotalAppend
<1> QED
    BY <1>6, <1>7, <1>8, <1>9 DEF r

\* No payload, no edge.
LEMMA NoneJoined == ASSUME NEW e PROVE EdgeSum(<<>>, e) = 0
<1>1. PICK h : IsTotal(h, 0, <<>>) /\ EdgeSum(<<>>, e) = h[1 .. 0]
    <2> DEFINE q == <<>>
               w == <<>>
    <2>1. q \in Seq(Msgs) /\ Len(q) = 0
        OBVIOUS
    <2> HIDE DEF q, w
    <2>2. \A i \in 1 .. Len(q) : FALSE
        BY <2>1
    <2>3. /\ \A i \in 1 .. Len(q) : w[i] = Joined(RelationRows(q[i]), e)
          /\ \A i \in 1 .. Len(q) : w[i] \in Nat
        BY <2>2
    <2>4. \E h : IsTotal(h, Len(q), w) /\ EdgeSum(q, e) = h[1 .. Len(q)]
        BY <2>1, <2>3, EdgeSumIsTotal
    <2> QED
        BY <2>1, <2>4 DEF q, w
<1>2. h[{}] = 0 /\ 1 .. 0 = {}
    BY <1>1 DEF IsTotal
<1> QED
    BY <1>1, <1>2

-----------------------------------------------------------------------------
\* D: the places A of a sequence of length m and, after them, the places B of
\* one of length n.
PlacesOfBoth(D, A, B, m, n) ==
    /\ m \in Nat /\ n \in Nat
    /\ A \subseteq 1 .. m /\ B \subseteq 1 .. n
    /\ \A i : i \in D <=> i \in A \/ \E j \in B : i = m + j

\* The places of two sequences that are joined add up.
LEMMA CountOfConcat ==
    ASSUME NEW D, NEW A, NEW B, NEW m, NEW n, PlacesOfBoth(D, A, B, m, n)
    PROVE  Cardinality(D) = Cardinality(A) + Cardinality(B)
<1> DEFINE C == {m + j : j \in B}
           f == [j \in B |-> m + j]
<1>0. m \in Nat /\ n \in Nat /\ A \subseteq 1 .. m /\ B \subseteq 1 .. n
    BY DEF PlacesOfBoth
<1>1. IsFiniteSet(A) /\ Cardinality(A) \in Nat
    <2>1. IsFiniteSet(1 .. m)
        BY <1>0, FS_Interval
    <2> QED
        BY <1>0, <2>1, FS_Subset, FS_CardinalityType
<1>2. IsFiniteSet(B) /\ Cardinality(B) \in Nat
    <2>1. IsFiniteSet(1 .. n)
        BY <1>0, FS_Interval
    <2> QED
        BY <1>0, <2>1, FS_Subset, FS_CardinalityType
<1>3. f \in Bijection(B, C)
    <2>1. \A i, j \in B : m + i = m + j => i = j
        BY <1>0
    <2>2. f \in [B -> C] /\ \A i \in B : f[i] = m + i
        OBVIOUS
    <2>3. \A c \in C : \E i \in B : f[i] = c
        BY <2>2
    <2>4. \A i, j \in B : f[i] = f[j] => i = j
        BY <2>1, <2>2
    <2> HIDE DEF f, C
    <2> QED
        BY <2>2, <2>3, <2>4 DEF Bijection, Injection, Surjection, IsInjective
<1>4. IsFiniteSet(C) /\ Cardinality(C) = Cardinality(B)
    <2> HIDE DEF C, f
    <2> QED
        BY <1>2, <1>3, FS_Bijection DEF ExistsBijection
<1>5. A \cap C = {} /\ D = A \cup C
    BY <1>0 DEF PlacesOfBoth
<1> HIDE DEF C
<1>6. Cardinality(A \cup C) = Cardinality(A) + Cardinality(C) - Cardinality({})
    BY <1>1, <1>4, <1>5, FS_Union
<1>7. Cardinality({}) = 0
    BY FS_EmptySet
<1> QED
    BY <1>1, <1>2, <1>4, <1>5, <1>6, <1>7

\* A count of places is a natural number, zero only where there is none.
LEMMA CountOfPlaces ==
    ASSUME NEW n \in Nat, NEW A \in SUBSET (1 .. n)
    PROVE  IsFiniteSet(A) /\ Cardinality(A) \in Nat /\ (Cardinality(A) = 0 <=> A = {})
<1>1. IsFiniteSet(1 .. n)
    BY FS_Interval
<1>2. IsFiniteSet(A)
    BY <1>1, FS_Subset
<1> QED
    BY <1>2, FS_CardinalityType, FS_EmptySet

\* What Mentioned and Joined return, for a row of rows.
LEMMA MentionedType ==
    ASSUME NEW S, NEW rows \in Seq(S), NEW k
    PROVE  /\ Mentioned(rows, k) \in Nat
           /\ (\E r \in ToSet(rows) : r.key = k) => Mentioned(rows, k) > 0
           /\ rows = <<>> => Mentioned(rows, k) = 0
<1> DEFINE A == {i \in DOMAIN rows : rows[i].key = k}
<1>1. Len(rows) \in Nat /\ A \in SUBSET (1 .. Len(rows))
    OBVIOUS
<1>2. Cardinality(A) \in Nat /\ (Cardinality(A) = 0 <=> A = {})
    <2> HIDE DEF A
    <2> QED
        BY <1>1, CountOfPlaces
<1>3. Mentioned(rows, k) = Cardinality(A)
    BY DEF Mentioned
<1>4. (\E r \in ToSet(rows) : r.key = k) => A # {}
    BY DEF ToSet
<1>5. rows = <<>> => A = {}
    OBVIOUS
<1> HIDE DEF A
<1> QED
    BY <1>2, <1>3, <1>4, <1>5

\* The same for a pair of ends.
LEMMA JoinedType ==
    ASSUME NEW S, NEW rows \in Seq(S), NEW e
    PROVE  Joined(rows, e) \in Nat /\ (rows = <<>> => Joined(rows, e) = 0)
<1> DEFINE A == {i \in DOMAIN rows : <<rows[i].head, rows[i].tail>> = e}
<1>1. Len(rows) \in Nat /\ A \in SUBSET (1 .. Len(rows))
    OBVIOUS
<1>2. Joined(rows, e) = Cardinality(A)
    BY DEF Joined
<1>3. rows = <<>> => A = {}
    OBVIOUS
<1> HIDE DEF A
<1>4. IsFiniteSet(A) /\ Cardinality(A) \in Nat /\ (Cardinality(A) = 0 <=> A = {})
    BY <1>1, CountOfPlaces
<1> QED
    BY <1>2, <1>3, <1>4

\* Joining two rows of rows adds what they count.
LEMMA MentionedConcat ==
    ASSUME NEW S, NEW q \in Seq(S), NEW r \in Seq(S), NEW k
    PROVE  Mentioned(q \o r, k) = Mentioned(q, k) + Mentioned(r, k)
<1> DEFINE A == {i \in DOMAIN q : q[i].key = k}
           B == {i \in DOMAIN r : r[i].key = k}
           b == q \o r
           C == {i \in DOMAIN b : b[i].key = k}
           m == Len(q)
           n == Len(r)
<1>1. /\ m \in Nat /\ n \in Nat /\ A \in SUBSET (1 .. m) /\ B \in SUBSET (1 .. n)
      /\ DOMAIN q = 1 .. m /\ DOMAIN r = 1 .. n
    OBVIOUS
<1>2. /\ DOMAIN b = 1 .. m + n
      /\ \A i \in 1 .. m + n : b[i] = IF i <= m THEN q[i] ELSE r[i - m]
    BY ConcatProperties
<1>3. PlacesOfBoth(C, A, B, m, n)
    <2> HIDE DEF m, n, b
    <2>1. ASSUME NEW i \in C PROVE i \in A \/ \E j \in B : i = m + j
        <3>1. CASE i <= m
            BY <1>1, <1>2, <3>1
        <3>2. CASE i > m
            <4>1. i - m \in 1 .. n /\ i = m + (i - m) /\ b[i] = r[i - m]
                BY <1>1, <1>2, <3>2
            <4> QED
                BY <1>1, <4>1
        <3> QED
            BY <1>1, <1>2, <3>1, <3>2
    <2>2. ASSUME NEW i \in A PROVE i \in C
        BY <1>1, <1>2
    <2>3. ASSUME NEW j \in B PROVE m + j \in C
        <3>1. m + j \in 1 .. m + n /\ ~ (m + j <= m) /\ (m + j) - m = j
            BY <1>1
        <3>2. b[m + j] = r[j]
            BY <1>2, <3>1
        <3> QED
            BY <1>2, <3>1, <3>2
    <2> QED
        BY <1>1, <2>1, <2>2, <2>3 DEF PlacesOfBoth
<1>4. /\ Mentioned(q, k) = Cardinality(A) /\ Mentioned(r, k) = Cardinality(B)
      /\ Mentioned(q \o r, k) = Cardinality(C)
    BY DEF Mentioned
<1> HIDE DEF A, B, C, m, n
<1> QED
    BY <1>3, <1>4, CountOfConcat

\* Joining two rows of relations adds what they count.
LEMMA JoinedConcat ==
    ASSUME NEW S, NEW q \in Seq(S), NEW r \in Seq(S), NEW e
    PROVE  Joined(q \o r, e) = Joined(q, e) + Joined(r, e)
<1> DEFINE A == {i \in DOMAIN q : <<q[i].head, q[i].tail>> = e}
           B == {i \in DOMAIN r : <<r[i].head, r[i].tail>> = e}
           b == q \o r
           C == {i \in DOMAIN b : <<b[i].head, b[i].tail>> = e}
           m == Len(q)
           n == Len(r)
<1>1. /\ m \in Nat /\ n \in Nat /\ A \in SUBSET (1 .. m) /\ B \in SUBSET (1 .. n)
      /\ DOMAIN q = 1 .. m /\ DOMAIN r = 1 .. n
    OBVIOUS
<1>2. /\ DOMAIN b = 1 .. m + n
      /\ \A i \in 1 .. m + n : b[i] = IF i <= m THEN q[i] ELSE r[i - m]
    BY ConcatProperties
<1>3. PlacesOfBoth(C, A, B, m, n)
    <2> HIDE DEF m, n, b
    <2>1. ASSUME NEW i \in C PROVE i \in A \/ \E j \in B : i = m + j
        <3>1. CASE i <= m
            BY <1>1, <1>2, <3>1
        <3>2. CASE i > m
            <4>1. i - m \in 1 .. n /\ i = m + (i - m) /\ b[i] = r[i - m]
                BY <1>1, <1>2, <3>2
            <4> QED
                BY <1>1, <4>1
        <3> QED
            BY <1>1, <1>2, <3>1, <3>2
    <2>2. ASSUME NEW i \in A PROVE i \in C
        BY <1>1, <1>2
    <2>3. ASSUME NEW j \in B PROVE m + j \in C
        <3>1. m + j \in 1 .. m + n /\ ~ (m + j <= m) /\ (m + j) - m = j
            BY <1>1
        <3>2. b[m + j] = r[j]
            BY <1>2, <3>1
        <3> QED
            BY <1>2, <3>1, <3>2
    <2> QED
        BY <1>1, <2>1, <2>2, <2>3 DEF PlacesOfBoth
<1>4. /\ Joined(q, e) = Cardinality(A) /\ Joined(r, e) = Cardinality(B)
      /\ Joined(q \o r, e) = Cardinality(C)
    BY DEF Joined
<1> HIDE DEF A, B, C, m, n
<1> QED
    BY <1>3, <1>4, CountOfConcat
-----------------------------------------------------------------------------
\* The enriched stream is a stream of the bus.
LEMMA EnrichedIsStream == Enriched \in Streams /\ {Enriched} \in SUBSET Streams
BY StreamAssumption

\* Mentions and pairs of a payload come in sequences.
LEMMA RowsOf ==
    ASSUME NEW m \in Msgs
    PROVE  /\ DOMAIN Mentions[m] = 1 .. Len(Mentions[m]) /\ Len(Mentions[m]) \in Nat
           /\ DOMAIN Pairs[m] = 1 .. Len(Pairs[m]) /\ Len(Pairs[m]) \in Nat
BY RowsAssumption

\* The rows of a payload are rows.
LEMMA EntityRowsType == ASSUME NEW m \in Msgs PROVE EntityRows(m) \in Seq(EntityRow)
<1>1. ASSUME NEW k \in DOMAIN Mentions[m] PROVE EntityRows(m)[k] \in EntityRow
    <2>1. EntityRows(m)[k].key \in Keys
        BY DEF Keys
    <2>2. EntityRows(m)[k] = [key |-> EntityRows(m)[k].key, post |-> m]
        BY DEF EntityRows
    <2> QED
        BY <2>1, <2>2 DEF EntityRow
<1> DEFINE rows == EntityRows(m)
           n == Len(Mentions[m])
<1>2. rows = [k \in 1 .. n |-> rows[k]] /\ n \in Nat
    BY RowsOf DEF EntityRows
<1>3. \A k \in 1 .. n : rows[k] \in EntityRow
    BY <1>1, RowsOf
<1> HIDE DEF rows, n
<1>4. rows \in Seq(EntityRow)
    BY <1>2, <1>3
<1> QED
    BY <1>4 DEF rows

\* The QID of the surface form of a mention is that of a mention of the form:
\* the key made of it is the key of a row.
LEMMA KeyOfForm ==
    ASSUME NEW m \in Msgs, NEW i \in DOMAIN Mentions[m]
    PROVE  \E e \in ToSet(EntityRows(m)) :
               e.key = EntityKey(Mentions[m][i].text, Mentions[m][i].type,
                           QidOf(m, Mentions[m][i].text, Mentions[m][i].type))
<1> DEFINE text == Mentions[m][i].text
           type == Mentions[m][i].type
           same == {j \in DOMAIN Mentions[m] :
                       Mentions[m][j].text = text /\ Mentions[m][j].type = type}
<1>1. i \in same /\ same # {} /\ same \in SUBSET (1 .. Len(Mentions[m]))
    BY RowsOf
<1>2. Max(same) \in same
    <2> HIDE DEF same
    <2> QED
        BY <1>1, RowsOf, LastExists
<1>3. QidOf(m, text, type) = Mentions[m][Max(same)].qid
    BY <1>1 DEF QidOf
<1> DEFINE j == Max(same)
<1>4. j \in DOMAIN Mentions[m] /\ Mentions[m][j].text = text /\ Mentions[m][j].type = type
    BY <1>2
<1> HIDE DEF j
<1>5. EntityRows(m)[j].key = EntityKey(text, type, QidOf(m, text, type))
    BY <1>3, <1>4 DEF EntityRows, j
<1>6. EntityRows(m)[j] \in ToSet(EntityRows(m))
    BY <1>4 DEF EntityRows, ToSet
<1> QED
    BY <1>5, <1>6

\* The relations of a payload end at its entities, under their keys.
LEMMA RelationRowsFit ==
    ASSUME NEW m \in Msgs
    PROVE  /\ RelationRows(m) \in Seq(RelationRow)
           /\ EndsAmong(RelationRows(m), EntityRows(m))
<1>1. ASSUME NEW k \in DOMAIN Pairs[m]
      PROVE  /\ \E e \in ToSet(EntityRows(m)) : e.key = RelationRows(m)[k].head
             /\ \E e \in ToSet(EntityRows(m)) : e.key = RelationRows(m)[k].tail
    <2>1. PICK i, j \in DOMAIN Mentions[m] :
              /\ Mentions[m][i].text = Pairs[m][k].head
              /\ Mentions[m][i].type = Pairs[m][k].head_type
              /\ Mentions[m][j].text = Pairs[m][k].tail
              /\ Mentions[m][j].type = Pairs[m][k].tail_type
        BY PairAssumption
    <2>2. /\ RelationRows(m)[k].head
                 = EntityKey(Mentions[m][i].text, Mentions[m][i].type,
                       QidOf(m, Mentions[m][i].text, Mentions[m][i].type))
          /\ RelationRows(m)[k].tail
                 = EntityKey(Mentions[m][j].text, Mentions[m][j].type,
                       QidOf(m, Mentions[m][j].text, Mentions[m][j].type))
        BY <2>1 DEF RelationRows
    <2> QED
        BY <2>2, KeyOfForm
<1>2. \A e \in ToSet(EntityRows(m)) : e.key \in Keys
    <2>1. ToSet(EntityRows(m)) \subseteq EntityRow
        BY EntityRowsType, ElementsOfSeq
    <2> QED
        BY <2>1 DEF EntityRow
<1>3. ASSUME NEW k \in DOMAIN Pairs[m] PROVE RelationRows(m)[k] \in RelationRow
    <2>1. RelationRows(m)[k].head \in Keys /\ RelationRows(m)[k].tail \in Keys
        BY <1>1, <1>2
    <2>2. RelationRows(m)[k] = [head |-> RelationRows(m)[k].head,
                                tail |-> RelationRows(m)[k].tail, post |-> m]
        BY DEF RelationRows
    <2> QED
        BY <2>1, <2>2 DEF RelationRow
<1>5. RelationRows(m) \in Seq(RelationRow)
    <2> DEFINE rows == RelationRows(m)
               n == Len(Pairs[m])
    <2>1. rows = [k \in 1 .. n |-> rows[k]] /\ n \in Nat
        BY RowsOf DEF RelationRows
    <2>2. \A k \in 1 .. n : rows[k] \in RelationRow
        BY <1>3, RowsOf
    <2> HIDE DEF rows, n
    <2>3. rows \in Seq(RelationRow)
        BY <2>1, <2>2
    <2> QED
        BY <2>3 DEF rows
<1>6. EndsAmong(RelationRows(m), EntityRows(m))
    <2>1. ASSUME NEW r \in ToSet(RelationRows(m))
          PROVE  \E k \in DOMAIN Pairs[m] : r = RelationRows(m)[k]
        BY DEF ToSet, RelationRows
    <2> QED
        BY <1>1, <2>1 DEF EndsAmong
<1> QED
    BY <1>5, <1>6

\* Rows that travel together can be joined.
LEMMA EndsOfConcat ==
    ASSUME NEW q \in Seq(RelationRow), NEW r \in Seq(RelationRow),
           NEW a \in Seq(EntityRow), NEW b \in Seq(EntityRow),
           EndsAmong(q, a), EndsAmong(r, b)
    PROVE  EndsAmong(q \o r, a \o b)
<1>1. ToSet(q \o r) = ToSet(q) \cup ToSet(r) /\ ToSet(a \o b) = ToSet(a) \cup ToSet(b)
    BY ElementsOfConcat
<1> QED
    BY <1>1 DEF EndsAmong

\* No rows end nowhere, and relations without entities are none.
LEMMA NoRowsEnd ==
    /\ EndsAmong(<<>>, <<>>)
    /\ \A q \in Seq(RelationRow) : EndsAmong(q, <<>>) => q = <<>>
<1>1. ToSet(<<>>) = {}
    BY DEF ToSet
<1>2. ASSUME NEW q \in Seq(RelationRow), q # <<>> PROVE q[1] \in ToSet(q)
    BY <1>2 DEF ToSet
<1> QED
    BY <1>1, <1>2 DEF EndsAmong

\* What a second one makes of a queue of one.
LEMMA AppendToOne == ASSUME NEW a, NEW b PROVE Append(<<b>>, a) = <<b, a>>
<1> DEFINE S == {a, b}
           q == <<b>>
           r == <<b, a>>
<1>1. q \in Seq(S) /\ Len(q) = 1 /\ q[1] = b /\ a \in S
    OBVIOUS
<1>2. r \in Seq(S) /\ Len(r) = 2 /\ r[1] = b /\ r[2] = a
    OBVIOUS
<1> HIDE DEF S, q, r
<1>3. /\ Append(q, a) \in Seq(S) /\ Len(Append(q, a)) = Len(q) + 1
      /\ \A i \in 1 .. Len(q) : Append(q, a)[i] = q[i]
      /\ Append(q, a)[Len(q) + 1] = a
    <2>1. q \in Seq(S) /\ a \in S
        BY <1>1
    <2> QED
        BY <2>1, AppendProperties
<1>4. /\ Append(q, a) \in Seq(S) /\ Len(Append(q, a)) = 2
      /\ Append(q, a)[1] = b /\ Append(q, a)[2] = a
    BY <1>1, <1>3
<1>5. \A i \in 1 .. 2 : i = 1 \/ i = 2
    OBVIOUS
<1>6. Append(q, a) = r
    BY <1>2, <1>4, <1>5, SeqEqual
<1> QED
    BY <1>6 DEF q, r

\* The lock: who holds it after a step of its queue.
LEMMA QueueOf ==
    ASSUME NEW q \in Queues
    PROVE  /\ Main \notin ToSet(q) =>
                  /\ Append(q, Main) \in Queues
                  /\ ToSet(Append(q, Main)) = ToSet(q) \cup {Main}
                  /\ q # <<>> => Head(Append(q, Main)) = Head(q)
           /\ Timer \notin ToSet(q) =>
                  /\ Append(q, Timer) \in Queues
                  /\ ToSet(Append(q, Timer)) = ToSet(q) \cup {Timer}
                  /\ q # <<>> => Head(Append(q, Timer)) = Head(q)
           /\ q # <<>> =>
                  /\ Tail(q) \in Queues
                  /\ ToSet(Tail(q)) = ToSet(q) \ {Head(q)}
           /\ q # <<>> => Head(q) \in ToSet(q)
           /\ q = <<>> => ToSet(q) = {}
           /\ ToSet(q) \subseteq {Main, Timer}
<1>1. /\ ToSet(<<>>) = {} /\ ToSet(<<Main>>) = {Main} /\ ToSet(<<Timer>>) = {Timer}
      /\ ToSet(<<Main, Timer>>) = {Main, Timer}
      /\ ToSet(<<Timer, Main>>) = {Main, Timer}
    BY DEF ToSet
<1>2. /\ Append(<<>>, Main) = <<Main>> /\ Append(<<Timer>>, Main) = <<Timer, Main>>
      /\ Append(<<>>, Timer) = <<Timer>> /\ Append(<<Main>>, Timer) = <<Main, Timer>>
    BY AppendToOne
<1>3. /\ Tail(<<Main>>) = <<>> /\ Tail(<<Timer>>) = <<>>
      /\ Tail(<<Main, Timer>>) = <<Timer>> /\ Tail(<<Timer, Main>>) = <<Main>>
    OBVIOUS
<1>4. /\ Head(<<Main>>) = Main /\ Head(<<Timer>>) = Timer
      /\ Head(<<Main, Timer>>) = Main /\ Head(<<Timer, Main>>) = Timer
    OBVIOUS
<1>5. CASE q = <<>>
    BY <1>1, <1>2, <1>5 DEF Queues
<1>6. CASE q = <<Main>>
    BY <1>1, <1>2, <1>3, <1>4, <1>6, TaskAssumption DEF Queues
<1>7. CASE q = <<Timer>>
    BY <1>1, <1>2, <1>3, <1>4, <1>7, TaskAssumption DEF Queues
<1>8. CASE q = <<Main, Timer>>
    BY <1>1, <1>3, <1>4, <1>8, TaskAssumption DEF Queues
<1>9. CASE q = <<Timer, Main>>
    BY <1>1, <1>3, <1>4, <1>9, TaskAssumption DEF Queues
<1> QED
    BY <1>5, <1>6, <1>7, <1>8, <1>9 DEF Queues
-----------------------------------------------------------------------------
\* Every step of the graph builder is a step of the bus or leaves it alone.
LEMMA GraphStepIsBusStep == [Next]_vars => [BusNext]_busVars
<1>1. ASSUME NEW m \in Msgs, PublishEnriched(m) PROVE [BusNext]_busVars
    BY <1>1, EnrichedIsStream DEF PublishEnriched, BusNext
<1>2. CASE Start \/ Read \/ Take \/ AckEnriched
    BY <1>2, EnrichedIsStream DEF Start, Read, Take, AckEnriched, BusNext
<1>3. CASE Buffer \/ BufferAndFlush
    BY <1>3, EnrichedIsStream DEF Buffer, BufferAndFlush, BusNext
<1>4. CASE TimerStep \/ Exit
    BY <1>4 DEF TimerStep, TimerWakes, TimerSkips, TimerFlushes, Exit
<1>5. FlushOver => [BusNext]_busVars
    BY EnrichedIsStream DEF FlushOver, BusNext
<1>6. CASE Upsert \/ UpsertFails
    BY <1>5, <1>6 DEF Upsert, EntitiesUpserted, RelationsUpserted, UpsertFails
<1>7. CASE Stop
    BY <1>7, EnrichedIsStream DEF Stop, BusNext
<1>8. CASE Crash
    BY <1>8, EnrichedIsStream DEF Crash, BusNext
<1>9. CASE UNCHANGED vars
    BY <1>9 DEF vars
<1> QED
    BY <1>1, <1>2, <1>3, <1>4, <1>6, <1>7, <1>8, <1>9 DEF Next, MainStep

\* The graph builder uses the bus as its consumers are meant to.
THEOREM GraphRunsOnBus == Spec => BusSpec
<1>1. Init => BusInit
    BY DEF Init
<1> QED
    BY <1>1, GraphStepIsBusStep, PTL DEF Spec, BusSpec

\* What the operations of the bus do to the phase of the consumer.
LEMMA PhaseKinds ==
    ASSUME BusTypeOK
    PROVE  /\ phase[Enriched] \in Phases
           /\ StartConsume(Enriched) =>
                  phase[Enriched] = "down" /\ phase'[Enriched] = "reading"
           /\ ReadGroup(Enriched) =>
                  phase[Enriched] = "reading" /\ phase'[Enriched] = "fetched"
           /\ Yield(Enriched) =>
                  phase[Enriched] = "fetched" /\ phase'[Enriched] = "handling"
           /\ HandlerReturns(Enriched) =>
                  phase[Enriched] = "handling" /\ phase'[Enriched] = "acking"
           /\ Ack(Enriched) =>
                  phase[Enriched] = "acking" /\ phase'[Enriched] \in {"fetched", "reading"}
           /\ Close({Enriched}) => phase'[Enriched] = "down"
<1>1. phase \in [Streams -> Phases] /\ Enriched \in Streams
    BY EnrichedIsStream DEF BusTypeOK
<1>2. StartConsume(Enriched) =>
          phase[Enriched] = "down" /\ phase'[Enriched] = "reading"
    BY <1>1 DEF StartConsume
<1>3. ReadGroup(Enriched) =>
          phase[Enriched] = "reading" /\ phase'[Enriched] = "fetched"
    BY <1>1 DEF ReadGroup
<1>4. Yield(Enriched) =>
          phase[Enriched] = "fetched" /\ phase'[Enriched] = "handling"
    BY <1>1 DEF Yield
<1>5. HandlerReturns(Enriched) =>
          phase[Enriched] = "handling" /\ phase'[Enriched] = "acking"
    BY <1>1 DEF HandlerReturns
<1>6. Ack(Enriched) =>
          phase[Enriched] = "acking" /\ phase'[Enriched] \in {"fetched", "reading"}
    BY <1>1 DEF Ack, AfterAck
<1>7. Close({Enriched}) => phase'[Enriched] = "down"
    BY <1>1 DEF Close
<1> QED
    BY <1>1, <1>2, <1>3, <1>4, <1>5, <1>6, <1>7

\* A publisher does not move the consumer.
LEMMA PublishKeepsPhase ==
    ASSUME NEW m \in Msgs, PublishEnriched(m) PROVE phase' = phase
BY DEF PublishEnriched, Publish

\* The consumer's payload, and the buffers once its rows are in.
LEMMA PostRows ==
    ASSUME GraphInv, main = "queued"
    PROVE  /\ Post \in Msgs
           /\ EntityRows(Post) \in Seq(EntityRow) /\ RelationRows(Post) \in Seq(RelationRow)
           /\ entities \o EntityRows(Post) \in Seq(EntityRow)
           /\ relations \o RelationRows(Post) \in Seq(RelationRow)
           /\ EndsAmong(relations \o RelationRows(Post), entities \o EntityRows(Post))
<1>1. phase[Enriched] = "handling" /\ BusInv
    BY DEF GraphInv, InStep
<1>2. Post \in Msgs
    BY <1>1, EnrichedIsStream, EntryInLog DEF Post, Entry
<1>3. /\ EntityRows(Post) \in Seq(EntityRow) /\ RelationRows(Post) \in Seq(RelationRow)
      /\ EndsAmong(RelationRows(Post), EntityRows(Post))
    BY <1>2, EntityRowsType, RelationRowsFit
<1>4. /\ entities \in Seq(EntityRow) /\ relations \in Seq(RelationRow)
      /\ EndsAmong(relations, entities)
    BY DEF GraphInv, GraphTypes, TravelTogether
<1>5. /\ entities \o EntityRows(Post) \in Seq(EntityRow)
      /\ relations \o RelationRows(Post) \in Seq(RelationRow)
    BY <1>3, <1>4, ConcatProperties
<1> QED
    BY <1>2, <1>3, <1>4, <1>5, EndsOfConcat

\* What is in flight are rows.
LEMMA FlightRows ==
    ASSUME GraphInv
    PROVE  flight.entities \in Seq(EntityRow) /\ flight.relations \in Seq(RelationRow)
BY DEF GraphInv, GraphTypes

\* UPSERT_ENTITIES_BATCH counts every mention in flight.
LEMMA MergedNodes ==
    ASSUME GraphInv, MergeNodes
    PROVE  /\ nodes' \in [Keys -> Nat]
           /\ \A k \in Keys : nodes'[k] = nodes[k] + Mentioned(flight.entities, k)
<1>1. \A k \in Keys : nodes[k] \in Nat /\ Mentioned(flight.entities, k) \in Nat
    BY FlightRows, MentionedType DEF GraphInv, GraphTypes
<1> QED
    BY <1>1 DEF MergeNodes

\* The mentions a failure adds to the missed ones.
LEMMA MissedRows ==
    ASSUME GraphInv, NEW rows \in Seq(EntityRow), Misses(rows)
    PROVE  /\ missed' \in [Keys -> Nat]
           /\ \A k \in Keys : missed'[k] = missed[k] + Mentioned(rows, k)
<1>1. \A k \in Keys : missed[k] \in Nat /\ Mentioned(rows, k) \in Nat
    BY MentionedType DEF GraphInv, GraphTypes
<1> QED
    BY <1>1 DEF Misses

\* The relation rows a failure adds to the lost ones.
LEMMA SeveredRows ==
    ASSUME GraphInv, NEW rows \in Seq(RelationRow), Severs(rows)
    PROVE  /\ severed' \in [Edges -> Nat]
           /\ \A e \in Edges : severed'[e] = severed[e] + Joined(rows, e)
<1>1. \A e \in Edges : severed[e] \in Nat /\ Joined(rows, e) \in Nat
    BY JoinedType DEF GraphInv, GraphTypes
<1> QED
    BY <1>1 DEF Severs

\* UPSERT_RELATIONS_BATCH counts every row in flight once: all of them match.
LEMMA MergedEdges ==
    ASSUME GraphInv, stage = "relations", MergeEdges
    PROVE  /\ edges' \in [Edges -> Nat]
           /\ \A e \in Edges : edges'[e] = edges[e] + Joined(flight.relations, e)
<1> DEFINE rows == flight.relations
           Hits(e) == {k \in DOMAIN rows :
                          Matches(rows[k]) /\ <<rows[k].head, rows[k].tail>> = e}
<1>1. ASSUME NEW e \in Edges PROVE Cardinality(Hits(e)) = Joined(rows, e)
    <2>1. \A k \in DOMAIN rows : Matches(rows[k])
        <3>1. \A k \in DOMAIN rows : rows[k] \in ToSet(rows)
            BY DEF ToSet
        <3> QED
            BY <3>1 DEF GraphInv, NoRelationUnmatched
    <2>2. Hits(e) = {k \in DOMAIN rows : <<rows[k].head, rows[k].tail>> = e}
        BY <2>1
    <2> QED
        BY <2>2 DEF Joined
<1>2. \A e \in Edges : edges[e] \in Nat /\ Joined(rows, e) \in Nat
    BY FlightRows, JoinedType DEF GraphInv, GraphTypes
<1>3. edges' = [e \in Edges |-> edges[e] + Cardinality(Hits(e))]
    BY DEF MergeEdges
<1> HIDE DEF Hits, rows
<1>4. edges' \in [Edges -> Nat] /\ \A e \in Edges : edges'[e] = edges[e] + Joined(rows, e)
    BY <1>1, <1>2, <1>3
<1> QED
    BY <1>4 DEF rows

\* The writer of a flush: the consumer, the timer task or stop(), one at a
\* time.
LEMMA OneWriter ==
    ASSUME GraphInv
    PROVE  /\ timer = "writing" => main \notin {"writing", "last"}
           /\ Holds(Main) => timer # "writing"
           /\ Holds(Timer) => main \notin {"writing", "last"}
           /\ main \in {"writing", "last"} => Holds(Main)
           /\ timer = "writing" => Holds(Timer)
<1>1. LockFits
    BY DEF GraphInv
<1> QED
    BY <1>1, TaskAssumption DEF LockFits, Holds
-----------------------------------------------------------------------------
\* What moving the buffers out leaves.
LEMMA Moved ==
    ASSUME NEW ents \in Seq(EntityRow), NEW rels \in Seq(RelationRow), MoveOut(ents, rels)
    PROVE  /\ entities' = <<>> /\ relations' = <<>> /\ recent' = TRUE
           /\ flight' \in [entities : Seq(EntityRow), relations : Seq(RelationRow)]
           /\ flight'.entities = ents /\ flight'.relations = rels
           /\ stage' = IF ents = <<>> THEN "none" ELSE "entities"
BY DEF MoveOut

\* What the end of a flush leaves.
LEMMA Flushed ==
    ASSUME GraphInv, FlushOver, stage # "none"
    PROVE  /\ stage' = "none" /\ flight' = NoRows /\ lockq' = Tail(lockq)
           /\ recent' \in BOOLEAN
           /\ main = "writing" =>
                  main' = "idle" /\ phase[Enriched] = "handling" /\ phase'[Enriched] = "acking"
           /\ main # "writing" => phase' = phase
           /\ main = "last" => main' = "exiting"
           /\ main \notin {"writing", "last"} => main' = main
<1>1. BusTypeOK /\ recent \in BOOLEAN
    BY DEF GraphInv, BusInv, GraphTypes
<1>2. /\ stage' = "none" /\ flight' = NoRows /\ lockq' = Tail(lockq) /\ recent' \in BOOLEAN
    BY <1>1 DEF FlushOver
<1>3. main = "writing" => HandlerReturns(Enriched) /\ main' = "idle"
    BY DEF FlushOver
<1>4. main # "writing" => UNCHANGED busVars
    BY DEF FlushOver
<1>5. main # "writing" => main' = IF main = "last" THEN "exiting" ELSE main
    BY DEF FlushOver
<1> QED
    BY <1>1, <1>2, <1>3, <1>4, <1>5, PhaseKinds DEF busVars

\* Every step keeps the types.
LEMMA GraphTypesStep == GraphInv /\ [Next]_vars => GraphTypes'
<1> SUFFICES ASSUME GraphInv, [Next]_vars PROVE GraphTypes'
    OBVIOUS
<1>0. /\ GraphTypes
      /\ <<>> \in Seq(EntityRow) /\ <<>> \in Seq(RelationRow)
      /\ NoRows \in [entities : Seq(EntityRow), relations : Seq(RelationRow)]
    BY DEF GraphInv, NoRows
<1>c. faults' \in {faults, faults + 1} => faults' \in Nat
    BY <1>0 DEF GraphTypes
<1>d. /\ nodes' \in [Keys -> Nat] \/ ~ (UNCHANGED nodes \/ MergeNodes)
      /\ edges' \in [Edges -> Nat] \/ ~ (UNCHANGED edges \/ (stage = "relations" /\ MergeEdges))
    BY <1>0, MergedNodes, MergedEdges DEF GraphTypes
<1>e. Unmerged \in Seq(EntityRow)
    BY <1>0, FlightRows DEF Unmerged
<1>1. CASE UNCHANGED vars \/ \E m \in Msgs : PublishEnriched(m)
    <2>1. UNCHANGED writerVars
        BY <1>1 DEF vars, PublishEnriched
    <2> QED
        BY <1>0, <2>1 DEF GraphTypes, writerVars, bufferVars, graphVars, lossVars
<1>2. CASE Start \/ Read \/ Take \/ AckEnriched
    BY <1>0, <1>2 DEF GraphTypes, Start, Read, Take, AckEnriched, writerVars, bufferVars,
        graphVars, lossVars
<1>3. CASE Buffer
    <2>1. /\ main' = "idle" /\ UNCHANGED <<timer, flight, stage, recent, graphVars, lossVars, faults>>
          /\ entities' = entities \o EntityRows(Post)
          /\ relations' = relations \o RelationRows(Post)
          /\ written' = Append(written, Post) /\ main = "queued"
        BY <1>3 DEF Buffer
    <2>2. written' \in Seq(Msgs)
        BY <1>0, <2>1, PostRows, AppendProperties DEF GraphTypes
    <2> QED
        BY <1>0, <2>1, <2>2, PostRows DEF GraphTypes, graphVars, lossVars
<1>4. CASE BufferAndFlush
    <2>1. /\ main' \in {"idle", "writing"} /\ UNCHANGED <<timer, graphVars, lossVars, faults>>
          /\ MoveOut(entities \o EntityRows(Post), relations \o RelationRows(Post))
          /\ written' = Append(written, Post) /\ main = "queued"
        BY <1>4 DEF BufferAndFlush
    <2>2. written' \in Seq(Msgs)
        BY <1>0, <2>1, PostRows, AppendProperties DEF GraphTypes
    <2>3. /\ entities' = <<>> /\ relations' = <<>> /\ recent' = TRUE
          /\ flight' \in [entities : Seq(EntityRow), relations : Seq(RelationRow)]
          /\ stage' \in {"none", "entities"}
        BY <2>1, PostRows, Moved
    <2> QED
        BY <1>0, <2>1, <2>2, <2>3 DEF GraphTypes, graphVars, lossVars
<1>5. CASE TimerWakes \/ TimerSkips
    BY <1>0, <1>5 DEF GraphTypes, TimerWakes, TimerSkips, bufferVars, graphVars, lossVars
<1>6. CASE TimerFlushes
    <2>1. /\ timer' = "writing" /\ UNCHANGED <<main, graphVars, lossVars, written, faults>>
          /\ MoveOut(entities, relations)
        BY <1>6 DEF TimerFlushes
    <2>2. /\ entities' = <<>> /\ relations' = <<>> /\ recent' = TRUE
          /\ flight' \in [entities : Seq(EntityRow), relations : Seq(RelationRow)]
          /\ stage' \in {"none", "entities"}
        BY <1>0, <2>1, Moved DEF GraphTypes
    <2> QED
        BY <1>0, <2>1, <2>2 DEF GraphTypes, graphVars, lossVars
<1>7. CASE Upsert \/ UpsertFails
    <2>1. /\ UNCHANGED <<entities, relations, written>> /\ stage # "none"
          /\ UNCHANGED nodes \/ MergeNodes
          /\ UNCHANGED edges \/ (stage = "relations" /\ MergeEdges)
          /\ UNCHANGED missed \/ Misses(<<>>) \/ Misses(Unmerged)
          /\ UNCHANGED severed \/ Severs(flight.relations)
          /\ faults' \in {faults, faults + 1}
        BY <1>7
           DEF Upsert, UpsertFails, EntitiesUpserted, RelationsUpserted, DropRows,
               Fault, graphVars, lossVars, LoseRows, Misses, Severs
    <2>2. \/ FlushOver /\ TimerGoesOn
          \/ stage' = "relations" /\ UNCHANGED <<flight, recent, main, timer>>
        BY <1>7 DEF Upsert, UpsertFails, EntitiesUpserted, RelationsUpserted
    <2>3. missed' \in [Keys -> Nat] /\ severed' \in [Edges -> Nat]
        BY <1>0, <1>e, <2>1, FlightRows, MissedRows, SeveredRows DEF GraphTypes
    <2>4. /\ main' \in {"down", "idle", "queued", "writing", "last", "exiting"}
          /\ timer' \in {"off", "asleep", "queued", "writing"}
          /\ stage' \in {"none", "entities", "relations"}
          /\ recent' \in BOOLEAN
          /\ flight' \in [entities : Seq(EntityRow), relations : Seq(RelationRow)]
        BY <1>0, <2>1, <2>2, Flushed DEF GraphTypes, TimerGoesOn
    <2>5. faults' \in Nat
        BY <1>c, <2>1
    <2> QED
        BY <1>0, <1>d, <2>1, <2>3, <2>4, <2>5 DEF GraphTypes
<1>8. CASE Stop
    <2>1. /\ timer' = "off" /\ main' \in {"exiting", "last"} /\ UNCHANGED written
          /\ MoveOut(entities, relations)
          /\ UNCHANGED nodes \/ MergeNodes
          /\ UNCHANGED edges \/ (stage = "relations" /\ MergeEdges)
          /\ UNCHANGED missed \/ Misses(<<>>) \/ Misses(Unmerged)
          /\ UNCHANGED severed \/ Severs(flight.relations)
          /\ faults' = faults + 1
        BY <1>8 DEF Stop, Fault, graphVars, lossVars, LoseRows, Misses, Severs
    <2>2. /\ entities' = <<>> /\ relations' = <<>> /\ recent' = TRUE
          /\ flight' \in [entities : Seq(EntityRow), relations : Seq(RelationRow)]
          /\ stage' \in {"none", "entities"}
        BY <1>0, <2>1, Moved DEF GraphTypes
    <2>3. missed' \in [Keys -> Nat] /\ severed' \in [Edges -> Nat]
        BY <1>0, <1>e, <2>1, FlightRows, MissedRows, SeveredRows DEF GraphTypes
    <2>4. faults' \in Nat
        BY <1>c, <2>1
    <2> QED
        BY <1>0, <1>d, <2>1, <2>2, <2>3, <2>4 DEF GraphTypes
<1>9. CASE Exit
    BY <1>0, <1>9 DEF GraphTypes, Exit, Halt, graphVars, lossVars
<1>10. CASE Crash
    <2>1. /\ Halt
          /\ UNCHANGED nodes \/ MergeNodes
          /\ UNCHANGED edges \/ (stage = "relations" /\ MergeEdges)
          /\ Misses(entities) \/ Misses(entities \o Unmerged)
          /\ Severs(relations) \/ Severs(relations \o flight.relations)
          /\ faults' = faults + 1
        BY <1>10 DEF Crash, Fault, graphVars, lossVars, LoseRows, Misses, Severs
    <2>2. missed' \in [Keys -> Nat] /\ severed' \in [Edges -> Nat]
        <3>1. entities \in Seq(EntityRow) /\ relations \in Seq(RelationRow)
            BY <1>0 DEF GraphTypes
        <3>2. /\ entities \o Unmerged \in Seq(EntityRow)
              /\ relations \o flight.relations \in Seq(RelationRow)
            BY <1>e, <3>1, FlightRows, ConcatProperties
        <3> QED
            BY <2>1, <3>1, <3>2, MissedRows, SeveredRows
    <2>3. faults' \in Nat
        BY <1>c, <2>1
    <2> QED
        BY <1>0, <1>d, <2>1, <2>2, <2>3 DEF GraphTypes, Halt
<1> QED
    BY <1>1, <1>2, <1>3, <1>4, <1>5, <1>6, <1>7, <1>8, <1>9, <1>10
    DEF Next, MainStep, TimerStep

\* main() moves with the generator it iterates over.
LEMMA InStepStep == GraphInv /\ [Next]_vars => InStep'
<1> SUFFICES ASSUME GraphInv, [Next]_vars PROVE InStep'
    OBVIOUS
<1>0. /\ InStep /\ BusTypeOK
      /\ main \in {"down", "idle", "queued", "writing", "last", "exiting"}
    BY DEF GraphInv, BusInv, GraphTypes
<1>1. CASE phase' = phase /\ main' = main
    BY <1>0, <1>1 DEF InStep
<1>2. ASSUME NEW m \in Msgs, PublishEnriched(m) PROVE InStep'
    BY <1>1, <1>2, PublishKeepsPhase DEF PublishEnriched, writerVars
<1>3. CASE Start \/ Read \/ Take \/ AckEnriched
    BY <1>0, <1>3, PhaseKinds DEF InStep, Start, Read, Take, AckEnriched, writerVars
<1>4. CASE Buffer
    <2>1. main' = "idle" /\ HandlerReturns(Enriched)
        BY <1>4 DEF Buffer
    <2> QED
        BY <1>0, <2>1, PhaseKinds DEF InStep
<1>5. CASE BufferAndFlush
    <2>1. /\ main = "queued"
          /\ \/ main' = "idle" /\ HandlerReturns(Enriched)
             \/ main' = "writing" /\ phase' = phase
        BY <1>5 DEF BufferAndFlush, busVars
    <2> QED
        BY <1>0, <2>1, PhaseKinds DEF InStep
<1>6. CASE TimerStep
    <2>1. phase' = phase /\ main' = main
        BY <1>6 DEF TimerStep, TimerWakes, TimerSkips, TimerFlushes, busVars
    <2> QED
        BY <1>1, <2>1
<1>7. CASE Upsert \/ UpsertFails
    <2>1. /\ stage # "none"
          /\ \/ FlushOver
             \/ phase' = phase /\ main' = main
        BY <1>7 DEF Upsert, UpsertFails, EntitiesUpserted, RelationsUpserted, busVars
    <2>2. CASE FlushOver
        BY <1>0, <2>1, <2>2, Flushed DEF InStep
    <2> QED
        BY <1>1, <2>1, <2>2
<1>8. CASE Stop
    <2>1. main' \in {"exiting", "last"} /\ Close({Enriched})
        BY <1>8 DEF Stop
    <2> QED
        BY <1>0, <2>1, PhaseKinds DEF InStep
<1>9. CASE Exit
    <2>1. main = "exiting" /\ main' = "down" /\ phase' = phase
        BY <1>9 DEF Exit, Halt, busVars
    <2> QED
        BY <1>0, <2>1 DEF InStep
<1>10. CASE Crash
    <2>1. /\ main' = "down"
          /\ \/ Close({Enriched})
             \/ phase[Enriched] = "down" /\ phase' = phase
        BY <1>10 DEF Crash, Halt, busVars
    <2> QED
        BY <1>0, <2>1, PhaseKinds DEF InStep
<1>11. CASE UNCHANGED vars
    BY <1>1, <1>11 DEF vars, writerVars, busVars
<1> QED
    BY <1>2, <1>3, <1>4, <1>5, <1>6, <1>7, <1>8, <1>9, <1>10, <1>11 DEF Next, MainStep

\* Every step keeps the discipline of the lock.
LEMMA LockFitsStep == GraphInv /\ [Next]_vars => LockFits'
<1> SUFFICES ASSUME GraphInv, [Next]_vars PROVE LockFits'
    OBVIOUS
<1>0. /\ LockFits /\ InStep /\ FlightFits /\ BusTypeOK
      /\ main \in {"down", "idle", "queued", "writing", "last", "exiting"}
      /\ timer \in {"off", "asleep", "queued", "writing"}
    BY DEF GraphInv, BusInv, GraphTypes
<1> DEFINE Quiet == UNCHANGED <<lockq, main, timer>>
<1>1. CASE Quiet
    BY <1>0, <1>1 DEF LockFits, Holds
<1>2. CASE Read \/ AckEnriched \/ UNCHANGED vars \/ \E m \in Msgs : PublishEnriched(m)
    BY <1>1, <1>2 DEF Read, AckEnriched, PublishEnriched, vars, writerVars
<1>3. CASE Start
    <2>1. main = "down" /\ main' = "idle" /\ timer' = "asleep" /\ lockq' = lockq
        BY <1>3 DEF Start
    <2>2. timer = "off"
        BY <1>0, <2>1 DEF FlightFits
    <2> QED
        BY <1>0, <2>1, <2>2 DEF LockFits
<1>4. CASE Take
    <2>1. main' = "queued" /\ lockq' = Append(lockq, Main) /\ timer' = timer
        BY <1>4 DEF Take
    <2>2. main \notin {"queued", "writing", "last"}
        BY <1>0, <1>4, PhaseKinds DEF InStep, Take
    <2> QED
        BY <1>0, <2>1, <2>2, QueueOf, TaskAssumption DEF LockFits, Holds
<1>5. CASE Buffer
    <2>1. main = "queued" /\ main' = "idle" /\ lockq' = Tail(lockq) /\ timer' = timer /\ Holds(Main)
        BY <1>5 DEF Buffer
    <2> QED
        BY <1>0, <2>1, QueueOf, OneWriter, TaskAssumption DEF LockFits, Holds
<1>6. CASE BufferAndFlush
    <2>1. /\ main = "queued" /\ timer' = timer /\ Holds(Main)
          /\ \/ main' = "idle" /\ lockq' = Tail(lockq)
             \/ main' = "writing" /\ lockq' = lockq
        BY <1>6 DEF BufferAndFlush
    <2> QED
        BY <1>0, <2>1, QueueOf, OneWriter, TaskAssumption DEF LockFits, Holds
<1>7. CASE TimerWakes
    <2>1. timer = "asleep" /\ timer' = "queued" /\ lockq' = Append(lockq, Timer) /\ main' = main
        BY <1>7 DEF TimerWakes
    <2> QED
        BY <1>0, <2>1, QueueOf, TaskAssumption DEF LockFits, Holds
<1>8. CASE TimerSkips
    <2>1. /\ timer = "queued" /\ timer' = "asleep" /\ lockq' = Tail(lockq) /\ main' = main
          /\ Holds(Timer)
        BY <1>8 DEF TimerSkips
    <2> QED
        BY <1>0, <2>1, QueueOf, OneWriter, TaskAssumption DEF LockFits, Holds
<1>9. CASE TimerFlushes
    <2>1. timer = "queued" /\ timer' = "writing" /\ UNCHANGED <<lockq, main>> /\ Holds(Timer)
        BY <1>9 DEF TimerFlushes
    <2> QED
        BY <1>0, <2>1 DEF LockFits, Holds
<1>10. CASE Upsert \/ UpsertFails
    <2>1. /\ stage # "none"
          /\ \/ FlushOver /\ TimerGoesOn
             \/ Quiet
        BY <1>10 DEF Upsert, UpsertFails, EntitiesUpserted, RelationsUpserted
    <2>2. CASE FlushOver /\ TimerGoesOn
        <3>1. lockq' = Tail(lockq) /\ timer' = IF timer = "writing" THEN "asleep" ELSE timer
            BY <2>2 DEF FlushOver, TimerGoesOn
        <3>2. CASE timer = "writing"
            <4>1. main' = main /\ timer' = "asleep" /\ Holds(Timer)
                BY <2>1, <2>2, <3>1, <3>2, OneWriter, Flushed
            <4> QED
                BY <1>0, <3>1, <3>2, <4>1, QueueOf, OneWriter, TaskAssumption
                   DEF LockFits, Holds
        <3>3. CASE timer # "writing"
            <4>1. main \in {"writing", "last"} /\ Holds(Main)
                BY <1>0, <2>1, <3>3, OneWriter DEF FlightFits
            <4>2. main' \in {"idle", "exiting"} /\ timer' = timer
                BY <2>1, <2>2, <3>1, <3>3, <4>1, Flushed
            <4> QED
                BY <1>0, <3>1, <3>3, <4>1, <4>2, QueueOf, TaskAssumption DEF LockFits, Holds
        <3> QED
            BY <3>2, <3>3
    <2> QED
        BY <1>1, <2>1, <2>2
<1>11. CASE Stop
    <2>1. /\ timer' = "off"
          /\ \/ main' = "exiting" /\ lockq' = <<>>
             \/ main' = "last" /\ lockq' = <<Main>>
        BY <1>11 DEF Stop
    <2>2. /\ ToSet(<<>>) = {} /\ ToSet(<<Main>>) = {Main} /\ Head(<<Main>>) = Main
          /\ <<Main>> # <<>>
        BY DEF ToSet
    <2> QED
        BY <2>1, <2>2, TaskAssumption DEF LockFits, Holds, Queues
<1>12. CASE Exit \/ Crash
    <2>1. timer' = "off" /\ main' = "down" /\ lockq' = <<>>
        BY <1>12 DEF Exit, Crash, Halt
    <2>2. ToSet(<<>>) = {}
        BY DEF ToSet
    <2> QED
        BY <2>1, <2>2 DEF LockFits, Queues
<1> QED
    BY <1>2, <1>3, <1>4, <1>5, <1>6, <1>7, <1>8, <1>9, <1>10, <1>11, <1>12
    DEF Next, MainStep, TimerStep

\* Empty buffers call for no flush.
LEMMA NoRowsAreFew == ~ IsFull(<<>>, <<>>)
BY FlushAssumption DEF IsFull

\* A flush begins with its rows and ends with them.
LEMMA FlightFitsStep == GraphInv /\ [Next]_vars => FlightFits'
<1> SUFFICES ASSUME GraphInv, [Next]_vars PROVE FlightFits'
    OBVIOUS
<1>0. /\ FlightFits
      /\ main \in {"down", "idle", "queued", "writing", "last", "exiting"}
      /\ timer \in {"off", "asleep", "queued", "writing"}
    BY DEF GraphInv, GraphTypes
<1>a. /\ phase[Enriched] = "down" <=> main \in {"down", "last", "exiting"}
      /\ phase[Enriched] = "handling" <=> main \in {"queued", "writing"}
    BY DEF GraphInv, InStep
<1>1. CASE UNCHANGED <<stage, flight, main, timer, entities, relations>>
    BY <1>0, <1>1 DEF FlightFits, IsFull
<1>2. CASE Read \/ AckEnriched \/ UNCHANGED vars \/ \E m \in Msgs : PublishEnriched(m)
    BY <1>1, <1>2 DEF Read, AckEnriched, PublishEnriched, vars, writerVars, bufferVars
<1>3. CASE Start \/ Take
    <2>1. /\ main \notin {"writing", "last"} /\ main' \in {"idle", "queued"}
          /\ \/ timer' = timer
             \/ main = "down" /\ timer' = "asleep"
          /\ UNCHANGED <<stage, flight, entities, relations>>
        <3>1. CASE Start
            BY <3>1 DEF Start, bufferVars
        <3>2. CASE Take
            <4>1. phase[Enriched] = "fetched" /\ main' = "queued" /\ timer' = timer
                  /\ UNCHANGED bufferVars
                BY <3>2 DEF Take, Yield
            <4> QED
                BY <1>a, <4>1 DEF bufferVars
        <3> QED
            BY <1>3, <3>1, <3>2
    <2> QED
        BY <1>0, <2>1 DEF FlightFits, IsFull
<1>4. CASE Buffer
    BY <1>0, <1>4 DEF FlightFits, Buffer, IsFull
<1>5. CASE BufferAndFlush
    <2> DEFINE ents == entities \o EntityRows(Post)
               rels == relations \o RelationRows(Post)
    <2>1. /\ main = "queued" /\ Holds(Main) /\ timer' = timer /\ MoveOut(ents, rels)
          /\ main' = IF ents = <<>> THEN "idle" ELSE "writing"
        BY <1>5 DEF BufferAndFlush
    <2>2. ents \in Seq(EntityRow) /\ rels \in Seq(RelationRow)
        BY <2>1, PostRows
    <2> HIDE DEF ents, rels
    <2>3. /\ entities' = <<>> /\ relations' = <<>> /\ flight'.entities = ents
          /\ stage' = IF ents = <<>> THEN "none" ELSE "entities"
        BY <2>1, <2>2, Moved
    <2>4. timer # "writing"
        BY <2>1, OneWriter
    <2> QED
        BY <1>0, <2>1, <2>3, <2>4, NoRowsAreFew DEF FlightFits, IsFull
<1>6. CASE TimerWakes \/ TimerSkips
    BY <1>0, <1>6 DEF FlightFits, IsFull, TimerWakes, TimerSkips, bufferVars
<1>7. CASE TimerFlushes
    <2>1. /\ Holds(Timer) /\ timer = "queued" /\ timer' = "writing" /\ main' = main
          /\ MoveOut(entities, relations) /\ entities # <<>>
        BY <1>7 DEF TimerFlushes
    <2>2. entities \in Seq(EntityRow) /\ relations \in Seq(RelationRow)
        BY DEF GraphInv, GraphTypes
    <2>3. /\ entities' = <<>> /\ relations' = <<>> /\ flight'.entities = entities
          /\ stage' = "entities"
        BY <2>1, <2>2, Moved
    <2>4. main \notin {"writing", "last"}
        BY <2>1, OneWriter
    <2> QED
        BY <1>0, <2>1, <2>3, <2>4, NoRowsAreFew DEF FlightFits, IsFull
<1>8. CASE Upsert \/ UpsertFails
    <2>1. /\ stage # "none" /\ UNCHANGED <<entities, relations>>
          /\ \/ FlushOver /\ TimerGoesOn
             \/ stage' = "relations" /\ UNCHANGED <<flight, main, timer>>
        BY <1>8 DEF Upsert, UpsertFails, EntitiesUpserted, RelationsUpserted, DropRows
    <2>2. CASE FlushOver /\ TimerGoesOn
        <3>1. /\ stage' = "none" /\ flight' = NoRows
              /\ main' = IF main = "writing" THEN "idle"
                         ELSE IF main = "last" THEN "exiting" ELSE main
              /\ timer' = IF timer = "writing" THEN "asleep" ELSE timer
            BY <2>1, <2>2, Flushed DEF TimerGoesOn
        <3>2. main \in {"down", "exiting"} => timer # "writing"
            BY <1>0 DEF FlightFits
        <3> QED
            BY <1>0, <2>1, <3>1, <3>2 DEF FlightFits, NoRows, IsFull
    <2> QED
        BY <1>0, <2>1, <2>2 DEF FlightFits, IsFull
<1>9. CASE Stop
    <2>1. /\ timer' = "off" /\ MoveOut(entities, relations)
          /\ main' = IF entities = <<>> THEN "exiting" ELSE "last"
        BY <1>9 DEF Stop
    <2>2. entities \in Seq(EntityRow) /\ relations \in Seq(RelationRow)
        BY DEF GraphInv, GraphTypes
    <2>3. /\ entities' = <<>> /\ relations' = <<>> /\ flight'.entities = entities
          /\ stage' = IF entities = <<>> THEN "none" ELSE "entities"
        BY <2>1, <2>2, Moved
    <2> QED
        BY <2>1, <2>3, NoRowsAreFew DEF FlightFits, IsFull
<1>10. CASE Exit \/ Crash
    <2>1. Halt
        BY <1>10 DEF Exit, Crash
    <2> QED
        BY <2>1, NoRowsAreFew DEF Halt, FlightFits, IsFull, NoRows
<1> QED
    BY <1>2, <1>3, <1>4, <1>5, <1>6, <1>7, <1>8, <1>9, <1>10
    DEF Next, MainStep, TimerStep
-----------------------------------------------------------------------------
\* The rows stay where they are.
Still == UNCHANGED <<entities, relations, stage, flight>>

\* No step parts a relation from its entities.
LEMMA TravelStep == GraphInv /\ [Next]_vars => TravelTogether'
<1> SUFFICES ASSUME GraphInv, [Next]_vars PROVE TravelTogether'
    OBVIOUS
<1>0. /\ TravelTogether
      /\ entities \in Seq(EntityRow) /\ relations \in Seq(RelationRow)
    BY DEF GraphInv, GraphTypes
<1>1. CASE Still
    BY <1>0, <1>1 DEF Still, TravelTogether, EndsAmong
<1>2. CASE Start \/ Read \/ Take \/ AckEnriched \/ TimerWakes \/ TimerSkips
    BY <1>1, <1>2
       DEF Still, Start, Read, Take, AckEnriched, TimerWakes, TimerSkips, writerVars,
           bufferVars
<1>3. CASE UNCHANGED vars \/ \E m \in Msgs : PublishEnriched(m)
    BY <1>1, <1>3 DEF Still, PublishEnriched, vars, writerVars, bufferVars
<1>4. CASE Buffer
    <2>1. /\ entities' = entities \o EntityRows(Post)
          /\ relations' = relations \o RelationRows(Post)
          /\ main = "queued" /\ UNCHANGED <<stage, flight>>
        BY <1>4 DEF Buffer
    <2>2. EndsAmong(relations', entities')
        BY <2>1, PostRows
    <2> QED
        BY <1>0, <2>1, <2>2 DEF TravelTogether, EndsAmong
<1>5. ASSUME NEW ents \in Seq(EntityRow), NEW rels \in Seq(RelationRow),
             MoveOut(ents, rels), EndsAmong(rels, ents)
      PROVE  TravelTogether'
    <2>1. /\ entities' = <<>> /\ relations' = <<>>
          /\ flight'.entities = ents /\ flight'.relations = rels
        BY <1>5, Moved
    <2> QED
        BY <1>5, <2>1, NoRowsEnd DEF TravelTogether, EndsAmong
<1>6. CASE BufferAndFlush
    <2>1. /\ MoveOut(entities \o EntityRows(Post), relations \o RelationRows(Post))
          /\ main = "queued"
        BY <1>6 DEF BufferAndFlush
    <2> QED
        BY <1>5, <2>1, PostRows
<1>7. CASE TimerFlushes \/ Stop
    <2>1. MoveOut(entities, relations)
        BY <1>7 DEF TimerFlushes, Stop
    <2> QED
        BY <1>0, <1>5, <2>1 DEF TravelTogether
<1>8. CASE Upsert \/ UpsertFails
    <2>1. UNCHANGED <<entities, relations>> /\ flight' \in {flight, NoRows}
        BY <1>8
           DEF Upsert, UpsertFails, EntitiesUpserted, RelationsUpserted, DropRows,
               FlushOver
    <2>2. CASE flight' = flight
        BY <1>0, <2>1, <2>2 DEF TravelTogether
    <2>3. CASE flight' = NoRows
        <3>1. flight'.entities = <<>> /\ flight'.relations = <<>>
            BY <2>3 DEF NoRows
        <3>2. EndsAmong(flight'.relations, flight'.entities)
            BY <2>3, NoRowsEnd DEF EndsAmong, NoRows
        <3> QED
            BY <1>0, <2>1, <3>2 DEF TravelTogether
    <2> QED
        BY <2>1, <2>2, <2>3
<1>9. CASE Exit \/ Crash
    <2>1. entities' = <<>> /\ relations' = <<>> /\ flight' = NoRows
        BY <1>9 DEF Exit, Crash, Halt
    <2> QED
        BY <2>1, NoRowsEnd DEF TravelTogether, EndsAmong, NoRows
<1> QED
    BY <1>2, <1>3, <1>4, <1>6, <1>7, <1>8, <1>9 DEF Next, MainStep, TimerStep

\* The nodes a relation joins are merged before its upsert.
LEMMA UnmatchedStep == GraphInv /\ [Next]_vars => NoRelationUnmatched'
<1> SUFFICES ASSUME GraphInv, [Next]_vars PROVE NoRelationUnmatched'
    OBVIOUS
<1>0. NoRelationUnmatched /\ TravelTogether
    BY DEF GraphInv
<1>a. stage = "relations" /\ MergeEdges => unmatched' = {}
    BY <1>0 DEF NoRelationUnmatched, MergeEdges
<1>b. UNCHANGED unmatched => unmatched' = {}
    BY <1>0 DEF NoRelationUnmatched
<1>c. unmatched' = {} /\ stage' # "relations" => NoRelationUnmatched'
    BY DEF NoRelationUnmatched
<1>1. CASE UNCHANGED <<stage, flight, graphVars>>
    BY <1>0, <1>1 DEF NoRelationUnmatched, Matches, graphVars
<1>2. CASE Start \/ Read \/ Take \/ AckEnriched \/ TimerWakes \/ TimerSkips \/ Buffer
    BY <1>1, <1>2
       DEF Start, Read, Take, AckEnriched, TimerWakes, TimerSkips, Buffer, writerVars,
           bufferVars, graphVars
<1>3. CASE UNCHANGED vars \/ \E m \in Msgs : PublishEnriched(m)
    BY <1>1, <1>3 DEF PublishEnriched, vars, writerVars, bufferVars, graphVars
<1>4. CASE BufferAndFlush \/ TimerFlushes
    BY <1>b, <1>c, <1>4 DEF BufferAndFlush, TimerFlushes, MoveOut, graphVars
<1>5. CASE EntitiesUpserted
    <2>1. UNCHANGED unmatched /\ MergeNodes /\ stage = "entities"
        BY <1>5 DEF EntitiesUpserted
    <2>2. CASE stage' # "relations"
        BY <1>b, <1>c, <2>1, <2>2
    <2>3. CASE stage' = "relations"
        <3>1. flight' = flight
            BY <1>5, <2>3 DEF EntitiesUpserted, FlushOver
        <3>2. ASSUME NEW r \in ToSet(flight.relations)
              PROVE  nodes'[r.head] > 0 /\ nodes'[r.tail] > 0
            <4>1. /\ \E e \in ToSet(flight.entities) : e.key = r.head
                  /\ \E e \in ToSet(flight.entities) : e.key = r.tail
                BY <1>0, <2>1 DEF TravelTogether, EndsAmong
            <4>2. r.head \in Keys /\ r.tail \in Keys
                <5>1. ToSet(flight.relations) \subseteq RelationRow
                    BY FlightRows, ElementsOfSeq
                <5> QED
                    BY <5>1 DEF RelationRow
            <4>3. ASSUME NEW k \in Keys, \E e \in ToSet(flight.entities) : e.key = k
                  PROVE  nodes'[k] > 0
                <5>1. Mentioned(flight.entities, k) \in Nat /\ Mentioned(flight.entities, k) > 0
                    BY <4>3, FlightRows, MentionedType
                <5>2. nodes[k] \in Nat /\ nodes'[k] = nodes[k] + Mentioned(flight.entities, k)
                    BY <2>1, MergedNodes DEF GraphInv, GraphTypes
                <5> QED
                    BY <5>1, <5>2
            <4> QED
                BY <4>1, <4>2, <4>3
        <3> QED
            BY <1>0, <2>1, <3>1, <3>2 DEF NoRelationUnmatched, Matches
    <2> QED
        BY <2>2, <2>3
<1>6. CASE RelationsUpserted \/ UpsertFails
    <2>1. stage' = "none"
        BY <1>6 DEF RelationsUpserted, UpsertFails, FlushOver
    <2>2. UNCHANGED unmatched \/ (stage = "relations" /\ MergeEdges)
        BY <1>6 DEF RelationsUpserted, UpsertFails, graphVars
    <2> QED
        BY <1>a, <1>b, <1>c, <2>1, <2>2
<1>7. CASE Stop
    <2>1. stage' # "relations"
        BY <1>7 DEF Stop, MoveOut
    <2>2. UNCHANGED unmatched \/ (stage = "relations" /\ MergeEdges)
        BY <1>7 DEF Stop, graphVars
    <2> QED
        BY <1>a, <1>b, <1>c, <2>1, <2>2
<1>8. CASE Exit \/ Crash
    <2>1. stage' = "none"
        BY <1>8 DEF Exit, Crash, Halt
    <2>2. UNCHANGED unmatched \/ (stage = "relations" /\ MergeEdges)
        BY <1>8 DEF Exit, Crash, graphVars
    <2> QED
        BY <1>a, <1>b, <1>c, <2>1, <2>2
<1> QED
    BY <1>2, <1>3, <1>4, <1>5, <1>6, <1>7, <1>8 DEF Next, MainStep, TimerStep, Upsert
-----------------------------------------------------------------------------
\* A step writes nothing and keeps what is traced of k, or it writes the
\* consumer's payload and traces its mentions.
LEMMA TracedStep ==
    ASSUME GraphInv, [Next]_vars, NEW k \in Keys
    PROVE  \/ written' = written /\ Traced(k)' = Traced(k)
           \/ /\ main = "queued" /\ written' = Append(written, Post)
              /\ Traced(k)' = Traced(k) + Mentioned(EntityRows(Post), k)
<1>0. /\ nodes[k] \in Nat /\ missed[k] \in Nat
      /\ entities \in Seq(EntityRow) /\ flight.entities \in Seq(EntityRow)
      /\ relations \in Seq(RelationRow)
    BY DEF GraphInv, GraphTypes
<1>a. Mentioned(entities, k) \in Nat /\ Mentioned(flight.entities, k) \in Nat
    BY <1>0, MentionedType
<1>b. Mentioned(<<>>, k) = 0
    <2>1. <<>> \in Seq(EntityRow)
        OBVIOUS
    <2> QED
        BY <2>1, MentionedType
<1>c. MergeNodes => nodes'[k] = nodes[k] + Mentioned(flight.entities, k)
    BY MergedNodes
<1>d. ASSUME NEW rows \in Seq(EntityRow), Misses(rows)
      PROVE  missed'[k] = missed[k] + Mentioned(rows, k)
    BY <1>d, MissedRows
<1>e. /\ Unmerged \in Seq(EntityRow) /\ <<>> \in Seq(EntityRow)
      /\ Mentioned(Unmerged, k) = IF stage = "entities" THEN Mentioned(flight.entities, k) ELSE 0
    BY <1>0, <1>b DEF Unmerged
<1>1. CASE UNCHANGED <<entities, stage, flight, nodes, missed, written>>
    BY <1>1 DEF Traced, Mentioned
<1>2. CASE Start \/ Read \/ Take \/ AckEnriched \/ TimerWakes \/ TimerSkips
    BY <1>1, <1>2 DEF Start, Read, Take, AckEnriched, TimerWakes, TimerSkips, writerVars,
        bufferVars, graphVars, lossVars
<1>3. CASE UNCHANGED vars \/ \E m \in Msgs : PublishEnriched(m)
    BY <1>1, <1>3 DEF PublishEnriched, vars, writerVars, bufferVars, graphVars, lossVars
<1>4. CASE Buffer
    <2>1. /\ entities' = entities \o EntityRows(Post) /\ main = "queued"
          /\ UNCHANGED <<stage, flight, nodes, missed>> /\ written' = Append(written, Post)
        BY <1>4 DEF Buffer, graphVars, lossVars
    <2>2. EntityRows(Post) \in Seq(EntityRow)
        BY <2>1, PostRows
    <2>3. /\ Mentioned(entities', k) = Mentioned(entities, k) + Mentioned(EntityRows(Post), k)
          /\ Mentioned(EntityRows(Post), k) \in Nat
        BY <1>0, <2>1, <2>2, MentionedConcat, MentionedType
    <2> QED
        BY <1>0, <1>a, <2>1, <2>3 DEF Traced
<1>5. ASSUME NEW ents \in Seq(EntityRow), NEW rels \in Seq(RelationRow), MoveOut(ents, rels),
             nodes'[k] \in Nat, missed'[k] \in Nat
      PROVE  Traced(k)' = nodes'[k] + missed'[k] + Mentioned(ents, k)
    <2>1. /\ entities' = <<>> /\ flight'.entities = ents
          /\ stage' = IF ents = <<>> THEN "none" ELSE "entities"
        BY <1>5, Moved
    <2>2. Traced(k)' = nodes'[k] + missed'[k] + Mentioned(entities', k)
                           + (IF stage' = "entities" THEN Mentioned(flight'.entities, k) ELSE 0)
        BY DEF Traced
    <2>3. Mentioned(ents, k) \in Nat
        BY MentionedType
    <2> QED
        BY <1>5, <1>b, <2>1, <2>2, <2>3
<1>6. CASE BufferAndFlush
    <2>1. /\ MoveOut(entities \o EntityRows(Post), relations \o RelationRows(Post))
          /\ main = "queued" /\ Holds(Main) /\ UNCHANGED <<nodes, missed>>
          /\ written' = Append(written, Post)
        BY <1>6 DEF BufferAndFlush, graphVars, lossVars
    <2>2. stage = "none"
        <3>1. timer # "writing"
            BY <2>1, OneWriter
        <3> QED
            BY <2>1, <3>1 DEF GraphInv, FlightFits
    <2>3. Traced(k)' = nodes'[k] + missed'[k] + Mentioned(entities \o EntityRows(Post), k)
        BY <1>0, <1>5, <2>1, PostRows
    <2>4. EntityRows(Post) \in Seq(EntityRow)
        BY <2>1, PostRows
    <2>5. /\ Mentioned(entities \o EntityRows(Post), k)
                 = Mentioned(entities, k) + Mentioned(EntityRows(Post), k)
          /\ Mentioned(EntityRows(Post), k) \in Nat
        BY <1>0, <2>4, MentionedConcat, MentionedType
    <2> QED
        BY <1>0, <1>a, <2>1, <2>2, <2>3, <2>5 DEF Traced
<1>7. CASE TimerFlushes
    <2>1. /\ MoveOut(entities, relations) /\ Holds(Timer) /\ timer = "queued"
          /\ UNCHANGED <<nodes, missed, written>>
        BY <1>7 DEF TimerFlushes, graphVars, lossVars
    <2>2. stage = "none"
        <3>1. main \notin {"writing", "last"}
            BY <2>1, OneWriter
        <3> QED
            BY <2>1, <3>1 DEF GraphInv, FlightFits
    <2>3. Traced(k)' = nodes'[k] + missed'[k] + Mentioned(entities, k)
        BY <1>0, <1>5, <2>1
    <2> QED
        BY <1>0, <1>a, <2>1, <2>2, <2>3 DEF Traced
<1>8. CASE Upsert \/ UpsertFails
    <2>1. /\ UNCHANGED <<entities, written>> /\ stage' \in {"none", "relations"}
          /\ \/ stage = "entities" /\ MergeNodes /\ (UNCHANGED missed \/ Misses(<<>>))
             \/ UNCHANGED nodes /\ Misses(Unmerged)
             \/ stage = "relations" /\ UNCHANGED <<nodes, missed>>
        BY <1>8
           DEF Upsert, UpsertFails, EntitiesUpserted, RelationsUpserted, DropRows,
               FlushOver, graphVars, lossVars, LoseRows, Misses
    <2>2. nodes'[k] + missed'[k]
              = nodes[k] + missed[k]
                    + (IF stage = "entities" THEN Mentioned(flight.entities, k) ELSE 0)
        <3>1. CASE stage = "entities" /\ MergeNodes /\ UNCHANGED missed
            BY <1>0, <1>a, <1>c, <3>1
        <3>2. CASE stage = "entities" /\ MergeNodes /\ Misses(<<>>)
            <4>1. missed'[k] = missed[k] + Mentioned(<<>>, k)
                BY <1>d, <1>e, <3>2
            <4> QED
                BY <1>0, <1>a, <1>b, <1>c, <3>2, <4>1
        <3>3. CASE UNCHANGED nodes /\ Misses(Unmerged)
            <4>1. missed'[k] = missed[k] + Mentioned(Unmerged, k)
                BY <1>d, <1>e, <3>3
            <4> QED
                BY <1>0, <1>a, <1>e, <3>3, <4>1
        <3>4. CASE stage = "relations" /\ UNCHANGED <<nodes, missed>>
            BY <1>0, <3>4
        <3> QED
            BY <2>1, <3>1, <3>2, <3>3, <3>4
    <2>3. Traced(k)' = nodes'[k] + missed'[k] + Mentioned(entities, k) + 0
        BY <2>1 DEF Traced
    <2> QED
        BY <1>0, <1>a, <2>1, <2>2, <2>3 DEF Traced
<1>9. CASE Stop
    <2>1. /\ MoveOut(entities, relations) /\ UNCHANGED written
          /\ \/ stage = "entities" /\ MergeNodes /\ Misses(<<>>)
             \/ stage = "relations" /\ UNCHANGED <<nodes, missed>>
             \/ UNCHANGED nodes /\ Misses(Unmerged)
        BY <1>9 DEF Stop, graphVars, lossVars, LoseRows, Misses
    <2>4. /\ nodes'[k] + missed'[k]
                 = nodes[k] + missed[k]
                       + (IF stage = "entities" THEN Mentioned(flight.entities, k) ELSE 0)
          /\ nodes'[k] \in Nat /\ missed'[k] \in Nat
        <3>1. CASE stage = "entities" /\ MergeNodes /\ Misses(<<>>)
            <4>1. missed'[k] = missed[k] + Mentioned(<<>>, k)
                BY <1>d, <1>e, <3>1
            <4> QED
                BY <1>0, <1>a, <1>b, <1>c, <3>1, <4>1
        <3>2. CASE stage = "relations" /\ UNCHANGED <<nodes, missed>>
            BY <1>0, <3>2
        <3>3. CASE UNCHANGED nodes /\ Misses(Unmerged)
            <4>1. missed'[k] = missed[k] + Mentioned(Unmerged, k)
                BY <1>d, <1>e, <3>3
            <4> QED
                BY <1>0, <1>a, <1>e, <3>3, <4>1
        <3> QED
            BY <2>1, <3>1, <3>2, <3>3
    <2>5. Traced(k)' = nodes'[k] + missed'[k] + Mentioned(entities, k)
        BY <1>0, <1>5, <2>1, <2>4
    <2> QED
        BY <1>0, <1>a, <2>1, <2>4, <2>5 DEF Traced
<1>10. CASE Exit
    <2>1. main = "exiting" /\ Halt /\ UNCHANGED <<nodes, missed, written>>
        BY <1>10 DEF Exit, graphVars, lossVars, Halt
    <2>2. entities = <<>> /\ stage = "none"
        BY <2>1 DEF GraphInv, FlightFits
    <2>3. entities' = <<>> /\ stage' = "none"
        BY <2>1 DEF Halt
    <2> QED
        BY <2>1, <2>2, <2>3 DEF Traced
<1>11. CASE Crash
    <2>1. /\ Halt
          /\ \/ stage = "entities" /\ MergeNodes /\ Misses(entities)
             \/ stage = "relations" /\ UNCHANGED nodes /\ Misses(entities)
             \/ UNCHANGED nodes /\ Misses(entities \o Unmerged)
        BY <1>11 DEF Crash, graphVars, LoseRows, Misses
    <2>4. /\ Mentioned(entities \o Unmerged, k) = Mentioned(entities, k) + Mentioned(Unmerged, k)
          /\ entities \o Unmerged \in Seq(EntityRow)
        BY <1>0, <1>e, MentionedConcat, ConcatProperties
    <2>5. nodes'[k] + missed'[k]
              = nodes[k] + missed[k] + Mentioned(entities, k)
                    + (IF stage = "entities" THEN Mentioned(flight.entities, k) ELSE 0)
        <3>1. CASE stage = "entities" /\ MergeNodes /\ Misses(entities)
            <4>1. missed'[k] = missed[k] + Mentioned(entities, k)
                BY <1>0, <1>d, <3>1
            <4> QED
                BY <1>0, <1>a, <1>c, <3>1, <4>1
        <3>2. CASE stage = "relations" /\ UNCHANGED nodes /\ Misses(entities)
            <4>1. missed'[k] = missed[k] + Mentioned(entities, k)
                BY <1>0, <1>d, <3>2
            <4> QED
                BY <1>0, <1>a, <3>2, <4>1
        <3>3. CASE UNCHANGED nodes /\ Misses(entities \o Unmerged)
            <4>1. missed'[k] = missed[k] + Mentioned(entities \o Unmerged, k)
                BY <1>d, <2>4, <3>3
            <4> QED
                BY <1>0, <1>a, <1>e, <2>4, <3>3, <4>1
        <3> QED
            BY <2>1, <3>1, <3>2, <3>3
    <2>6. entities' = <<>> /\ stage' = "none" /\ written' = written
        BY <2>1 DEF Halt
    <2>7. Traced(k)' = nodes'[k] + missed'[k] + 0 + 0
        BY <1>b, <2>6 DEF Traced
    <2>8. nodes'[k] \in Nat /\ missed'[k] \in Nat
        BY GraphTypesStep DEF GraphTypes
    <2> QED
        BY <1>0, <1>a, <2>5, <2>6, <2>7, <2>8 DEF Traced
<1> QED
    BY <1>2, <1>3, <1>4, <1>6, <1>7, <1>8, <1>9, <1>10, <1>11 DEF Next, MainStep, TimerStep

\* Every mention written stays traced, once.
LEMMA AllTracedStep == GraphInv /\ [Next]_vars => AllTraced'
<1> SUFFICES ASSUME GraphInv, [Next]_vars, NEW k \in Keys
             PROVE  Traced(k)' = MentionSum(written', k)
    BY DEF AllTraced
<1>1. Traced(k) = MentionSum(written, k)
    BY DEF GraphInv, AllTraced
<1>2. CASE written' = written /\ Traced(k)' = Traced(k)
    BY <1>1, <1>2
<1>3. CASE /\ main = "queued" /\ written' = Append(written, Post)
           /\ Traced(k)' = Traced(k) + Mentioned(EntityRows(Post), k)
    <2>1. Post \in Msgs /\ written \in Seq(Msgs)
        BY <1>3, PostRows DEF GraphInv, GraphTypes
    <2>2. \A m \in Msgs : Mentioned(EntityRows(m), k) \in Nat
        BY EntityRowsType, MentionedType
    <2>3. MentionSum(Append(written, Post), k)
              = MentionSum(written, k) + Mentioned(EntityRows(Post), k)
        BY <2>1, <2>2, MentionSumOfAppend
    <2> QED
        BY <1>1, <1>3, <2>3
<1> QED
    BY <1>2, <1>3, TracedStep

\* The invariant says what MentionsAreConserved says.
LEMMA TracedIsConserved == GraphInv => MentionsAreConserved
<1> SUFFICES ASSUME GraphInv, NEW k \in Keys
             PROVE  nodes[k] + missed[k] + Mentioned(entities, k) + Mentioned(Unmerged, k)
                        = MentionSum(written, k)
    BY DEF MentionsAreConserved, MentionSum
<1>1. Traced(k) = MentionSum(written, k)
    BY DEF GraphInv, AllTraced
<1>2. Mentioned(<<>>, k) = 0
    <2>1. <<>> \in Seq(EntityRow)
        OBVIOUS
    <2> QED
        BY <2>1, MentionedType
<1> QED
    BY <1>1, <1>2 DEF Traced, Unmerged

\* No relation is in flight without a flush.
LEMMA NoneInFlight ==
    ASSUME GraphInv, stage = "none"
    PROVE  flight.relations = <<>>
<1>1. flight.entities = <<>> /\ EndsAmong(flight.relations, flight.entities)
    BY DEF GraphInv, FlightFits, TravelTogether
<1>2. flight.relations \in Seq(RelationRow)
    BY FlightRows
<1> QED
    BY <1>1, <1>2, NoRowsEnd

\* A step writes nothing and keeps what is counted of e, or it writes the
\* consumer's payload and counts its rows.
LEMMA CountedStep ==
    ASSUME GraphInv, [Next]_vars, NEW e \in Edges
    PROVE  \/ written' = written /\ Counted(e)' = Counted(e)
           \/ /\ main = "queued" /\ written' = Append(written, Post)
              /\ Counted(e)' = Counted(e) + Joined(RelationRows(Post), e)
<1>0. /\ edges[e] \in Nat /\ severed[e] \in Nat
      /\ relations \in Seq(RelationRow) /\ flight.relations \in Seq(RelationRow)
      /\ entities \in Seq(EntityRow)
    BY DEF GraphInv, GraphTypes
<1>a. Joined(relations, e) \in Nat /\ Joined(flight.relations, e) \in Nat
    BY <1>0, JoinedType
<1>b. Joined(<<>>, e) = 0
    <2>1. <<>> \in Seq(RelationRow)
        OBVIOUS
    <2> QED
        BY <2>1, JoinedType
<1>c. edges'[e] \in Nat /\ severed'[e] \in Nat
    BY GraphTypesStep DEF GraphTypes
<1>d. stage = "relations" /\ MergeEdges => edges'[e] = edges[e] + Joined(flight.relations, e)
    BY MergedEdges
<1>e. ASSUME NEW rows \in Seq(RelationRow), Severs(rows)
      PROVE  severed'[e] = severed[e] + Joined(rows, e)
    BY <1>e, SeveredRows
<1>1. CASE UNCHANGED <<relations, flight, edges, severed, written>>
    BY <1>1 DEF Counted, Joined
<1>2. CASE Start \/ Read \/ Take \/ AckEnriched \/ TimerWakes \/ TimerSkips
    BY <1>1, <1>2
       DEF Start, Read, Take, AckEnriched, TimerWakes, TimerSkips, writerVars, bufferVars,
           graphVars, lossVars
<1>3. CASE UNCHANGED vars \/ \E m \in Msgs : PublishEnriched(m)
    BY <1>1, <1>3 DEF PublishEnriched, vars, writerVars, bufferVars, graphVars, lossVars
<1>4. CASE Buffer
    <2>1. /\ relations' = relations \o RelationRows(Post) /\ main = "queued"
          /\ UNCHANGED <<flight, edges, severed>> /\ written' = Append(written, Post)
        BY <1>4 DEF Buffer, graphVars, lossVars
    <2>2. RelationRows(Post) \in Seq(RelationRow)
        BY <2>1, PostRows
    <2>3. /\ Joined(relations', e) = Joined(relations, e) + Joined(RelationRows(Post), e)
          /\ Joined(RelationRows(Post), e) \in Nat
        BY <1>0, <2>1, <2>2, JoinedConcat, JoinedType
    <2> QED
        BY <1>0, <1>a, <2>1, <2>3 DEF Counted
<1>5. ASSUME NEW ents \in Seq(EntityRow), NEW rels \in Seq(RelationRow), MoveOut(ents, rels)
      PROVE  Counted(e)' = edges'[e] + severed'[e] + Joined(rels, e)
    <2>1. relations' = <<>> /\ flight'.relations = rels
        BY <1>5, Moved
    <2>2. Counted(e)' = edges'[e] + severed'[e] + Joined(relations', e)
                            + Joined(flight'.relations, e)
        BY DEF Counted
    <2>3. Joined(rels, e) \in Nat
        BY JoinedType
    <2> QED
        BY <1>b, <1>c, <2>1, <2>2, <2>3
<1>f. stage = "none" => Joined(flight.relations, e) = 0
    BY <1>b, NoneInFlight
<1>6. CASE BufferAndFlush
    <2>1. /\ MoveOut(entities \o EntityRows(Post), relations \o RelationRows(Post))
          /\ main = "queued" /\ Holds(Main) /\ UNCHANGED <<edges, severed>>
          /\ written' = Append(written, Post)
        BY <1>6 DEF BufferAndFlush, graphVars, lossVars
    <2>2. stage = "none"
        <3>1. timer # "writing"
            BY <2>1, OneWriter
        <3> QED
            BY <2>1, <3>1 DEF GraphInv, FlightFits
    <2>3. Counted(e)' = edges'[e] + severed'[e] + Joined(relations \o RelationRows(Post), e)
        BY <1>0, <1>5, <2>1, PostRows
    <2>4. RelationRows(Post) \in Seq(RelationRow)
        BY <2>1, PostRows
    <2>5. /\ Joined(relations \o RelationRows(Post), e)
                 = Joined(relations, e) + Joined(RelationRows(Post), e)
          /\ Joined(RelationRows(Post), e) \in Nat
        BY <1>0, <2>4, JoinedConcat, JoinedType
    <2> QED
        BY <1>0, <1>a, <1>f, <2>1, <2>2, <2>3, <2>5 DEF Counted
<1>7. CASE TimerFlushes
    <2>1. /\ MoveOut(entities, relations) /\ Holds(Timer) /\ timer = "queued"
          /\ UNCHANGED <<edges, severed, written>>
        BY <1>7 DEF TimerFlushes, graphVars, lossVars
    <2>2. stage = "none"
        <3>1. main \notin {"writing", "last"}
            BY <2>1, OneWriter
        <3> QED
            BY <2>1, <3>1 DEF GraphInv, FlightFits
    <2>3. Counted(e)' = edges'[e] + severed'[e] + Joined(relations, e)
        BY <1>0, <1>5, <2>1
    <2> QED
        BY <1>0, <1>a, <1>f, <2>1, <2>2, <2>3 DEF Counted
<1>8. CASE Upsert \/ UpsertFails
    <2>1. /\ UNCHANGED <<relations, written>>
          /\ \/ UNCHANGED <<flight, edges, severed>>
             \/ /\ flight' = NoRows
                /\ \/ stage = "relations" /\ MergeEdges /\ UNCHANGED severed
                   \/ UNCHANGED edges /\ Severs(flight.relations)
                   \/ flight.relations = <<>> /\ UNCHANGED <<edges, severed>>
        BY <1>8
           DEF Upsert, UpsertFails, EntitiesUpserted, RelationsUpserted, DropRows,
               FlushOver, graphVars, lossVars, LoseRows, Severs
    <2>2. CASE UNCHANGED <<flight, edges, severed>>
        BY <2>1, <2>2 DEF Counted, Joined
    <2>3. CASE flight' = NoRows
        <3>1. Counted(e)' = edges'[e] + severed'[e] + Joined(relations, e) + 0
            BY <1>b, <2>1, <2>3 DEF Counted, NoRows
        <3>2. edges'[e] + severed'[e] = edges[e] + severed[e] + Joined(flight.relations, e)
            <4>1. CASE stage = "relations" /\ MergeEdges /\ UNCHANGED severed
                BY <1>0, <1>a, <1>d, <4>1
            <4>2. CASE UNCHANGED edges /\ Severs(flight.relations)
                BY <1>0, <1>a, <1>e, <4>2
            <4>3. CASE flight.relations = <<>> /\ UNCHANGED <<edges, severed>>
                BY <1>0, <1>b, <4>3
            <4>4. CASE UNCHANGED <<flight, edges, severed>>
                BY <1>0, <1>b, <2>3, <4>4 DEF NoRows
            <4> QED
                BY <2>1, <4>1, <4>2, <4>3, <4>4
        <3> QED
            BY <1>0, <1>a, <1>c, <2>1, <3>1, <3>2 DEF Counted
    <2> QED
        BY <2>1, <2>2, <2>3
<1>9. CASE Stop
    <2>1. /\ MoveOut(entities, relations) /\ UNCHANGED written
          /\ \/ stage = "relations" /\ MergeEdges /\ UNCHANGED severed
             \/ UNCHANGED edges /\ Severs(flight.relations)
        BY <1>9 DEF Stop, graphVars, lossVars, LoseRows, Severs
    <2>2. edges'[e] + severed'[e] = edges[e] + severed[e] + Joined(flight.relations, e)
        <3>1. CASE stage = "relations" /\ MergeEdges /\ UNCHANGED severed
            BY <1>0, <1>a, <1>d, <3>1
        <3>2. CASE UNCHANGED edges /\ Severs(flight.relations)
            BY <1>0, <1>a, <1>e, <3>2
        <3> QED
            BY <2>1, <3>1, <3>2
    <2>3. Counted(e)' = edges'[e] + severed'[e] + Joined(relations, e)
        BY <1>0, <1>5, <2>1
    <2> QED
        BY <1>0, <1>a, <1>c, <2>1, <2>2, <2>3 DEF Counted
<1>10. CASE Exit
    <2>1. main = "exiting" /\ Halt /\ UNCHANGED <<edges, severed, written>>
        BY <1>10 DEF Exit, Halt, graphVars, lossVars
    <2>2. relations = <<>> /\ stage = "none"
        BY <2>1 DEF GraphInv, FlightFits
    <2>3. relations' = <<>> /\ flight' = NoRows
        BY <2>1 DEF Halt
    <2> QED
        BY <1>0, <1>b, <1>f, <2>1, <2>2, <2>3 DEF Counted, NoRows
<1>11. CASE Crash
    <2>1. /\ Halt
          /\ \/ stage = "relations" /\ MergeEdges /\ Severs(relations)
             \/ UNCHANGED edges /\ Severs(relations \o flight.relations)
        BY <1>11 DEF Crash, graphVars, LoseRows, Severs
    <2>2. /\ Joined(relations \o flight.relations, e)
                 = Joined(relations, e) + Joined(flight.relations, e)
          /\ relations \o flight.relations \in Seq(RelationRow)
        BY <1>0, JoinedConcat, ConcatProperties
    <2>3. edges'[e] + severed'[e]
              = edges[e] + severed[e] + Joined(relations, e) + Joined(flight.relations, e)
        <3>1. CASE stage = "relations" /\ MergeEdges /\ Severs(relations)
            <4>1. severed'[e] = severed[e] + Joined(relations, e)
                BY <1>0, <1>e, <3>1
            <4> QED
                BY <1>0, <1>a, <1>d, <3>1, <4>1
        <3>2. CASE UNCHANGED edges /\ Severs(relations \o flight.relations)
            <4>1. severed'[e] = severed[e] + Joined(relations \o flight.relations, e)
                BY <1>e, <2>2, <3>2
            <4> QED
                BY <1>0, <1>a, <2>2, <3>2, <4>1
        <3> QED
            BY <2>1, <3>1, <3>2
    <2>4. relations' = <<>> /\ flight' = NoRows /\ written' = written
        BY <2>1 DEF Halt
    <2>5. Counted(e)' = edges'[e] + severed'[e] + 0 + 0
        BY <1>b, <2>4 DEF Counted, NoRows
    <2> QED
        BY <1>0, <1>a, <1>c, <2>3, <2>4, <2>5 DEF Counted
<1> QED
    BY <1>2, <1>3, <1>4, <1>6, <1>7, <1>8, <1>9, <1>10, <1>11 DEF Next, MainStep, TimerStep

\* Every relation row written stays counted, once.
LEMMA AllCountedStep == GraphInv /\ [Next]_vars => AllCounted'
<1> SUFFICES ASSUME GraphInv, [Next]_vars, NEW e \in Edges
             PROVE  Counted(e)' = EdgeSum(written', e)
    BY DEF AllCounted
<1>1. Counted(e) = EdgeSum(written, e)
    BY DEF GraphInv, AllCounted
<1>2. CASE written' = written /\ Counted(e)' = Counted(e)
    BY <1>1, <1>2
<1>3. CASE /\ main = "queued" /\ written' = Append(written, Post)
           /\ Counted(e)' = Counted(e) + Joined(RelationRows(Post), e)
    <2>1. Post \in Msgs /\ written \in Seq(Msgs)
        BY <1>3, PostRows DEF GraphInv, GraphTypes
    <2>2. \A m \in Msgs : Joined(RelationRows(m), e) \in Nat
        BY RelationRowsFit, JoinedType
    <2>3. EdgeSum(Append(written, Post), e)
              = EdgeSum(written, e) + Joined(RelationRows(Post), e)
        BY <2>1, <2>2, EdgeSumOfAppend
    <2> QED
        BY <1>1, <1>3, <2>3
<1> QED
    BY <1>2, <1>3, CountedStep

\* The invariant says what RelationsAreConserved says.
LEMMA CountedIsConserved == GraphInv => RelationsAreConserved
BY DEF GraphInv, AllCounted, RelationsAreConserved, Counted, EdgeSum
-----------------------------------------------------------------------------
\* The invariant holds at the start.
LEMMA GraphInit == Init => GraphInv
<1> SUFFICES ASSUME Init PROVE GraphInv
    OBVIOUS
<1>1. BusInv
    BY BusInvInit DEF Init
<1>2. GraphTypes
    <2>1. <<>> \in Seq(EntityRow) /\ <<>> \in Seq(RelationRow) /\ <<>> \in Seq(Msgs)
        OBVIOUS
    <2> QED
        BY <2>1 DEF GraphTypes, Init, NoRows
<1>3. InStep
    BY EnrichedIsStream DEF Init, BusInit, InStep
<1>4. LockFits
    <2>1. ToSet(<<>>) = {}
        BY DEF ToSet
    <2> QED
        BY <2>1 DEF Init, LockFits, Queues
<1>5. FlightFits
    BY NoRowsAreFew DEF Init, FlightFits, NoRows
<1>6. TravelTogether /\ NoRelationUnmatched
    BY NoRowsEnd DEF Init, TravelTogether, NoRelationUnmatched, NoRows
<1>7. AllTraced
    <2> SUFFICES ASSUME NEW k \in Keys PROVE Traced(k) = MentionSum(written, k)
        BY DEF AllTraced
    <2>1. MentionSum(<<>>, k) = 0
        BY NoneMentioned
    <2>2. Mentioned(<<>>, k) = 0
        <3>1. <<>> \in Seq(EntityRow)
            OBVIOUS
        <3> QED
            BY <3>1, MentionedType
    <2> QED
        BY <2>1, <2>2 DEF Init, Traced
<1>8. AllCounted
    <2> SUFFICES ASSUME NEW e \in Edges PROVE Counted(e) = EdgeSum(written, e)
        BY DEF AllCounted
    <2>1. EdgeSum(<<>>, e) = 0
        BY NoneJoined
    <2>2. Joined(<<>>, e) = 0
        <3>1. <<>> \in Seq(RelationRow)
            OBVIOUS
        <3> QED
            BY <3>1, JoinedType
    <2> QED
        BY <2>1, <2>2 DEF Init, Counted, NoRows
<1> QED
    BY <1>1, <1>2, <1>3, <1>4, <1>5, <1>6, <1>7, <1>8 DEF GraphInv

\* The inductive invariant of the graph builder (services/graph_builder:
\* main() and GraphWriterService): who holds the lock writes, rows are in
\* flight exactly while somebody writes, relations travel with their entities,
\* and every mention and relation is where it can be counted.
THEOREM GraphInvariant == Spec => []GraphInv
<1>1. GraphInv /\ [Next]_vars => GraphInv'
    <2>1. GraphInv /\ [Next]_vars => BusInv'
        BY GraphStepIsBusStep, BusInvStep DEF GraphInv
    <2>2. ASSUME BusInv', GraphTypes', InStep', LockFits', FlightFits', TravelTogether',
                 NoRelationUnmatched', AllTraced', AllCounted'
          PROVE  GraphInv'
        BY <2>2 DEF GraphInv
    <2> QED
        BY <2>1, <2>2, GraphTypesStep, InStepStep, LockFitsStep, FlightFitsStep, TravelStep,
            UnmatchedStep, AllTracedStep, AllCountedStep
<1> QED
    BY <1>1, GraphInit, PTL DEF Spec

\* Type correctness, with the lock's discipline: rows are in flight exactly
\* during a flush, and the buffers stay short of a flush whenever nobody works
\* on them (_flush_locked, _should_flush).
THEOREM GraphWriterTypes == Spec => []TypeOK
<1>1. GraphInv => TypeOK
    <2> SUFFICES ASSUME GraphInv PROVE TypeOK
        OBVIOUS
    <2>1. /\ BusTypeOK /\ GraphTypes /\ lockq \in Queues
          /\ stage # "none" <=> flight.entities # <<>>
          /\ stage # "none" <=> main \in {"writing", "last"} \/ timer = "writing"
          /\ ~ IsFull(entities, relations)
        BY DEF GraphInv, BusInv, LockFits, FlightFits
    <2>2. lockq \in Seq({Timer, Main})
        <3>1. /\ <<>> \in Seq({Timer, Main})
              /\ <<Main>> \in Seq({Timer, Main}) /\ <<Timer>> \in Seq({Timer, Main})
              /\ <<Main, Timer>> \in Seq({Timer, Main})
              /\ <<Timer, Main>> \in Seq({Timer, Main})
            OBVIOUS
        <3> QED
            BY <2>1, <3>1 DEF Queues
    <2> QED
        BY <2>1, <2>2 DEF TypeOK, GraphTypes
<1> QED
    BY <1>1, GraphInvariant, PTL

\* No relation is lost for want of an end node: whenever relations are upserted
\* (UPSERT_RELATIONS_BATCH), the nodes they MATCH are in the graph, because a
\* post's entities go before its relations under the same keys (qid_by_form).
THEOREM RelationsFindTheirEnds == Spec => []NoRelationUnmatched
<1>1. GraphInv => NoRelationUnmatched
    BY DEF GraphInv
<1> QED
    BY <1>1, GraphInvariant, PTL

\* Every mention the consumer wrote is in the graph, in the buffers, in flight,
\* or was lost to a failed upsert or a crash; none is counted twice
\* (write_payload, _flush_locked, UPSERT_ENTITIES_BATCH).
THEOREM MentionsConserved == Spec => []MentionsAreConserved
BY TracedIsConserved, GraphInvariant, PTL

\* Every relation row the consumer wrote is in its edge's update_count, in the
\* buffers, in flight, or was lost to a failed upsert or a crash; no failure,
\* restart or timer flush upserts a row twice (UPSERT_RELATIONS_BATCH).
THEOREM RelationsConserved == Spec => []RelationsAreConserved
BY CountedIsConserved, GraphInvariant, PTL
=============================================================================
