-------------------------------- MODULE Charts --------------------------------
(* Three charts from the store to the screen: the flows from channels to    *)
(* entities (GET /sankey and the dashboard's sankey view), the graph around *)
(* an entity (GET /graph/subgraph and its graph view) and the statistics    *)
(* (GET /stats and its view).  A step is a row, a record or a request;      *)
(* layout, colours and labels' wording are left out.                        *)
EXTENDS Counting, SequencesExt

CONSTANTS
    Flows,      \* answers of by_channel: sequences of [key, top], top a sequence of [key, count]
    Nodes,      \* the keys of the entities in Neo4j
    IsNamed,    \* those whose text is, in lower case, the entity asked for
    Graphs,     \* sets of MENTIONED_WITH relations [head, tail, weight]
    Records,    \* LIMIT of the query
    Documents,  \* what is indexed: records [index, value], a value of the index
                \* posts is [source, day]
    TrackedHits,\* 10,000: how far OpenSearch counts the hits of a query by default
    Days,       \* 30, the days before the last one in the line
    MaxStored   \* bound: documents of an index

ASSUME ChartsAssumption ==
    /\ \A edges \in Graphs : IsFiniteSet(edges)
    /\ Records \in Nat /\ Days \in Nat
    /\ \A doc \in Documents :
          doc.index \in {"posts", "labels"} /\ (doc.index = "posts" => doc.value.day \in Int)

ASSUME TrackedHitsAssumption == TrackedHits \in Nat \ {0}

\* A terms aggregation answers ten buckets, more than there are sources.
ASSUME SourcesAssumption ==
    Cardinality({doc.value.source : doc \in {x \in Documents : x.index = "posts"}}) <= 10

VARIABLES
    chart,      \* what is drawn
    stored,     \* what the store holds
    rows,       \* what the gateway answered and the view has not seen yet
    drawn       \* what the view has built

chartVars == <<chart, stored, rows, drawn>>

Blank == chart = "none" /\ stored = <<>> /\ rows = <<>> /\ drawn = <<>>

\* EntitiesService.sankey: a row per entity of a channel.
Rows(flows) ==
    FlattenSeq([k \in DOMAIN flows |->
        [j \in DOMAIN flows[k].top |->
            [channel |-> flows[k].key, entity |-> flows[k].top[j].key, count |-> flows[k].top[j].count]]])

SankeyInit ==
    /\ chart = "sankey" /\ stored \in Flows /\ rows = Rows(stored)
    /\ drawn = [channels |-> <<>>, entities |-> <<>>, seen |-> <<>>]

Numbered(s, x) == IF x \in ToSet(s) THEN s ELSE Append(s, x)

SankeyRow ==
    /\ chart = "sankey" /\ rows # <<>>
    /\ drawn' = [channels |-> Numbered(drawn.channels, Head(rows).channel),
                 entities |-> Numbered(drawn.entities, Head(rows).entity),
                 seen |-> Append(drawn.seen, Head(rows))]
    /\ rows' = Tail(rows)
    /\ UNCHANGED <<chart, stored>>

Number(s, x) == SelectInSeq(s, LAMBDA y : y = x)

\* The nodes are the channels, then the entities; a link joins two numbers.
Labels == drawn.channels \o drawn.entities
Source(r) == Number(drawn.channels, r.channel)
Target(r) == Len(drawn.channels) + Number(drawn.entities, r.entity)
Links == [k \in DOMAIN drawn.seen |->
            [source |-> Source(drawn.seen[k]), target |-> Target(drawn.seen[k]), value |-> drawn.seen[k].count]]

\* (e)-[r]-(o) has no direction: an edge between two entities of the name
\* comes twice, a loop once.
Matching(edges) ==
    {[e |-> x.head, o |-> x.tail, r |-> x] : x \in {y \in edges : y.head \in IsNamed}}
    \cup {[e |-> x.tail, o |-> x.head, r |-> x] : x \in {y \in edges : y.tail \in IsNamed}}

\* LIMIT without ORDER BY: any of the records, in any order.
Answers(edges) ==
    LET found == Matching(edges)
        n == IF Cardinality(found) < Records THEN Cardinality(found) ELSE Records
    IN  {s \in [1 .. n -> found] : IsInjective(s)}

GraphInit ==
    /\ chart = "graph" /\ stored \in Graphs /\ rows \in Answers(stored)
    /\ drawn = [nodes |-> {}, lines |-> [pair \in {} |-> 0], seen |-> <<>>]

Pair(rec) == {rec.e, rec.o}

\* mutated: a pair that has a line keeps it.
LinedOnce(lines, rec) ==
    [pair \in DOMAIN lines \cup {Pair(rec)} |->
        IF pair \in DOMAIN lines THEN lines[pair] ELSE rec.r.weight]

\* nx.Graph has one line for a pair: an edge the other way round overwrites it.
Lined(lines, rec) ==
    [pair \in DOMAIN lines \cup {Pair(rec)} |->
        IF pair = Pair(rec) THEN rec.r.weight ELSE lines[pair]]

GraphRecord ==
    /\ chart = "graph" /\ rows # <<>>
    /\ LET rec == Head(rows) IN
          drawn' = [nodes |-> drawn.nodes \cup Pair(rec),
                    lines |-> Lined(drawn.lines, rec),
                    seen |-> Append(drawn.seen, rec)]
    /\ rows' = Tail(rows)
    /\ UNCHANGED <<chart, stored>>

\* StatsService.collect asks for the posts and for the sentiments at once, while
\* both are being indexed.
StatsInit ==
    /\ chart = "stats" /\ stored = [posts |-> <<>>, labels |-> <<>>]
    /\ rows = [asked |-> {"posts", "labels"}, answered |-> [posts |-> 0, labels |-> 0]]
    /\ drawn = <<>>

IndexDocument ==
    /\ chart = "stats"
    /\ \E doc \in Documents :
          /\ Len(stored[doc.index]) < MaxStored
          /\ stored' = [stored EXCEPT ![doc.index] = Append(@, doc.value)]
    /\ UNCHANGED <<chart, rows, drawn>>

Tally(values) == [v \in ToSet(values) |-> Cardinality({k \in DOMAIN values : values[k] = v})]

\* date_histogram: every day from the first to the last, also one without posts.
Histogram(days) ==
    IF days = <<>> THEN <<>>
    ELSE [d \in Min(ToSet(days)) .. Max(ToSet(days)) |-> Cardinality({k \in DOMAIN days : days[k] = d})]

\* The query does not ask to track all hits: its total stops at TrackedHits,
\* the buckets count every post.
OfPosts(posts) ==
    [total |-> Min({Len(posts), TrackedHits}),
     by_source |-> Tally([k \in DOMAIN posts |-> posts[k].source]),
     by_day |-> Histogram([k \in DOMAIN posts |-> posts[k].day])]

AnswerPosts ==
    /\ chart = "stats" /\ "posts" \in rows.asked
    /\ rows' = [asked |-> rows.asked \ {"posts"},
                answered |-> [rows.answered EXCEPT !.posts = OfPosts(stored.posts)]]
    /\ UNCHANGED <<chart, stored, drawn>>

AnswerLabels ==
    /\ chart = "stats" /\ "labels" \in rows.asked
    /\ rows' = [asked |-> rows.asked \ {"labels"},
                answered |-> [rows.answered EXCEPT !.labels = Tally(stored.labels)]]
    /\ UNCHANGED <<chart, stored, drawn>>

\* mutated: days without posts stay in the line.
LineWithGaps(by_day) == {d \in DOMAIN by_day : Max(DOMAIN by_day) - d <= Days}

\* The days with posts, from Days before the last of them.
Line(by_day) ==
    LET full == {d \in DOMAIN by_day : by_day[d] > 0}
    IN  {d \in full : d >= Max(full) - Days}

Board(reply) ==
    [total |-> reply.posts.total, sources |-> reply.posts.by_source, labels |-> reply.labels,
     line |-> Restrict(reply.posts.by_day, Line(reply.posts.by_day))]

DrawStats ==
    /\ chart = "stats" /\ rows.asked = {} /\ drawn = <<>>
    /\ drawn' = Board(rows.answered)
    /\ UNCHANGED <<chart, stored, rows>>

ChartsNext ==
    \/ SankeyRow \/ GraphRecord
    \/ IndexDocument \/ AnswerPosts \/ AnswerLabels \/ DrawStats

ChartsInit == SankeyInit \/ GraphInit \/ StatsInit

ChartsSpec == ChartsInit /\ [][ChartsNext]_chartVars
-----------------------------------------------------------------------------
\* However often channels and entities repeat, and when one is named as the
\* other, a link leads from its row's channel to its row's entity.
SankeyIsTrue ==
    chart = "sankey" =>
        \A k \in DOMAIN Links :
            LET r == drawn.seen[k]
                link == Links[k]
            IN  /\ link.source <= Len(drawn.channels) /\ Labels[link.source] = r.channel
                /\ link.target > Len(drawn.channels) /\ Labels[link.target] = r.entity

\* Every line joins two nodes that are drawn, one of them the entity asked for,
\* and shows one edge of the store: of the edges of its pair, which may lead
\* either way, the one whose record came last.  Without a cut by the limit every
\* edge of the entity has a line.
GraphIsTrue ==
    chart = "graph" =>
        /\ \A pair \in DOMAIN drawn.lines :
              /\ pair \subseteq drawn.nodes /\ pair \cap IsNamed # {}
              /\ \E k \in DOMAIN drawn.seen :
                    LET edge == drawn.seen[k].r IN
                    /\ edge \in stored /\ {edge.head, edge.tail} = pair
                    /\ edge.weight = drawn.lines[pair]
                    /\ \A j \in DOMAIN drawn.seen : Pair(drawn.seen[j]) = pair => j <= k
        /\ rows = <<>> /\ Cardinality(Matching(stored)) <= Records =>
              DOMAIN drawn.lines = {{x.head, x.tail} :
                                       x \in {y \in stored : {y.head, y.tail} \cap IsNamed # {}}}

\* Whatever is indexed meanwhile, all that is said of the posts is said of the
\* same ones, the first of the index: every source and every day of the line
\* counts its share of them, no day with posts is left out of the window, and
\* the number of posts is their number, or TrackedHits when they are more.
StatsAreTrue ==
    chart = "stats" /\ drawn # <<>> =>
        LET n == Total(drawn.sources)
            counted == SubSeq(stored.posts, 1, n)
            On(d) == {k \in DOMAIN counted : counted[k].day = d}
        IN  /\ n <= Len(stored.posts) /\ drawn.total = Min({n, TrackedHits})
            /\ Total(drawn.labels) <= Len(stored.labels)
            /\ \A d \in DOMAIN drawn.line : drawn.line[d] > 0 /\ drawn.line[d] = Cardinality(On(d))
            /\ \A k \in DOMAIN counted :
                  \/ counted[k].day \in DOMAIN drawn.line
                  \/ \E j \in DOMAIN counted : counted[j].day > counted[k].day + Days
=============================================================================
