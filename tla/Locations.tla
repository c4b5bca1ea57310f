------------------------------ MODULE Locations ------------------------------
(* GET /locations of the API gateway: the most mentioned places, their      *)
(* Wikidata ids, and a cache-aside look-up of their coordinates in batches, *)
(* by concurrent requests over one cache.                                   *)
EXTENDS Counting, SequencesExt

CONSTANTS
    Requests,
    Ranked,     \* the texts of the indexed LOC entities, by mentions
    IdsOf,      \* of each text, the ids its mentions were linked to
    Place,      \* of each id, what Wikidata has: coordinates, or NoPlace
    NoPlace,    \* None, which the cache keeps as a sentinel
    Unknown,    \* no key in the cache
    NoId,       \* None for a text that was never linked
    Sizes,      \* the sizes asked for
    Batch,      \* WBGETENTITIES_BATCH
    MaxFailed   \* bound: failed requests to Wikidata

ASSUME PlacesAssumption ==
    /\ Ranked \in Seq(ToSet(Ranked)) /\ IsInjective(Ranked)
    /\ DOMAIN IdsOf = ToSet(Ranked)
    /\ \A t \in ToSet(Ranked) : IdsOf[t] \subseteq DOMAIN Place
    /\ Unknown \notin Range(Place) \cup {NoPlace} /\ NoId \notin DOMAIN Place
    /\ Batch \in Nat \ {0} /\ Sizes \subseteq Nat \ {0} /\ MaxFailed \in Nat

VARIABLES
    cache,      \* Redis: of each id its coordinates, NoPlace or Unknown
    request,    \* of each request, where it stands
    size,       \* of each request, the size asked for
    idOf,       \* of each request, the ids of the texts it considers
    coords,     \* of each request, the coordinates it has: a dict
    fetched,    \* of each request, the ids it fetches with what came: a dict
    rest,       \* of each request, the ids of the batches to come
    answer,     \* of each request, the texts it returned
    failed      \* history: ids whose batch failed, in the order of failures

locationVars == <<cache, request, size, idOf, coords, fetched, rest, answer, failed>>

Ids == DOMAIN Place
Nothing == [q \in {} |-> NoPlace]

LocationsInit ==
    /\ cache = [q \in Ids |-> Unknown]
    /\ request = [r \in Requests |-> "idle"]
    /\ size = [r \in Requests |-> 0]
    /\ idOf = [r \in Requests |-> [t \in {} |-> NoId]]
    /\ coords = [r \in Requests |-> Nothing]
    /\ fetched = [r \in Requests |-> Nothing]
    /\ rest = [r \in Requests |-> {}]
    /\ answer = [r \in Requests |-> <<>>]
    /\ failed = <<>>

At(r, place) == request' = [request EXCEPT ![r] = place]

\* top(etype="LOC", size * 3).
Considered(n) == SubSeq(Ranked, 1, Min({3 * n, Len(Ranked)}))

\* wikidata_ids_for takes the id of one sample mention of each text.
SampleIds(texts) ==
    {f \in [texts -> Ids \cup {NoId}] :
        \A t \in texts : IF IdsOf[t] = {} THEN f[t] = NoId ELSE f[t] \in IdsOf[t]}

Ask(r) ==
    /\ request[r] = "idle"
    /\ \E n \in Sizes : \E f \in SampleIds(ToSet(Considered(n))) :
          size' = [size EXCEPT ![r] = n] /\ idOf' = [idOf EXCEPT ![r] = f]
    /\ At(r, "looking up")
    /\ UNCHANGED <<cache, coords, fetched, rest, answer, failed>>

\* The ranks of the texts with coordinates.
Located(n, ids, found) ==
    {k \in DOMAIN Considered(n) :
        LET q == ids[Ranked[k]] IN q # NoId /\ q \in DOMAIN found /\ found[q] # NoPlace}

\* mutated: the loop ends at one more than size.
ShownOneMore(n, located) ==
    [j \in 1 .. Min({n + 1, Cardinality(located)}) |-> Ranked[Nth(located, j)]]

\* The first of them, by mentions, as many as asked for.
Shown(n, located) == [j \in 1 .. Min({n, Cardinality(located)}) |-> Ranked[Nth(located, j)]]

Reply(r) ==
    /\ At(r, "done")
    /\ answer' = [answer EXCEPT ![r] = Shown(size[r], Located(size[r], idOf[r], coords'[r]))]

\* dict.update
Updated(f, g) ==
    [q \in DOMAIN f \cup DOMAIN g |-> IF q \in DOMAIN g THEN g[q] ELSE f[q]]

\* mget of all ids; those without a key are to be fetched, None until then.
GetMany(r) ==
    LET asked == Range(idOf[r]) \ {NoId}
        missing == {q \in asked : cache[q] = Unknown}
    IN  /\ request[r] = "looking up"
        /\ coords' = [coords EXCEPT ![r] = [q \in asked \ missing |-> cache[q]]]
        /\ fetched' = [fetched EXCEPT ![r] = [q \in missing |-> NoPlace]]
        /\ rest' = [rest EXCEPT ![r] = missing]
        /\ IF missing = {} THEN Reply(r) ELSE At(r, "fetching") /\ UNCHANGED answer
        /\ UNCHANGED <<cache, size, idOf, failed>>

\* The ids are in no particular order: list() of a set.
Batches(ids) == kSubset(Min({Batch, Cardinality(ids)}), ids)

\* mutated: the first failure ends the look-up.
BreakAt(ids, batch) == {}

ContinueAfter(ids, batch) == ids \ batch

\* A batch that fails, by a timeout, a status or a body that is no JSON, is
\* passed over.
FetchBatch(r) ==
    /\ request[r] = "fetching" /\ rest[r] # {}
    /\ \E batch \in Batches(rest[r]) :
          \/ /\ fetched' = [fetched EXCEPT ![r] = Updated(@, [q \in batch |-> Place[q]])]
             /\ rest' = [rest EXCEPT ![r] = @ \ batch]
             /\ UNCHANGED failed
          \/ /\ Len(failed) < MaxFailed
             /\ failed' = Append(failed, batch)
             /\ rest' = [rest EXCEPT ![r] = ContinueAfter(@, batch)]
             /\ UNCHANGED fetched
    /\ UNCHANGED <<cache, request, size, idOf, coords, answer>>

\* One transaction sets all that was fetched, None too, then the reply goes out.
SetMany(r) ==
    /\ request[r] = "fetching" /\ rest[r] = {}
    /\ cache' = Updated(cache, fetched[r])
    /\ coords' = [coords EXCEPT ![r] = Updated(@, fetched[r])]
    /\ Reply(r)
    /\ UNCHANGED <<size, idOf, fetched, rest, failed>>

\* The request is over, with an answer or with an exception of a client.
Over(r) ==
    /\ request[r] # "idle"
    /\ At(r, "idle")
    /\ size' = [size EXCEPT ![r] = 0]
    /\ idOf' = [idOf EXCEPT ![r] = [t \in {} |-> NoId]]
    /\ coords' = [coords EXCEPT ![r] = Nothing]
    /\ fetched' = [fetched EXCEPT ![r] = Nothing]
    /\ rest' = [rest EXCEPT ![r] = {}]
    /\ answer' = [answer EXCEPT ![r] = <<>>]
    /\ UNCHANGED <<cache, failed>>

\* mutated: the sentinel is stored without ex=.
HasCoordsTtl(q) == cache[q] \notin {Unknown, NoPlace}

HasTtl(q) == cache[q] # Unknown

Expire(q) ==
    /\ HasTtl(q)
    /\ cache' = [cache EXCEPT ![q] = Unknown]
    /\ UNCHANGED <<request, size, idOf, coords, fetched, rest, answer, failed>>

LocationsNext ==
    \/ \E r \in Requests : Ask(r) \/ GetMany(r) \/ FetchBatch(r) \/ SetMany(r) \/ Over(r)
    \/ \E q \in Ids : Expire(q)

LocationsSpec == LocationsInit /\ [][LocationsNext]_locationVars
-----------------------------------------------------------------------------
\* Types; what a request still fetches has its None already, and an answer is
\* no longer than the size asked for.
LocationsTypeOK ==
    /\ cache \in [Ids -> Range(Place) \cup {NoPlace, Unknown}]
    /\ request \in [Requests -> {"idle", "looking up", "fetching", "done"}]
    /\ \A r \in Requests :
          /\ size[r] \in Sizes \cup {0}
          /\ DOMAIN idOf[r] \subseteq ToSet(Ranked)
          /\ DOMAIN coords[r] \subseteq Ids
          /\ rest[r] \subseteq DOMAIN fetched[r]
          /\ Len(answer[r]) <= size[r]

Blamed == UNION ToSet(failed)

\* A place that has coordinates is missing for a reason: the cache denies it
\* only after a failed batch it was in, and an answer that leaves it out is
\* full of places mentioned more, or knows it by such a denial; whatever the
\* order of the batches, the cache and the other requests.
MissingHasCause ==
    /\ \A q \in Ids : cache[q] = NoPlace => Place[q] = NoPlace \/ q \in Blamed
    /\ \A r \in Requests : request[r] = "done" =>
          \A k \in DOMAIN Considered(size[r]) :
             LET t == Ranked[k] IN
                 \/ t \in ToSet(answer[r])
                 \/ idOf[r][t] = NoId \/ Place[idOf[r][t]] = NoPlace \/ idOf[r][t] \in Blamed
                 \/ /\ Len(answer[r]) = size[r]
                    /\ ToSet(answer[r]) \subseteq ToSet(SubSeq(Ranked, 1, k - 1))

\* A failed request, also one that overwrites what a concurrent request found,
\* hides a place for a time only: once requests stop failing, the denials
\* expire and do not come back.
DenialsExpire == \A q \in Ids : Place[q] # NoPlace => <>[](cache[q] # NoPlace)
=============================================================================
