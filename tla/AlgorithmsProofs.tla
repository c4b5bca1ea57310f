-------------------------- MODULE AlgorithmsProofs --------------------------
(***************************************************************************)
(* The relations extract finds, the charts the dashboard draws and the     *)
(* reports of the evaluation scripts, for every set of posts, every store  *)
(* and every corpus.                                                       *)
(***************************************************************************)
EXTENDS Relations, Charts, Evaluation, CountingProofs

-----------------------------------------------------------------------------
(* Relations: each pair is reported once per distance, and no pair of the  *)
(* window is missed unless the pair with exchanged types is there.         *)

\* The key of relation r, as extract computed it from its mentions.
KeyOf(r) == Key(r.head, r.tail, r.away)

\* seen holds the keys of the relations reported, each of one relation.
SeenAreReported ==
    /\ \A k \in DOMAIN rels : KeyOf(rels[k]) \in seen
    /\ \A key \in seen : \E k \in DOMAIN rels : KeyOf(rels[k]) = key
    /\ \A j, k \in DOMAIN rels : KeyOf(rels[j]) = KeyOf(rels[k]) => j = k

\* A pair the loops have behind them is of one name or has its key in seen.
VisitedAreSeen ==
    \A p, q \in DOMAIN mentions :
        IsVisited(p, q) /\ <<p, q>> \notin todo =>
            \/ SameName(mentions[p], mentions[q])
            \/ Key(mentions[p], mentions[q], Away(p, q)) \in seen

\* What is still to visit is what the loops reach.
TodoAreVisited == \A v \in todo : IsVisited(v[1], v[2])

\* Every relation joins two mentions that the loops visit.
RelsAreInWindow ==
    \A k \in DOMAIN rels :
        /\ rels[k].head # rels[k].tail
        /\ \E p, q \in DOMAIN mentions :
              InWindow(p, q) /\ rels[k] = Relation(p, q)

RelInv ==
    /\ TypeOK
    /\ TodoAreVisited
    /\ SeenAreReported
    /\ VisitedAreSeen
    /\ RelsAreInWindow

-----------------------------------------------------------------------------
\* The smaller and the larger of two numbers determine the two.
LEMMA EndsDeterminePair ==
    \A a, b, c, d \in Nat :
        (Least(a, b) = Least(c, d) /\ Greatest(a, b) = Greatest(c, d))
            <=> (a = c /\ b = d) \/ (a = d /\ b = c)
BY DEF Least, Greatest

\* Two relations have one key exactly if they have the same texts, the same
\* types and the same distance.
LEMMA KeyMeans ==
    ASSUME NEW a, NEW b, NEW c, NEW d, NEW m, NEW n,
           a.text \in Nat, b.text \in Nat, c.text \in Nat, d.text \in Nat,
           a.type \in Nat, b.type \in Nat, c.type \in Nat, d.type \in Nat
    PROVE  Key(a, b, m) = Key(c, d, n) <=>
               /\ {a.text, b.text} = {c.text, d.text}
               /\ {a.type, b.type} = {c.type, d.type}
               /\ m = n
<1>1. Key(a, b, m) = Key(c, d, n) <=>
          /\ Least(a.text, b.text) = Least(c.text, d.text)
          /\ Greatest(a.text, b.text) = Greatest(c.text, d.text)
          /\ Least(a.type, b.type) = Least(c.type, d.type)
          /\ Greatest(a.type, b.type) = Greatest(c.type, d.type)
          /\ m = n
    BY DEF Key
<1>2. (Least(a.text, b.text) = Least(c.text, d.text)
           /\ Greatest(a.text, b.text) = Greatest(c.text, d.text))
              <=> (a.text = c.text /\ b.text = d.text) \/ (a.text = d.text /\ b.text = c.text)
    BY EndsDeterminePair
<1>3. (Least(a.type, b.type) = Least(c.type, d.type)
           /\ Greatest(a.type, b.type) = Greatest(c.type, d.type))
              <=> (a.type = c.type /\ b.type = d.type) \/ (a.type = d.type /\ b.type = c.type)
    BY EndsDeterminePair
<1>4. \A w, x, y, z : {w, x} = {y, z} <=> (w = y /\ x = z) \/ (w = z /\ x = y)
    OBVIOUS
<1>5. {a.text, b.text} = {c.text, d.text}
          <=> (a.text = c.text /\ b.text = d.text) \/ (a.text = d.text /\ b.text = c.text)
    BY <1>4
<1>6. {a.type, b.type} = {c.type, d.type}
          <=> (a.type = c.type /\ b.type = d.type) \/ (a.type = d.type /\ b.type = c.type)
    BY <1>4
<1> QED
    BY <1>1, <1>2, <1>3, <1>5, <1>6

\* A pair of the window is well typed, and its distance within the radius.
LEMMA PairTypes ==
    ASSUME mentions \in Seq(Mention), NEW p \in DOMAIN mentions, NEW q \in DOMAIN mentions
    PROVE  /\ mentions[p] \in Mention
           /\ mentions[q] \in Mention
           /\ InWindow(p, q) => Away(p, q) \in 0 .. Radius
<1>1. mentions[p] \in Mention /\ mentions[q] \in Mention
    BY ElementOfSeq
<1>2. mentions[p].at \in Nat /\ mentions[q].at \in Nat
    BY <1>1 DEF Mention
<1> QED
    BY <1>1, <1>2, RadiusAssumption DEF InWindow, Away

\* A relation of the result is well typed.
LEMMA RelTypes ==
    ASSUME RelInv, NEW k \in DOMAIN rels
    PROVE  rels[k] \in [head : NameType, tail : NameType, away : 0 .. Radius]
<1> DEFINE T == [head : NameType, tail : NameType, away : 0 .. Radius]
<1>1. rels \in Seq(T) /\ k \in 1 .. Len(rels)
    BY DEF RelInv, TypeOK
<1> HIDE DEF T
<1>2. rels[k] \in T
    BY <1>1, ElementOfSeq
<1> QED
    BY <1>2 DEF T

\* The relation of a pair has the key of the pair.
LEMMA KeyOfRelation ==
    ASSUME NEW p, NEW q
    PROVE  KeyOf(Relation(p, q)) = Key(mentions[p], mentions[q], Away(p, q))
BY DEF KeyOf, Relation, Name, Key

-----------------------------------------------------------------------------
\* The invariant holds before the first round.
LEMMA RelInit == Init => RelInv
<1> SUFFICES ASSUME Init PROVE RelInv
    OBVIOUS
<1>1. TypeOK
    BY PostsAssumption DEF Init, TypeOK
<1>2. SeenAreReported /\ RelsAreInWindow /\ TodoAreVisited
    BY DEF Init, SeenAreReported, RelsAreInWindow, TodoAreVisited
<1>3. VisitedAreSeen
    BY DEF Init, VisitedAreSeen, Pairs
<1> QED
    BY <1>1, <1>2, <1>3 DEF RelInv

\* A pair that is skipped needs nothing but what is already seen.
LEMMA SkipStep ==
    ASSUME RelInv, NEW p, NEW q, <<p, q>> \in todo, Skip(p, q)
    PROVE  RelInv'
<1>1. TypeOK' /\ TodoAreVisited'
    BY DEF Skip, RelInv, TypeOK, TodoAreVisited, Pairs, IsVisited, InWindow
<1>2. SeenAreReported' /\ RelsAreInWindow'
    BY DEF Skip, RelInv, SeenAreReported, RelsAreInWindow, InWindow, Relation, Away
<1>3. VisitedAreSeen'
    BY DEF Skip, RelInv, VisitedAreSeen, IsVisited, InWindow, Away
<1> QED
    BY <1>1, <1>2, <1>3 DEF RelInv

\* A relation that is reported has a new key, and its pair gets it seen.
LEMMA ReportStep ==
    ASSUME RelInv, NEW p, NEW q, <<p, q>> \in todo, Report(p, q)
    PROVE  RelInv'
<1> DEFINE key == Key(mentions[p], mentions[q], Away(p, q))
<1> DEFINE new == Relation(p, q)
<1>1. /\ p \in DOMAIN mentions
      /\ q \in DOMAIN mentions
      /\ IsVisited(p, q)
      /\ rels \in Seq([head : NameType, tail : NameType, away : 0 .. Radius])
    BY DEF RelInv, TypeOK, TodoAreVisited, Pairs
<1>2. new \in [head : NameType, tail : NameType, away : 0 .. Radius]
    <2>1. /\ mentions[p] \in Mention
          /\ mentions[q] \in Mention
          /\ Away(p, q) \in 0 .. Radius
        BY <1>1, PairTypes DEF RelInv, TypeOK, IsVisited
    <2> QED
        BY <2>1 DEF Relation, Name, NameType, Mention
<1>3. /\ rels' = Append(rels, new)
      /\ seen' = seen \cup {key}
      /\ key \notin seen
      /\ todo' = todo \ {<<p, q>>}
      /\ mentions' = mentions
      /\ ~SameName(mentions[p], mentions[q])
    BY DEF Report
<1>4. /\ DOMAIN rels = 1 .. Len(rels)
      /\ Len(rels) \in Nat
      /\ DOMAIN rels' = 1 .. Len(rels) + 1
      /\ rels'[Len(rels) + 1] = new
      /\ \A k \in DOMAIN rels : rels'[k] = rels[k]
    BY <1>1, <1>3
<1>5. KeyOf(new) = key
    BY KeyOfRelation
<1>6. TypeOK'
    BY <1>1, <1>2, <1>3 DEF RelInv, TypeOK, Pairs
<1>7. TodoAreVisited'
    BY <1>3 DEF RelInv, TodoAreVisited, IsVisited, InWindow
<1>8. SeenAreReported'
    <2>1. \A k \in DOMAIN rels' : k \in DOMAIN rels \/ k = Len(rels) + 1
        BY <1>4
    <2>2. \A k \in DOMAIN rels : KeyOf(rels'[k]) = KeyOf(rels[k]) /\ KeyOf(rels[k]) \in seen
        BY <1>4 DEF RelInv, SeenAreReported
    <2>3. KeyOf(rels'[Len(rels) + 1]) = key
        BY <1>4, <1>5
    <2>4. \A k \in DOMAIN rels' : KeyOf(rels'[k]) \in seen'
        BY <1>3, <2>1, <2>2, <2>3
    <2>5. \A y \in seen' : \E k \in DOMAIN rels' : KeyOf(rels'[k]) = y
        <3>1. ASSUME NEW y \in seen PROVE \E k \in DOMAIN rels' : KeyOf(rels'[k]) = y
            <4>1. PICK k \in DOMAIN rels : KeyOf(rels[k]) = y
                BY <3>1 DEF RelInv, SeenAreReported
            <4> QED
                BY <1>4, <2>2, <4>1
        <3> QED
            BY <1>3, <1>4, <2>3, <3>1
    <2>6. \A j, k \in DOMAIN rels' : KeyOf(rels'[j]) = KeyOf(rels'[k]) => j = k
        <3>1. \A j, k \in DOMAIN rels : KeyOf(rels'[j]) = KeyOf(rels'[k]) => j = k
            BY <2>2 DEF RelInv, SeenAreReported
        <3>2. \A k \in DOMAIN rels : KeyOf(rels'[k]) # key
            BY <1>3, <2>2
        <3> QED
            BY <2>1, <2>3, <3>1, <3>2
    <2>7. \A k : KeyOf(rels[k])' = KeyOf(rels'[k])
        BY DEF KeyOf
    <2> QED
        BY <2>4, <2>5, <2>6, <2>7 DEF SeenAreReported
<1>9. VisitedAreSeen'
    BY <1>3 DEF RelInv, VisitedAreSeen, IsVisited, InWindow, Away
<1>10. RelsAreInWindow'
    <2>1. new.head # new.tail
        BY <1>3 DEF SameName, Relation, Name
    <2>2. \A k \in DOMAIN rels' :
              /\ rels'[k].head # rels'[k].tail
              /\ \E x, y \in DOMAIN mentions :
                    InWindow(x, y) /\ rels'[k] = Relation(x, y)
        BY <1>1, <1>4, <2>1 DEF RelInv, RelsAreInWindow, IsVisited
    <2>3. \A x, y : InWindow(x, y)' = InWindow(x, y) /\ Relation(x, y)' = Relation(x, y)
        BY <1>3 DEF InWindow, Relation, Away
    <2> QED
        BY <1>3, <2>2, <2>3 DEF RelsAreInWindow
<1> QED
    BY <1>6, <1>7, <1>8, <1>9, <1>10 DEF RelInv

\* Every round keeps the invariant.
LEMMA RelStep == RelInv /\ [Next]_vars => RelInv'
<1> SUFFICES ASSUME RelInv, [Next]_vars PROVE RelInv'
    OBVIOUS
<1>1. ASSUME NEW v \in todo, Skip(v[1], v[2]) \/ Report(v[1], v[2]) PROVE RelInv'
    <2>1. v = <<v[1], v[2]>>
        BY DEF RelInv, TypeOK, Pairs
    <2> QED
        BY <1>1, <2>1, SkipStep, ReportStep
<1>2. CASE UNCHANGED vars
    BY <1>2
       DEF vars, RelInv, TypeOK, TodoAreVisited, SeenAreReported, VisitedAreSeen,
           RelsAreInWindow, Pairs, IsVisited, InWindow, Away, Relation
<1> QED
    BY <1>1, <1>2 DEF Next

\* Every reachable state satisfies the inductive invariant.
THEOREM RelInvariant == Spec => []RelInv
BY RelInit, RelStep, PTL DEF Spec

-----------------------------------------------------------------------------
\* No pair of names is related twice at one distance, in whichever direction.
THEOREM ReportsOnce == Spec => []PairReportedOnce
<1>1. RelInv => PairReportedOnce
    <2> SUFFICES ASSUME RelInv,
                        NEW i \in DOMAIN rels, NEW j \in DOMAIN rels,
                        {rels[i].head, rels[i].tail} = {rels[j].head, rels[j].tail},
                        rels[i].away = rels[j].away
                 PROVE  i = j
        BY DEF PairReportedOnce
    <2>1. /\ rels[i] \in [head : NameType, tail : NameType, away : 0 .. Radius]
          /\ rels[j] \in [head : NameType, tail : NameType, away : 0 .. Radius]
        BY RelTypes
    <2>2. \/ rels[i].head = rels[j].head /\ rels[i].tail = rels[j].tail
          \/ rels[i].head = rels[j].tail /\ rels[i].tail = rels[j].head
        OBVIOUS
    <2>3. KeyOf(rels[i]) = KeyOf(rels[j])
        <3>1. /\ {rels[i].head.text, rels[i].tail.text} = {rels[j].head.text, rels[j].tail.text}
              /\ {rels[i].head.type, rels[i].tail.type} = {rels[j].head.type, rels[j].tail.type}
            BY <2>2
        <3> QED
            BY <2>1, <3>1, KeyMeans DEF KeyOf, NameType
    <2> QED
        BY <2>3 DEF RelInv, SeenAreReported
<1> QED
    BY <1>1, RelInvariant, PTL

\* What extract returns covers its window, up to an exchange of types.
THEOREM CoversWindow == Spec => []WindowIsCovered
<1>1. RelInv => WindowIsCovered
    <2> SUFFICES ASSUME RelInv, todo = {},
                        NEW p \in DOMAIN mentions, NEW q \in DOMAIN mentions,
                        AreRelated(p, q)
                 PROVE  \E k \in DOMAIN rels :
                            /\ {rels[k].head.text, rels[k].tail.text}
                                   = {mentions[p].text, mentions[q].text}
                            /\ {rels[k].head.type, rels[k].tail.type}
                                   = {mentions[p].type, mentions[q].type}
                            /\ rels[k].away = mentions[q].at - mentions[p].at
        BY DEF WindowIsCovered
    <2>1. mentions \in Seq(Mention) /\ DOMAIN mentions = 1 .. Len(mentions) /\ Len(mentions) \in Nat
        BY DEF RelInv, TypeOK
    <2>2. /\ mentions[p] \in Mention
          /\ mentions[q] \in Mention
        BY <2>1, PairTypes
    <2>3. /\ mentions[p].at \in Nat
          /\ mentions[q].at \in Nat
          /\ mentions[p].text \in Nat
          /\ mentions[q].text \in Nat
          /\ mentions[p].type \in Nat
          /\ mentions[q].type \in Nat
        BY <2>2 DEF Mention
    <2>4. ~SameName(mentions[p], mentions[q]) /\ ~SameName(mentions[q], mentions[p])
        BY DEF AreRelated, Name, SameName
    <2>5. Key(mentions[p], mentions[q], Away(p, q)) \in seen
        <3>1. p # q /\ p \in Nat /\ q \in Nat
            BY <2>1 DEF AreRelated
        <3>2. InWindow(p, q)
            BY <2>3, RadiusAssumption DEF AreRelated, InWindow
        <3>3. CASE IsVisited(p, q)
            BY <2>4, <3>3 DEF RelInv, VisitedAreSeen
        <3>4. CASE ~IsVisited(p, q)
            <4>1. mentions[p].at = mentions[q].at /\ q < p
                BY <3>1, <3>2, <3>4 DEF IsVisited
            <4>2. IsVisited(q, p)
                BY <2>3, <4>1, <3>2, RadiusAssumption DEF IsVisited, InWindow
            <4>3. Key(mentions[q], mentions[p], Away(q, p)) \in seen
                BY <2>4, <4>2 DEF RelInv, VisitedAreSeen
            <4>4. Away(q, p) = Away(p, q)
                BY <4>1 DEF Away
            <4>5. Key(mentions[q], mentions[p], Away(q, p)) = Key(mentions[p], mentions[q], Away(p, q))
                BY <2>3, <4>4, KeyMeans
            <4> QED
                BY <4>3, <4>5
        <3> QED
            BY <3>3, <3>4
    <2>6. PICK k \in DOMAIN rels : KeyOf(rels[k]) = Key(mentions[p], mentions[q], Away(p, q))
        BY <2>5 DEF RelInv, SeenAreReported
    <2>7. rels[k] \in [head : NameType, tail : NameType, away : 0 .. Radius]
        BY RelTypes
    <2>8. /\ {rels[k].head.text, rels[k].tail.text} = {mentions[p].text, mentions[q].text}
          /\ {rels[k].head.type, rels[k].tail.type} = {mentions[p].type, mentions[q].type}
          /\ rels[k].away = Away(p, q)
        BY <2>3, <2>6, <2>7, KeyMeans DEF KeyOf, NameType
    <2> QED
        BY <2>8 DEF Away
<1> QED
    BY <1>1, RelInvariant, PTL

\* Every relation joins two different names mentioned in the post, in the
\* window and in order: MATCH in the graph finds its ends if the mentions are
\* upserted.
THEOREM RelationsReal == Spec => []RelationsAreReal
<1>1. RelInv => RelationsAreReal
    <2> SUFFICES ASSUME RelInv, NEW k \in DOMAIN rels
                 PROVE  /\ rels[k].head # rels[k].tail
                        /\ \E p, q \in DOMAIN mentions :
                              AreRelated(p, q) /\ rels[k] = Relation(p, q)
        BY DEF RelationsAreReal
    <2>1. PICK p \in DOMAIN mentions, q \in DOMAIN mentions :
              InWindow(p, q) /\ rels[k] = Relation(p, q)
        BY DEF RelInv, RelsAreInWindow
    <2>2. rels[k].head # rels[k].tail
        BY DEF RelInv, RelsAreInWindow
    <2>3. mentions[p].at \in Nat /\ mentions[q].at \in Nat
        <3>1. mentions \in Seq(Mention) /\ p \in DOMAIN mentions /\ q \in DOMAIN mentions
            BY DEF RelInv, TypeOK
        <3>2. mentions[p] \in Mention /\ mentions[q] \in Mention
            BY <3>1
        <3> QED
            BY <3>2 DEF Mention
    <2>4. Name(mentions[p]) # Name(mentions[q])
        BY <2>1, <2>2 DEF Relation
    <2>5. AreRelated(p, q)
        BY <2>1, <2>3, <2>4, RadiusAssumption DEF AreRelated, InWindow, NoSentence
    <2> QED
        BY <2>1, <2>2, <2>5
<1> QED
    BY <1>1, RelInvariant, PTL

\* What is reported is right, and reported once.
THEOREM RelationsSound == Spec => []RelationsAreSound
BY ReportsOnce, RelationsReal, PTL DEF RelationsAreSound

-----------------------------------------------------------------------------
(* Charts: what every state of a chart keeps.                               *)

\* Channels and entities have a number before a row that names them is among
\* the rows that are drawn.
SankeyInv ==
    chart = "sankey" =>
        /\ drawn.channels \in Seq(ToSet(drawn.channels))
        /\ drawn.entities \in Seq(ToSet(drawn.entities))
        /\ drawn.seen \in Seq(ToSet(drawn.seen))
        /\ \A k \in DOMAIN drawn.seen :
              /\ drawn.seen[k].channel \in ToSet(drawn.channels)
              /\ drawn.seen[k].entity \in ToSet(drawn.entities)

\* The k-th record of seen is the last one of its pair.
IsLastOf(came, pair, k) ==
    Pair(came[k]) = pair /\ \A j \in DOMAIN came : Pair(came[j]) = pair => j <= k

\* The records match, those to come and those that came; a line is of the last
\* record of its pair, and a record that is not to come any more has its line,
\* unless the limit cut it.
GraphInv ==
    chart = "graph" =>
        /\ stored \in Graphs
        /\ rows \in Seq(Matching(stored)) /\ drawn.seen \in Seq(Matching(stored))
        /\ \A pair \in DOMAIN drawn.lines :
              /\ pair \subseteq drawn.nodes
              /\ \E k \in DOMAIN drawn.seen :
                    IsLastOf(drawn.seen, pair, k) /\ drawn.lines[pair] = drawn.seen[k].r.weight
        /\ Cardinality(Matching(stored)) <= Records =>
              \A rec \in Matching(stored) : rec \in ToSet(rows) \/ Pair(rec) \in DOMAIN drawn.lines

Values(index) == {doc.value : doc \in {x \in Documents : x.index = index}}

\* What was answered is so of the documents that the index began with.
StatsInv ==
    chart = "stats" =>
        /\ stored.posts \in Seq(Values("posts")) /\ stored.labels \in Seq(Values("labels"))
        /\ stored = [posts |-> stored.posts, labels |-> stored.labels]
        /\ rows.asked \subseteq {"posts", "labels"}
        /\ rows.answered = [posts |-> rows.answered.posts, labels |-> rows.answered.labels]
        /\ "posts" \notin rows.asked =>
              \E n \in 0 .. Len(stored.posts) : rows.answered.posts = OfPosts(SubSeq(stored.posts, 1, n))
        /\ "labels" \notin rows.asked =>
              \E n \in 0 .. Len(stored.labels) : rows.answered.labels = Tally(SubSeq(stored.labels, 1, n))
        /\ drawn # <<>> => rows.asked = {} /\ drawn = Board(rows.answered)

ChartsInv == chart \in {"sankey", "graph", "stats"} /\ SankeyInv /\ GraphInv /\ StatsInv

-----------------------------------------------------------------------------
(* The flows.                                                               *)

\* A name is numbered once it was met, and stays so.
LEMMA NumberedFits ==
    ASSUME NEW s, s \in Seq(ToSet(s)), NEW x
    PROVE  /\ Numbered(s, x) \in Seq(ToSet(Numbered(s, x)))
           /\ x \in ToSet(Numbered(s, x)) /\ ToSet(s) \subseteq ToSet(Numbered(s, x))
<1>1. CASE x \in ToSet(s)
    BY <1>1 DEF Numbered
<1>2. CASE x \notin ToSet(s)
    <2>1. Numbered(s, x) = Append(s, x)
        BY <1>2 DEF Numbered
    <2>2. ToSet(Append(s, x)) = ToSet(s) \cup {x} /\ Append(s, x) \in Seq(ToSet(s) \cup {x})
        <3> DEFINE S == ToSet(s) \cup {x}
        <3>1. s \in Seq(S) /\ x \in S
            OBVIOUS
        <3> HIDE DEF S
        <3>2. /\ Append(s, x) \in Seq(S) /\ Len(Append(s, x)) = Len(s) + 1
              /\ \A k \in 1 .. Len(s) : Append(s, x)[k] = s[k]
              /\ Append(s, x)[Len(s) + 1] = x
            BY <3>1, AppendProperties
        <3>3. DOMAIN s = 1 .. Len(s) /\ DOMAIN Append(s, x) = 1 .. Len(s) + 1 /\ Len(s) \in Nat
            BY <3>1, <3>2
        <3>4. 1 .. Len(s) + 1 = (1 .. Len(s)) \cup {Len(s) + 1}
            BY <3>3
        <3>5. ToSet(Append(s, x)) = {Append(s, x)[k] : k \in 1 .. Len(s)} \cup {x}
            BY <3>2, <3>3, <3>4 DEF ToSet
        <3>6. ToSet(s) = {Append(s, x)[k] : k \in 1 .. Len(s)}
            BY <3>2, <3>3 DEF ToSet
        <3> QED
            BY <3>2, <3>5, <3>6 DEF S
    <2> QED
        BY <2>1, <2>2
<1> QED
    BY <1>1, <1>2

\* The number of a name is a place of it.
LEMMA NumberFits ==
    ASSUME NEW s, s \in Seq(ToSet(s)), NEW x \in ToSet(s)
    PROVE  Number(s, x) \in 1 .. Len(s) /\ s[Number(s, x)] = x
<1> DEFINE I == {k \in 1 .. Len(s) : s[k] = x}
<1>1. I # {} /\ I \in SUBSET Nat
    BY DEF ToSet
<1>2. Number(s, x) = Min(I)
    BY <1>1 DEF Number, SelectInSeq
<1>3. Min(I) \in I
    <2> HIDE DEF I
    <2> QED
        BY <1>1, MinExists
<1> QED
    BY <1>2, <1>3

\* It holds of a flow none of whose rows is drawn.
LEMMA SankeyInitInv == SankeyInit => SankeyInv
<1> SUFFICES ASSUME SankeyInit PROVE SankeyInv
    OBVIOUS
<1>1. drawn.channels = <<>> /\ drawn.entities = <<>> /\ drawn.seen = <<>>
    BY DEF SankeyInit
<1>2. \A S : <<>> \in Seq(S)
    OBVIOUS
<1> QED
    BY <1>1, <1>2 DEF SankeyInv

\* A row keeps it: the names it has get their numbers with it.
LEMMA SankeyRowInv ==
    ASSUME SankeyInv, SankeyRow
    PROVE  SankeyInv'
<1> DEFINE r == Head(rows)
           q == Append(drawn.seen, r)
<1>1. /\ chart = "sankey"
      /\ drawn'.channels = Numbered(drawn.channels, r.channel)
      /\ drawn'.entities = Numbered(drawn.entities, r.entity)
      /\ drawn'.seen = q
    BY DEF SankeyRow
<1>2. /\ drawn.channels \in Seq(ToSet(drawn.channels))
      /\ drawn.entities \in Seq(ToSet(drawn.entities))
      /\ drawn.seen \in Seq(ToSet(drawn.seen))
      /\ \A k \in DOMAIN drawn.seen :
            /\ drawn.seen[k].channel \in ToSet(drawn.channels)
            /\ drawn.seen[k].entity \in ToSet(drawn.entities)
    BY <1>1 DEF SankeyInv
<1> HIDE DEF r
<1>3. /\ drawn'.channels \in Seq(ToSet(drawn'.channels))
      /\ r.channel \in ToSet(drawn'.channels) /\ ToSet(drawn.channels) \subseteq ToSet(drawn'.channels)
    BY <1>1, <1>2, NumberedFits
<1>4. /\ drawn'.entities \in Seq(ToSet(drawn'.entities))
      /\ r.entity \in ToSet(drawn'.entities) /\ ToSet(drawn.entities) \subseteq ToSet(drawn'.entities)
    BY <1>1, <1>2, NumberedFits
<1> DEFINE S == ToSet(drawn.seen) \cup {r}
<1>5. drawn.seen \in Seq(S) /\ r \in S
    BY <1>2
<1> HIDE DEF S
<1>6. /\ q \in Seq(S) /\ Len(q) = Len(drawn.seen) + 1
      /\ \A k \in 1 .. Len(drawn.seen) : q[k] = drawn.seen[k]
      /\ q[Len(drawn.seen) + 1] = r
    BY <1>5, AppendProperties
<1>7. /\ DOMAIN drawn.seen = 1 .. Len(drawn.seen) /\ Len(drawn.seen) \in Nat
      /\ DOMAIN q = 1 .. Len(drawn.seen) + 1
    BY <1>5, <1>6
<1>8. q \in Seq(ToSet(q))
    BY <1>6, <1>7 DEF ToSet
<1>9. \A k \in DOMAIN q : (k \in DOMAIN drawn.seen /\ q[k] = drawn.seen[k]) \/ q[k] = r
    BY <1>6, <1>7
<1> HIDE DEF q
<1>10. \A k \in DOMAIN q : q[k].channel \in ToSet(drawn'.channels) /\ q[k].entity \in ToSet(drawn'.entities)
    BY <1>2, <1>3, <1>4, <1>9
<1> QED
    BY <1>1, <1>3, <1>4, <1>8, <1>10 DEF SankeyInv

\* Its links join what their rows name.
LEMMA SankeyInvIsTrue ==
    ASSUME SankeyInv
    PROVE  SankeyIsTrue
<1> SUFFICES ASSUME chart = "sankey", NEW k \in DOMAIN Links
             PROVE  LET r == drawn.seen[k]
                        link == Links[k]
                    IN  /\ link.source <= Len(drawn.channels) /\ Labels[link.source] = r.channel
                        /\ link.target > Len(drawn.channels) /\ Labels[link.target] = r.entity
    BY DEF SankeyIsTrue
<1> DEFINE r == drawn.seen[k]
           cs == drawn.channels
           es == drawn.entities
<1>1. /\ cs \in Seq(ToSet(cs)) /\ es \in Seq(ToSet(es))
      /\ r.channel \in ToSet(cs) /\ r.entity \in ToSet(es)
    BY DEF SankeyInv, Links
<1>2. Links[k].source = Number(cs, r.channel) /\ Links[k].target = Len(cs) + Number(es, r.entity)
    BY DEF Links, Source, Target
<1> HIDE DEF r, cs, es
<1>3. Number(cs, r.channel) \in 1 .. Len(cs) /\ cs[Number(cs, r.channel)] = r.channel
    BY <1>1, NumberFits
<1>4. Number(es, r.entity) \in 1 .. Len(es) /\ es[Number(es, r.entity)] = r.entity
    BY <1>1, NumberFits
<1>5. Len(cs) \in Nat /\ Len(es) \in Nat
    BY <1>1
<1> DEFINE both == cs \o es
           S == ToSet(cs) \cup ToSet(es)
<1>6. cs \in Seq(S) /\ es \in Seq(S)
    BY <1>1
<1> HIDE DEF S
<1>7. \A j \in 1 .. Len(cs) + Len(es) : both[j] = IF j <= Len(cs) THEN cs[j] ELSE es[j - Len(cs)]
    BY <1>6, ConcatProperties
<1>8. both[Number(cs, r.channel)] = r.channel
    BY <1>3, <1>5, <1>7
<1>9. both[Len(cs) + Number(es, r.entity)] = r.entity
    <2> DEFINE n == Number(es, r.entity)
    <2>1. n \in Nat /\ n >= 1 /\ n <= Len(es)
        BY <1>4, <1>5
    <2> HIDE DEF n
    <2>2. Len(cs) + n \in 1 .. Len(cs) + Len(es) /\ ~ (Len(cs) + n <= Len(cs)) /\ (Len(cs) + n) - Len(cs) = n
        BY <1>5, <2>1
    <2> HIDE DEF both
    <2>3. both[Len(cs) + n] = es[n]
        BY <1>7, <2>2
    <2> QED
        BY <1>4, <2>3 DEF n
<1>10. Labels = both
    BY DEF Labels, cs, es
<1> HIDE DEF both
<1>11. Links[k].source <= Len(cs) /\ Links[k].target > Len(cs)
    <2> DEFINE m == Number(cs, r.channel)
               n == Number(es, r.entity)
    <2>1. m \in Int /\ m <= Len(cs) /\ n \in Int /\ n >= 1
        BY <1>3, <1>4, <1>5
    <2> HIDE DEF m, n
    <2>2. Len(cs) + n > Len(cs)
        BY <1>5, <2>1
    <2> QED
        BY <1>2, <2>1, <2>2 DEF m, n
<1> QED
    BY <1>2, <1>8, <1>9, <1>10, <1>11 DEF r, cs, es


-----------------------------------------------------------------------------
(* The graph.                                                               *)

\* What matches is finite, and comes from a stored edge with a named end.
LEMMA MatchingFits ==
    ASSUME NEW edges, IsFiniteSet(edges)
    PROVE  /\ IsFiniteSet(Matching(edges)) /\ Cardinality(Matching(edges)) \in Nat
           /\ \A rec \in Matching(edges) :
                 /\ rec.r \in edges /\ Pair(rec) = {rec.r.head, rec.r.tail}
                 /\ rec.e \in IsNamed
           /\ \A x \in edges : {x.head, x.tail} \cap IsNamed # {} =>
                 \E rec \in Matching(edges) : rec.r = x
<1> DEFINE heads == {y \in edges : y.head \in IsNamed}
           tails == {y \in edges : y.tail \in IsNamed}
           f == [x \in heads |-> [e |-> x.head, o |-> x.tail, r |-> x]]
           g == [x \in tails |-> [e |-> x.tail, o |-> x.head, r |-> x]]
<1>1. IsFiniteSet(heads) /\ IsFiniteSet(tails)
    BY FS_Subset
<1>2. IsFiniteSet({f[x] : x \in heads}) /\ IsFiniteSet({g[x] : x \in tails})
    <2> HIDE DEF heads, tails, f, g
    <2> QED
        BY <1>1, ImageFinite
<1>3. Matching(edges) = {f[x] : x \in heads} \cup {g[x] : x \in tails}
    BY DEF Matching
<1>4. IsFiniteSet(Matching(edges))
    <2> HIDE DEF heads, tails, f, g
    <2> QED
        BY <1>2, <1>3, FS_Union
<1>5. ASSUME NEW rec \in Matching(edges)
      PROVE  rec.r \in edges /\ Pair(rec) = {rec.r.head, rec.r.tail} /\ rec.e \in IsNamed
    <2>1. CASE \E x \in heads : rec = f[x]
        BY <2>1 DEF Pair
    <2>2. CASE \E x \in tails : rec = g[x]
        BY <2>2 DEF Pair
    <2> QED
        BY <1>3, <1>5, <2>1, <2>2
<1>6. ASSUME NEW x \in edges, {x.head, x.tail} \cap IsNamed # {}
      PROVE  \E rec \in Matching(edges) : rec.r = x
    <2>1. CASE x \in heads
        <3>1. f[x] \in Matching(edges) /\ f[x].r = x
            BY <1>3, <2>1
        <3> QED
            BY <3>1
    <2>2. CASE x \in tails
        <3>1. g[x] \in Matching(edges) /\ g[x].r = x
            BY <1>3, <2>2
        <3> QED
            BY <3>1
    <2> QED
        BY <1>6, <2>1, <2>2
<1> QED
    BY <1>4, <1>5, <1>6, FS_CardinalityType

\* An answer is a sequence of records that match, all of them below the limit.
LEMMA AnswersFit ==
    ASSUME NEW edges, IsFiniteSet(edges), NEW s \in Answers(edges)
    PROVE  /\ s \in Seq(Matching(edges))
           /\ Cardinality(Matching(edges)) <= Records => Matching(edges) \subseteq ToSet(s)
<1> DEFINE found == Matching(edges)
           n == IF Cardinality(found) < Records THEN Cardinality(found) ELSE Records
<1>1. IsFiniteSet(found) /\ Cardinality(found) \in Nat
    BY MatchingFits
<1>2. n \in Nat /\ (Cardinality(found) <= Records => n = Cardinality(found))
    BY <1>1, ChartsAssumption
<1>3. s \in [1 .. n -> found] /\ IsInjective(s)
    BY DEF Answers
<1> HIDE DEF n
<1>4. s \in Seq(found)
    BY <1>2, <1>3
<1>5. ASSUME Cardinality(found) <= Records PROVE found \subseteq ToSet(s)
    <2>1. IsFiniteSet(1 .. n) /\ Cardinality(1 .. n) = Cardinality(found)
        BY <1>2, <1>5, RanksAreFinite
    <2> HIDE DEF found
    <2>2. s \in Injection(1 .. n, found)
        BY <1>3 DEF Injection
    <2>3. s \in Surjection(1 .. n, found)
        BY <1>1, <2>1, <2>2, FS_Injection
    <2> QED
        BY <1>3, <2>3 DEF Surjection, ToSet
<1> QED
    BY <1>4, <1>5

\* It holds of any answer of a graph.
LEMMA GraphInitInv == GraphInit => GraphInv
<1> SUFFICES ASSUME GraphInit PROVE GraphInv
    OBVIOUS
<1>1. stored \in Graphs /\ rows \in Answers(stored) /\ DOMAIN drawn.lines = {} /\ drawn.seen = <<>>
    BY DEF GraphInit
<1>2. IsFiniteSet(stored)
    BY <1>1, ChartsAssumption
<1>3. /\ rows \in Seq(Matching(stored))
      /\ Cardinality(Matching(stored)) <= Records => Matching(stored) \subseteq ToSet(rows)
    BY <1>1, <1>2, AnswersFit
<1> QED
    BY <1>1, <1>3 DEF GraphInv

\* A record keeps it: it leaves the answer and its line is drawn.
LEMMA GraphRecordInv ==
    ASSUME GraphInv, GraphRecord
    PROVE  GraphInv'
<1> DEFINE rec == Head(rows)
           M == Matching(stored)
           lines == drawn.lines
           came == drawn.seen
           n == Len(came) + 1
<1>1. /\ chart = "graph" /\ chart' = chart /\ stored' = stored
      /\ rows # <<>> /\ rows' = Tail(rows)
      /\ drawn'.nodes = drawn.nodes \cup Pair(rec)
      /\ drawn'.lines = Lined(lines, rec)
      /\ drawn'.seen = Append(came, rec)
    BY DEF GraphRecord
<1>2. /\ stored \in Graphs /\ rows \in Seq(M) /\ came \in Seq(M)
      /\ \A pair \in DOMAIN lines :
            /\ pair \subseteq drawn.nodes
            /\ \E k \in DOMAIN came : IsLastOf(came, pair, k) /\ lines[pair] = came[k].r.weight
      /\ Cardinality(M) <= Records => \A x \in M : x \in ToSet(rows) \/ Pair(x) \in DOMAIN lines
    BY <1>1 DEF GraphInv
<1>3. Matching(stored') = M
    BY <1>1
<1> HIDE DEF M, lines, came
<1>4. rec \in M /\ rows' \in Seq(M) /\ \A x \in ToSet(rows) : x = rec \/ x \in ToSet(rows')
    <2>1. /\ Len(rows) \in Nat /\ Len(rows) >= 1 /\ Head(rows) = rows[1] /\ rows[1] \in M
          /\ Tail(rows) \in Seq(M) /\ Len(Tail(rows)) = Len(rows) - 1
          /\ \A i \in 1 .. Len(Tail(rows)) : Tail(rows)[i] = rows[i + 1]
        BY <1>1, <1>2
    <2>2. ASSUME NEW k \in 1 .. Len(rows), k # 1 PROVE rows[k] \in ToSet(rows')
        <3>1. k - 1 \in 1 .. Len(rows) - 1 /\ (k - 1) + 1 = k
            BY <2>1, <2>2
        <3>2. rows'[k - 1] = rows[k] /\ k - 1 \in DOMAIN rows'
            BY <1>1, <2>1, <3>1
        <3> QED
            BY <3>2 DEF ToSet
    <2>3. DOMAIN rows = 1 .. Len(rows)
        BY <1>2
    <2> QED
        BY <1>1, <2>1, <2>2, <2>3 DEF ToSet
<1> HIDE DEF rec
<1>5. /\ DOMAIN Lined(lines, rec) = DOMAIN lines \cup {Pair(rec)}
      /\ Lined(lines, rec)[Pair(rec)] = rec.r.weight
      /\ \A pair \in DOMAIN lines : pair # Pair(rec) => Lined(lines, rec)[pair] = lines[pair]
    BY DEF Lined
<1>a. /\ drawn'.seen \in Seq(M) /\ DOMAIN drawn'.seen = 1 .. n /\ DOMAIN came = 1 .. Len(came)
      /\ drawn'.seen[n] = rec /\ \A j \in 1 .. Len(came) : drawn'.seen[j] = came[j]
      /\ Len(came) \in Nat
    <2>1. /\ came \in Seq(M) /\ rec \in M /\ drawn'.seen = Append(came, rec)
        BY <1>1, <1>2, <1>4
    <2>2. Len(drawn'.seen) = n /\ drawn'.seen \in Seq(M)
        BY <2>1, AppendProperties
    <2> QED
        BY <2>1, <2>2, AppendProperties
<1>6. ASSUME NEW pair \in DOMAIN drawn'.lines
      PROVE  /\ pair \subseteq drawn'.nodes
             /\ \E k \in DOMAIN drawn'.seen :
                   IsLastOf(drawn'.seen, pair, k) /\ drawn'.lines[pair] = drawn'.seen[k].r.weight
    <2>1. CASE pair = Pair(rec)
        <3>1. n \in DOMAIN drawn'.seen /\ \A j \in DOMAIN drawn'.seen : j <= n
            BY <1>a
        <3>2. IsLastOf(drawn'.seen, pair, n) /\ drawn'.lines[pair] = drawn'.seen[n].r.weight
            BY <1>1, <1>5, <1>a, <2>1, <3>1 DEF IsLastOf
        <3> QED
            BY <1>1, <2>1, <3>1, <3>2
    <2>2. CASE pair # Pair(rec)
        <3>1. pair \in DOMAIN lines /\ drawn'.lines[pair] = lines[pair]
            BY <1>1, <1>5, <1>6, <2>2
        <3>2. PICK k \in DOMAIN came : IsLastOf(came, pair, k) /\ lines[pair] = came[k].r.weight
            BY <1>2, <3>1
        <3>3. k \in 1 .. Len(came) /\ k \in DOMAIN drawn'.seen /\ drawn'.seen[k] = came[k]
            BY <1>a
        <3>4. ASSUME NEW j \in DOMAIN drawn'.seen, Pair(drawn'.seen[j]) = pair PROVE j <= k
            <4>1. j # n
                BY <1>a, <2>2, <3>4
            <4>2. j \in 1 .. Len(came)
                BY <1>a, <4>1
            <4>3. Pair(came[j]) = pair /\ j \in DOMAIN came
                BY <1>a, <3>4, <4>2
            <4> QED
                BY <3>2, <4>3 DEF IsLastOf
        <3>5. IsLastOf(drawn'.seen, pair, k)
            BY <3>2, <3>3, <3>4 DEF IsLastOf
        <3>6. pair \subseteq drawn'.nodes
            BY <1>1, <1>2, <3>1
        <3> QED
            BY <3>1, <3>2, <3>3, <3>5, <3>6
    <2> QED
        BY <2>1, <2>2
<1>7. ASSUME Cardinality(M) <= Records, NEW x \in M
      PROVE  x \in ToSet(rows') \/ Pair(x) \in DOMAIN drawn'.lines
    BY <1>1, <1>2, <1>4, <1>5, <1>7
<1> QED
    BY <1>1, <1>2, <1>3, <1>4, <1>6, <1>7, <1>a DEF GraphInv

\* Its lines are edges, and all edges once the records are used up.
LEMMA GraphInvIsTrue ==
    ASSUME GraphInv
    PROVE  GraphIsTrue
<1> SUFFICES ASSUME chart = "graph" PROVE GraphIsTrue
    BY DEF GraphIsTrue
<1> DEFINE M == Matching(stored)
           lines == drawn.lines
           named == {y \in stored : {y.head, y.tail} \cap IsNamed # {}}
           came == drawn.seen
<1>1. /\ stored \in Graphs /\ rows \in Seq(M) /\ came \in Seq(M)
      /\ \A pair \in DOMAIN lines :
            /\ pair \subseteq drawn.nodes
            /\ \E k \in DOMAIN came : IsLastOf(came, pair, k) /\ lines[pair] = came[k].r.weight
      /\ Cardinality(M) <= Records => \A x \in M : x \in ToSet(rows) \/ Pair(x) \in DOMAIN lines
    BY DEF GraphInv
<1>2. IsFiniteSet(stored)
    BY <1>1, ChartsAssumption
<1>3. /\ \A x \in M : x.r \in stored /\ Pair(x) = {x.r.head, x.r.tail} /\ x.e \in IsNamed
      /\ \A y \in stored : {y.head, y.tail} \cap IsNamed # {} => \E x \in M : x.r = y
    BY <1>2, MatchingFits
<1> HIDE DEF M, lines, came
<1>4. ASSUME NEW pair \in DOMAIN lines
      PROVE  /\ pair \subseteq drawn.nodes /\ pair \cap IsNamed # {}
             /\ \E k \in DOMAIN came :
                   /\ came[k].r \in stored /\ {came[k].r.head, came[k].r.tail} = pair
                   /\ came[k].r.weight = lines[pair]
                   /\ \A j \in DOMAIN came : Pair(came[j]) = pair => j <= k
             /\ \E x \in named : {x.head, x.tail} = pair
    <2>1. PICK k \in DOMAIN came : IsLastOf(came, pair, k) /\ lines[pair] = came[k].r.weight
        BY <1>1
    <2>2. came[k] \in M /\ Pair(came[k]) = pair
          /\ \A j \in DOMAIN came : Pair(came[j]) = pair => j <= k
        BY <1>1, <2>1 DEF IsLastOf
    <2>3. /\ came[k].r \in stored /\ pair = {came[k].r.head, came[k].r.tail}
          /\ came[k].e \in pair /\ came[k].e \in IsNamed
        BY <1>3, <2>2 DEF Pair
    <2>4. pair \cap IsNamed # {} /\ came[k].r \in named
        BY <2>3
    <2> QED
        BY <1>1, <2>1, <2>2, <2>3, <2>4
<1>5. ASSUME rows = <<>>, Cardinality(M) <= Records, NEW y \in named
      PROVE  {y.head, y.tail} \in DOMAIN lines
    <2>1. PICK x \in M : x.r = y
        BY <1>3
    <2>2. x \notin ToSet(rows)
        BY <1>5 DEF ToSet
    <2> QED
        BY <1>1, <1>3, <1>5, <2>1, <2>2
<1>6. ASSUME rows = <<>>, Cardinality(M) <= Records
      PROVE  DOMAIN lines = {{x.head, x.tail} : x \in named}
    <2> HIDE DEF named
    <2>1. DOMAIN lines \subseteq {{x.head, x.tail} : x \in named}
        BY <1>4
    <2>2. {{x.head, x.tail} : x \in named} \subseteq DOMAIN lines
        BY <1>5, <1>6
    <2> QED
        BY <2>1, <2>2
<1> QED
    BY <1>4, <1>6 DEF GraphIsTrue, M, lines, came

-----------------------------------------------------------------------------
(* The statistics.                                                          *)

\* A tally counts every value once.
LEMMA TallyAddsUp ==
    ASSUME NEW S, NEW values \in Seq(S)
    PROVE  Total(Tally(values)) = Len(values)
<1> DEFINE A == DOMAIN values
           V == ToSet(values)
<1>1. IsFiniteSet(A) /\ Cardinality(A) = Len(values)
    <2>1. A = 1 .. Len(values) /\ Len(values) \in Nat
        OBVIOUS
    <2> HIDE DEF A
    <2> QED
        BY <2>1, RanksAreFinite
<1>2. V = {values[k] : k \in A} /\ \A k \in A : values[k] \in V
    BY DEF ToSet
<1>3. IsFiniteSet(V)
    <2> HIDE DEF A
    <2> QED
        BY <1>1, <1>2, ImageFinite
<1> DEFINE f == Tally(values)
<1>4. DOMAIN f = V /\ \A v \in V : f[v] = Cardinality({k \in A : values[k] = v})
    BY DEF Tally
<1> HIDE DEF A, V, f
<1>5. Total(f) = Cardinality(A)
    <2>1. IsFiniteSet(A) /\ IsFiniteSet(V) /\ \A x \in A : values[x] \in V
        BY <1>1, <1>2, <1>3
    <2> QED
        BY <2>1, <1>4, SumOfClasses
<1> QED
    BY <1>1, <1>5 DEF f

\* A histogram counts every day, and the line keeps the days with posts, from
\* Days before the last of them.
LEMMA LineFits ==
    ASSUME NEW days \in Seq(Int)
    PROVE  LET h == Histogram(days) IN
           /\ \A d \in Line(h) :
                 d \in DOMAIN h /\ h[d] > 0 /\ h[d] = Cardinality({k \in DOMAIN days : days[k] = d})
           /\ \A k \in DOMAIN days :
                 days[k] \in Line(h) \/ \E j \in DOMAIN days : days[j] > days[k] + Days
<1> DEFINE h == Histogram(days)
           A == DOMAIN days
           V == ToSet(days)
           On(d) == {k \in A : days[k] = d}
           full == {d \in DOMAIN h : h[d] > 0}
<1>1. IsFiniteSet(A) /\ \A k \in A : days[k] \in Int /\ days[k] \in V
    <2>1. A = 1 .. Len(days) /\ Len(days) \in Nat
        OBVIOUS
    <2>2. IsFiniteSet(1 .. Len(days))
        BY <2>1, RanksAreFinite
    <2> QED
        BY <2>1, <2>2 DEF ToSet
<1>2. V \subseteq Int /\ IsFiniteSet(V)
    <2>1. V = {days[k] : k \in A}
        BY DEF ToSet
    <2> HIDE DEF A, V
    <2> QED
        BY <1>1, <2>1, ImageFinite
<1>3. \A d : IsFiniteSet(On(d)) /\ Cardinality(On(d)) \in Nat
    BY <1>1, FS_Subset, FS_CardinalityType
<1>4. \A d \in DOMAIN h : h[d] = Cardinality(On(d))
    BY DEF Histogram
<1>5. \A k \in A : days[k] \in full
    <2> TAKE k \in A
    <2>1. days # <<>> /\ V # {}
        BY <1>1
    <2>2. DOMAIN h = Min(V) .. Max(V)
        BY <2>1 DEF Histogram
    <2>3. Min(V) \in Int /\ Max(V) \in Int /\ Min(V) <= days[k] /\ days[k] <= Max(V)
        <3>1. /\ Min(V) \in V /\ \A y \in V : Min(V) <= y
              /\ Max(V) \in V /\ \A y \in V : Max(V) >= y
            <4> HIDE DEF V
            <4> QED
                BY <1>2, <2>1, EndsExist
        <3> QED
            BY <1>1, <1>2, <3>1
    <2>4. days[k] \in DOMAIN h
        BY <1>1, <2>2, <2>3
    <2>5. k \in On(days[k])
        OBVIOUS
    <2>6. Cardinality(On(days[k])) # 0
        BY <1>3, <2>5, FS_EmptySet
    <2>7. h[days[k]] = Cardinality(On(days[k])) /\ Cardinality(On(days[k])) \in Nat
        BY <1>3, <1>4, <2>4
    <2> HIDE DEF h, On
    <2> QED
        BY <2>4, <2>6, <2>7
<1>6. ASSUME NEW d \in full PROVE \E j \in A : days[j] = d
    <2>1. h[d] > 0 /\ h[d] = Cardinality(On(d))
        BY <1>4
    <2>2. On(d) # {}
        <3> HIDE DEF On
        <3>1. Cardinality(On(d)) # 0
            BY <1>3, <2>1
        <3> QED
            BY <3>1, FS_EmptySet
    <2> QED
        BY <2>2
<1>7. full \subseteq V
    BY <1>1, <1>6
<1>8. IsFiniteSet(full) /\ full \subseteq Int
    <2> HIDE DEF full, V
    <2> QED
        BY <1>2, <1>7, FS_Subset
<1>9. Line(h) = {d \in full : d >= Max(full) - Days}
    BY DEF Line
<1>10. ASSUME NEW k \in A
       PROVE  days[k] \in Line(h) \/ \E j \in A : days[j] > days[k] + Days
    <2>1. full # {} /\ days[k] \in full
        BY <1>5
    <2>2. Max(full) \in full
        <3> HIDE DEF full
        <3> QED
            BY <1>8, <2>1, EndsExist
    <2>3. PICK j \in A : days[j] = Max(full)
        BY <1>6, <2>2
    <2>4. days[j] \in Int /\ days[k] \in Int /\ Days \in Nat
        BY <1>1, ChartsAssumption
    <2>5. days[k] >= Max(full) - Days \/ days[j] > days[k] + Days
        BY <2>3, <2>4
    <2> HIDE DEF full, h
    <2> QED
        BY <1>9, <2>1, <2>5
<1>11. \A d \in Line(h) : d \in DOMAIN h /\ h[d] > 0 /\ h[d] = Cardinality(On(d))
    BY <1>4, <1>9
<1> QED
    BY <1>10, <1>11

\* The beginning of a sequence stays when something is appended.
LEMMA BeginningStays ==
    ASSUME NEW S, NEW s \in Seq(S), NEW x \in S, NEW n \in 0 .. Len(s)
    PROVE  n \in 0 .. Len(Append(s, x)) /\ SubSeq(Append(s, x), 1, n) = SubSeq(s, 1, n)
<1>1. /\ Append(s, x) \in Seq(S) /\ Len(Append(s, x)) = Len(s) + 1 /\ Len(s) \in Nat
      /\ \A k \in 1 .. Len(s) : Append(s, x)[k] = s[k]
    BY AppendProperties
<1> QED
    BY <1>1

\* It holds before anything is indexed.
LEMMA StatsInitInv == StatsInit => StatsInv
<1> SUFFICES ASSUME StatsInit PROVE StatsInv
    OBVIOUS
<1>1. /\ stored = [posts |-> <<>>, labels |-> <<>>] /\ drawn = <<>>
      /\ rows = [asked |-> {"posts", "labels"}, answered |-> [posts |-> 0, labels |-> 0]]
    BY DEF StatsInit
<1>2. \A S : <<>> \in Seq(S)
    OBVIOUS
<1> QED
    BY <1>1, <1>2 DEF StatsInv

\* A document indexed meanwhile is none of those that were answered.
LEMMA IndexDocumentInv ==
    ASSUME StatsInv, IndexDocument
    PROVE  StatsInv'
<1>1. chart = "stats" /\ chart' = chart /\ rows' = rows /\ drawn' = drawn
    BY DEF IndexDocument
<1>2. PICK doc \in Documents : stored' = [stored EXCEPT ![doc.index] = Append(@, doc.value)]
    BY DEF IndexDocument
<1>3. /\ stored.posts \in Seq(Values("posts")) /\ stored.labels \in Seq(Values("labels"))
      /\ stored = [posts |-> stored.posts, labels |-> stored.labels]
      /\ rows.asked \subseteq {"posts", "labels"}
      /\ rows.answered = [posts |-> rows.answered.posts, labels |-> rows.answered.labels]
      /\ "posts" \notin rows.asked =>
            \E n \in 0 .. Len(stored.posts) : rows.answered.posts = OfPosts(SubSeq(stored.posts, 1, n))
      /\ "labels" \notin rows.asked =>
            \E n \in 0 .. Len(stored.labels) : rows.answered.labels = Tally(SubSeq(stored.labels, 1, n))
      /\ drawn # <<>> => rows.asked = {} /\ drawn = Board(rows.answered)
    BY <1>1 DEF StatsInv
<1>4. doc.index \in {"posts", "labels"} /\ doc.value \in Values(doc.index)
    BY ChartsAssumption DEF Values
<1>5. CASE doc.index = "posts"
    <2> DEFINE q == Append(stored.posts, doc.value)
    <2>1. stored' = [posts |-> q, labels |-> stored.labels]
        BY <1>2, <1>3, <1>5
    <2>2. q \in Seq(Values("posts"))
        BY <1>3, <1>4, <1>5, AppendProperties
    <2>3. \A n \in 0 .. Len(stored.posts) :
             n \in 0 .. Len(q) /\ SubSeq(q, 1, n) = SubSeq(stored.posts, 1, n)
        BY <1>3, <1>4, <1>5, BeginningStays
    <2> HIDE DEF q
    <2>4. "posts" \notin rows.asked =>
             \E n \in 0 .. Len(q) : rows.answered.posts = OfPosts(SubSeq(q, 1, n))
        <3> SUFFICES ASSUME "posts" \notin rows.asked
                     PROVE  \E n \in 0 .. Len(q) : rows.answered.posts = OfPosts(SubSeq(q, 1, n))
            OBVIOUS
        <3>1. PICK n \in 0 .. Len(stored.posts) : rows.answered.posts = OfPosts(SubSeq(stored.posts, 1, n))
            BY <1>3
        <3>2. n \in 0 .. Len(q) /\ SubSeq(q, 1, n) = SubSeq(stored.posts, 1, n)
            BY <2>3
        <3> QED
            BY <3>1, <3>2
    <2>5. stored'.posts = q /\ stored'.labels = stored.labels
        BY <2>1
    <2> QED
        BY <1>1, <1>3, <2>1, <2>2, <2>4, <2>5 DEF StatsInv
<1>6. CASE doc.index = "labels"
    <2> DEFINE q == Append(stored.labels, doc.value)
    <2>1. stored' = [posts |-> stored.posts, labels |-> q]
        BY <1>2, <1>3, <1>6
    <2>2. q \in Seq(Values("labels"))
        BY <1>3, <1>4, <1>6, AppendProperties
    <2>3. \A n \in 0 .. Len(stored.labels) :
             n \in 0 .. Len(q) /\ SubSeq(q, 1, n) = SubSeq(stored.labels, 1, n)
        BY <1>3, <1>4, <1>6, BeginningStays
    <2> HIDE DEF q
    <2>4. "labels" \notin rows.asked =>
             \E n \in 0 .. Len(q) : rows.answered.labels = Tally(SubSeq(q, 1, n))
        <3> SUFFICES ASSUME "labels" \notin rows.asked
                     PROVE  \E n \in 0 .. Len(q) : rows.answered.labels = Tally(SubSeq(q, 1, n))
            OBVIOUS
        <3>1. PICK n \in 0 .. Len(stored.labels) : rows.answered.labels = Tally(SubSeq(stored.labels, 1, n))
            BY <1>3
        <3>2. n \in 0 .. Len(q) /\ SubSeq(q, 1, n) = SubSeq(stored.labels, 1, n)
            BY <2>3
        <3> QED
            BY <3>1, <3>2
    <2>5. stored'.posts = stored.posts /\ stored'.labels = q
        BY <2>1
    <2> QED
        BY <1>1, <1>3, <2>1, <2>2, <2>4, <2>5 DEF StatsInv
<1> QED
    BY <1>4, <1>5, <1>6

\* An answer is about all there is when it is given.
LEMMA AnswerInv ==
    ASSUME StatsInv, AnswerPosts \/ AnswerLabels
    PROVE  StatsInv'
<1>1. chart = "stats" /\ chart' = chart /\ stored' = stored /\ drawn' = drawn
    BY DEF AnswerPosts, AnswerLabels
<1>2. /\ stored.posts \in Seq(Values("posts")) /\ stored.labels \in Seq(Values("labels"))
      /\ stored = [posts |-> stored.posts, labels |-> stored.labels]
      /\ rows.asked \subseteq {"posts", "labels"}
      /\ rows.answered = [posts |-> rows.answered.posts, labels |-> rows.answered.labels]
      /\ "posts" \notin rows.asked =>
            \E n \in 0 .. Len(stored.posts) : rows.answered.posts = OfPosts(SubSeq(stored.posts, 1, n))
      /\ "labels" \notin rows.asked =>
            \E n \in 0 .. Len(stored.labels) : rows.answered.labels = Tally(SubSeq(stored.labels, 1, n))
      /\ drawn # <<>> => rows.asked = {} /\ drawn = Board(rows.answered)
    BY <1>1 DEF StatsInv
<1>3. drawn = <<>>
    BY <1>2 DEF AnswerPosts, AnswerLabels
<1>4. CASE AnswerPosts
    <2>1. rows' = [asked |-> rows.asked \ {"posts"},
                   answered |-> [posts |-> OfPosts(stored.posts), labels |-> rows.answered.labels]]
        BY <1>2, <1>4 DEF AnswerPosts
    <2>2. Len(stored.posts) \in 0 .. Len(stored.posts) /\ SubSeq(stored.posts, 1, Len(stored.posts)) = stored.posts
        BY <1>2
    <2>3. \E n \in 0 .. Len(stored.posts) : rows'.answered.posts = OfPosts(SubSeq(stored.posts, 1, n))
        BY <2>1, <2>2
    <2>4. /\ rows'.asked = rows.asked \ {"posts"} /\ rows'.answered.labels = rows.answered.labels
          /\ rows'.answered = [posts |-> rows'.answered.posts, labels |-> rows'.answered.labels]
        BY <2>1
    <2> QED
        BY <1>1, <1>2, <1>3, <2>3, <2>4 DEF StatsInv
<1>5. CASE AnswerLabels
    <2>1. rows' = [asked |-> rows.asked \ {"labels"},
                   answered |-> [posts |-> rows.answered.posts, labels |-> Tally(stored.labels)]]
        BY <1>2, <1>5 DEF AnswerLabels
    <2>2. Len(stored.labels) \in 0 .. Len(stored.labels) /\ SubSeq(stored.labels, 1, Len(stored.labels)) = stored.labels
        BY <1>2
    <2>3. \E n \in 0 .. Len(stored.labels) : rows'.answered.labels = Tally(SubSeq(stored.labels, 1, n))
        BY <2>1, <2>2
    <2>4. /\ rows'.asked = rows.asked \ {"labels"} /\ rows'.answered.posts = rows.answered.posts
          /\ rows'.answered = [posts |-> rows'.answered.posts, labels |-> rows'.answered.labels]
        BY <2>1
    <2> QED
        BY <1>1, <1>2, <1>3, <2>3, <2>4 DEF StatsInv
<1> QED
    BY <1>4, <1>5

\* The view draws both answers.
LEMMA DrawStatsInv ==
    ASSUME StatsInv, DrawStats
    PROVE  StatsInv'
BY DEF StatsInv, DrawStats

\* All that is drawn is said of one beginning of the index.
LEMMA StatsInvIsTrue ==
    ASSUME StatsInv
    PROVE  StatsAreTrue
<1> SUFFICES ASSUME chart = "stats", drawn # <<>> PROVE StatsAreTrue
    BY DEF StatsAreTrue
<1>1. /\ stored.posts \in Seq(Values("posts")) /\ stored.labels \in Seq(Values("labels"))
      /\ rows.asked = {} /\ drawn = Board(rows.answered)
      /\ \E n \in 0 .. Len(stored.posts) : rows.answered.posts = OfPosts(SubSeq(stored.posts, 1, n))
      /\ \E n \in 0 .. Len(stored.labels) : rows.answered.labels = Tally(SubSeq(stored.labels, 1, n))
    BY DEF StatsInv
<1>2. PICK n \in 0 .. Len(stored.posts) : rows.answered.posts = OfPosts(SubSeq(stored.posts, 1, n))
    BY <1>1
<1>3. PICK m \in 0 .. Len(stored.labels) : rows.answered.labels = Tally(SubSeq(stored.labels, 1, m))
    BY <1>1
<1> DEFINE counted == SubSeq(stored.posts, 1, n)
           sources == [k \in DOMAIN counted |-> counted[k].source]
           days == [k \in DOMAIN counted |-> counted[k].day]
           told == SubSeq(stored.labels, 1, m)
           h == Histogram(days)
<1>4. /\ counted \in Seq(Values("posts")) /\ Len(counted) = n /\ DOMAIN counted = 1 .. n
      /\ told \in Seq(Values("labels")) /\ Len(told) = m
      /\ n \in Nat /\ m \in Nat /\ n <= Len(stored.posts) /\ m <= Len(stored.labels)
    <2>1. Len(stored.posts) \in Nat /\ Len(stored.labels) \in Nat
        BY <1>1
    <2>2. n \in Nat /\ m \in Nat /\ n <= Len(stored.posts) /\ m <= Len(stored.labels)
        BY <2>1
    <2> QED
        BY <1>1, <2>1, <2>2
<1>5. \A p \in Values("posts") : p.day \in Int
    BY ChartsAssumption DEF Values
<1>6. sources \in Seq({counted[k].source : k \in 1 .. n}) /\ Len(sources) = n
    <2> HIDE DEF counted
    <2> QED
        BY <1>4
<1>7. days \in Seq(Int) /\ DOMAIN days = DOMAIN counted /\ \A k \in DOMAIN counted : days[k] = counted[k].day
    <2> HIDE DEF counted
    <2> QED
        BY <1>4, <1>5
<1>8. /\ drawn.total = Min({Len(counted), TrackedHits}) /\ drawn.sources = Tally(sources) /\ drawn.labels = Tally(told)
      /\ drawn.line = Restrict(h, Line(h))
    <2>1. rows.answered.posts = OfPosts(counted) /\ rows.answered.labels = Tally(told)
        BY <1>2, <1>3
    <2>2. /\ OfPosts(counted).total = Min({Len(counted), TrackedHits}) /\ OfPosts(counted).by_source = Tally(sources)
          /\ OfPosts(counted).by_day = h
        BY DEF OfPosts
    <2> HIDE DEF counted, sources, days, told, h
    <2>3. /\ drawn.total = rows.answered.posts.total /\ drawn.sources = rows.answered.posts.by_source
          /\ drawn.labels = rows.answered.labels
          /\ drawn.line = Restrict(rows.answered.posts.by_day, Line(rows.answered.posts.by_day))
        BY <1>1 DEF Board
    <2> QED
        BY <2>1, <2>2, <2>3
<1> HIDE DEF sources, days, told, counted
<1>9. Total(drawn.sources) = n /\ Total(drawn.labels) = m
    <2>1. Total(Tally(sources)) = Len(sources)
        BY <1>6, TallyAddsUp
    <2>2. Total(Tally(told)) = Len(told)
        BY <1>4, TallyAddsUp
    <2> QED
        BY <1>4, <1>6, <1>8, <2>1, <2>2
<1>10. /\ \A d \in Line(h) :
             d \in DOMAIN h /\ h[d] > 0 /\ h[d] = Cardinality({k \in DOMAIN days : days[k] = d})
       /\ \A k \in DOMAIN days :
             days[k] \in Line(h) \/ \E j \in DOMAIN days : days[j] > days[k] + Days
    BY <1>7, LineFits
<1> HIDE DEF h
<1>11. DOMAIN drawn.line = Line(h) /\ \A d \in Line(h) : drawn.line[d] = h[d]
    BY <1>8 DEF Restrict
<1>12. \A d : {k \in DOMAIN days : days[k] = d} = {k \in DOMAIN counted : counted[k].day = d}
    BY <1>7
<1>13. \A d \in DOMAIN drawn.line :
          drawn.line[d] > 0 /\ drawn.line[d] = Cardinality({k \in DOMAIN counted : counted[k].day = d})
    BY <1>10, <1>11, <1>12
<1>14. \A k \in DOMAIN counted :
          \/ counted[k].day \in DOMAIN drawn.line
          \/ \E j \in DOMAIN counted : counted[j].day > counted[k].day + Days
    BY <1>7, <1>10, <1>11
<1>15. SubSeq(stored.posts, 1, Total(drawn.sources)) = counted
    BY <1>9 DEF counted
<1>16. /\ Total(drawn.sources) <= Len(stored.posts) /\ Total(drawn.labels) <= Len(stored.labels)
       /\ drawn.total = Min({Total(drawn.sources), TrackedHits})
    BY <1>4, <1>8, <1>9
<1> QED
    BY <1>13, <1>14, <1>15, <1>16 DEF StatsAreTrue

-----------------------------------------------------------------------------
(* The three charts.                                                        *)

\* It holds of every chart before the first step.
LEMMA ChartsInitInv == ChartsInit => ChartsInv
<1> SUFFICES ASSUME ChartsInit PROVE ChartsInv
    OBVIOUS
<1>1. CASE SankeyInit
    <2>1. chart = "sankey"
        BY <1>1 DEF SankeyInit
    <2> QED
        BY <1>1, <2>1, SankeyInitInv DEF ChartsInv, GraphInv, StatsInv
<1>2. CASE GraphInit
    <2>1. chart = "graph"
        BY <1>2 DEF GraphInit
    <2> QED
        BY <1>2, <2>1, GraphInitInv DEF ChartsInv, SankeyInv, StatsInv
<1>3. CASE StatsInit
    <2>1. chart = "stats"
        BY <1>3 DEF StatsInit
    <2> QED
        BY <1>3, <2>1, StatsInitInv DEF ChartsInv, SankeyInv, GraphInv
<1> QED
    BY <1>1, <1>2, <1>3 DEF ChartsInit

\* Every step keeps it.
LEMMA ChartsInvStep == ChartsInv /\ [ChartsNext]_chartVars => ChartsInv'
<1> SUFFICES ASSUME ChartsInv, [ChartsNext]_chartVars PROVE ChartsInv'
    OBVIOUS
<1>0. chart \in {"sankey", "graph", "stats"} /\ SankeyInv /\ GraphInv /\ StatsInv
    BY DEF ChartsInv
<1>1. CASE SankeyRow
    <2>1. chart = "sankey" /\ chart' = chart
        BY <1>1 DEF SankeyRow
    <2>2. SankeyInv'
        BY <1>0, <1>1, SankeyRowInv
    <2> QED
        BY <2>1, <2>2 DEF ChartsInv, GraphInv, StatsInv
<1>2. CASE GraphRecord
    <2>1. chart = "graph" /\ chart' = chart
        BY <1>2 DEF GraphRecord
    <2>2. GraphInv'
        BY <1>0, <1>2, GraphRecordInv
    <2> QED
        BY <2>1, <2>2 DEF ChartsInv, SankeyInv, StatsInv
<1>3. CASE IndexDocument \/ AnswerPosts \/ AnswerLabels \/ DrawStats
    <2>1. chart = "stats" /\ chart' = chart
        BY <1>3 DEF IndexDocument, AnswerPosts, AnswerLabels, DrawStats
    <2>2. StatsInv'
        BY <1>0, <1>3, IndexDocumentInv, AnswerInv, DrawStatsInv
    <2> QED
        BY <2>1, <2>2 DEF ChartsInv, SankeyInv, GraphInv
<1>4. CASE UNCHANGED chartVars
    <2>1. chart' = chart /\ stored' = stored /\ rows' = rows /\ drawn' = drawn
        BY <1>4 DEF chartVars
    <2>2. SankeyInv'
        BY <1>0, <2>1 DEF SankeyInv
    <2>3. GraphInv'
        BY <1>0, <2>1 DEF GraphInv
    <2>4. StatsInv'
        BY <1>0, <2>1 DEF StatsInv
    <2> QED
        BY <1>0, <2>1, <2>2, <2>3, <2>4 DEF ChartsInv
<1> QED
    BY <1>1, <1>2, <1>3, <1>4 DEF ChartsNext

\* A link of the flows joins its row's channel and its row's entity, however
\* often they repeat and when one is named as the other.
THEOREM FlowsAreTrue == ChartsSpec => []SankeyIsTrue
<1>1. ChartsInv => SankeyIsTrue
    BY SankeyInvIsTrue DEF ChartsInv
<1> QED
    BY <1>1, ChartsInitInv, ChartsInvStep, PTL DEF ChartsSpec

\* A line of the graph shows the edge of its pair that came last, and below the
\* limit every edge of the entity asked for has a line.
THEOREM LinesAreTrue == ChartsSpec => []GraphIsTrue
<1>1. ChartsInv => GraphIsTrue
    BY GraphInvIsTrue DEF ChartsInv
<1> QED
    BY <1>1, ChartsInitInv, ChartsInvStep, PTL DEF ChartsSpec

\* The statistics count one beginning of the index, whatever is indexed between
\* their two queries, and their number of posts stops at the tracked hits.
THEOREM CountsAreTrue == ChartsSpec => []StatsAreTrue
<1>1. ChartsInv => StatsAreTrue
    BY StatsInvIsTrue DEF ChartsInv
<1> QED
    BY <1>1, ChartsInitInv, ChartsInvStep, PTL DEF ChartsSpec

-----------------------------------------------------------------------------
(* Evaluation: what every state of a script keeps.                          *)

\* The spans kept are the spans of the documents read.
NerInv ==
    script = "ner" =>
        /\ input \in Corpora /\ at \in 1 .. Len(input) + 1
        /\ tally.gold = UNION {InDocument(i, Objects(input[i])) : i \in Read}
        /\ tally.pred = UNION {InDocument(i, Extract(input[i])) : i \in Read}

CellsTypeOK(t) ==
    /\ t = [tp |-> t.tp, fp |-> t.fp, fn |-> t.fn, support |-> t.support, confusion |-> t.confusion]
    /\ t.tp \in [Classes -> Nat] /\ t.fp \in [Classes -> Nat]
    /\ t.fn \in [Classes -> Nat] /\ t.support \in [Classes -> Nat]
    /\ t.confusion \in [Classes \X Classes -> Nat]

CellsAddUp(t) ==
    /\ \A x \in Classes : t.tp[x] = t.confusion[<<x, x>>]
    /\ \A x, y, z \in Classes : x # y /\ y # z /\ x # z =>
          /\ t.fp[x] = t.confusion[<<y, x>>] + t.confusion[<<z, x>>]
          /\ t.fn[x] = t.confusion[<<x, y>>] + t.confusion[<<x, z>>]

\* The cells add up to the counts of every class.
SentimentInv ==
    script = "sentiment" =>
        /\ at \in 1 .. Len(input) + 1 /\ Len(input) \in Nat
        /\ \A i \in 1 .. Len(input) : LabelMap[input[i].label] \in Classes
        /\ CellsTypeOK(tally) /\ CellsAddUp(tally)
        /\ \A x \in Classes : tally.support[x] = Cardinality({i \in Read : LabelMap[input[i].label] = x})

\* Every answer is a sample or an error.
LatencyInv ==
    script = "latency" =>
        /\ input \in Timings /\ at \in Nat \ {0}
        /\ tally = [samples |-> tally.samples, errors |-> tally.errors]
        /\ tally.samples \in Seq(Nat) /\ tally.errors \in Nat
        /\ Len(tally.samples) + tally.errors = at - 1

TookOf(times, j) == IF times[j] = Error THEN Timeout ELSE times[j]
Moment(times, k) == Total([j \in 1 .. k |-> TookOf(times, j)])

\* A stage is at its target at a moment of a load, or it is not yet.
GoalOf(load, k) ==
    LET posts == (6 * load.count) \div 10
    IN  <<posts, posts \div 2, (3 * posts) \div 10>>[k]
GrownOf(load, k, moment) == load.grown[k][Min({moment + 1, Len(load.grown[k])})]
Reached(load, k, moment) == GrownOf(load, k, moment) >= GoalOf(load, k)
Early(load, k, moment) == GrownOf(load, k, moment) < GoalOf(load, k)

\* The stage that waits began when the stages before it ended, and was not at
\* its target one poll ago; those are over with what their times say.
ThroughputInv ==
    script = "throughput" =>
        /\ at \in 1 .. 4 /\ Len(tally.times) = at - 1
        /\ tally = [clock |-> tally.clock, start |-> tally.start, times |-> tally.times]
        /\ tally.times \in Seq(Nat \cup {Error})
        /\ tally.clock \in Nat /\ tally.start \in Nat
        /\ tally.start <= tally.clock /\ Elapsed <= Timeout
        /\ tally.start = Moment(tally.times, at - 1)
        /\ tally.clock > tally.start => Early(input, at, tally.clock - 1)
        /\ \A k \in 1 .. at - 1 :
              /\ tally.times[k] # Error => Reached(input, k, Moment(tally.times, k))
              /\ TookOf(tally.times, k) > 0 => Early(input, k, Moment(tally.times, k) - 1)

EvalInv ==
    /\ script \in {"ner", "sentiment", "latency", "throughput"}
    /\ NerInv /\ SentimentInv /\ LatencyInv /\ ThroughputInv

-----------------------------------------------------------------------------
(* The spans of eval_ner.                                                   *)

\* The spans of a document are finitely many, each with a type and a span; the
\* gold ones have types that are evaluated.
LEMMA SpansFit ==
    ASSUME NEW d, IsFiniteSet(ToSet(d.objects)), IsFiniteSet(d.found)
    PROVE  /\ IsFiniteSet(Objects(d)) /\ IsFiniteSet(Extract(d))
           /\ \A o \in Objects(d) \cup Extract(d) : o = [type |-> o.type, span |-> o.span]
           /\ \A o \in Objects(d) : o.type \in Types
<1> DEFINE some == {x \in ToSet(d.objects) : x.type \in DOMAIN TypeMap /\ Known(x, d) # {}}
           span(o) == <<Min({Spans(d)[s][1] : s \in Known(o, d)}), Max({Spans(d)[s][2] : s \in Known(o, d)})>>
           f == [o \in some |-> [type |-> TypeMap[o.type], span |-> span(o)]]
           mine == {y \in d.found : y.type \in DOMAIN NatashaType}
           g == [x \in mine |-> [type |-> NatashaType[x.type], span |-> x.span]]
<1>1. IsFiniteSet(some) /\ IsFiniteSet(mine)
    BY FS_Subset
<1>2. \A o \in some : TypeMap[o.type] \in Types
    BY DEF Types, Range
<1>3. Objects(d) = {f[o] : o \in some}
    <2>1. Objects(d) = {[type |-> TypeMap[o.type], span |-> span(o)] : o \in some}
        BY DEF Objects
    <2> HIDE DEF some, span
    <2> QED
        BY <2>1
<1>4. Extract(d) = {g[x] : x \in mine}
    <2>1. Extract(d) = {[type |-> NatashaType[x.type], span |-> x.span] : x \in mine}
        BY DEF Extract
    <2> HIDE DEF mine
    <2> QED
        BY <2>1
<1> HIDE DEF some, mine, span
<1>5. IsFiniteSet(Objects(d)) /\ IsFiniteSet(Extract(d))
    <2> HIDE DEF f, g
    <2> QED
        BY <1>1, <1>3, <1>4, ImageFinite
<1>6. \A o \in some : f[o] = [type |-> f[o].type, span |-> f[o].span] /\ f[o].type \in Types
    BY <1>2
<1>7. \A x \in mine : g[x] = [type |-> g[x].type, span |-> g[x].span]
    OBVIOUS
<1> HIDE DEF f, g
<1> QED
    BY <1>3, <1>4, <1>5, <1>6, <1>7

Bare(x) == [type |-> x.type, span |-> x.span]
AreSpans(S) == \A o \in S : o = Bare(o)
AllOf(D, of) == UNION {InDocument(i, of[i]) : i \in D}

\* The spans that all documents have together, each its own, count document by
\* document.
LEMMA CountByDocument ==
    ASSUME NEW D \in SUBSET Nat, IsFiniteSet(D), NEW of, DOMAIN of = D,
           \A i \in D : IsFiniteSet(of[i]),
           \A i \in D : AreSpans(of[i])
    PROVE  /\ IsFiniteSet(AllOf(D, of)) /\ Cardinality(AllOf(D, of)) \in Nat
           /\ Cardinality(AllOf(D, of)) = Total([i \in D |-> Cardinality(of[i])])
<1> DEFINE all == UNION {InDocument(i, of[i]) : i \in D}
           f == [i \in D |-> Cardinality(of[i])]
           c == [x \in all |-> x.doc]
           In(i) == InDocument(i, of[i])
<1>1. ASSUME NEW i \in D
      PROVE  /\ IsFiniteSet(In(i)) /\ Cardinality(In(i)) = Cardinality(of[i])
             /\ \A x \in In(i) : x.doc = i
    <2> DEFINE S == of[i]
               g == [o \in S |-> [doc |-> i, type |-> o.type, span |-> o.span]]
    <2>1. IsFiniteSet(S) /\ \A o \in S : o = [type |-> o.type, span |-> o.span]
        BY DEF AreSpans, Bare
    <2>2. In(i) = {g[o] : o \in S}
        <3>1. In(i) = {[doc |-> i, type |-> o.type, span |-> o.span] : o \in S}
            BY DEF InDocument
        <3> HIDE DEF S, In
        <3> QED
            BY <3>1
    <2> HIDE DEF S
    <2>3. \A x, y \in S : g[x] = g[y] => x = y
        <3> TAKE x, y \in S
        <3>1. g[x].type = x.type /\ g[x].span = x.span /\ g[y].type = y.type /\ g[y].span = y.span
            OBVIOUS
        <3> HIDE DEF g
        <3> QED
            BY <2>1, <3>1
    <2>4. \A o \in S : g[o].doc = i
        OBVIOUS
    <2>5. DOMAIN g = S
        OBVIOUS
    <2> HIDE DEF g, In
    <2>6. IsFiniteSet({g[o] : o \in S}) /\ Cardinality({g[o] : o \in S}) = Cardinality(S)
        BY <2>1, <2>3, <2>5, ImageSize
    <2> QED
        BY <2>2, <2>4, <2>6 DEF S
<1>2. IsFiniteSet(all)
    <2> DEFINE h == [i \in D |-> In(i)]
    <2>1. \A i \in D : IsFiniteSet(h[i])
        BY <1>1
    <2>2. \A x \in all : \E i \in D : x \in h[i]
        OBVIOUS
    <2>3. IsFiniteSet(D) /\ DOMAIN h = D
        OBVIOUS
    <2> HIDE DEF all, h, f, c, In
    <2> QED
        BY <2>1, <2>2, <2>3, UnionFinite
<1>3. \A x \in all : \E i \in D : x \in In(i) /\ c[x] = i
    <2> TAKE x \in all
    <2>1. PICK i \in D : x \in In(i)
        OBVIOUS
    <2>2. c[x] = x.doc
        OBVIOUS
    <2> HIDE DEF all, In, c
    <2> QED
        BY <1>1, <2>1, <2>2
<1>4. \A i \in D : \A x \in In(i) : x \in all /\ c[x] = i
    <2> TAKE i \in D
    <2> TAKE x \in In(i)
    <2>1. x \in all
        OBVIOUS
    <2>2. c[x] = x.doc
        BY <2>1
    <2> HIDE DEF all, In, c
    <2> QED
        BY <1>1, <2>1, <2>2
<1> HIDE DEF all, In, c
<1>5. \A i \in D : {x \in all : c[x] = i} = In(i)
    BY <1>3, <1>4
<1>6. \A i \in D : f[i] = Cardinality({x \in all : c[x] = i})
    BY <1>1, <1>5
<1>7. DOMAIN f = D /\ \A x \in all : c[x] \in D
    BY <1>3
<1> HIDE DEF f
<1>8. Total(f) = Cardinality(all)
    BY <1>2, <1>6, <1>7, SumOfClasses
<1> QED
    <2>1. AllOf(D, of) = all
        BY DEF AllOf, all
    <2> QED
        BY <1>2, <1>8, <2>1, FS_CardinalityType DEF f

\* It holds before a document is read.
LEMMA NerInitInv == NerInit => NerInv
<1> SUFFICES ASSUME NerInit PROVE NerInv
    OBVIOUS
<1>1. input \in Corpora /\ at = 1 /\ tally.gold = {} /\ tally.pred = {}
    BY DEF NerInit
<1>2. input \in Seq(ToSet(input))
    BY <1>1, CorporaAssumption
<1>3. Len(input) \in Nat
    BY <1>2
<1>4. Read = {} /\ at \in 1 .. Len(input) + 1
    BY <1>1, <1>3 DEF Read
<1> QED
    BY <1>1, <1>4 DEF NerInv

\* A document adds its own spans.
LEMMA NerDocumentInv ==
    ASSUME NerInv, NerDocument
    PROVE  NerInv'
<1>1. /\ script = "ner" /\ at <= Len(input) /\ at' = at + 1 /\ input' = input
      /\ tally'.gold = tally.gold \cup InDocument(at, Objects(input[at]))
      /\ tally'.pred = tally.pred \cup InDocument(at, Extract(input[at]))
    BY DEF NerDocument
<1>2. /\ input \in Corpora /\ at \in 1 .. Len(input) + 1
      /\ tally.gold = UNION {InDocument(i, Objects(input[i])) : i \in Read}
      /\ tally.pred = UNION {InDocument(i, Extract(input[i])) : i \in Read}
    BY <1>1 DEF NerInv
<1>3. input \in Seq(ToSet(input))
    BY <1>2, CorporaAssumption
<1>4. Len(input) \in Nat
    BY <1>3
<1>5. Read' = Read \cup {at} /\ at' \in 1 .. Len(input) + 1
    BY <1>1, <1>2, <1>4 DEF Read
<1>6. tally'.gold = UNION {InDocument(i, Objects(input[i])) : i \in Read'}
    BY <1>1, <1>2, <1>5
<1>7. tally'.pred = UNION {InDocument(i, Extract(input[i])) : i \in Read'}
    BY <1>1, <1>2, <1>5
<1> QED
    BY <1>1, <1>2, <1>5, <1>6, <1>7 DEF NerInv

\* A span that all documents have is in the list of its own.
LEMMA AllOfIs ==
    ASSUME NEW D, NEW of, \A i \in D : AreSpans(of[i])
    PROVE  \A x : x \in AllOf(D, of) <=>
              /\ x = [doc |-> x.doc, type |-> x.type, span |-> x.span]
              /\ x.doc \in D /\ Bare(x) \in of[x.doc]
<1> TAKE x
<1>1. ASSUME NEW i \in D, x \in InDocument(i, of[i])
      PROVE  /\ x = [doc |-> x.doc, type |-> x.type, span |-> x.span]
             /\ x.doc = i /\ Bare(x) \in of[i]
    <2>1. PICK o \in of[i] : x = [doc |-> i, type |-> o.type, span |-> o.span]
        BY <1>1 DEF InDocument
    <2>2. x.doc = i /\ x.type = o.type /\ x.span = o.span
        BY <2>1
    <2>3. Bare(x) = Bare(o) /\ Bare(o) = o
        BY <2>2 DEF Bare, AreSpans
    <2> QED
        BY <2>1, <2>2, <2>3
<1>2. ASSUME x = [doc |-> x.doc, type |-> x.type, span |-> x.span], x.doc \in D, Bare(x) \in of[x.doc]
      PROVE  x \in InDocument(x.doc, of[x.doc])
    <2> DEFINE o == Bare(x)
    <2>1. o.type = x.type /\ o.span = x.span
        BY DEF Bare
    <2>2. x = [doc |-> x.doc, type |-> o.type, span |-> o.span] /\ o \in of[x.doc]
        BY <1>2, <2>1
    <2> HIDE DEF o
    <2> QED
        BY <2>2 DEF InDocument
<1> QED
    BY <1>1, <1>2 DEF AllOf

\* The counts of a type are those of its documents, and the true positives and
\* the misses are the gold spans.
LEMMA NerInvAddsUp ==
    ASSUME NerInv
    PROVE  NerAddsUp
<1> SUFFICES ASSUME script = "ner" PROVE NerAddsUp
    BY DEF NerAddsUp
<1> DEFINE D == Read
           O == [i \in D |-> Objects(input[i])]
           P == [i \in D |-> Extract(input[i])]
           G == tally.gold
           Q == tally.pred
<1>1. /\ input \in Corpora /\ at \in 1 .. Len(input) + 1
      /\ G = UNION {InDocument(i, Objects(input[i])) : i \in Read}
      /\ Q = UNION {InDocument(i, Extract(input[i])) : i \in Read}
    BY DEF NerInv
<1>2. input \in Seq(ToSet(input)) /\ \A d \in ToSet(input) : IsFiniteSet(ToSet(d.objects)) /\ IsFiniteSet(d.found)
    BY <1>1, CorporaAssumption
<1>3. D \in SUBSET Nat /\ IsFiniteSet(D) /\ \A i \in D : input[i] \in ToSet(input)
    <2>1. Len(input) \in Nat /\ DOMAIN input = 1 .. Len(input)
        BY <1>2
    <2>2. at - 1 \in Nat /\ at - 1 <= Len(input)
        BY <1>1, <2>1
    <2>3. IsFiniteSet(1 .. at - 1)
        BY <2>2, RanksAreFinite
    <2>4. \A i \in 1 .. at - 1 : i \in DOMAIN input
        BY <2>1, <2>2
    <2> QED
        BY <2>3, <2>4 DEF Read, ToSet
<1>4. \A i \in D : /\ IsFiniteSet(O[i]) /\ IsFiniteSet(P[i])
                   /\ AreSpans(O[i] \cup P[i]) /\ AreSpans(O[i]) /\ AreSpans(P[i])
                   /\ \A o \in O[i] : o.type \in Types
    BY <1>2, <1>3, SpansFit DEF Bare, AreSpans
<1>5. G = AllOf(D, O) /\ Q = AllOf(D, P)
    BY <1>1 DEF AllOf
<1>6. \A i \in D : O[i] = Objects(input[i]) /\ P[i] = Extract(input[i])
    OBVIOUS
<1>7. DOMAIN O = D /\ DOMAIN P = D
    OBVIOUS
<1> HIDE DEF D, O, P, G, Q
<1>8. \A x : x \in G <=> /\ x = [doc |-> x.doc, type |-> x.type, span |-> x.span]
                         /\ x.doc \in D /\ Bare(x) \in O[x.doc]
    BY <1>4, <1>5, AllOfIs
<1>9. \A x : x \in Q <=> /\ x = [doc |-> x.doc, type |-> x.type, span |-> x.span]
                         /\ x.doc \in D /\ Bare(x) \in P[x.doc]
    BY <1>4, <1>5, AllOfIs
<1>10. ASSUME NEW t, NEW of, DOMAIN of = D, \A i \in D : of[i] \subseteq O[i] \cup P[i],
              NEW A, \A x : x \in A <=> /\ x = [doc |-> x.doc, type |-> x.type, span |-> x.span]
                                        /\ x.doc \in D /\ Bare(x) \in of[x.doc]
       PROVE  IsFiniteSet(A) /\ Cardinality(A) = Total([i \in D |-> Cardinality(of[i])])
    <2>1. \A i \in D : IsFiniteSet(of[i])
        <3> TAKE i \in D
        <3>1. IsFiniteSet(O[i] \cup P[i])
            BY <1>4, FS_Union
        <3> QED
            BY <1>10, <3>1, FS_Subset
    <2>2. \A i \in D : AreSpans(of[i])
        BY <1>4, <1>10 DEF AreSpans
    <2>3. A = AllOf(D, of)
        BY <1>10, <2>2, AllOfIs
    <2>4. D \in SUBSET Nat /\ IsFiniteSet(D) /\ DOMAIN of = D
        BY <1>3, <1>10
    <2>5. IsFiniteSet(AllOf(D, of)) /\ Cardinality(AllOf(D, of)) = Total([i \in D |-> Cardinality(of[i])])
        BY <2>1, <2>2, <2>4, CountByDocument
    <2> QED
        BY <2>3, <2>5
<1>11. \A x : Bare(x).type = x.type
    BY DEF Bare
<1>12. ASSUME NEW t \in Types
       PROVE  LET gold(i) == OfType(Objects(input[i]), t)
                  pred(i) == OfType(Extract(input[i]), t)
              IN  /\ Score(t).tp = Total([i \in Read |-> Cardinality(gold(i) \cap pred(i))])
                  /\ Score(t).fp = Total([i \in Read |-> Cardinality(pred(i) \ gold(i))])
                  /\ Score(t).fn = Total([i \in Read |-> Cardinality(gold(i) \ pred(i))])
    <2> DEFINE gold(i) == OfType(O[i], t)
               pred(i) == OfType(P[i], t)
               tp == [i \in D |-> gold(i) \cap pred(i)]
               fp == [i \in D |-> pred(i) \ gold(i)]
               fn == [i \in D |-> gold(i) \ pred(i)]
               g == OfType(G, t)
               p == OfType(Q, t)
    <2>1. \A i \in D : tp[i] \subseteq O[i] \cup P[i] /\ fp[i] \subseteq O[i] \cup P[i] /\ fn[i] \subseteq O[i] \cup P[i]
        BY DEF OfType
    <2>2. \A i \in D : \A o :
             /\ o \in tp[i] <=> o \in O[i] /\ o \in P[i] /\ o.type = t
             /\ o \in fp[i] <=> o \in P[i] /\ o \notin O[i] /\ o.type = t
             /\ o \in fn[i] <=> o \in O[i] /\ o \notin P[i] /\ o.type = t
        BY DEF OfType
    <2>3. DOMAIN tp = D /\ DOMAIN fp = D /\ DOMAIN fn = D
        OBVIOUS
    <2>4. Score(t) = [tp |-> Cardinality(g \cap p), fp |-> Cardinality(p \ g), fn |-> Cardinality(g \ p)]
        BY DEF Score, G, Q
    <2>5. \A x : (x \in g <=> x \in G /\ x.type = t) /\ (x \in p <=> x \in Q /\ x.type = t)
        BY DEF OfType
    <2> HIDE DEF g, p
    <2>6. [i \in D |-> Cardinality(tp[i])] = [i \in D |-> Cardinality(gold(i) \cap pred(i))]
        OBVIOUS
    <2>7. [i \in D |-> Cardinality(fp[i])] = [i \in D |-> Cardinality(pred(i) \ gold(i))]
        OBVIOUS
    <2>8. [i \in D |-> Cardinality(fn[i])] = [i \in D |-> Cardinality(gold(i) \ pred(i))]
        OBVIOUS
    <2> HIDE DEF tp, fp, fn
    <2>9. Cardinality(g \cap p) = Total([i \in D |-> Cardinality(tp[i])])
        <3>1. \A x : x \in g \cap p <=>
                 /\ x = [doc |-> x.doc, type |-> x.type, span |-> x.span]
                 /\ x.doc \in D /\ Bare(x) \in tp[x.doc]
            BY <1>8, <1>9, <1>11, <2>2, <2>5
        <3> QED
            BY <1>10, <2>1, <2>3, <3>1
    <2>10. Cardinality(p \ g) = Total([i \in D |-> Cardinality(fp[i])])
        <3>1. \A x : x \in p \ g <=>
                 /\ x = [doc |-> x.doc, type |-> x.type, span |-> x.span]
                 /\ x.doc \in D /\ Bare(x) \in fp[x.doc]
            BY <1>8, <1>9, <1>11, <2>2, <2>5
        <3> QED
            BY <1>10, <2>1, <2>3, <3>1
    <2>11. Cardinality(g \ p) = Total([i \in D |-> Cardinality(fn[i])])
        <3>1. \A x : x \in g \ p <=>
                 /\ x = [doc |-> x.doc, type |-> x.type, span |-> x.span]
                 /\ x.doc \in D /\ Bare(x) \in fn[x.doc]
            BY <1>8, <1>9, <1>11, <2>2, <2>5
        <3> QED
            BY <1>10, <2>1, <2>3, <3>1
    <2> HIDE DEF gold, pred
    <2>12. /\ Score(t).tp = Total([i \in D |-> Cardinality(gold(i) \cap pred(i))])
           /\ Score(t).fp = Total([i \in D |-> Cardinality(pred(i) \ gold(i))])
           /\ Score(t).fn = Total([i \in D |-> Cardinality(gold(i) \ pred(i))])
        <3>1. /\ Score(t).tp = Cardinality(g \cap p) /\ Score(t).fp = Cardinality(p \ g)
              /\ Score(t).fn = Cardinality(g \ p)
            BY <2>4
        <3>2. Score(t).tp = Total([i \in D |-> Cardinality(gold(i) \cap pred(i))])
            BY <2>6, <2>9, <3>1
        <3>3. Score(t).fp = Total([i \in D |-> Cardinality(pred(i) \ gold(i))])
            BY <2>7, <2>10, <3>1
        <3>4. Score(t).fn = Total([i \in D |-> Cardinality(gold(i) \ pred(i))])
            BY <2>8, <2>11, <3>1
        <3> QED
            BY <3>2, <3>3, <3>4
    <2>13. \A i \in D : gold(i) = OfType(Objects(input[i]), t) /\ pred(i) = OfType(Extract(input[i]), t)
        BY <1>6 DEF gold, pred
    <2>14. /\ [i \in D |-> Cardinality(gold(i) \cap pred(i))] =
              [i \in D |-> Cardinality(OfType(Objects(input[i]), t) \cap OfType(Extract(input[i]), t))]
           /\ [i \in D |-> Cardinality(pred(i) \ gold(i))] =
              [i \in D |-> Cardinality(OfType(Extract(input[i]), t) \ OfType(Objects(input[i]), t))]
           /\ [i \in D |-> Cardinality(gold(i) \ pred(i))] =
              [i \in D |-> Cardinality(OfType(Objects(input[i]), t) \ OfType(Extract(input[i]), t))]
        BY <2>13
    <2> QED
        BY <2>12, <2>14 DEF D
<1>13. Micro("tp") + Micro("fn") = Cardinality(G)
    <2>1. IsFiniteSet(G) /\ \A x \in G : x.type \in Types
        <3>1. IsFiniteSet(G)
            BY <1>7, <1>8, <1>10
        <3>2. \A x \in G : Bare(x) \in O[x.doc] /\ x.doc \in D
            BY <1>8
        <3> QED
            BY <1>4, <1>11, <3>1, <3>2
    <2>2. IsFiniteSet(Types)
        <3>1. Types = {TypeMap[x] : x \in DOMAIN TypeMap}
            BY DEF Types, Range
        <3> QED
            BY <3>1, CorporaAssumption, ImageFinite
    <2>3. ASSUME NEW A, A \subseteq G, NEW f, DOMAIN f = Types,
                 \A t \in Types : f[t] = Cardinality({x \in A : x.type = t})
          PROVE  Total(f) = Cardinality(A)
        <3> DEFINE c == [x \in A |-> x.type]
        <3>1. IsFiniteSet(A) /\ \A x \in A : c[x] = x.type /\ c[x] \in Types
            BY <2>1, <2>3, FS_Subset
        <3>2. \A t : {x \in A : x.type = t} = {x \in A : c[x] = t}
            BY <3>1
        <3> HIDE DEF c
        <3>3. \A t \in Types : f[t] = Cardinality({x \in A : c[x] = t})
            BY <2>3, <3>2
        <3> QED
            BY <2>2, <2>3, <3>1, <3>3, SumOfClasses
    <2> DEFINE tp == [t \in Types |-> Score(t)["tp"]]
               fn == [t \in Types |-> Score(t)["fn"]]
    <2>4. \A t \in Types : /\ tp[t] = Cardinality({x \in G \cap Q : x.type = t})
                           /\ fn[t] = Cardinality({x \in G \ Q : x.type = t})
        <3> TAKE t \in Types
        <3>1. /\ OfType(G, t) \cap OfType(Q, t) = {x \in G \cap Q : x.type = t}
              /\ OfType(G, t) \ OfType(Q, t) = {x \in G \ Q : x.type = t}
            BY DEF OfType
        <3>2. /\ Score(t)["tp"] = Cardinality(OfType(G, t) \cap OfType(Q, t))
              /\ Score(t)["fn"] = Cardinality(OfType(G, t) \ OfType(Q, t))
            BY DEF Score, G, Q
        <3> QED
            BY <3>1, <3>2
    <2>5. DOMAIN tp = Types /\ DOMAIN fn = Types
        OBVIOUS
    <2>6. Micro("tp") = Total(tp) /\ Micro("fn") = Total(fn)
        BY DEF Micro
    <2> HIDE DEF tp, fn
    <2>7. Total(tp) = Cardinality(G \cap Q)
        BY <2>3, <2>4, <2>5
    <2>8. Total(fn) = Cardinality(G \ Q)
        BY <2>3, <2>4, <2>5
    <2>9. Cardinality(G) = Cardinality(G \cap Q) + Cardinality(G \ Q)
        <3> DEFINE X == G \cap Q
                   Y == G \ Q
        <3>1. G = X \cup Y /\ X \cap Y = {}
            OBVIOUS
        <3>2. IsFiniteSet(X) /\ IsFiniteSet(Y) /\ Cardinality(X) \in Nat /\ Cardinality(Y) \in Nat
            BY <2>1, FS_Subset, FS_CardinalityType
        <3> HIDE DEF X, Y
        <3>3. Cardinality(X \cup Y) = Cardinality(X) + Cardinality(Y) - Cardinality(X \cap Y)
            BY <3>2, FS_Union
        <3>4. Cardinality(X \cap Y) = 0
            BY <3>1, FS_EmptySet
        <3> QED
            <4>1. Cardinality(G) = Cardinality(X) + Cardinality(Y)
                BY <3>1, <3>2, <3>3, <3>4
            <4> QED
                BY <4>1 DEF X, Y
    <2> QED
        BY <2>6, <2>7, <2>8, <2>9
<1> QED
    BY <1>12, <1>13 DEF NerAddsUp, G

-----------------------------------------------------------------------------
(* The classes of eval_sentiment.                                           *)

\* There are three classes.
LEMMA ThreeClasses ==
    /\ \A x, y, z, w \in Classes : x # y /\ y # z /\ x # z => w \in {x, y, z}
    /\ \A x \in Classes : \E y, z \in Classes : x # y /\ y # z /\ x # z /\ Classes \ {x} = {y, z}
<1>1. \A x, y, z, w \in Classes : x # y /\ y # z /\ x # z => w \in {x, y, z}
    BY DEF Classes
<1>2. ASSUME NEW x \in Classes
      PROVE  \E y, z \in Classes : x # y /\ y # z /\ x # z /\ Classes \ {x} = {y, z}
    <2> DEFINE P(y, z) == x # y /\ y # z /\ x # z /\ Classes \ {x} = {y, z}
    <2>1. CASE x = "positive"
        <3>1. P("negative", "neutral") /\ "negative" \in Classes /\ "neutral" \in Classes
            BY <2>1 DEF Classes
        <3> QED
            BY <3>1
    <2>2. CASE x = "negative"
        <3>1. P("positive", "neutral") /\ "positive" \in Classes /\ "neutral" \in Classes
            BY <2>2 DEF Classes
        <3> QED
            BY <3>1
    <2>3. CASE x = "neutral"
        <3>1. P("positive", "negative") /\ "positive" \in Classes /\ "negative" \in Classes
            BY <2>3 DEF Classes
        <3> QED
            BY <3>1
    <2> QED
        BY <2>1, <2>2, <2>3 DEF Classes
<1> QED
    BY <1>1, <1>2

\* A text that is evaluated has a label that stands for a class.
LEMMA SamplesFit ==
    ASSUME NEW data \in Datasets, NEW limit \in Limits
    PROVE  /\ Len(Samples(data, limit)) \in Nat
           /\ \A i \in 1 .. Len(Samples(data, limit)) :
                 LabelMap[Samples(data, limit)[i].label] \in Classes
<1> DEFINE known == {x \in ToSet(data) \cup ToSet(Builtin) : x.label \in DOMAIN LabelMap}
           loaded == IF Labelled(data) = <<>> THEN Builtin ELSE Labelled(data)
           ranks == {k \in DOMAIN data : data[k].label \in DOMAIN LabelMap}
<1>1. data \in Seq(ToSet(data)) /\ Builtin \in Seq(ToSet(Builtin))
    BY DatasetsAssumption
<1>2. Builtin \in Seq(known)
    <2>1. Len(Builtin) \in Nat /\ DOMAIN Builtin = 1 .. Len(Builtin)
        BY <1>1
    <2>2. \A k \in DOMAIN Builtin : Builtin[k] \in ToSet(Builtin)
        BY DEF ToSet
    <2>3. \A k \in DOMAIN Builtin : Builtin[k] \in known
        BY <2>2, DatasetsAssumption
    <2> HIDE DEF known
    <2> QED
        BY <1>1, <2>1, <2>3
<1>3. Labelled(data) \in Seq(known)
    <2> DEFINE q == Kept(data, ranks)
    <2>1. ranks \in SUBSET DOMAIN data /\ \A k \in DOMAIN data : data[k] \in ToSet(data)
        BY DEF ToSet
    <2>2. \A k \in ranks : data[k] \in known
        BY <2>1
    <2> HIDE DEF ranks, known
    <2>3. q \in Seq(ToSet(data)) /\ \A j \in DOMAIN q : \E k \in ranks : q[j] = data[k]
        BY <1>1, <2>1, KeptFits
    <2>4. Len(q) \in Nat /\ DOMAIN q = 1 .. Len(q)
        BY <2>3
    <2>5. \A j \in DOMAIN q : q[j] \in known
        BY <2>2, <2>3
    <2>6. Labelled(data) = q
        BY DEF Labelled, ranks
    <2> HIDE DEF q
    <2> QED
        BY <2>3, <2>4, <2>5, <2>6
<1>4. loaded \in Seq(known)
    BY <1>2, <1>3
<1>5. \A x \in known : LabelMap[x.label] \in Classes
    <2>1. \A x \in known : LabelMap[x.label] \in Range(LabelMap)
        BY DEF Range
    <2> QED
        BY <2>1, DatasetsAssumption DEF Classes
<1>6. Samples(data, limit) = IF limit = 0 THEN loaded ELSE SubSeq(loaded, 1, Min({limit, Len(loaded)}))
    BY DEF Samples
<1> HIDE DEF known, loaded
<1>7. Samples(data, limit) \in Seq(known)
    <2>1. limit \in Nat /\ Len(loaded) \in Nat
        BY <1>4, DatasetsAssumption
    <2>2. limit \in Int /\ Len(loaded) \in Int
        BY <2>1
    <2>3. Min({limit, Len(loaded)}) = IF limit <= Len(loaded) THEN limit ELSE Len(loaded)
        BY <2>2, EndsOfTwo
    <2> DEFINE m == Min({limit, Len(loaded)})
    <2>4. m \in Nat /\ m <= Len(loaded)
        BY <2>1, <2>3
    <2> HIDE DEF m
    <2>5. SubSeq(loaded, 1, m) \in Seq(known)
        BY <1>4, <2>4
    <2> QED
        BY <1>4, <1>6, <2>5 DEF m
<1> DEFINE s == Samples(data, limit)
<1>8. Len(s) \in Nat /\ \A i \in 1 .. Len(s) : s[i] \in known
    <2> HIDE DEF s
    <2>1. s \in Seq(known)
        BY <1>7 DEF s
    <2> QED
        BY <2>1
<1> QED
    BY <1>5, <1>8

\* It holds before the first text.
LEMMA SentimentInitInv == SentimentInit => SentimentInv
<1> SUFFICES ASSUME SentimentInit PROVE SentimentInv
    OBVIOUS
<1>1. /\ at = 1
      /\ tally = [tp |-> Zero, fp |-> Zero, fn |-> Zero, support |-> Zero,
                  confusion |-> [p \in Classes \X Classes |-> 0]]
    BY DEF SentimentInit
<1>2. PICK data \in Datasets, limit \in Limits : input = Samples(data, limit)
    BY DEF SentimentInit
<1>3. Len(input) \in Nat /\ \A i \in 1 .. Len(input) : LabelMap[input[i].label] \in Classes
    BY <1>2, SamplesFit
<1>4. /\ tally.tp = Zero /\ tally.fp = Zero /\ tally.fn = Zero /\ tally.support = Zero
      /\ tally.confusion = [p \in Classes \X Classes |-> 0]
    BY <1>1
<1>5. Zero \in [Classes -> Nat] /\ \A x \in Classes : Zero[x] = 0
    BY DEF Zero
<1>6. /\ tally.confusion \in [Classes \X Classes -> Nat]
      /\ \A x, y \in Classes : tally.confusion[<<x, y>>] = 0
    BY <1>4
<1>7. \A x : {i \in Read : LabelMap[input[i].label] = x} = {}
    BY <1>1 DEF Read
<1>8. at \in 1 .. Len(input) + 1
    BY <1>1, <1>3
<1>9. \A x \in Classes : /\ tally.tp[x] = tally.confusion[<<x, x>>]
                         /\ tally.support[x] = Cardinality({i \in Read : LabelMap[input[i].label] = x})
    BY <1>4, <1>5, <1>6, <1>7, FS_EmptySet
<1>10. \A x, y, z \in Classes :
          /\ tally.fp[x] = tally.confusion[<<y, x>>] + tally.confusion[<<z, x>>]
          /\ tally.fn[x] = tally.confusion[<<x, y>>] + tally.confusion[<<x, z>>]
    BY <1>4, <1>5, <1>6
<1>11. tally = [tp |-> tally.tp, fp |-> tally.fp, fn |-> tally.fn, support |-> tally.support,
                confusion |-> tally.confusion]
    BY <1>1
<1>12. /\ tally.tp \in [Classes -> Nat] /\ tally.fp \in [Classes -> Nat]
       /\ tally.fn \in [Classes -> Nat] /\ tally.support \in [Classes -> Nat]
    BY <1>4, <1>5
<1>13. CellsTypeOK(tally)
    BY <1>6, <1>11, <1>12 DEF CellsTypeOK
<1>14. CellsAddUp(tally)
    <2>1. \A x \in Classes : tally.tp[x] = tally.confusion[<<x, x>>]
        BY <1>9
    <2>2. \A x, y, z \in Classes : x # y /\ y # z /\ x # z =>
             /\ tally.fp[x] = tally.confusion[<<y, x>>] + tally.confusion[<<z, x>>]
             /\ tally.fn[x] = tally.confusion[<<x, y>>] + tally.confusion[<<x, z>>]
        BY <1>10
    <2> QED
        BY <2>1, <2>2 DEF CellsAddUp
<1> QED
    BY <1>3, <1>8, <1>9, <1>13, <1>14 DEF SentimentInv

\* A text raises a cell, and its row and its column with it.
LEMMA SentimentSampleInv ==
    ASSUME SentimentInv, SentimentSample
    PROVE  SentimentInv'
<1> DEFINE gold == LabelMap[input[at].label]
           pred == Predict(input[at])
           counted == [tally EXCEPT !.support[gold] = @ + 1, !.confusion[<<gold, pred>>] = @ + 1]
<1>1. /\ script = "sentiment" /\ at <= Len(input) /\ at' = at + 1 /\ input' = input
      /\ tally' = IF pred = gold THEN [counted EXCEPT !.tp[gold] = @ + 1]
                  ELSE [counted EXCEPT !.fn[gold] = @ + 1, !.fp[pred] = @ + 1]
    BY DEF SentimentSample
<1>2. /\ at \in 1 .. Len(input) + 1 /\ Len(input) \in Nat
      /\ \A i \in 1 .. Len(input) : LabelMap[input[i].label] \in Classes
      /\ tally = [tp |-> tally.tp, fp |-> tally.fp, fn |-> tally.fn, support |-> tally.support,
                  confusion |-> tally.confusion]
      /\ tally.tp \in [Classes -> Nat] /\ tally.fp \in [Classes -> Nat]
      /\ tally.fn \in [Classes -> Nat] /\ tally.support \in [Classes -> Nat]
      /\ tally.confusion \in [Classes \X Classes -> Nat]
      /\ \A x \in Classes :
            /\ tally.tp[x] = tally.confusion[<<x, x>>]
            /\ tally.support[x] = Cardinality({i \in Read : LabelMap[input[i].label] = x})
      /\ \A x, y, z \in Classes : x # y /\ y # z /\ x # z =>
            /\ tally.fp[x] = tally.confusion[<<y, x>>] + tally.confusion[<<z, x>>]
            /\ tally.fn[x] = tally.confusion[<<x, y>>] + tally.confusion[<<x, z>>]
    BY <1>1 DEF SentimentInv, CellsTypeOK, CellsAddUp
<1>3. gold \in Classes /\ pred \in Classes
    <2>1. at \in 1 .. Len(input)
        BY <1>1, <1>2
    <2>2. gold \in Classes
        BY <1>2, <2>1
    <2>3. pred \in {"positive", "negative", "neutral"}
        BY DEF Predict
    <2> QED
        BY <2>2, <2>3 DEF Classes
<1>4. at \in Nat /\ at' \in 1 .. Len(input) + 1 /\ Read' = Read \cup {at} /\ at \notin Read
    BY <1>1, <1>2 DEF Read
<1> DEFINE tp == tally.tp
           fp == tally.fp
           fn == tally.fn
           support == tally.support
           cells == tally.confusion
<1>5. counted = [tp |-> tp, fp |-> fp, fn |-> fn, support |-> [support EXCEPT ![gold] = @ + 1],
                 confusion |-> [cells EXCEPT ![<<gold, pred>>] = @ + 1]]
    <2>1. tally = [tp |-> tp, fp |-> fp, fn |-> fn, support |-> support, confusion |-> cells]
        BY <1>2
    <2> HIDE DEF gold, pred, tp, fp, fn, support, cells
    <2> DEFINE one == [tally EXCEPT !.support[gold] = @ + 1]
    <2>2. one = [tp |-> tp, fp |-> fp, fn |-> fn, support |-> [support EXCEPT ![gold] = @ + 1],
                 confusion |-> cells]
        BY <2>1
    <2>3. counted = [one EXCEPT !.confusion[<<gold, pred>>] = @ + 1]
        BY <2>1
    <2> HIDE DEF one, counted
    <2> QED
        BY <2>2, <2>3
<1> HIDE DEF counted
<1>6. tally' = [tp |-> IF pred = gold THEN [tp EXCEPT ![gold] = @ + 1] ELSE tp,
                fp |-> IF pred = gold THEN fp ELSE [fp EXCEPT ![pred] = @ + 1],
                fn |-> IF pred = gold THEN fn ELSE [fn EXCEPT ![gold] = @ + 1],
                support |-> [support EXCEPT ![gold] = @ + 1],
                confusion |-> [cells EXCEPT ![<<gold, pred>>] = @ + 1]]
    <2> HIDE DEF gold, pred, tp, fp, fn, support, cells
    <2>1. CASE pred = gold
        BY <1>1, <1>5, <2>1
    <2>2. CASE pred # gold
        BY <1>1, <1>5, <2>2
    <2> QED
        BY <2>1, <2>2
<1>7. /\ tally'.tp = (IF pred = gold THEN [tp EXCEPT ![gold] = @ + 1] ELSE tp)
      /\ tally'.fp = (IF pred = gold THEN fp ELSE [fp EXCEPT ![pred] = @ + 1])
      /\ tally'.fn = (IF pred = gold THEN fn ELSE [fn EXCEPT ![gold] = @ + 1])
      /\ tally'.support = [support EXCEPT ![gold] = @ + 1]
      /\ tally'.confusion = [cells EXCEPT ![<<gold, pred>>] = @ + 1]
      /\ tally' = [tp |-> tally'.tp, fp |-> tally'.fp, fn |-> tally'.fn, support |-> tally'.support,
                   confusion |-> tally'.confusion]
    BY <1>6
<1>8. /\ tp \in [Classes -> Nat] /\ fp \in [Classes -> Nat] /\ fn \in [Classes -> Nat]
      /\ support \in [Classes -> Nat] /\ cells \in [Classes \X Classes -> Nat]
      /\ \A x, y, z \in Classes : x # y /\ y # z /\ x # z =>
            /\ fp[x] = cells[<<y, x>>] + cells[<<z, x>>]
            /\ fn[x] = cells[<<x, y>>] + cells[<<x, z>>]
      /\ \A x \in Classes : tp[x] = cells[<<x, x>>]
    BY <1>2
<1>9. \A x \in Classes : support[x] = Cardinality({i \in Read : LabelMap[input[i].label] = x})
    BY <1>2
<1> HIDE DEF tp, fp, fn, support, cells
<1>10. \A x \in Classes :
          tally'.support[x] = Cardinality({i \in Read' : LabelMap[input'[i].label] = x})
    <2> TAKE x \in Classes
    <2> DEFINE S == {i \in Read : LabelMap[input[i].label] = x}
    <2>1. IsFiniteSet(S) /\ Cardinality(S) = support[x]
        <3>1. at - 1 \in Nat
            BY <1>2
        <3>2. IsFiniteSet(Read)
            BY <3>1, RanksAreFinite DEF Read
        <3> QED
            BY <1>9, <3>2, FS_Subset
    <2>2. support[x] \in Nat
        BY <1>8
    <2>3. CASE x = gold
        <3>1. {i \in Read' : LabelMap[input'[i].label] = x} = S \cup {at} /\ at \notin S
            BY <1>1, <1>4, <2>3
        <3> HIDE DEF S
        <3>2. Cardinality(S \cup {at}) = support[x] + 1
            BY <2>1, <3>1, FS_AddElement
        <3>3. tally'.support[x] = support[x] + 1
            BY <1>7, <1>8, <2>3
        <3> QED
            BY <3>1, <3>2, <3>3
    <2>4. CASE x # gold
        <3>1. {i \in Read' : LabelMap[input'[i].label] = x} = S
            BY <1>1, <1>4, <2>4
        <3>2. tally'.support[x] = support[x]
            BY <1>7, <1>8, <2>4
        <3> QED
            BY <2>1, <3>1, <3>2
    <2> QED
        BY <2>3, <2>4
<1> HIDE DEF gold, pred
<1>11. \A x, y \in Classes :
          /\ tally'.confusion[<<x, y>>] =
                IF x = gold /\ y = pred THEN cells[<<x, y>>] + 1 ELSE cells[<<x, y>>]
          /\ cells[<<x, y>>] \in Nat
    <2> TAKE x, y \in Classes
    <2>1. <<x, y>> \in Classes \X Classes /\ (<<x, y>> = <<gold, pred>> <=> x = gold /\ y = pred)
        OBVIOUS
    <2> QED
        BY <1>7, <1>8, <2>1
<1>12. \A x \in Classes :
          /\ tally'.tp[x] = IF pred = gold /\ x = gold THEN tp[x] + 1 ELSE tp[x]
          /\ tally'.fp[x] = IF pred # gold /\ x = pred THEN fp[x] + 1 ELSE fp[x]
          /\ tally'.fn[x] = IF pred # gold /\ x = gold THEN fn[x] + 1 ELSE fn[x]
    BY <1>7, <1>8
<1>13. /\ tally'.tp \in [Classes -> Nat] /\ tally'.fp \in [Classes -> Nat] /\ tally'.fn \in [Classes -> Nat]
       /\ tally'.support \in [Classes -> Nat] /\ tally'.confusion \in [Classes \X Classes -> Nat]
    <2>1. <<gold, pred>> \in Classes \X Classes
        BY <1>3
    <2> QED
        BY <1>3, <1>7, <1>8, <2>1
<1>14. \A x \in Classes : tally'.tp[x] = tally'.confusion[<<x, x>>]
    BY <1>8, <1>11, <1>12
<1>15. ASSUME NEW x \in Classes, NEW y \in Classes, NEW z \in Classes, x # y, y # z, x # z
       PROVE  /\ tally'.fp[x] = tally'.confusion[<<y, x>>] + tally'.confusion[<<z, x>>]
              /\ tally'.fn[x] = tally'.confusion[<<x, y>>] + tally'.confusion[<<x, z>>]
    <2>1. /\ fp[x] = cells[<<y, x>>] + cells[<<z, x>>] /\ fn[x] = cells[<<x, y>>] + cells[<<x, z>>]
          /\ cells[<<y, x>>] \in Nat /\ cells[<<z, x>>] \in Nat
          /\ cells[<<x, y>>] \in Nat /\ cells[<<x, z>>] \in Nat
        BY <1>8, <1>11, <1>15
    <2>2. gold \in {x, y, z} /\ pred \in {x, y, z}
        BY <1>3, <1>15, ThreeClasses
    <2>3. tally'.fp[x] = tally'.confusion[<<y, x>>] + tally'.confusion[<<z, x>>]
        BY <1>11, <1>12, <1>15, <2>1, <2>2
    <2>4. tally'.fn[x] = tally'.confusion[<<x, y>>] + tally'.confusion[<<x, z>>]
        BY <1>11, <1>12, <1>15, <2>1, <2>2
    <2> QED
        BY <2>3, <2>4
<1>16. at' \in 1 .. Len(input') + 1 /\ Len(input') \in Nat
       /\ \A i \in 1 .. Len(input') : LabelMap[input'[i].label] \in Classes
    BY <1>1, <1>2, <1>4
<1>17. CellsTypeOK(tally')
    BY <1>7, <1>13 DEF CellsTypeOK
<1>18. CellsAddUp(tally')
    BY <1>14, <1>15 DEF CellsAddUp
<1> QED
    BY <1>10, <1>16, <1>17, <1>18 DEF SentimentInv

\* The report of the classes.
LEMMA SentimentInvAddsUp ==
    ASSUME SentimentInv
    PROVE  SentimentAddsUp
<1> SUFFICES ASSUME script = "sentiment", NEW x \in Classes
             PROVE  /\ tally.tp[x] = tally.confusion[<<x, x>>]
                    /\ tally.fp[x] = Total([g \in Classes \ {x} |-> tally.confusion[<<g, x>>]])
                    /\ tally.fn[x] = Total([p \in Classes \ {x} |-> tally.confusion[<<x, p>>]])
                    /\ tally.support[x] = Cardinality({i \in Read : LabelMap[input[i].label] = x})
    BY DEF SentimentAddsUp
<1> DEFINE cells == tally.confusion
<1>1. /\ cells \in [Classes \X Classes -> Nat]
      /\ tally.tp[x] = cells[<<x, x>>]
      /\ tally.support[x] = Cardinality({i \in Read : LabelMap[input[i].label] = x})
      /\ \A y, z \in Classes : x # y /\ y # z /\ x # z =>
            /\ tally.fp[x] = cells[<<y, x>>] + cells[<<z, x>>]
            /\ tally.fn[x] = cells[<<x, y>>] + cells[<<x, z>>]
    BY DEF SentimentInv, CellsTypeOK, CellsAddUp
<1>2. PICK y, z \in Classes : x # y /\ y # z /\ x # z /\ Classes \ {x} = {y, z}
    BY ThreeClasses
<1> DEFINE f == [g \in Classes \ {x} |-> cells[<<g, x>>]]
           h == [p \in Classes \ {x} |-> cells[<<x, p>>]]
<1>3. /\ DOMAIN f = {y, z} /\ f[y] = cells[<<y, x>>] /\ f[z] = cells[<<z, x>>]
      /\ DOMAIN h = {y, z} /\ h[y] = cells[<<x, y>>] /\ h[z] = cells[<<x, z>>]
    BY <1>2
<1> HIDE DEF cells
<1>4. f[y] \in Nat /\ f[z] \in Nat /\ h[y] \in Nat /\ h[z] \in Nat
    BY <1>1, <1>2, <1>3
<1> HIDE DEF f, h
<1>5. Total(f) = f[y] + f[z]
    BY <1>2, <1>3, <1>4, SumOfTwo
<1>6. Total(h) = h[y] + h[z]
    BY <1>2, <1>3, <1>4, SumOfTwo
<1>7. tally.fp[x] = Total(f) /\ tally.fn[x] = Total(h)
    BY <1>1, <1>2, <1>3, <1>5, <1>6
<1> QED
    BY <1>1, <1>7 DEF cells, f, h

-----------------------------------------------------------------------------
(* The answers of eval_latency.                                             *)

\* Rounding is off by half at most.
LEMMA RoundedFits ==
    ASSUME NEW m \in Nat
    PROVE  /\ Rounded(m, 100) \in Nat
           /\ 100 * Rounded(m, 100) <= m + 50 /\ 100 * Rounded(m, 100) >= m - 50
<1> DEFINE q == m \div 100
           r == m % 100
<1>1. q \in Nat /\ r \in 0 .. 99 /\ m = 100 * q + r
    OBVIOUS
<1>2. Rounded(m, 100) = IF 2 * r < 100 \/ (2 * r = 100 /\ q % 2 = 0) THEN q ELSE q + 1
    BY DEF Rounded
<1> HIDE DEF q, r
<1>3. CASE 2 * r < 100 \/ (2 * r = 100 /\ q % 2 = 0)
    <2>1. Rounded(m, 100) = q /\ 2 * r <= 100
        BY <1>1, <1>2, <1>3
    <2> QED
        BY <1>1, <2>1
<1>4. CASE ~ (2 * r < 100 \/ (2 * r = 100 /\ q % 2 = 0))
    <2>1. Rounded(m, 100) = q + 1 /\ 2 * r >= 100
        BY <1>1, <1>2, <1>4
    <2> QED
        BY <1>1, <2>1
<1> QED
    BY <1>3, <1>4

\* It holds before the first request.
LEMMA LatencyInitInv == LatencyInit => LatencyInv
<1> SUFFICES ASSUME LatencyInit PROVE LatencyInv
    OBVIOUS
<1>1. input \in Timings /\ at = 1 /\ tally = [samples |-> <<>>, errors |-> 0]
    BY DEF LatencyInit
<1>2. <<>> \in Seq(Nat) /\ Len(<<>>) = 0
    OBVIOUS
<1> QED
    BY <1>1, <1>2 DEF LatencyInv

\* A request is one more sample or one more error.
LEMMA LatencyRequestInv ==
    ASSUME LatencyInv, LatencyRequest
    PROVE  LatencyInv'
<1>1. /\ script = "latency" /\ at <= Len(input) /\ at' = at + 1 /\ input' = input
      /\ tally' = IF input[at] = Error THEN [tally EXCEPT !.errors = @ + 1]
                  ELSE [tally EXCEPT !.samples = Append(@, input[at])]
    BY DEF LatencyRequest
<1>2. /\ input \in Timings /\ at \in Nat \ {0}
      /\ tally = [samples |-> tally.samples, errors |-> tally.errors]
      /\ tally.samples \in Seq(Nat) /\ tally.errors \in Nat
      /\ Len(tally.samples) + tally.errors = at - 1
    BY <1>1 DEF LatencyInv
<1>3. input \in Seq(Nat \cup {Error}) /\ Len(tally.samples) \in Nat
    BY <1>2, TimingsAssumption
<1>4. input[at] \in Nat \cup {Error}
    BY <1>1, <1>2, <1>3
<1> DEFINE l == Len(tally.samples)
           e == tally.errors
<1>0. l \in Nat /\ e \in Nat /\ at \in Nat /\ l + e = at - 1
    BY <1>2, <1>3
<1> HIDE DEF l, e
<1>9. l + (e + 1) = (at + 1) - 1 /\ (l + 1) + e = (at + 1) - 1 /\ e + 1 \in Nat /\ at + 1 \in Nat \ {0}
    BY <1>0
<1>5. CASE input[at] = Error
    <2>1. tally' = [samples |-> tally.samples, errors |-> tally.errors + 1]
        BY <1>1, <1>2, <1>5
    <2>2. Len(tally.samples) + (tally.errors + 1) = (at + 1) - 1
        BY <1>9 DEF l, e
    <2>3. tally'.samples = tally.samples /\ tally'.errors = tally.errors + 1 /\ tally.errors + 1 \in Nat
        BY <1>9, <2>1 DEF e
    <2> QED
        BY <1>1, <1>2, <1>9, <2>1, <2>2, <2>3 DEF LatencyInv
<1>6. CASE input[at] # Error
    <2> DEFINE q == Append(tally.samples, input[at])
    <2>1. tally' = [samples |-> q, errors |-> tally.errors]
        BY <1>1, <1>2, <1>6
    <2>2. q \in Seq(Nat) /\ Len(q) = Len(tally.samples) + 1
        BY <1>2, <1>4, <1>6, AppendProperties
    <2> HIDE DEF q
    <2>3. Len(q) + tally.errors = (at + 1) - 1
        BY <1>9, <2>2 DEF l, e
    <2>4. tally'.samples = q /\ tally'.errors = tally.errors
        BY <2>1
    <2> QED
        BY <1>1, <1>2, <1>9, <2>1, <2>2, <2>3, <2>4 DEF LatencyInv
<1> QED
    BY <1>5, <1>6

\* A percentile is a sample at the rank nearest to it.
LEMMA PercentileFits ==
    ASSUME NEW s \in Seq(Nat), s # <<>>, NEW p \in {50, 95, 99}
    PROVE  LET v == Percentile(s, p) IN
           /\ v \in ToSet(s)
           /\ 100 * Cardinality(Below(s, v)) <= p * (Len(s) - 1) + 50
           /\ 100 * Cardinality(UpTo(s, v)) >= p * (Len(s) - 1) + 50
<1> DEFINE n == Len(s)
           m == p * (n - 1)
           r == Rounded(m, 100)
           j == 1 + r
<1>1. n \in Nat /\ n >= 1 /\ s \in Seq(Int)
    OBVIOUS
<1>2. m \in Nat /\ m <= 99 * (n - 1)
    <2> HIDE DEF n
    <2> QED
        BY <1>1
<1>3. r \in Nat /\ 100 * r <= m + 50 /\ 100 * r >= m - 50
    <2> HIDE DEF m
    <2> QED
        BY <1>2, RoundedFits
<1> HIDE DEF r, m
<1>4. r <= n - 1
    <2> HIDE DEF n
    <2>1. 100 * r <= 99 * (n - 1) + 50
        BY <1>1, <1>2, <1>3
    <2>2. CASE n = 1
        <3>1. 100 * r <= 50
            BY <2>1, <2>2
        <3> QED
            BY <1>3, <2>2, <3>1
    <2>3. CASE n # 1
        <3>1. 100 * r < 100 * n
            BY <1>1, <1>3, <2>1
        <3> QED
            BY <1>1, <1>3, <3>1
    <2> QED
        BY <2>2, <2>3
<1> HIDE DEF n
<1>5. Max({0, r}) = r
    <2>1. 0 \in Int /\ r \in Int /\ r >= 0
        BY <1>3
    <2>2. Max({0, r}) = (IF 0 >= r THEN 0 ELSE r)
        BY <2>1, EndsOfTwo
    <2> QED
        BY <2>1, <2>2
<1>6. Min({n - 1, r}) = r
    <2>1. n - 1 \in Int /\ r \in Int /\ (n - 1 <= r => n - 1 = r)
        BY <1>1, <1>3, <1>4
    <2> QED
        BY <2>1, EndsOfTwo
<1>7. Percentile(s, p) = Smallest(s, j)
    BY <1>5, <1>6 DEF Percentile, n, m, r
<1>8. j \in 1 .. Len(s)
    BY <1>1, <1>3, <1>4 DEF n
<1> HIDE DEF j
<1> DEFINE v == Smallest(s, j)
           below == Cardinality(Below(s, v))
           upTo == Cardinality(UpTo(s, v))
<1>9. v \in Range(s) /\ below \in Nat /\ upTo \in Nat /\ below < j /\ j <= upTo
    BY <1>1, <1>8, SmallestFits
<1>10. Range(s) = ToSet(s)
    BY DEF Range, ToSet
<1> HIDE DEF v, below, upTo
<1>11. below <= r /\ upTo >= r + 1
    BY <1>3, <1>9 DEF j
<1>12. 100 * below <= m + 50 /\ 100 * upTo >= m + 50
    BY <1>2, <1>3, <1>9, <1>11
<1> QED
    BY <1>7, <1>9, <1>10, <1>12 DEF v, below, upTo, m, n

\* The report of the latencies.
LEMMA LatencyInvAddsUp ==
    ASSUME LatencyInv
    PROVE  LatencyAddsUp
<1> SUFFICES ASSUME script = "latency" PROVE LatencyAddsUp
    BY DEF LatencyAddsUp
<1>1. tally.samples \in Seq(Nat) /\ Len(tally.samples) + tally.errors = at - 1
    BY DEF LatencyInv
<1> QED
    BY <1>1, PercentileFits DEF LatencyAddsUp

-----------------------------------------------------------------------------
(* The stages of eval_throughput.                                           *)

\* A moment is the moment before and the time of its stage.
LEMMA NextMoment ==
    ASSUME NEW q \in Seq(Nat \cup {Error}), NEW time \in Nat \cup {Error}
    PROVE  LET longer == Append(q, time) IN
           /\ \A k \in 1 .. Len(q) : longer[k] = q[k] /\ Moment(longer, k) = Moment(q, k)
           /\ Moment(longer, Len(q) + 1) = Moment(q, Len(q)) + TookOf(longer, Len(q) + 1)
           /\ Moment(q, Len(q)) \in Nat
<1> DEFINE longer == Append(q, time)
           n == Len(q)
<1>1. /\ n \in Nat /\ longer \in Seq(Nat \cup {Error}) /\ Len(longer) = n + 1
      /\ \A k \in 1 .. n : longer[k] = q[k]
      /\ longer[n + 1] = time
    BY AppendProperties
<1>2. \A k \in 1 .. n : TookOf(longer, k) = TookOf(q, k) /\ TookOf(q, k) \in Nat
    <2> TAKE k \in 1 .. n
    <2>1. longer[k] = q[k] /\ q[k] \in Nat \cup {Error}
        BY <1>1
    <2> HIDE DEF longer
    <2> QED
        BY <2>1, LoadsAssumption DEF TookOf
<1>3. TookOf(longer, n + 1) \in Nat
    <2> HIDE DEF longer, n
    <2> QED
        BY <1>1, LoadsAssumption DEF TookOf
<1> HIDE DEF longer, n
<1>4. ASSUME NEW k \in 1 .. n PROVE Moment(longer, k) = Moment(q, k)
    <2>1. \A j \in 1 .. k : j \in 1 .. n
        BY <1>1
    <2>2. [j \in 1 .. k |-> TookOf(longer, j)] = [j \in 1 .. k |-> TookOf(q, j)]
        BY <1>2, <2>1
    <2> QED
        BY <2>2 DEF Moment
<1> DEFINE f == [j \in 1 .. n |-> TookOf(q, j)]
           g == [j \in 1 .. n + 1 |-> TookOf(longer, j)]
           S == 1 .. n
           y == n + 1
<1>5. IsFiniteSet(S) /\ y \notin S /\ DOMAIN g = S \cup {y} /\ DOMAIN f = S
    BY <1>1, RanksAreFinite
<1>6. \A x \in S : g[x] = f[x] /\ f[x] \in Nat
    <2> TAKE x \in S
    <2>1. x \in 1 .. n + 1
        BY <1>1
    <2> QED
        BY <1>2, <2>1
<1>7. g[y] = TookOf(longer, n + 1) /\ g[y] \in Nat
    <2>1. y \in 1 .. n + 1
        BY <1>1
    <2> QED
        BY <1>3, <2>1
<1>8. Moment(q, n) = Total(f) /\ Moment(longer, y) = Total(g)
    BY DEF Moment
<1> HIDE DEF f, g, S
<1>9. Total(f) \in Nat /\ Total(g) = Total(f) + g[y]
    BY <1>5, <1>6, <1>7, SumOfOneMore
<1> QED
    BY <1>1, <1>4, <1>7, <1>8, <1>9 DEF longer, n

\* It holds when the posts are published.
LEMMA ThroughputInitInv == ThroughputInit => ThroughputInv
<1> SUFFICES ASSUME ThroughputInit PROVE ThroughputInv
    OBVIOUS
<1>1. at = 1 /\ tally = [clock |-> 0, start |-> 0, times |-> <<>>]
    BY DEF ThroughputInit
<1>2. Moment(<<>>, 0) = 0
    <2> DEFINE f == [j \in 1 .. 0 |-> TookOf(<<>>, j)]
    <2>1. DOMAIN f = {}
        OBVIOUS
    <2>2. Moment(<<>>, 0) = Total(f)
        BY DEF Moment
    <2> HIDE DEF f
    <2> QED
        BY <2>1, <2>2, SumOfNone
<1>3. <<>> \in Seq(Nat \cup {Error}) /\ Len(<<>>) = 0
    OBVIOUS
<1>4. tally.clock = 0 /\ tally.start = 0 /\ tally.times = <<>> /\ at - 1 = 0 /\ 1 .. at - 1 = {}
    BY <1>1
<1>5. Elapsed = 0
    BY <1>4 DEF Elapsed
<1> QED
    BY <1>1, <1>2, <1>3, <1>4, <1>5, LoadsAssumption DEF ThroughputInv

\* What the invariant says of a state that waits.
LEMMA WaitingFits ==
    ASSUME ThroughputInv, Waits
    PROVE  /\ at \in 1 .. 3 /\ Len(tally.times) = at - 1
           /\ tally = [clock |-> tally.clock, start |-> tally.start, times |-> tally.times]
           /\ tally.times \in Seq(Nat \cup {Error})
           /\ tally.clock \in Nat /\ tally.start \in Nat /\ tally.start <= tally.clock
           /\ Elapsed \in Nat /\ Elapsed <= Timeout /\ tally.clock = tally.start + Elapsed
           /\ tally.start = Moment(tally.times, at - 1)
           /\ tally.clock > tally.start => Early(input, at, tally.clock - 1)
           /\ \A k \in 1 .. at - 1 :
                 /\ tally.times[k] # Error => Reached(input, k, Moment(tally.times, k))
                 /\ TookOf(tally.times, k) > 0 => Early(input, k, Moment(tally.times, k) - 1)
<1>1. script = "throughput" /\ at <= 3
    BY DEF Waits
<1>2. /\ at \in 1 .. 4 /\ Len(tally.times) = at - 1
      /\ tally = [clock |-> tally.clock, start |-> tally.start, times |-> tally.times]
      /\ tally.times \in Seq(Nat \cup {Error})
      /\ tally.clock \in Nat /\ tally.start \in Nat /\ tally.start <= tally.clock
      /\ Elapsed <= Timeout
      /\ tally.start = Moment(tally.times, at - 1)
      /\ tally.clock > tally.start => Early(input, at, tally.clock - 1)
      /\ \A k \in 1 .. at - 1 :
            /\ tally.times[k] # Error => Reached(input, k, Moment(tally.times, k))
            /\ TookOf(tally.times, k) > 0 => Early(input, k, Moment(tally.times, k) - 1)
    BY <1>1 DEF ThroughputInv
<1>3. at \in 1 .. 3
    BY <1>1, <1>2
<1>4. Elapsed \in Nat /\ tally.clock = tally.start + Elapsed
    <2> DEFINE c == tally.clock
               b == tally.start
    <2>1. c \in Nat /\ b \in Nat /\ b <= c
        BY <1>2
    <2> HIDE DEF c, b
    <2>2. c - b \in Nat /\ c = b + (c - b)
        BY <2>1
    <2> QED
        BY <2>2 DEF Elapsed, c, b
<1> QED
    BY <1>2, <1>3, <1>4

\* A stage that is over, at its target or at the limit, leaves the next one a
\* start at its own end.
LEMMA StageOverInv ==
    ASSUME ThroughputInv, Waits, NEW time \in Nat \cup {Error}, StageOver(time),
           (IF time = Error THEN Timeout ELSE time) = Elapsed,
           time # Error => Reached(input, at, tally.clock)
    PROVE  ThroughputInv'
<1> DEFINE q == tally.times
           longer == Append(q, time)
<1>1. /\ at \in 1 .. 3 /\ Len(q) = at - 1 /\ q \in Seq(Nat \cup {Error})
      /\ tally = [clock |-> tally.clock, start |-> tally.start, times |-> tally.times]
      /\ tally.clock \in Nat /\ tally.start \in Nat /\ tally.start <= tally.clock
      /\ Elapsed \in Nat /\ tally.clock = tally.start + Elapsed
      /\ tally.start = Moment(q, at - 1)
      /\ tally.clock > tally.start => Early(input, at, tally.clock - 1)
      /\ \A k \in 1 .. at - 1 :
            /\ q[k] # Error => Reached(input, k, Moment(q, k))
            /\ TookOf(q, k) > 0 => Early(input, k, Moment(q, k) - 1)
    BY WaitingFits
<1>2. /\ tally' = [clock |-> tally.clock, start |-> tally.clock, times |-> longer]
      /\ at' = at + 1 /\ script' = script /\ input' = input
    BY <1>1 DEF StageOver, StartAgain, Waits
<1>3. /\ longer \in Seq(Nat \cup {Error}) /\ Len(longer) = at /\ longer[at] = time
    <2>1. at - 1 + 1 = at
        BY <1>1
    <2> HIDE DEF q
    <2> QED
        BY <1>1, <2>1, AppendProperties
<1>4. /\ \A k \in 1 .. at - 1 : longer[k] = q[k] /\ Moment(longer, k) = Moment(q, k)
      /\ Moment(longer, at) = Moment(q, at - 1) + TookOf(longer, at)
    <2>1. at - 1 + 1 = at
        BY <1>1
    <2> HIDE DEF q
    <2> QED
        BY <1>1, <2>1, NextMoment
<1>5. TookOf(longer, at) = Elapsed /\ Moment(longer, at) = tally.clock
    BY <1>1, <1>3, <1>4 DEF TookOf
<1> HIDE DEF longer, q
<1>6. /\ tally'.clock = tally.clock /\ tally'.start = tally.clock /\ tally'.times = longer
      /\ tally' = [clock |-> tally'.clock, start |-> tally'.start, times |-> tally'.times]
    BY <1>2
<1>8. ASSUME NEW k \in 1 .. at
      PROVE  /\ longer[k] # Error => Reached(input, k, Moment(longer, k))
             /\ TookOf(longer, k) > 0 => Early(input, k, Moment(longer, k) - 1)
    <2>1. CASE k = at
        <3>1. longer[k] # Error => Reached(input, k, Moment(longer, k))
            BY <1>3, <1>5, <2>1
        <3>2. TookOf(longer, k) > 0 => tally.clock > tally.start
            <4> DEFINE c == tally.clock
                       b == tally.start
                       e == Elapsed
            <4>1. c \in Nat /\ b \in Nat /\ e \in Nat /\ c = b + e
                BY <1>1
            <4> HIDE DEF c, b, e
            <4>2. e > 0 => c > b
                BY <4>1
            <4> QED
                BY <1>5, <2>1, <4>2 DEF c, b, e
        <3> QED
            BY <1>1, <1>5, <2>1, <3>1, <3>2
    <2>2. CASE k # at
        <3>1. k \in 1 .. at - 1
            BY <1>1, <2>2
        <3>2. longer[k] = q[k] /\ Moment(longer, k) = Moment(q, k) /\ TookOf(longer, k) = TookOf(q, k)
            BY <1>4, <3>1 DEF TookOf
        <3> QED
            BY <1>1, <3>1, <3>2
    <2> QED
        BY <2>1, <2>2
<1>9. at' \in 1 .. 4 /\ at' - 1 = at
    BY <1>1, <1>2
<1>10. Elapsed' = 0 /\ ~ (tally'.clock > tally'.start) /\ tally'.start <= tally'.clock /\ tally'.clock \in Nat
    <2>1. tally.clock \in Nat
        BY <1>1
    <2>2. Elapsed' = tally.clock - tally.clock
        BY <1>6 DEF Elapsed
    <2> QED
        BY <1>6, <2>1, <2>2
<1>11. \A k \in 1 .. at' - 1 :
          /\ tally'.times[k] # Error => Reached(input', k, Moment(tally'.times, k))
          /\ TookOf(tally'.times, k) > 0 => Early(input', k, Moment(tally'.times, k) - 1)
    BY <1>2, <1>6, <1>8, <1>9
<1>12. tally'.times \in Seq(Nat \cup {Error}) /\ Len(tally'.times) = at' - 1
    BY <1>3, <1>6, <1>9
<1>13. tally'.start = Moment(tally'.times, at' - 1) /\ Elapsed' <= Timeout
    BY <1>5, <1>6, <1>9, <1>10, LoadsAssumption
<1> QED
    BY <1>6, <1>9, <1>10, <1>11, <1>12, <1>13 DEF ThroughputInv

\* A target reached ends its stage.
LEMMA PollReachesInv ==
    ASSUME ThroughputInv, PollReaches
    PROVE  ThroughputInv'
<1>1. Waits /\ Grown(at, tally.clock) >= Goal(at) /\ StageOver(Elapsed)
    BY DEF PollReaches
<1>2. Elapsed \in Nat
    BY <1>1, WaitingFits
<1>3. Elapsed # Error
    BY <1>2, TimingsAssumption
<1>4. Reached(input, at, tally.clock)
    BY <1>1 DEF Reached, GrownOf, GoalOf, Grown, Goal
<1> QED
    BY <1>1, <1>2, <1>3, <1>4, StageOverInv

\* A poll too early is one more second of the stage.
LEMMA PollSleepsInv ==
    ASSUME ThroughputInv, PollSleeps
    PROVE  ThroughputInv'
<1>1. /\ Waits /\ Elapsed < Timeout /\ Grown(at, tally.clock) < Goal(at)
      /\ tally' = [tally EXCEPT !.clock = @ + 1] /\ at' = at
      /\ script' = script /\ input' = input
    BY DEF PollSleeps, Waits
<1>2. /\ at \in 1 .. 3 /\ Len(tally.times) = at - 1
      /\ tally = [clock |-> tally.clock, start |-> tally.start, times |-> tally.times]
      /\ tally.times \in Seq(Nat \cup {Error})
      /\ tally.clock \in Nat /\ tally.start \in Nat /\ tally.start <= tally.clock
      /\ Elapsed \in Nat
      /\ tally.start = Moment(tally.times, at - 1)
      /\ \A k \in 1 .. at - 1 :
            /\ tally.times[k] # Error => Reached(input, k, Moment(tally.times, k))
            /\ TookOf(tally.times, k) > 0 => Early(input, k, Moment(tally.times, k) - 1)
    BY <1>1, WaitingFits
<1>3. tally' = [clock |-> tally.clock + 1, start |-> tally.start, times |-> tally.times]
    BY <1>1, <1>2
<1>4. tally'.clock = tally.clock + 1 /\ tally'.start = tally.start /\ tally'.times = tally.times
    BY <1>3
<1>5. Early(input, at, tally.clock)
    BY <1>1 DEF Early, GrownOf, GoalOf, Grown, Goal
<1> DEFINE n == tally.clock
           b == tally.start
<1>6. n \in Nat /\ b \in Nat /\ b <= n /\ Elapsed = n - b
    BY <1>2 DEF Elapsed
<1>7. tally'.clock - 1 = n /\ Elapsed' = n + 1 - b
    BY <1>2, <1>4 DEF Elapsed
<1> HIDE DEF n, b
<1>8. Elapsed' <= Timeout /\ n + 1 \in Nat /\ b <= n + 1
    BY <1>1, <1>6, <1>7, LoadsAssumption
<1>9. tally' = [clock |-> tally'.clock, start |-> tally'.start, times |-> tally'.times]
    BY <1>3
<1>10. tally'.clock \in Nat /\ tally'.start <= tally'.clock
    BY <1>4, <1>8 DEF n, b
<1>11. Early(input', at', tally'.clock - 1)
    BY <1>1, <1>5, <1>7 DEF n
<1>12. at' \in 1 .. 4
    BY <1>1, <1>2
<1> QED
    BY <1>1, <1>2, <1>4, <1>8, <1>9, <1>10, <1>11, <1>12 DEF ThroughputInv

\* A stage that gives up took all of its time.
LEMMA GivesUpInv ==
    ASSUME ThroughputInv, GivesUp
    PROVE  ThroughputInv'
<1>1. Waits /\ Elapsed >= Timeout /\ StageOver(Error)
    BY DEF GivesUp
<1>2. Elapsed \in Nat /\ Elapsed <= Timeout
    BY <1>1, WaitingFits
<1>3. Elapsed = Timeout
    BY <1>1, <1>2, LoadsAssumption
<1> QED
    BY <1>1, <1>3, StageOverInv

\* The report of the stages.
LEMMA ThroughputInvAddsUp ==
    ASSUME ThroughputInv
    PROVE  ThroughputAddsUp
<1> SUFFICES ASSUME script = "throughput" PROVE ThroughputAddsUp
    BY DEF ThroughputAddsUp
<1>1. /\ at \in 1 .. 4 /\ Len(tally.times) = at - 1 /\ tally.times \in Seq(Nat \cup {Error})
      /\ \A k \in 1 .. at - 1 :
            /\ tally.times[k] # Error => Reached(input, k, Moment(tally.times, k))
            /\ TookOf(tally.times, k) > 0 => Early(input, k, Moment(tally.times, k) - 1)
    BY DEF ThroughputInv
<1>2. DOMAIN tally.times = 1 .. at - 1
    BY <1>1
<1>3. ASSUME NEW k \in DOMAIN tally.times
      PROVE  LET took(j) == IF tally.times[j] = Error THEN Timeout ELSE tally.times[j]
                 waited == Total([j \in 1 .. k |-> took(j)])
             IN  /\ tally.times[k] # Error => Grown(k, waited) >= Goal(k)
                 /\ took(k) > 0 => Grown(k, waited - 1) < Goal(k)
    <2>1. [j \in 1 .. k |-> TookOf(tally.times, j)] =
          [j \in 1 .. k |-> IF tally.times[j] = Error THEN Timeout ELSE tally.times[j]]
        BY DEF TookOf
    <2>2. Moment(tally.times, k) =
          Total([j \in 1 .. k |-> IF tally.times[j] = Error THEN Timeout ELSE tally.times[j]])
        BY <2>1 DEF Moment
    <2> DEFINE waited == Total([j \in 1 .. k |-> IF tally.times[j] = Error THEN Timeout ELSE tally.times[j]])
    <2>3. /\ tally.times[k] # Error => Reached(input, k, waited)
          /\ TookOf(tally.times, k) > 0 => Early(input, k, waited - 1)
        BY <1>1, <1>2, <2>2
    <2>4. \A m : (Reached(input, k, m) => Grown(k, m) >= Goal(k)) /\ (Early(input, k, m) => Grown(k, m) < Goal(k))
        BY DEF Reached, Early, GrownOf, GoalOf, Grown, Goal
    <2> HIDE DEF waited
    <2>5. /\ tally.times[k] # Error => Grown(k, waited) >= Goal(k)
          /\ TookOf(tally.times, k) > 0 => Grown(k, waited - 1) < Goal(k)
        BY <2>3, <2>4
    <2> QED
        BY <2>5 DEF TookOf, waited
<1> QED
    BY <1>3 DEF ThroughputAddsUp

-----------------------------------------------------------------------------
(* The four scripts.                                                        *)

\* It holds of every script before the first step.
LEMMA EvalInitInv == EvalInit => EvalInv
<1> SUFFICES ASSUME EvalInit PROVE EvalInv
    OBVIOUS
<1>1. CASE NerInit
    <2>1. script = "ner"
        BY <1>1 DEF NerInit
    <2> QED
        BY <1>1, <2>1, NerInitInv DEF EvalInv, SentimentInv, LatencyInv, ThroughputInv
<1>2. CASE SentimentInit
    <2>1. script = "sentiment"
        BY <1>2 DEF SentimentInit
    <2> QED
        BY <1>2, <2>1, SentimentInitInv DEF EvalInv, NerInv, LatencyInv, ThroughputInv
<1>3. CASE LatencyInit
    <2>1. script = "latency"
        BY <1>3 DEF LatencyInit
    <2> QED
        BY <1>3, <2>1, LatencyInitInv DEF EvalInv, NerInv, SentimentInv, ThroughputInv
<1>4. CASE ThroughputInit
    <2>1. script = "throughput"
        BY <1>4 DEF ThroughputInit
    <2> QED
        BY <1>4, <2>1, ThroughputInitInv DEF EvalInv, NerInv, SentimentInv, LatencyInv
<1> QED
    BY <1>1, <1>2, <1>3, <1>4 DEF EvalInit

\* Every step keeps it.
LEMMA EvalInvStep == EvalInv /\ [EvalNext]_evalVars => EvalInv'
<1> SUFFICES ASSUME EvalInv, [EvalNext]_evalVars PROVE EvalInv'
    OBVIOUS
<1>0. /\ script \in {"ner", "sentiment", "latency", "throughput"}
      /\ NerInv /\ SentimentInv /\ LatencyInv /\ ThroughputInv
    BY DEF EvalInv
<1>1. CASE NerDocument
    <2>1. script = "ner" /\ script' = script
        BY <1>1 DEF NerDocument
    <2>2. NerInv'
        BY <1>0, <1>1, NerDocumentInv
    <2> QED
        BY <2>1, <2>2 DEF EvalInv, SentimentInv, LatencyInv, ThroughputInv
<1>2. CASE SentimentSample
    <2>1. script = "sentiment" /\ script' = script
        BY <1>2 DEF SentimentSample
    <2>2. SentimentInv'
        BY <1>0, <1>2, SentimentSampleInv
    <2> QED
        BY <2>1, <2>2 DEF EvalInv, NerInv, LatencyInv, ThroughputInv
<1>3. CASE LatencyRequest
    <2>1. script = "latency" /\ script' = script
        BY <1>3 DEF LatencyRequest
    <2>2. LatencyInv'
        BY <1>0, <1>3, LatencyRequestInv
    <2> QED
        BY <2>1, <2>2 DEF EvalInv, NerInv, SentimentInv, ThroughputInv
<1>4. CASE PollReaches \/ PollSleeps \/ GivesUp
    <2>1. script = "throughput" /\ script' = script
        BY <1>4 DEF PollReaches, PollSleeps, GivesUp, Waits
    <2>2. ThroughputInv'
        BY <1>0, <1>4, PollReachesInv, PollSleepsInv, GivesUpInv
    <2> QED
        BY <2>1, <2>2 DEF EvalInv, NerInv, SentimentInv, LatencyInv
<1>5. CASE UNCHANGED evalVars
    <2>1. script' = script /\ input' = input /\ at' = at /\ tally' = tally
        BY <1>5 DEF evalVars
    <2>2. Read' = Read /\ Elapsed' = Elapsed
        BY <2>1 DEF Read, Elapsed
    <2>3. NerInv'
        BY <1>0, <2>1, <2>2 DEF NerInv
    <2>4. SentimentInv'
        BY <1>0, <2>1, <2>2 DEF SentimentInv
    <2>5. LatencyInv'
        BY <1>0, <2>1 DEF LatencyInv
    <2>6. ThroughputInv'
        BY <1>0, <2>1, <2>2 DEF ThroughputInv
    <2> QED
        BY <1>0, <2>1, <2>3, <2>4, <2>5, <2>6 DEF EvalInv
<1> QED
    BY <1>1, <1>2, <1>3, <1>4, <1>5 DEF EvalNext

\* eval_ner: the counts of a type are the sums of the documents' own counts.
THEOREM NerIsTrue == EvalSpec => []NerAddsUp
<1>1. EvalInv => NerAddsUp
    BY NerInvAddsUp DEF EvalInv
<1> QED
    BY <1>1, EvalInitInv, EvalInvStep, PTL DEF EvalSpec

\* eval_sentiment: the tallies of a class are the margins of the confusion
\* matrix.
THEOREM SentimentIsTrue == EvalSpec => []SentimentAddsUp
<1>1. EvalInv => SentimentAddsUp
    BY SentimentInvAddsUp DEF EvalInv
<1> QED
    BY <1>1, EvalInitInv, EvalInvStep, PTL DEF EvalSpec

\* eval_latency: a request is a sample or an error, a percentile is a sample of
\* the nearest rank.
THEOREM LatencyIsTrue == EvalSpec => []LatencyAddsUp
<1>1. EvalInv => LatencyAddsUp
    BY LatencyInvAddsUp DEF EvalInv
<1> QED
    BY <1>1, EvalInitInv, EvalInvStep, PTL DEF EvalSpec

\* eval_throughput: the times of the stages follow each other, and each ends at
\* the poll that saw the target reached.
THEOREM ThroughputIsTrue == EvalSpec => []ThroughputAddsUp
<1>1. EvalInv => ThroughputAddsUp
    BY ThroughputInvAddsUp DEF EvalInv
<1> QED
    BY <1>1, EvalInitInv, EvalInvStep, PTL DEF EvalSpec
=============================================================================
