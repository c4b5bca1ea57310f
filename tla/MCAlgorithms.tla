---------------------------- MODULE MCAlgorithms ----------------------------
(* Instances for TLC of the sequential loops: the relation extractor, the   *)
(* evaluation scripts and the charts.  A behaviour is one loop over one     *)
(* input; each input is small and all of its kind are tried.                *)
EXTENDS Relations, Evaluation, Charts

CONSTANTS MaxMentions, MaxSentence, MaxDocs, MaxRows, MaxTimings, a, b, c

\* Every list of mentions of two texts and two types in the first sentences.
MCPosts ==
    BoundedSeq([text : 1 .. 2, type : 1 .. 2, at : NoSentence .. MaxSentence], MaxMentions)

\* The span 1 has two lines; Facility and DATE are types that are not evaluated.
MCTypeMap == [t \in {"Person", "Org", "LocOrg"} |->
                IF t = "Person" THEN "PER" ELSE IF t = "Org" THEN "ORG" ELSE "LOC"]
MCObjects == [type : {"Org", "LocOrg", "Facility"}, ids : {<<1>>, <<2, 1>>, <<2, 9>>, <<9>>}]
MCFound == SUBSET ([type : {"ORG"}, span : {<<0, 2>>, <<0, 5>>}] \cup {[type |-> "DATE", span |-> <<0, 2>>]})
MCLine(id, start, length) == [id |-> id, start |-> start, length |-> length]
MCDocuments == [lines : {<<MCLine(1, 4, 1), Malformed, MCLine(2, 3, 2), MCLine(1, 0, 2)>>},
                objects : BoundedSeq(MCObjects, 1), found : MCFound]
MCNatashaType == [t \in {"PER", "ORG", "LOC"} |-> t]
MCCorpora == BoundedSeq(MCDocuments, MaxDocs)

MCLabelMap == <<"positive", "negative">> @@ (0 :> "neutral")
MCRowKinds == [pos : 0 .. 1, neg : 0 .. 1, label : {0, 1, 2, 7}]
MCDatasets == BoundedSeq(MCRowKinds, MaxRows)
MCBuiltin == <<[pos |-> 1, neg |-> 0, label |-> 1], [pos |-> 0, neg |-> 0, label |-> 2]>>
\* Counts that never shrink; the targets of 5 posts are 3, 1 and 0.
MCGrown == {s \in [1 .. 4 -> 0 .. 3] : \A k \in 1 .. 3 : s[k] <= s[k + 1]}
MCLoads == [count : {5}, grown : [1 .. 3 -> MCGrown]]
MCTimings == BoundedSeq({1, 2, 3, Error}, MaxTimings)

\* Two channels with up to two entities; an entity may be named as a channel.
MCTops == BoundedSeq([key : {a, b, c}, count : {1}], 2)
MCFlows == {f \in BoundedSeq([key : {a, b}, top : MCTops], 2) : IsInjective([k \in DOMAIN f |-> f[k].key])}
MCEdges == {x \in [head : Nodes, tail : Nodes, weight : {1, 2}] : x.head = x.tail => x.weight = 1}
MCGraphs == {g \in UNION {kSubset(n, MCEdges) : n \in 0 .. 3} :
                \A x, y \in g : x # y => <<x.head, x.tail>> # <<y.head, y.tail>>}

MCDocs == [index : {"posts"}, value : [source : {"vk", "telegram"}, day : {1, 2, 4}]]
          \cup {[index |-> "labels", value |-> "neutral"]}

algorithmVars == <<vars, evalVars, chartVars>>

NoRelations == mentions = <<>> /\ todo = {} /\ seen = {} /\ rels = <<>>

MCInit ==
    \/ Init /\ Idle /\ Blank
    \/ NoRelations /\ EvalInit /\ Blank
    \/ NoRelations /\ Idle /\ ChartsInit

MCNext ==
    \/ Next /\ UNCHANGED <<evalVars, chartVars>>
    \/ EvalNext /\ UNCHANGED <<vars, chartVars>>
    \/ ChartsNext /\ UNCHANGED <<vars, evalVars>>

MCSpec == MCInit /\ [][MCNext]_algorithmVars
=============================================================================
