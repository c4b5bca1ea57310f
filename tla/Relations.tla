------------------------------ MODULE Relations ------------------------------
(***************************************************************************)
(* services/nlp_worker, relations.py: RelationExtractorService.extract.    *)
(*                                                                         *)
(* The relations of a post are the pairs of its mentions whose sentences   *)
(* are at most Radius apart, each pair of names once per distance.  The    *)
(* nested loops are a walk over the pairs of mentions, one step per round  *)
(* of the innermost loop.                                                  *)
(*                                                                         *)
(* Texts and types are numbers, since the code compares them with min and  *)
(* max; a mention carries the sentence that contains its span, NoSentence  *)
(* if none does.  The weight of a relation is a function of the distance,  *)
(* which stands for it.                                                    *)
(***************************************************************************)
EXTENDS Naturals, Sequences

CONSTANTS
    Posts,   \* the lists of mentions of the posts
    Radius   \* WINDOW_RADIUS

NoSentence == 0
Mention == [text : Nat, type : Nat, at : Nat]

ASSUME PostsAssumption == Posts \subseteq Seq(Mention)
ASSUME RadiusAssumption == Radius \in Nat

VARIABLES
    mentions,   \* the argument entities, each with its sentence
    todo,       \* the pairs of mentions the loops have still to visit
    seen,       \* the keys of the relations found
    rels        \* the result

vars == <<mentions, todo, seen, rels>>

Pairs == (DOMAIN mentions) \X (DOMAIN mentions)

\* mutated: the window ends a sentence early.
NearWindow(p, q) ==
    /\ mentions[p].at # NoSentence
    /\ mentions[p].at <= mentions[q].at
    /\ mentions[q].at < mentions[p].at + Radius

\* mutated: the window ends a sentence late.
FarWindow(p, q) ==
    /\ mentions[p].at # NoSentence
    /\ mentions[p].at <= mentions[q].at
    /\ mentions[q].at <= mentions[p].at + Radius + 1

\* for j in range(i, i + WINDOW_RADIUS + 1): the tail's sentence is not
\* before the head's and in the window.
InWindow(p, q) ==
    /\ mentions[p].at # NoSentence
    /\ mentions[p].at <= mentions[q].at
    /\ mentions[q].at <= mentions[p].at + Radius

\* head_bucket and tail_bucket[starts:]: within a sentence, later mentions.
IsVisited(p, q) == InWindow(p, q) /\ (mentions[p].at = mentions[q].at => p < q)

\* The loops go by head sentence, tail sentence, head and tail.
IsBefore(v, w) ==
    LET vh == mentions[v[1]].at
        wh == mentions[w[1]].at
        vt == mentions[v[2]].at
        wt == mentions[w[2]].at
    IN  \/ vh < wh
        \/ vh = wh /\ vt < wt
        \/ vh = wh /\ vt = wt /\ v[1] < w[1]
        \/ vh = wh /\ vt = wt /\ v[1] = w[1] /\ v[2] < w[2]

-----------------------------------------------------------------------------
\* mutated: a name repeated in the window is related to itself.
NeverSame(a, b) == FALSE

SameName(a, b) == a.text = b.text /\ a.type = b.type

Least(a, b) == IF a <= b THEN a ELSE b
Greatest(a, b) == IF a <= b THEN b ELSE a

\* mutated: the key keeps the direction.
DirectedKey(a, b, away) == <<a.text, a.type, b.text, b.type, away>>

\* key: texts and types are ordered one independently of the other.
Key(a, b, away) ==
    <<Least(a.text, b.text), Least(a.type, b.type),
      Greatest(a.text, b.text), Greatest(a.type, b.type), away>>

Name(m) == [text |-> m.text, type |-> m.type]
Away(p, q) == mentions[q].at - mentions[p].at
Relation(p, q) ==
    [head |-> Name(mentions[p]), tail |-> Name(mentions[q]), away |-> Away(p, q)]

-----------------------------------------------------------------------------
Init ==
    /\ mentions \in Posts
    /\ todo = {v \in Pairs : IsVisited(v[1], v[2])}
    /\ seen = {}
    /\ rels = <<>>

IsNext(v) == v \in todo /\ \A w \in todo \ {v} : IsBefore(v, w)

\* continue: the same name, or a key already seen.
Skip(p, q) ==
    /\ IsNext(<<p, q>>)
    /\ \/ SameName(mentions[p], mentions[q])
       \/ Key(mentions[p], mentions[q], Away(p, q)) \in seen
    /\ todo' = todo \ {<<p, q>>}
    /\ UNCHANGED <<mentions, seen, rels>>

Report(p, q) ==
    /\ IsNext(<<p, q>>)
    /\ ~SameName(mentions[p], mentions[q])
    /\ Key(mentions[p], mentions[q], Away(p, q)) \notin seen
    /\ todo' = todo \ {<<p, q>>}
    /\ seen' = seen \cup {Key(mentions[p], mentions[q], Away(p, q))}
    /\ rels' = Append(rels, Relation(p, q))
    /\ UNCHANGED mentions

Next == \E v \in todo : Skip(v[1], v[2]) \/ Report(v[1], v[2])

Spec == Init /\ [][Next]_vars

-----------------------------------------------------------------------------
(* Properties *)

NameType == [text : Nat, type : Nat]

\* Positions, keys and relations have their types; nothing is visited that
\* the loops do not reach.
TypeOK ==
    /\ mentions \in Seq(Mention)
    /\ todo \subseteq Pairs
    /\ rels \in Seq([head : NameType, tail : NameType, away : 0 .. Radius])

\* Two names are related at most once per distance, whichever of them comes
\* first: test_undirected_pairs_not_duplicated.
PairReportedOnce ==
    \A i, j \in DOMAIN rels :
        (/\ {rels[i].head, rels[i].tail} = {rels[j].head, rels[j].tail}
         /\ rels[i].away = rels[j].away) => i = j

\* p and q lie in sentences at most Radius apart and have different names.
AreRelated(p, q) ==
    /\ mentions[p].at # NoSentence
    /\ mentions[q].at # NoSentence
    /\ mentions[p].at <= mentions[q].at
    /\ mentions[q].at - mentions[p].at <= Radius
    /\ Name(mentions[p]) # Name(mentions[q])

\* Every relation joins two mentions of the post with different names, in
\* order of their sentences and at most Radius apart; the graph builder needs
\* the mentions to be there when it matches the ends, and a factor for every
\* distance.
RelationsAreReal ==
    \A k \in DOMAIN rels :
        /\ rels[k].head # rels[k].tail
        /\ \E p, q \in DOMAIN mentions :
              AreRelated(p, q) /\ rels[k] = Relation(p, q)

\* What is reported is right: it is real, and nothing is reported twice.
RelationsAreSound == PairReportedOnce /\ RelationsAreReal

\* When extract returns, every pair in the window is reported at its
\* distance, or a pair of the same two texts with their types exchanged is:
\* the key of seen does not tell these apart, so one of them is missed.
WindowIsCovered ==
    todo = {} =>
        \A p, q \in DOMAIN mentions :
            AreRelated(p, q) =>
                \E k \in DOMAIN rels :
                    /\ {rels[k].head.text, rels[k].tail.text}
                           = {mentions[p].text, mentions[q].text}
                    /\ {rels[k].head.type, rels[k].tail.type}
                           = {mentions[p].type, mentions[q].type}
                    /\ rels[k].away = mentions[q].at - mentions[p].at
=============================================================================
