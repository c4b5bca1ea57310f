--------------------------- MODULE MCGraphWriter ---------------------------
(* Instance of GraphWriter for TLC: an entity linked in one mention and    *)
(* not in another, a form that differs in case, a pair related at two      *)
(* distances, a post without relations.                                    *)
EXTENDS GraphWriter

CONSTANTS m1, m2, m3, putin, Putin, kremlin, Q1

MCLower == [t \in {putin, Putin, kremlin} |-> IF t = Putin THEN putin ELSE t]
MCMaxLog == [s \in Streams |-> 3]

Person(t, q) == [text |-> t, type |-> "PER", qid |-> q]
Place(t) == [text |-> t, type |-> "LOC", qid |-> NoQid]
Pair(t) == [head |-> t, head_type |-> "PER", tail |-> kremlin, tail_type |-> "LOC"]

MCMentions ==
    [m \in Msgs |->
        IF m = m1 THEN <<Person(putin, Q1), Place(kremlin)>>
        ELSE IF m = m2 THEN <<Person(Putin, Q1), Person(Putin, NoQid), Place(kremlin)>>
        ELSE <<Place(kremlin)>>]

MCPairs ==
    [m \in Msgs |->
        IF m = m1 THEN <<Pair(putin)>>
        ELSE IF m = m2 THEN <<Pair(Putin), Pair(Putin)>>
        ELSE <<>>]
=============================================================================
