---------------------------- MODULE MCNlpWorker ----------------------------
(* Instance of NlpWorker for TLC: a post that names one entity, one that   *)
(* names two, one of them in two spellings, and one that names none.       *)
EXTENDS NlpWorker

CONSTANTS p1, p2, p3, putin, Putin, kremlin, Q1, Q2

MCLower == [t \in {putin, Putin, kremlin} |-> IF t = Putin THEN putin ELSE t]
MCAnswer == [k \in {putin, kremlin} |-> IF k = putin THEN Q1 ELSE Q2]
MCMaxLog == [s \in Streams |-> 3]
MCMentions ==
    [p \in Msgs |-> IF p = p1 THEN <<putin>>
                    ELSE IF p = p2 THEN <<kremlin, Putin, putin>> ELSE <<>>]
=============================================================================
