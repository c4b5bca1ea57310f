---------------------------- MODULE MCProcessor ----------------------------
(* Instances of Processor for TLC: one post published to both platforms    *)
(* (p1 and p3 are near), two of their own that nothing tells apart (p2 and *)
(* p4), a blank one (ad), and a buffer of two posts.                       *)
EXTENDS Processor

CONSTANTS vk, tg, p1, p2, p3, ad, p4

MCNear == {<<p1, p3>>, <<p3, p1>>}
MCMaxLog == [s \in Streams |-> IF s = vk THEN 3 ELSE 1]
MCOneEach == [s \in Streams |-> 1]
MCHome == [p \in Msgs |-> IF p \in {p1, p2, p4} THEN vk ELSE tg]

\* Bound: either one stream is busy or both are half as busy.
MCOneBusy == log[tg] # <<>> => Len(log[vk]) <= 2

\* Symmetry: no definition tells p2 from p4.
MCAlike == Permutations({p2, p4})
=============================================================================
