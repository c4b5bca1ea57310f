------------------------------- MODULE Counting -------------------------------
(* What the loops of several parts count with: sums and ranks.             *)
EXTENDS Integers, FiniteSets, FiniteSetsExt, Functions, Sequences

\* The sum of the values of a function.
Total(f) == MapThenSumSet(LAMBDA x : f[x], DOMAIN f)

\* The j-th of some ranks.
Nth(ranks, j) == CHOOSE k \in ranks : Cardinality({i \in ranks : i <= k}) = j

\* What a sequence has at some ranks, in its order.
Kept(s, ranks) == [j \in 1 .. Cardinality(ranks) |-> s[Nth(ranks, j)]]

\* The ranks at which a sequence has less than v, or no more.
Below(s, v) == {k \in DOMAIN s : s[k] < v}
UpTo(s, v) == {k \in DOMAIN s : s[k] <= v}

\* The j-th smallest: what sorted(s) has at rank j.
Smallest(s, j) ==
    CHOOSE v \in Range(s) : Cardinality(Below(s, v)) < j /\ j <= Cardinality(UpTo(s, v))
=============================================================================
