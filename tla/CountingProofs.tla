--------------------------- MODULE CountingProofs ---------------------------
(***************************************************************************)
(* What sums over a finite domain and the ends and ranks of a finite set   *)
(* of integers are, for the proofs about what the scripts and charts count.*)
(***************************************************************************)
EXTENDS Counting, TLAPS, FiniteSetTheorems, SequenceTheorems, FunctionTheorems

\* A set of naturals that is not empty has a least member.
LEMMA MinExists ==
    ASSUME NEW S \in SUBSET Nat, S # {}
    PROVE  Min(S) \in S /\ \A y \in S : Min(S) <= y
<1> DEFINE R == OpToRel(<, Nat)
<1>1. IsWellFoundedOn(R, Nat)
    BY NatLessThanWellFounded
<1>2. R = {ss \in Nat \X Nat : ss[1] < ss[2]}
    BY DEF OpToRel
<1> HIDE DEF R
<1>3. PICK x \in S : \A y \in S : ~ (<<y, x>> \in R)
    BY <1>1, WFMin
<1>4. ASSUME NEW y \in S PROVE x <= y
    <2>1. x \in Nat /\ y \in Nat
        BY <1>3
    <2>2. ~ (y < x)
        BY <1>2, <1>3, <2>1
    <2> QED
        BY <2>1, <2>2
<1> QED
    BY <1>4 DEF Min

\* A bounded set of naturals that is not empty has a greatest member.
LEMMA MaxExists ==
    ASSUME NEW b \in Nat, NEW S \in SUBSET (0 .. b), S # {}
    PROVE  Max(S) \in S /\ \A y \in S : y <= Max(S)
<1> DEFINE T == {b - x : x \in S}
<1>1. T \in SUBSET Nat /\ T # {}
    <2>1. \A x \in S : b - x \in Nat
        OBVIOUS
    <2> QED
        BY <2>1
<1>2. Min(T) \in T /\ \A y \in T : Min(T) <= y
    BY <1>1, MinExists
<1>3. PICK x \in S : Min(T) = b - x
    BY <1>2
<1>4. \A y \in S : b - x <= b - y
    BY <1>2, <1>3
<1>5. \A y \in S : y <= x
    BY <1>4
<1> QED
    BY <1>5 DEF Max

\* Among subsets of a finite set that are wrong in some way one has no wrong
\* subset.
LEMMA SmallestWrong ==
    ASSUME NEW S, IsFiniteSet(S), NEW Wrong \in SUBSET (SUBSET S), Wrong # {}
    PROVE  \E T \in Wrong : IsFiniteSet(T) /\ \A U \in Wrong : U \subseteq T => U = T
<1> DEFINE sizes == {Cardinality(T) : T \in Wrong}
<1>1. \A T \in Wrong : IsFiniteSet(T) /\ Cardinality(T) \in Nat
    BY FS_Subset, FS_CardinalityType
<1>2. sizes \in SUBSET Nat /\ sizes # {}
    BY <1>1
<1>3. PICK n \in sizes : \A m \in sizes : n <= m
    BY <1>2, MinExists
<1>4. PICK T \in Wrong : Cardinality(T) = n
    BY <1>3
<1>5. ASSUME NEW U \in Wrong, U \subseteq T PROVE U = T
    <2>1. IsFiniteSet(T) /\ Cardinality(U) <= Cardinality(T)
        BY <1>1, <1>5, FS_Subset
    <2>2. Cardinality(T) <= Cardinality(U)
        BY <1>3, <1>4
    <2>3. Cardinality(T) = Cardinality(U)
        BY <1>1, <2>1, <2>2
    <2> QED
        BY <1>5, <2>1, <2>3, FS_Subset
<1> QED
    BY <1>1, <1>5

-----------------------------------------------------------------------------
(* Sums.                                                                    *)

Chosen(T) == CHOOSE x \in T : TRUE

\* h gives the sums of f over the subsets of S.
IsAdder(h, f, S) == h = [T \in SUBSET S |-> IF T = {} THEN 0 ELSE f[Chosen(T)] + h[T \ {Chosen(T)}]]

SumOver(f, S) == (CHOOSE h : IsAdder(h, f, S))[S]

\* What the definition says of a subset.
LEMMA AdderOf ==
    ASSUME NEW f, NEW S, NEW h, IsAdder(h, f, S), NEW T \in SUBSET S
    PROVE  h[T] = IF T = {} THEN 0 ELSE f[Chosen(T)] + h[T \ {Chosen(T)}]
<1> DEFINE D == SUBSET S
<1>1. h = [U \in D |-> IF U = {} THEN 0 ELSE f[Chosen(U)] + h[U \ {Chosen(U)}]]
    BY DEF IsAdder
<1>2. T \in D
    OBVIOUS
<1> HIDE DEF D
<1> QED
    BY <1>1, <1>2

\* A set that is not empty has a member to start with.
LEMMA AnyOf == ASSUME NEW T, T # {} PROVE Chosen(T) \in T
BY DEF Chosen

\* Two adders agree where both say something.
LEMMA AddersAgree ==
    ASSUME NEW f, NEW g, NEW S, IsFiniteSet(S), NEW R, NEW Q,
           S \subseteq R, S \subseteq Q, \A x \in S : f[x] = g[x],
           NEW h, IsAdder(h, f, R), NEW i, IsAdder(i, g, Q)
    PROVE  h[S] = i[S]
<1> DEFINE Wrong == {T \in SUBSET S : h[T] # i[T]}
<1> SUFFICES ASSUME Wrong # {} PROVE FALSE
    OBVIOUS
<1>0. Wrong \in SUBSET (SUBSET S)
    OBVIOUS
<1>1. PICK T \in Wrong : \A U \in Wrong : U \subseteq T => U = T
    <2> HIDE DEF Wrong
    <2> QED
        BY <1>0, SmallestWrong
<1>2. T \in SUBSET R /\ T \in SUBSET Q /\ T \in SUBSET S /\ h[T] # i[T]
    BY <1>1
<1>3. /\ h[T] = IF T = {} THEN 0 ELSE f[Chosen(T)] + h[T \ {Chosen(T)}]
      /\ i[T] = IF T = {} THEN 0 ELSE g[Chosen(T)] + i[T \ {Chosen(T)}]
    <2> HIDE DEF Wrong
    <2>1. IsAdder(h, f, R) /\ T \in SUBSET R
        BY <1>2
    <2>2. IsAdder(i, g, Q) /\ T \in SUBSET Q
        BY <1>2
    <2>3. h[T] = IF T = {} THEN 0 ELSE f[Chosen(T)] + h[T \ {Chosen(T)}]
        BY ONLY <2>1, AdderOf
    <2>4. i[T] = IF T = {} THEN 0 ELSE g[Chosen(T)] + i[T \ {Chosen(T)}]
        BY <2>2, AdderOf
    <2> QED
        BY <2>3, <2>4
<1>4. T # {}
    BY <1>2, <1>3
<1>5. Chosen(T) \in T
    BY <1>4, AnyOf
<1>6. h[T \ {Chosen(T)}] = i[T \ {Chosen(T)}]
    BY <1>1, <1>2, <1>5
<1> QED
    BY <1>2, <1>3, <1>4, <1>5, <1>6

\* Every function has an adder on every finite set.
LEMMA AdderExists ==
    ASSUME NEW f, NEW S, IsFiniteSet(S)
    PROVE  \E h : IsAdder(h, f, S)
<1> DEFINE Wrong == {T \in SUBSET S : ~ \E h : IsAdder(h, f, T)}
<1> SUFFICES ASSUME Wrong # {} PROVE FALSE
    OBVIOUS
<1>0. Wrong \in SUBSET (SUBSET S)
    OBVIOUS
<1>1. PICK T \in Wrong : IsFiniteSet(T) /\ \A U \in Wrong : U \subseteq T => U = T
    <2> HIDE DEF Wrong
    <2> QED
        BY <1>0, SmallestWrong
<1>2. T \in SUBSET S /\ ~ \E h : IsAdder(h, f, T)
    BY <1>1
<1> DEFINE D == SUBSET T
           h == [U \in D |-> IF U = {} THEN 0 ELSE f[Chosen(U)] + SumOver(f, U \ {Chosen(U)})]
<1>3. ASSUME NEW U \in D, U # T
      PROVE  IsAdder(CHOOSE g : IsAdder(g, f, U), f, U)
    <2>1. U \in SUBSET S /\ U \notin Wrong
        BY <1>1, <1>3
    <2> QED
        BY <2>1
<1>4. ASSUME NEW U \in D, U # T PROVE h[U] = SumOver(f, U)
    <2> DEFINE g == CHOOSE k : IsAdder(k, f, U)
    <2>1. IsAdder(g, f, U)
        BY <1>3, <1>4
    <2>2. g[U] = IF U = {} THEN 0 ELSE f[Chosen(U)] + g[U \ {Chosen(U)}]
        BY <2>1, AdderOf
    <2>3. CASE U = {}
        BY <2>2, <2>3 DEF SumOver
    <2>4. CASE U # {}
        <3> DEFINE V == U \ {Chosen(U)}
        <3>1. Chosen(U) \in U
            BY <2>4, AnyOf
        <3>2. V \in D /\ V # T /\ V \subseteq U
            BY <1>4, <3>1
        <3>3. IsAdder(CHOOSE k : IsAdder(k, f, V), f, V)
            BY <1>3, <3>2
        <3>4. IsFiniteSet(V)
            BY <1>1, <3>2, FS_Subset
        <3> HIDE DEF V, g
        <3>5. g[V] = SumOver(f, V)
            BY <2>1, <3>2, <3>3, <3>4, AddersAgree DEF SumOver
        <3>6. g[U] = f[Chosen(U)] + SumOver(f, V)
            BY <2>2, <2>4, <3>5 DEF V
        <3> QED
            BY <2>4, <3>6 DEF V, g, SumOver
    <2> QED
        BY <2>3, <2>4
<1>5. ASSUME NEW U \in D
      PROVE  h[U] = IF U = {} THEN 0 ELSE f[Chosen(U)] + h[U \ {Chosen(U)}]
    <2>1. CASE U # {}
        <3>1. Chosen(U) \in U
            BY <2>1, AnyOf
        <3>2. U \ {Chosen(U)} \in D /\ U \ {Chosen(U)} # T
            BY <3>1
        <3>3. h[U \ {Chosen(U)}] = SumOver(f, U \ {Chosen(U)})
            BY <1>4, <3>2
        <3> QED
            BY <2>1, <3>3
    <2> QED
        BY <2>1
<1>6. IsAdder(h, f, T)
    <2>1. h = [U \in D |-> h[U]]
        OBVIOUS
    <2> HIDE DEF h
    <2>2. h = [U \in D |-> IF U = {} THEN 0 ELSE f[Chosen(U)] + h[U \ {Chosen(U)}]]
        BY <1>5, <2>1
    <2> QED
        BY <2>2 DEF IsAdder
<1> HIDE DEF h
<1> QED
    BY <1>2, <1>6

\* Values that agree have one sum.
LEMMA SumOverSame ==
    ASSUME NEW S, IsFiniteSet(S), NEW f, NEW g, \A x \in S : f[x] = g[x]
    PROVE  SumOver(f, S) = SumOver(g, S)
<1>1. IsAdder(CHOOSE h : IsAdder(h, f, S), f, S) /\ IsAdder(CHOOSE h : IsAdder(h, g, S), g, S)
    BY AdderExists
<1> QED
    BY <1>1, AddersAgree DEF SumOver

\* The first member and the rest.
LEMMA SumOverAny ==
    ASSUME NEW S, IsFiniteSet(S), NEW f
    PROVE  SumOver(f, S) = IF S = {} THEN 0 ELSE f[Chosen(S)] + SumOver(f, S \ {Chosen(S)})
<1> DEFINE h == CHOOSE k : IsAdder(k, f, S)
           V == S \ {Chosen(S)}
           g == CHOOSE k : IsAdder(k, f, V)
<1>1. IsAdder(h, f, S)
    BY AdderExists
<1>2. IsFiniteSet(V) /\ V \subseteq S
    BY FS_Subset
<1>3. IsAdder(g, f, V)
    BY <1>2, AdderExists
<1> HIDE DEF h, g
<1>4. h[S] = IF S = {} THEN 0 ELSE f[Chosen(S)] + h[V]
    BY <1>1, AdderOf
<1>5. h[V] = g[V]
    <2>1. V \subseteq S /\ V \subseteq V /\ \A x \in V : f[x] = f[x]
        BY <1>2
    <2> HIDE DEF V
    <2> QED
        BY <1>1, <1>2, <1>3, <2>1, AddersAgree
<1> QED
    BY <1>4, <1>5 DEF SumOver, h, g

\* A sum of naturals is one.
LEMMA SumOverNat ==
    ASSUME NEW S, IsFiniteSet(S), NEW f, \A x \in S : f[x] \in Nat
    PROVE  SumOver(f, S) \in Nat
<1> DEFINE Wrong == {T \in SUBSET S : SumOver(f, T) \notin Nat}
<1> SUFFICES ASSUME Wrong # {} PROVE FALSE
    OBVIOUS
<1>0. Wrong \in SUBSET (SUBSET S)
    OBVIOUS
<1>1. PICK T \in Wrong : IsFiniteSet(T) /\ \A U \in Wrong : U \subseteq T => U = T
    <2> HIDE DEF Wrong
    <2> QED
        BY <1>0, SmallestWrong
<1>2. SumOver(f, T) = IF T = {} THEN 0 ELSE f[Chosen(T)] + SumOver(f, T \ {Chosen(T)})
    BY <1>1, SumOverAny
<1>3. T \in SUBSET S /\ SumOver(f, T) \notin Nat
    BY <1>1
<1>4. T # {}
    BY <1>2, <1>3
<1>5. Chosen(T) \in T
    BY <1>4, AnyOf
<1>6. SumOver(f, T \ {Chosen(T)}) \in Nat /\ f[Chosen(T)] \in Nat
    BY <1>1, <1>3, <1>5
<1> QED
    BY <1>2, <1>3, <1>4, <1>6

\* Chosen member may be the first.
LEMMA SumOverMember ==
    ASSUME NEW S, IsFiniteSet(S), NEW f, \A x \in S : f[x] \in Nat, NEW y \in S
    PROVE  SumOver(f, S) = f[y] + SumOver(f, S \ {y})
<1> DEFINE Wrong == {T \in SUBSET S : \E x \in T : SumOver(f, T) # f[x] + SumOver(f, T \ {x})}
<1> SUFFICES ASSUME Wrong # {} PROVE FALSE
    OBVIOUS
<1>0. Wrong \in SUBSET (SUBSET S)
    OBVIOUS
<1>1. PICK T \in Wrong : IsFiniteSet(T) /\ \A U \in Wrong : U \subseteq T => U = T
    <2> HIDE DEF Wrong
    <2> QED
        BY <1>0, SmallestWrong
<1>2. PICK x \in T : SumOver(f, T) # f[x] + SumOver(f, T \ {x})
    BY <1>1
<1> DEFINE p == Chosen(T)
           V == T \ {p}
           W == T \ {x}
<1>3. SumOver(f, T) = f[p] + SumOver(f, V)
    BY <1>1, <1>2, SumOverAny
<1>4. p \in T
    BY <1>2, AnyOf
<1>5. p # x
    BY <1>2, <1>3
<1>6. V \in SUBSET S /\ W \in SUBSET S /\ V # T /\ W # T /\ V \subseteq T /\ W \subseteq T
    BY <1>1, <1>2, <1>4
<1>7. V \notin Wrong /\ W \notin Wrong
    BY <1>1, <1>6
<1> HIDE DEF p
<1>8. x \in V /\ p \in W /\ V \ {x} = W \ {p}
    BY <1>2, <1>4, <1>5
<1>9. SumOver(f, V) = f[x] + SumOver(f, V \ {x}) /\ SumOver(f, W) = f[p] + SumOver(f, V \ {x})
    BY <1>6, <1>7, <1>8
<1>10. SumOver(f, V \ {x}) \in Nat /\ f[p] \in Nat /\ f[x] \in Nat
    <2>1. V \ {x} \subseteq S /\ p \in S /\ x \in S
        BY <1>2, <1>4, <1>6
    <2>2. IsFiniteSet(V \ {x}) /\ \A z \in V \ {x} : f[z] \in Nat
        BY <2>1, FS_Subset
    <2> QED
        BY <2>1, <2>2, SumOverNat
<1> HIDE DEF V, W
<1>11. SumOver(f, T \ {x}) = f[p] + SumOver(f, V \ {x})
    BY <1>9 DEF W
<1> QED
    BY <1>2, <1>3, <1>9, <1>10, <1>11

\* Total adds up over the domain.
LEMMA TotalIsSumOver == ASSUME NEW f PROVE Total(f) = SumOver(f, DOMAIN f)
BY DEF Total, MapThenSumSet, MapThenFoldSet, SumOver, IsAdder, Chosen

\* Nothing adds up to nothing.
LEMMA SumOfNone == ASSUME NEW f, DOMAIN f = {} PROVE Total(f) = 0
BY TotalIsSumOver, SumOverAny, FS_EmptySet

\* A sum of naturals is one.
LEMMA SumIsNat ==
    ASSUME NEW f, IsFiniteSet(DOMAIN f), \A x \in DOMAIN f : f[x] \in Nat
    PROVE  Total(f) \in Nat
BY TotalIsSumOver, SumOverNat

\* One value more.
LEMMA SumOfOneMore ==
    ASSUME NEW S, IsFiniteSet(S), NEW y, y \notin S, NEW f, NEW g,
           DOMAIN f = S, DOMAIN g = S \cup {y}, \A x \in S : g[x] = f[x],
           \A x \in S : f[x] \in Nat, g[y] \in Nat
    PROVE  Total(f) \in Nat /\ Total(g) = Total(f) + g[y]
<1> DEFINE T == S \cup {y}
<1>1. IsFiniteSet(T) /\ y \in T /\ T \ {y} = S /\ \A x \in T : g[x] \in Nat
    BY FS_AddElement
<1> HIDE DEF T
<1>2. SumOver(g, T) = g[y] + SumOver(g, S)
    BY <1>1, SumOverMember
<1>3. SumOver(g, S) = SumOver(f, S)
    BY SumOverSame
<1>4. SumOver(f, S) \in Nat
    BY SumOverNat
<1>5. Total(g) = SumOver(g, T) /\ Total(f) = SumOver(f, S)
    BY TotalIsSumOver DEF T
<1> QED
    BY <1>2, <1>3, <1>4, <1>5

\* Two values.
LEMMA SumOfTwo ==
    ASSUME NEW x, NEW y, x # y, NEW f, DOMAIN f = {x, y}, f[x] \in Nat, f[y] \in Nat
    PROVE  Total(f) = f[x] + f[y]
<1>1. IsFiniteSet({x, y}) /\ IsFiniteSet({y}) /\ IsFiniteSet({})
    BY FS_Singleton, FS_AddElement, FS_EmptySet
<1>2. {x, y} \ {x} = {y} /\ {y} \ {y} = {}
    OBVIOUS
<1>3. SumOver(f, {x, y}) = f[x] + SumOver(f, {y})
    BY <1>1, <1>2, SumOverMember
<1>4. SumOver(f, {y}) = f[y] + SumOver(f, {})
    BY <1>1, <1>2, SumOverMember
<1>5. SumOver(f, {}) = 0
    BY <1>1, SumOverAny
<1> QED
    BY <1>3, <1>4, <1>5, TotalIsSumOver

\* A set is as large as the classes of its members together.
LEMMA SumOfClasses ==
    ASSUME NEW A, IsFiniteSet(A), NEW V, IsFiniteSet(V), NEW c, \A x \in A : c[x] \in V,
           NEW f, DOMAIN f = V, \A v \in V : f[v] = Cardinality({x \in A : c[x] = v})
    PROVE  Total(f) = Cardinality(A)
<1> DEFINE In(T) == {x \in A : c[x] \in T}
           Of(v) == {x \in A : c[x] = v}
           Wrong == {T \in SUBSET V : SumOver(f, T) # Cardinality(In(T))}
<1>1. \A T : IsFiniteSet(In(T)) /\ Cardinality(In(T)) \in Nat
    BY FS_Subset, FS_CardinalityType
<1>2. \A v \in V : IsFiniteSet(Of(v)) /\ f[v] = Cardinality(Of(v)) /\ f[v] \in Nat
    BY FS_Subset, FS_CardinalityType
<1>3. Wrong = {}
    <2> SUFFICES ASSUME Wrong # {} PROVE FALSE
        OBVIOUS
    <2>0. Wrong \in SUBSET (SUBSET V)
        OBVIOUS
    <2>1. PICK T \in Wrong : IsFiniteSet(T) /\ \A U \in Wrong : U \subseteq T => U = T
        <3> HIDE DEF Wrong
        <3> QED
            BY <2>0, SmallestWrong
    <2>2. T \subseteq V /\ SumOver(f, T) # Cardinality(In(T))
        BY <2>1
    <2>3. CASE T = {}
        <3>1. SumOver(f, T) = 0
            BY <2>1, <2>3, SumOverAny
        <3>2. In(T) = {}
            BY <2>3
        <3> QED
            BY <2>2, <3>1, <3>2, FS_EmptySet
    <2>4. CASE T # {}
        <3> DEFINE v == Chosen(T)
                   U == T \ {v}
        <3>1. v \in T
            BY <2>4, AnyOf
        <3>2. SumOver(f, T) = f[v] + SumOver(f, U)
            BY <2>1, <2>4, SumOverAny
        <3>3. SumOver(f, U) = Cardinality(In(U))
            <4>1. U \in SUBSET V /\ U \subseteq T /\ U # T
                BY <2>2, <3>1
            <4>2. U \notin Wrong
                BY <2>1, <4>1
            <4> QED
                BY <4>1, <4>2
        <3> HIDE DEF v
        <3>4. In(T) = In(U) \cup Of(v) /\ In(U) \cap Of(v) = {}
            BY <3>1
        <3>5. v \in V
            BY <2>2, <3>1
        <3> HIDE DEF In, Of, U
        <3>6. Cardinality(In(T)) = Cardinality(In(U)) + Cardinality(Of(v)) - Cardinality(In(U) \cap Of(v))
            BY <1>1, <1>2, <3>4, <3>5, FS_Union
        <3>7. Cardinality(In(U) \cap Of(v)) = 0
            BY <3>4, FS_EmptySet
        <3>8. f[v] = Cardinality(Of(v)) /\ f[v] \in Nat /\ Cardinality(In(U)) \in Nat
            BY <1>1, <1>2, <3>5
        <3> QED
            BY <2>2, <3>2, <3>3, <3>6, <3>7, <3>8
    <2> QED
        BY <2>3, <2>4
<1>4. SumOver(f, V) = Cardinality(In(V))
    BY <1>3
<1>5. In(V) = A
    OBVIOUS
<1> QED
    BY <1>4, <1>5, TotalIsSumOver

-----------------------------------------------------------------------------
(* Ranks.                                                                   *)

\* A finite set that an injection maps is as large as its image.
LEMMA ImageSize ==
    ASSUME NEW S, IsFiniteSet(S), NEW f, DOMAIN f = S, \A x, y \in S : f[x] = f[y] => x = y
    PROVE  /\ IsFiniteSet({f[x] : x \in S})
           /\ Cardinality({f[x] : x \in S}) = Cardinality(S)
<1> DEFINE T == {f[x] : x \in S}
           g == [x \in S |-> f[x]]
<1>1. g \in [S -> T] /\ \A x \in S : g[x] = f[x]
    OBVIOUS
<1>2. \A t \in T : \E x \in S : g[x] = t
    OBVIOUS
<1> HIDE DEF g, T
<1>3. g \in Surjection(S, T)
    BY <1>1, <1>2 DEF Surjection
<1>4. g \in Injection(S, T)
    BY <1>1 DEF Injection, IsInjective
<1> QED
    BY <1>3, <1>4, FS_Surjection DEF T

\* A finite set of integers that is not empty has a least and a greatest member.
LEMMA EndsExist ==
    ASSUME NEW S, S \subseteq Int, IsFiniteSet(S), S # {}
    PROVE  /\ Min(S) \in S /\ \A y \in S : Min(S) <= y
           /\ Max(S) \in S /\ \A y \in S : Max(S) >= y
<1> DEFINE Low(x) == {y \in S : y <= x}
           High(x) == {y \in S : y >= x}
<1>1. \A x : IsFiniteSet(Low(x)) /\ Cardinality(Low(x)) \in Nat
    BY FS_Subset, FS_CardinalityType
<1>2. \A x : IsFiniteSet(High(x)) /\ Cardinality(High(x)) \in Nat
    BY FS_Subset, FS_CardinalityType
<1>3. \E x \in S : \A y \in S : x <= y
    <2> DEFINE sizes == {Cardinality(Low(x)) : x \in S}
    <2>1. sizes \in SUBSET Nat /\ sizes # {}
        BY <1>1
    <2>2. PICK x \in S : \A y \in S : Cardinality(Low(x)) <= Cardinality(Low(y))
        <3>1. PICK n \in sizes : \A m \in sizes : n <= m
            <4> HIDE DEF sizes
            <4> QED
                BY <2>1, MinExists
        <3> QED
            BY <3>1
    <2>3. ASSUME NEW y \in S, ~ (x <= y) PROVE FALSE
        <3>1. y \in Int /\ x \in Int /\ y < x
            BY <2>3
        <3>2. x \in Low(x) /\ x \notin Low(y)
            BY <3>1
        <3>3. \A z \in S : z <= y => z <= x
            BY <3>1
        <3>4. Low(y) \subseteq Low(x)
            BY <3>3
        <3> HIDE DEF Low
        <3>5. Cardinality(Low(y)) <= Cardinality(Low(x))
            BY <1>1, <3>4, FS_Subset
        <3>6. Cardinality(Low(y)) = Cardinality(Low(x))
            BY <1>1, <2>2, <3>5
        <3> QED
            BY <1>1, <3>2, <3>4, <3>6, FS_Subset
    <2> QED
        BY <2>3
<1>4. \E x \in S : \A y \in S : x >= y
    <2> DEFINE sizes == {Cardinality(High(x)) : x \in S}
    <2>1. sizes \in SUBSET Nat /\ sizes # {}
        BY <1>2
    <2>2. PICK x \in S : \A y \in S : Cardinality(High(x)) <= Cardinality(High(y))
        <3>1. PICK n \in sizes : \A m \in sizes : n <= m
            <4> HIDE DEF sizes
            <4> QED
                BY <2>1, MinExists
        <3> QED
            BY <3>1
    <2>3. ASSUME NEW y \in S, ~ (x >= y) PROVE FALSE
        <3>1. y \in Int /\ x \in Int /\ y > x
            BY <2>3
        <3>2. x \in High(x) /\ x \notin High(y)
            BY <3>1
        <3>3. \A z \in S : z >= y => z >= x
            BY <3>1
        <3>4. High(y) \subseteq High(x)
            BY <3>3
        <3> HIDE DEF High
        <3>5. Cardinality(High(y)) <= Cardinality(High(x))
            BY <1>2, <3>4, FS_Subset
        <3>6. Cardinality(High(y)) = Cardinality(High(x))
            BY <1>2, <2>2, <3>5
        <3> QED
            BY <1>2, <3>2, <3>4, <3>6, FS_Subset
    <2> QED
        BY <2>3
<1> QED
    BY <1>3, <1>4 DEF Min, Max

\* The j-th smallest is one of the values, with fewer than j below it and j or
\* more up to it.
LEMMA SmallestFits ==
    ASSUME NEW s \in Seq(Int), NEW j \in 1 .. Len(s)
    PROVE  LET v == Smallest(s, j) IN
           /\ v \in Range(s) /\ v \in Int
           /\ Cardinality(Below(s, v)) \in Nat /\ Cardinality(UpTo(s, v)) \in Nat
           /\ Cardinality(Below(s, v)) < j /\ j <= Cardinality(UpTo(s, v))
<1> DEFINE D == DOMAIN s
<1>1. D = 1 .. Len(s) /\ Len(s) \in Nat /\ j \in Nat /\ j > 0 /\ \A k \in D : s[k] \in Int
    OBVIOUS
<1>2. IsFiniteSet(D) /\ Cardinality(D) = Len(s)
    <2>1. 1 \in Int /\ Len(s) \in Int /\ Len(s) - 1 + 1 = Len(s)
        BY <1>1
    <2>2. (1 > Len(s)) => Len(s) = 0
        BY <1>1
    <2> HIDE DEF D
    <2> QED
        BY <1>1, <2>1, <2>2, FS_Interval
<1>3. \A v : /\ IsFiniteSet(Below(s, v)) /\ Cardinality(Below(s, v)) \in Nat
             /\ IsFiniteSet(UpTo(s, v)) /\ Cardinality(UpTo(s, v)) \in Nat
    <2>1. \A v : Below(s, v) \in SUBSET D /\ UpTo(s, v) \in SUBSET D
        BY DEF Below, UpTo
    <2> HIDE DEF D
    <2> QED
        BY <1>2, <2>1, FS_Subset, FS_CardinalityType
<1> DEFINE R == {s[k] : k \in D}
<1>4. IsFiniteSet(R)
    <2> DEFINE g == [k \in D |-> s[k]]
    <2>1. g \in Surjection(D, R)
        BY DEF Surjection
    <2> HIDE DEF D, R, g
    <2> QED
        BY <1>2, <2>1, FS_Surjection
<1>5. R \in SUBSET Int /\ R = Range(s)
    BY <1>1 DEF Range
<1> DEFINE Q == {v \in R : j <= Cardinality(UpTo(s, v))}
           P(v) == {u \in R : u < v}
<1>6. Q # {}
    <2>1. 1 \in D
        BY <1>1
    <2>2. R # {}
        BY <2>1
    <2> DEFINE m == Max(R)
    <2>3. m \in R /\ \A y \in R : m >= y
        <3> HIDE DEF R
        <3> QED
            BY <1>4, <1>5, <2>2, EndsExist
    <2>4. m \in Int /\ \A k \in D : s[k] <= m
        BY <1>1, <1>5, <2>3
    <2>5. UpTo(s, m) = D
        BY <2>4 DEF UpTo
    <2> QED
        BY <1>1, <1>2, <2>3, <2>5
<1>7. IsFiniteSet(Q) /\ Q \in SUBSET Int
    BY <1>4, <1>5, FS_Subset
<1> DEFINE v == Min(Q)
<1>8. v \in Q /\ \A y \in Q : v <= y
    <2> HIDE DEF Q
    <2> QED
        BY <1>6, <1>7, EndsExist
<1> HIDE DEF v
<1>9. v \in R /\ v \in Int /\ j <= Cardinality(UpTo(s, v))
    BY <1>7, <1>8
<1>10. Cardinality(Below(s, v)) < j
    <2> SUFFICES ASSUME j <= Cardinality(Below(s, v)) PROVE FALSE
        BY <1>1, <1>3
    <2>1. Below(s, v) # {}
        <3>1. Cardinality(Below(s, v)) # 0
            BY <1>1, <1>3
        <3> QED
            BY <1>3, <3>1, FS_EmptySet
    <2>2. P(v) # {} /\ IsFiniteSet(P(v)) /\ P(v) \in SUBSET Int
        <3>1. P(v) \in SUBSET R
            OBVIOUS
        <3>2. PICK k \in D : s[k] < v
            BY <2>1 DEF Below
        <3>3. s[k] \in P(v)
            BY <3>2
        <3> HIDE DEF R
        <3> QED
            BY <1>4, <1>5, <3>1, <3>3, FS_Subset
    <2> DEFINE u == Max(P(v))
    <2>3. u \in P(v) /\ \A y \in P(v) : u >= y
        <3> HIDE DEF P
        <3> QED
            BY <2>2, EndsExist
    <2> HIDE DEF u
    <2>4. u \in R /\ u \in Int /\ u < v
        BY <1>5, <2>3
    <2>5. \A k \in D : s[k] < v <=> s[k] <= u
        <3> TAKE k \in D
        <3>1. s[k] \in Int /\ s[k] \in R
            BY <1>1
        <3>2. s[k] < v => s[k] <= u
            BY <2>3, <2>4, <3>1
        <3> QED
            BY <1>9, <2>4, <3>1, <3>2
    <2>6. Below(s, v) = UpTo(s, u)
        BY <2>5 DEF Below, UpTo
    <2>7. u \in Q
        BY <2>4, <2>6
    <2> QED
        BY <1>8, <1>9, <2>4, <2>7
<1>11. \E w \in Range(s) : Cardinality(Below(s, w)) < j /\ j <= Cardinality(UpTo(s, w))
    BY <1>5, <1>9, <1>10
<1>12. LET w == Smallest(s, j) IN
          w \in Range(s) /\ Cardinality(Below(s, w)) < j /\ j <= Cardinality(UpTo(s, w))
    BY <1>11 DEF Smallest
<1> QED
    BY <1>3, <1>5, <1>12

\* Some ranks, numbered: the j-th is the one with j up to it.
LEMMA NthFits ==
    ASSUME NEW R \in SUBSET Nat, IsFiniteSet(R)
    PROVE  /\ Cardinality(R) \in Nat
           /\ \A j \in 1 .. Cardinality(R) : Nth(R, j) \in R
           /\ \A k \in R : \E i \in 1 .. Cardinality(R) :
                 Nth(R, i) = k /\ \A j \in 1 .. Cardinality(R) : j < i => Nth(R, j) < k
<1> DEFINE n == Cardinality(R)
           upTo(k) == {i \in R : i <= k}
           place == [k \in R |-> Cardinality(upTo(k))]
<1>1. n \in Nat
    BY FS_CardinalityType
<1>2. ASSUME NEW k \in R
      PROVE  /\ IsFiniteSet(upTo(k)) /\ place[k] = Cardinality(upTo(k)) /\ place[k] \in 1 .. n
    <2>1. upTo(k) \subseteq R /\ k \in upTo(k)
        OBVIOUS
    <2>2. IsFiniteSet(upTo(k)) /\ Cardinality(upTo(k)) \in Nat /\ Cardinality(upTo(k)) <= n
        BY <2>1, FS_Subset, FS_CardinalityType
    <2>3. Cardinality(upTo(k)) # 0
        BY <2>1, <2>2, FS_EmptySet
    <2> QED
        BY <1>1, <2>2, <2>3
<1>3. ASSUME NEW i \in R, NEW k \in R, i < k PROVE place[i] < place[k]
    <2>1. upTo(i) \subseteq upTo(k) /\ k \in upTo(k) /\ k \notin upTo(i)
        <3>1. \A x \in R : x \in Nat
            OBVIOUS
        <3>2. ~ (k <= i) /\ \A x \in R : x <= i => x <= k
            BY <1>3, <3>1
        <3>3. \A x \in upTo(i) : x \in upTo(k)
            BY <3>2
        <3>4. k <= k
            BY <3>1
        <3> QED
            BY <3>2, <3>3, <3>4
    <2>2. /\ Cardinality(upTo(i)) <= Cardinality(upTo(k))
          /\ Cardinality(upTo(i)) # Cardinality(upTo(k))
        BY <1>2, <2>1, FS_Subset
    <2> QED
        BY <1>1, <1>2, <2>2
<1>4. place \in [R -> 1 .. n]
    BY <1>2
<1> HIDE DEF place, n
<1>5. place \in Injection(R, 1 .. n)
    <2>1. \A i, k \in R : i # k => i < k \/ k < i
        OBVIOUS
    <2>2. \A k \in R : place[k] \in Nat
        BY <1>1, <1>4
    <2>3. \A i, k \in R : place[i] = place[k] => i = k
        BY <1>3, <2>1, <2>2
    <2> QED
        BY <1>4, <2>3 DEF Injection, IsInjective
<1>6. place \in Surjection(R, 1 .. n)
    <2>1. IsFiniteSet(1 .. n) /\ Cardinality(1 .. n) = n
        BY <1>1, FS_Interval
    <2> QED
        BY <1>5, <2>1, FS_Injection DEF n
<1>7. ASSUME NEW j \in 1 .. n PROVE Nth(R, j) \in R /\ place[Nth(R, j)] = j
    <2>1. \E k \in R : place[k] = j
        BY <1>6 DEF Surjection
    <2>2. \E k \in R : Cardinality(upTo(k)) = j
        BY <1>2, <2>1
    <2>3. Nth(R, j) \in R /\ Cardinality(upTo(Nth(R, j))) = j
        BY <2>2 DEF Nth
    <2> QED
        BY <1>2, <2>3
<1>8. ASSUME NEW k \in R
      PROVE  \E i \in 1 .. n : Nth(R, i) = k /\ \A j \in 1 .. n : j < i => Nth(R, j) < k
    <2>1. place[k] \in 1 .. n
        BY <1>4
    <2>2. Nth(R, place[k]) = k
        BY <1>5, <1>7, <2>1 DEF Injection, IsInjective
    <2>3. ASSUME NEW j \in 1 .. n, j < place[k] PROVE Nth(R, j) < k
        <3>1. Nth(R, j) \in R /\ place[Nth(R, j)] = j
            BY <1>7
        <3> DEFINE x == Nth(R, j)
        <3>2. x \in Nat /\ k \in Nat
            BY <3>1
        <3>3. place[x] < place[k] /\ place[k] \in Nat /\ place[x] \in Nat
            BY <1>1, <2>1, <2>3, <3>1
        <3> HIDE DEF x
        <3>4. x \in R
            BY <3>1 DEF x
        <3>5. ~ (k < x) /\ k # x
            BY <1>3, <3>3, <3>4
        <3> QED
            BY <3>2, <3>5 DEF x
    <2> QED
        BY <2>1, <2>2, <2>3
<1> QED
    BY <1>1, <1>7, <1>8 DEF n

\* What is kept of a sequence is one of its values each.
LEMMA KeptFits ==
    ASSUME NEW S, NEW s \in Seq(S), NEW ranks \in SUBSET DOMAIN s
    PROVE  /\ Kept(s, ranks) \in Seq(S) /\ Len(Kept(s, ranks)) = Cardinality(ranks)
           /\ \A j \in DOMAIN Kept(s, ranks) : \E k \in ranks : Kept(s, ranks)[j] = s[k]
<1>1. IsFiniteSet(ranks) /\ ranks \in SUBSET Nat /\ \A k \in ranks : s[k] \in S
    <2>1. DOMAIN s = 1 .. Len(s) /\ 1 \in Int /\ Len(s) \in Int
        OBVIOUS
    <2>2. IsFiniteSet(DOMAIN s)
        BY <2>1, FS_Interval
    <2> QED
        BY <2>1, <2>2, FS_Subset
<1>2. Cardinality(ranks) \in Nat /\ \A j \in 1 .. Cardinality(ranks) : Nth(ranks, j) \in ranks
    BY <1>1, NthFits
<1>3. Kept(s, ranks) = [j \in 1 .. Cardinality(ranks) |-> s[Nth(ranks, j)]]
    BY DEF Kept
<1> QED
    BY <1>1, <1>2, <1>3

\* The ranks of a sequence are finitely many, as many as it is long.
LEMMA RanksAreFinite ==
    ASSUME NEW n \in Nat
    PROVE  IsFiniteSet(1 .. n) /\ Cardinality(1 .. n) = n
<1>1. 1 \in Int /\ n \in Int /\ n - 1 + 1 = n /\ (1 > n => n = 0)
    OBVIOUS
<1> QED
    BY <1>1, FS_Interval

\* The image of a finite set is finite.
LEMMA ImageFinite ==
    ASSUME NEW S, IsFiniteSet(S), NEW f
    PROVE  IsFiniteSet({f[x] : x \in S})
<1> DEFINE T == {f[x] : x \in S}
           g == [x \in S |-> f[x]]
<1>1. g \in [S -> T] /\ \A t \in T : \E x \in S : g[x] = t
    OBVIOUS
<1> HIDE DEF g, T
<1>2. g \in Surjection(S, T)
    BY <1>1 DEF Surjection
<1> QED
    BY <1>2, FS_Surjection DEF T

\* Finitely many finite sets are finite together.
LEMMA UnionFinite ==
    ASSUME NEW S, IsFiniteSet(S), NEW f, DOMAIN f = S, \A x \in S : IsFiniteSet(f[x]),
           NEW U, \A u \in U : \E x \in S : u \in f[x]
    PROVE  IsFiniteSet(U)
<1> DEFINE T == {f[x] : x \in S}
<1>1. IsFiniteSet(T)
    BY ImageFinite
<1>2. (\A t \in T : IsFiniteSet(t)) /\ U \subseteq UNION T
    OBVIOUS
<1> HIDE DEF T
<1>3. IsFiniteSet(UNION T)
    BY <1>1, <1>2, FS_UNION
<1> QED
    BY <1>2, <1>3, FS_Subset

\* The lesser and the greater of two integers.
LEMMA EndsOfTwo ==
    ASSUME NEW a \in Int, NEW b \in Int
    PROVE  Min({a, b}) = (IF a <= b THEN a ELSE b) /\ Max({a, b}) = (IF a >= b THEN a ELSE b)
<1> DEFINE S == {a, b}
<1>1. S \subseteq Int /\ S # {} /\ a \in S /\ b \in S /\ \A x \in S : x = a \/ x = b
    OBVIOUS
<1>2. IsFiniteSet(S)
    <2>1. IsFiniteSet({b}) /\ S = {b} \cup {a}
        BY FS_Singleton
    <2> HIDE DEF S
    <2> QED
        BY <2>1, FS_AddElement
<1> HIDE DEF S
<1>3. Min(S) \in S /\ Max(S) \in S /\ \A y \in S : Min(S) <= y /\ Max(S) >= y
    BY <1>1, <1>2, EndsExist
<1>4. /\ Min(S) = a \/ Min(S) = b
      /\ Max(S) = a \/ Max(S) = b
      /\ Min(S) <= a /\ Min(S) <= b /\ Max(S) >= a /\ Max(S) >= b
    BY <1>1, <1>3
<1>5. Min(S) = (IF a <= b THEN a ELSE b) /\ Max(S) = (IF a >= b THEN a ELSE b)
    BY <1>4
<1> QED
    BY <1>5 DEF S
=============================================================================
