--------------------------- MODULE ServicesProofs ---------------------------
(* The migrations, the calls of the VK client and the places of the gateway, *)
(* each for any number of runners, tasks and requests, and these beside the  *)
(* bus as the run checks them.                                               *)
EXTENDS MCServices, StreamBusProofs, CountingProofs

-----------------------------------------------------------------------------
(* scripts/migrate.py.                                                       *)

\* A list in which every file has a lower version than those after it.
Ascending(q) == \A j, k \in DOMAIN q : j < k => q[j].version < q[k].version

\* The files that this store has to have.
FilesOf(s) == {f \in AllFiles : f.store = s}

\* There are finitely many files.
LEMMA FilesFinite == ASSUME NEW S \in SUBSET AllFiles PROVE IsFiniteSet(S)
<1>1. DOMAIN Files = 1 .. Len(Files)
    BY FilesAssumption
<1>2. IsFiniteSet(DOMAIN Files)
    BY <1>1, FilesAssumption, FS_Interval
<1>3. AllFiles = {Files[k] : k \in DOMAIN Files}
    BY <1>1 DEF AllFiles, ToSet
<1>4. Files \in Surjection(DOMAIN Files, AllFiles)
    BY <1>1, <1>3, FilesAssumption DEF Surjection
<1> QED
    BY <1>2, <1>4, FS_Surjection, FS_Subset

\* What a file is; its store and its version tell it from the others.
LEMMA FileFacts ==
    /\ \A f \in AllFiles :
          /\ f.store \in {"opensearch", "neo4j"}
          /\ f.version \in Nat
          /\ f.store = "neo4j" <=> f.action = "statements"
          /\ f.parts \in Seq(ToSet(f.parts)) /\ f.parts # <<>>
          /\ 1 \in 1 .. Len(f.parts)
    /\ \A f, g \in AllFiles : f.store = g.store /\ f.version = g.version => f = g
<1>1. DOMAIN Files = 1 .. Len(Files)
    BY FilesAssumption
<1>2. AllFiles = {Files[k] : k \in DOMAIN Files}
    BY <1>1 DEF AllFiles, ToSet
<1>3. ASSUME NEW j \in DOMAIN Files, NEW k \in DOMAIN Files,
             Files[j].store = Files[k].store, Files[j].version = Files[k].version
      PROVE  Files[j] = Files[k]
    <2> DEFINE id == [i \in DOMAIN Files |-> <<Files[i].store, Files[i].version>>]
    <2>1. IsInjective(id)
        BY FilesAssumption
    <2>2. id[j] = id[k]
        BY <1>3
    <2>3. j = k
        BY <2>1, <2>2 DEF IsInjective
    <2> QED
        BY <2>3
<1>4. ASSUME NEW k \in DOMAIN Files PROVE 1 \in 1 .. Len(Files[k].parts)
    <2> DEFINE q == Files[k].parts
    <2>1. q \in Seq(ToSet(q)) /\ q # <<>>
        BY FilesAssumption
    <2> HIDE DEF q
    <2>2. Len(q) \in Nat /\ Len(q) > 0
        BY <2>1
    <2> QED
        BY <2>2 DEF q
<1> QED
    BY <1>2, <1>3, <1>4, FilesAssumption

\* The elements of a list are of its kind.
LEMMA ElementsOfList == ASSUME NEW S, NEW q \in Seq(S) PROVE ToSet(q) \subseteq S
BY DEF ToSet

\* No part of a file comes before the first.
LEMMA NothingBefore == \A k \in 1 .. 1 - 1 : FALSE
OBVIOUS

\* Files of one store can be sorted by version.
LEMMA SortedExists ==
    ASSUME NEW s, NEW S \in SUBSET FilesOf(s)
    PROVE  \E q \in [1 .. Cardinality(S) -> S] : Ascending(q)
<1> DEFINE n == Cardinality(S)
           upTo(f) == {g \in S : g.version <= f.version}
           rank == [f \in S |-> Cardinality(upTo(f))]
<1>1. /\ IsFiniteSet(S) /\ n \in Nat
      /\ \A f \in S : f.version \in Nat
      /\ \A f, g \in S : f.version = g.version => f = g
    BY FilesFinite, FileFacts, FS_CardinalityType DEF FilesOf
<1>2. ASSUME NEW f \in S, NEW g \in S, f.version < g.version
      PROVE  rank[f] < rank[g]
    <2>1. /\ IsFiniteSet(upTo(f)) /\ IsFiniteSet(upTo(g))
          /\ Cardinality(upTo(f)) \in Nat /\ Cardinality(upTo(g)) \in Nat
        BY <1>1, FS_Subset, FS_CardinalityType
    <2>2. upTo(f) \subseteq upTo(g) /\ g \in upTo(g) /\ g \notin upTo(f)
        BY <1>1, <1>2
    <2>3. /\ Cardinality(upTo(f)) <= Cardinality(upTo(g))
          /\ Cardinality(upTo(f)) # Cardinality(upTo(g))
        BY <2>1, <2>2, FS_Subset
    <2> QED
        BY <2>1, <2>3
<1>3. rank \in Injection(S, 1 .. n)
    <2>1. ASSUME NEW f \in S PROVE Cardinality(upTo(f)) \in 1 .. n
        <3>1. upTo(f) \subseteq S /\ f \in upTo(f)
            BY <1>1
        <3>2. Cardinality(upTo(f)) \in Nat /\ Cardinality(upTo(f)) <= n
            BY <1>1, <3>1, FS_Subset, FS_CardinalityType
        <3>3. Cardinality(upTo(f)) # 0
            BY <1>1, <3>1, FS_EmptySet, FS_Subset
        <3> QED
            BY <1>1, <3>2, <3>3
    <2>2. rank \in [S -> 1 .. n]
        BY <2>1
    <2>3. \A f, g \in S : f # g => f.version < g.version \/ g.version < f.version
        BY <1>1
    <2>4. \A f \in S : rank[f] \in Nat
        BY <2>2, <1>1
    <2> HIDE DEF rank
    <2>5. \A f, g \in S : rank[f] = rank[g] => f = g
        BY <1>2, <2>3, <2>4
    <2> QED
        BY <2>2, <2>5 DEF Injection, IsInjective
<1> HIDE DEF rank
<1>4. rank \in Surjection(S, 1 .. n)
    <2>1. IsFiniteSet(1 .. n) /\ Cardinality(1 .. n) = n
        BY <1>1, FS_Interval
    <2> QED
        BY <1>3, <2>1, FS_Injection
<1> DEFINE q == [k \in 1 .. n |-> CHOOSE f \in S : rank[f] = k]
<1>5. \A k \in 1 .. n : q[k] \in S /\ rank[q[k]] = k
    <2>1. \A k \in 1 .. n : \E f \in S : rank[f] = k
        BY <1>4 DEF Surjection
    <2> QED
        BY <2>1
<1>6. q \in [1 .. n -> S]
    BY <1>5
<1> HIDE DEF q
<1>7. ASSUME NEW j \in 1 .. n, NEW k \in 1 .. n, j < k
      PROVE  q[j].version < q[k].version
    <2>1. /\ q[j] \in S /\ q[k] \in S /\ rank[q[j]] = j /\ rank[q[k]] = k
          /\ q[j].version \in Nat /\ q[k].version \in Nat
        BY <1>1, <1>5
    <2>2. q[j] # q[k]
        BY <1>7, <2>1
    <2>3. q[j].version # q[k].version
        BY <1>1, <2>1, <2>2
    <2>4. ~ (q[k].version < q[j].version)
        BY <1>2, <1>7, <2>1
    <2> QED
        BY <2>1, <2>3, <2>4
<1>8. Ascending(q)
    BY <1>6, <1>7 DEF Ascending
<1> QED
    BY <1>6, <1>8

\* What sorted() returns: the files, each once, in ascending order.
LEMMA ByVersionSorts ==
    ASSUME NEW s, NEW S \in SUBSET FilesOf(s)
    PROVE  /\ ByVersion(S) \in Seq(FilesOf(s))
           /\ ToSet(ByVersion(S)) = S
           /\ Ascending(ByVersion(S))
<1> DEFINE n == Cardinality(S)
           q == ByVersion(S)
<1>1. IsFiniteSet(S) /\ n \in Nat /\ \A f \in S : f.version \in Nat
    BY FilesFinite, FileFacts, FS_CardinalityType DEF FilesOf
<1>2. q \in [1 .. n -> S] /\ Ascending(q)
    BY SortedExists DEF ByVersion, Ascending
<1> HIDE DEF q
<1>3. q \in Injection(1 .. n, S)
    <2>1. \A j, k \in 1 .. n : j < k => q[j] # q[k]
        BY <1>1, <1>2 DEF Ascending
    <2>2. \A j, k \in 1 .. n : q[j] = q[k] => j = k
        BY <1>1, <2>1
    <2> QED
        BY <1>2, <2>2 DEF Injection, IsInjective
<1>4. q \in Surjection(1 .. n, S)
    <2>1. IsFiniteSet(1 .. n) /\ Cardinality(1 .. n) = n
        BY <1>1, FS_Interval
    <2> QED
        BY <1>1, <1>3, <2>1, FS_Injection
<1>5. q \in Seq(FilesOf(s)) /\ DOMAIN q = 1 .. n
    <2>1. q \in [1 .. n -> FilesOf(s)]
        BY <1>2
    <2> QED
        BY <1>1, <2>1
<1>6. ToSet(q) = S
    BY <1>2, <1>4, <1>5 DEF Surjection, ToSet
<1> QED
    BY <1>2, <1>5, <1>6 DEF q
-----------------------------------------------------------------------------
\* A runner that goes through its list.
Working(r) == run[r] \in {"applying", "creating", "recording"}

\* The list of a runner holds files of its store in ascending order, and only
\* while it works on them.
ListFits(r) ==
    /\ todo[r] \in Seq(FilesOf(store[r])) /\ Ascending(todo[r])
    /\ ~Working(r) => todo[r] = <<>>
    /\ run[r] \in {"creating", "recording"} => todo[r] # <<>>
    /\ run[r] = "creating state" => store[r] = "opensearch"

\* The parts of the file at hand before the one at hand are made.
PartsMade(r) ==
    /\ run[r] \notin {"applying", "creating"} \/ todo[r] = <<>> => part[r] = 1
    /\ todo[r] # <<>> =>
          /\ part[r] \in 1 .. Len(File(r).parts)
          /\ \A k \in 1 .. part[r] - 1 : File(r).parts[k] \in made
    /\ run[r] = "recording" => ToSet(File(r).parts) \subseteq made

\* A runner passes over recorded files only.
PassesRecorded(r) == \A f \in AllFiles : IsPast(r, f) => records[f] > 0

RunnerInv(r) == ListFits(r) /\ PartsMade(r) /\ PassesRecorded(r)

\* What is recorded is made, and recorded in order.
RecordsInOrder ==
    \A f \in AllFiles : records[f] > 0 =>
        /\ ToSet(f.parts) \subseteq made
        /\ \A g \in FilesOf(f.store) : g.version < f.version => records[g] > 0

\* Until two runners were at work at once, a file to be applied in Neo4j has
\* no record; in OpenSearch the version is the id of the record.
OneRecord ==
    /\ \A f \in FilesOf("opensearch") : records[f] <= 1
    /\ ~raced =>
          /\ \A q, r \in Runners : AtWork(q) /\ AtWork(r) => q = r
          /\ \A f \in AllFiles : records[f] <= 1
          /\ \A r \in Runners : \A f \in ToSet(todo[r]) :
                 f.store = "neo4j" => records[f] = 0

\* The types but for what a runner's list and part are.
StoreTypes ==
    /\ made \subseteq Objects /\ stateIndex \in BOOLEAN
    /\ records \in [AllFiles -> Nat]
    /\ run \in [Runners -> {"down", "listing", "creating state", "applying",
                            "creating", "recording", "done"}]
    /\ store \in [Runners -> {"opensearch", "neo4j"}]
    /\ DOMAIN todo = Runners /\ DOMAIN part = Runners

MigrationInv ==
    /\ StoreTypes /\ RecordsInOrder /\ OneRecord
    /\ \A r \in Runners : RunnerInv(r)

\* Neither store forgets what it has.
StoresGrow ==
    made \subseteq made' /\ \A f \in AllFiles : records[f] > 0 => records'[f] > 0

\* Who does not move keeps what holds of it.
LEMMA RunnerRests ==
    ASSUME NEW r \in Runners, RunnerInv(r), StoresGrow,
           run'[r] = run[r], store'[r] = store[r], todo'[r] = todo[r], part'[r] = part[r]
    PROVE  RunnerInv(r)'
<1>1. ListFits(r)'
    BY DEF RunnerInv, ListFits, Working
<1>2. PartsMade(r)'
    <2>1. File(r)' = File(r)
        BY DEF File
    <2> QED
        BY <2>1 DEF RunnerInv, PartsMade, StoresGrow
<1>3. PassesRecorded(r)'
    BY DEF RunnerInv, PassesRecorded, IsPast, AtWork, StoresGrow
<1> QED
    BY <1>1, <1>2, <1>3 DEF RunnerInv

\* The first file of a list and what remains of it.
LEMMA ListAtHand ==
    ASSUME NEW r \in Runners, ListFits(r), todo[r] # <<>>
    PROVE  /\ File(r) \in FilesOf(store[r])
           /\ Tail(todo[r]) \in Seq(FilesOf(store[r])) /\ Ascending(Tail(todo[r]))
           /\ ToSet(todo[r]) = {File(r)} \cup ToSet(Tail(todo[r]))
           /\ \A f \in ToSet(Tail(todo[r])) : File(r).version < f.version
<1> DEFINE q == todo[r]
           S == FilesOf(store[r])
<1>1. q \in Seq(S) /\ q # <<>> /\ Ascending(q)
    BY DEF ListFits
<1> HIDE DEF q, S
<1>2. /\ Head(q) \in S /\ Tail(q) \in Seq(S)
      /\ Len(q) \in Nat /\ Len(q) > 0 /\ Len(Tail(q)) = Len(q) - 1
      /\ \A k \in 1 .. Len(Tail(q)) : Tail(q)[k] = q[k + 1]
      /\ Head(q) = q[1]
    BY <1>1, HeadTailProperties
<1>3. DOMAIN q = 1 .. Len(q) /\ DOMAIN Tail(q) = 1 .. Len(q) - 1
    BY <1>1, <1>2
<1>4. Ascending(Tail(q))
    <2>1. SUFFICES ASSUME NEW j \in 1 .. Len(q) - 1, NEW k \in 1 .. Len(q) - 1, j < k
                   PROVE  Tail(q)[j].version < Tail(q)[k].version
        BY <1>3 DEF Ascending
    <2>2. j + 1 \in 1 .. Len(q) /\ k + 1 \in 1 .. Len(q) /\ j + 1 < k + 1
        BY <1>2, <2>1
    <2>3. Tail(q)[j] = q[j + 1] /\ Tail(q)[k] = q[k + 1]
        BY <1>2, <2>1
    <2> QED
        BY <1>1, <1>3, <2>2, <2>3 DEF Ascending
<1>5. ASSUME NEW f \in ToSet(Tail(q)) PROVE Head(q).version < f.version /\ f \in ToSet(q)
    <2>1. PICK k \in 1 .. Len(q) - 1 : f = Tail(q)[k]
        BY <1>3 DEF ToSet
    <2>2. k + 1 \in 1 .. Len(q) /\ 1 \in 1 .. Len(q) /\ 1 < k + 1 /\ f = q[k + 1]
        BY <1>2, <2>1
    <2> QED
        BY <1>1, <1>2, <1>3, <2>2 DEF Ascending, ToSet
<1>6. ASSUME NEW f \in ToSet(q) PROVE f = Head(q) \/ f \in ToSet(Tail(q))
    <2>1. PICK k \in 1 .. Len(q) : f = q[k]
        BY <1>3 DEF ToSet
    <2>2. CASE k = 1
        BY <1>2, <2>1, <2>2
    <2>3. CASE k # 1
        <3>1. k - 1 \in 1 .. Len(q) - 1 /\ Tail(q)[k - 1] = q[(k - 1) + 1]
            BY <1>2, <2>1, <2>3
        <3>2. Tail(q)[k - 1] = f
            BY <2>1, <3>1
        <3> QED
            BY <1>3, <3>1, <3>2 DEF ToSet
    <2> QED
        BY <2>2, <2>3
<1>7. Head(q) \in ToSet(q)
    BY <1>2, <1>3 DEF ToSet
<1> QED
    BY <1>2, <1>4, <1>5, <1>6, <1>7 DEF q, S, File

\* Going on to the next part, or to the record after the last.
LEMMA NextPartKeeps ==
    ASSUME StoreTypes, NEW r \in Runners, RunnerInv(r), StoresGrow,
           run[r] \in {"applying", "creating"}, todo[r] # <<>>,
           NextPart(r), Part(r) \in made', UNCHANGED <<store, todo, records>>
    PROVE  RunnerInv(r)'
<1> DEFINE n == Len(File(r).parts)
<1>1. ListFits(r) /\ PartsMade(r) /\ PassesRecorded(r)
    BY DEF RunnerInv
<1>2. File(r)' = File(r) /\ File(r) \in FilesOf(store[r])
    BY <1>1, ListAtHand DEF File
<1>3. n \in Nat /\ n > 0 /\ DOMAIN File(r).parts = 1 .. n
    BY <1>2, FileFacts DEF FilesOf
<1>4. /\ run'[r] = IF part[r] = n THEN "recording" ELSE "applying"
      /\ part'[r] = IF part[r] = n THEN 1 ELSE part[r] + 1
    BY DEF NextPart, GoTo, StoreTypes
<1>5. /\ part[r] \in 1 .. n
      /\ \A k \in 1 .. part[r] : File(r).parts[k] \in made'
    <2>1. part[r] \in 1 .. n /\ \A k \in 1 .. part[r] - 1 : File(r).parts[k] \in made
        BY <1>1 DEF PartsMade
    <2>2. File(r).parts[part[r]] \in made'
        BY DEF Part
    <2> QED
        BY <1>3, <2>1, <2>2 DEF StoresGrow
<1> HIDE DEF n
<1>6. ListFits(r)'
    BY <1>1, <1>4 DEF ListFits, Working
<1>7. PartsMade(r)'
    <2>1. CASE part[r] = n
        <3>1. ToSet(File(r).parts) \subseteq made'
            BY <1>3, <1>5, <2>1 DEF ToSet
        <3>2. run'[r] = "recording" /\ part'[r] = 1
            BY <1>4, <2>1
        <3> QED
            BY <1>2, <1>3, <3>1, <3>2 DEF PartsMade, n
    <2>2. CASE part[r] # n
        <3>1. run'[r] = "applying" /\ part'[r] = part[r] + 1 /\ part'[r] \in 1 .. n
            BY <1>3, <1>4, <1>5, <2>2
        <3>2. \A k \in 1 .. part'[r] - 1 : File(r).parts[k] \in made'
            BY <1>3, <1>5, <3>1
        <3> QED
            BY <1>2, <3>1, <3>2 DEF PartsMade, n
    <2> QED
        BY <2>1, <2>2
<1>8. PassesRecorded(r)'
    BY <1>1, <1>4 DEF PassesRecorded, IsPast, AtWork
<1> QED
    BY <1>6, <1>7, <1>8 DEF RunnerInv

\* A runner that has its list from the store's records.
LEMMA ListedFits ==
    ASSUME StoreTypes, NEW r \in Runners, RunnerInv(r), UNCHANGED <<records, store, part, made>>,
           run[r] \in {"listing", "creating state"}, run'[r] = "applying",
           NEW S \in SUBSET FilesOf(store[r]), todo'[r] = ByVersion(S),
           \A f \in FilesOf(store[r]) \ S : records[f] > 0
    PROVE  RunnerInv(r)'
<1>1. /\ todo'[r] \in Seq(FilesOf(store[r])) /\ ToSet(todo'[r]) = S /\ Ascending(todo'[r])
    BY ByVersionSorts
<1>2. ListFits(r)'
    BY <1>1 DEF ListFits, Working
<1>3. PartsMade(r)'
    <2>1. part[r] = 1
        BY DEF RunnerInv, PartsMade
    <2>2. ASSUME todo'[r] # <<>> PROVE 1 \in 1 .. Len(File(r)'.parts)
        <3>1. todo'[r] \in Seq(FilesOf(store[r])) /\ todo'[r] # <<>>
            BY <1>1, <2>2
        <3>2. Head(todo'[r]) \in FilesOf(store[r])
            BY <3>1, HeadTailProperties
        <3>3. Head(todo'[r]) \in AllFiles
            BY <3>2 DEF FilesOf
        <3> QED
            BY <3>3, FileFacts DEF File
    <2>3. part'[r] = part[r] /\ part'[r] = 1
        BY <2>1
    <2> QED
        BY <2>2, <2>3, NothingBefore DEF PartsMade
<1>4. PassesRecorded(r)'
    <2>1. SUFFICES ASSUME NEW f \in AllFiles, IsPast(r, f)' PROVE records[f] > 0
        BY DEF PassesRecorded
    <2>2. CASE store[r] = "neo4j" /\ f.store = "opensearch"
        BY <2>2 DEF RunnerInv, PassesRecorded, IsPast, AtWork
    <2>3. CASE f.store = store[r] /\ f \notin ToSet(todo'[r])
        BY <1>1, <2>3 DEF FilesOf
    <2> QED
        BY <2>1, <2>2, <2>3 DEF IsPast
<1> QED
    BY <1>2, <1>3, <1>4 DEF RunnerInv

\* The record of a file takes it off the list.
LEMMA RecordedFits ==
    ASSUME StoreTypes, NEW r \in Runners, RunnerInv(r), Records(r)
    PROVE  StoresGrow /\ RunnerInv(r)'
<1>1. ListFits(r) /\ PartsMade(r) /\ PassesRecorded(r)
    BY DEF RunnerInv
<1>2. todo[r] # <<>>
    BY <1>1 DEF Records, ListFits
<1>3. /\ File(r) \in FilesOf(store[r])
      /\ Tail(todo[r]) \in Seq(FilesOf(store[r])) /\ Ascending(Tail(todo[r]))
      /\ ToSet(todo[r]) = {File(r)} \cup ToSet(Tail(todo[r]))
    BY <1>1, <1>2, ListAtHand
<1>4. /\ run'[r] = "applying" /\ todo'[r] = Tail(todo[r]) /\ part'[r] = part[r]
      /\ store' = store /\ made' = made
    BY DEF Records, GoTo, StoreTypes
<1>5. /\ records'[File(r)] > 0
      /\ \A f \in AllFiles \ {File(r)} : records'[f] = records[f]
    <2>1. File(r) \in AllFiles /\ records \in [AllFiles -> Nat]
        BY <1>3 DEF StoreTypes, FilesOf
    <2>2. records' = [records EXCEPT ![File(r)] =
                         IF store[r] = "opensearch" THEN 1 ELSE records[File(r)] + 1]
        BY DEF Records
    <2> HIDE DEF File
    <2>3. /\ records'[File(r)] = IF store[r] = "opensearch" THEN 1 ELSE records[File(r)] + 1
          /\ records[File(r)] \in Nat
        BY <2>1, <2>2, Zenon
    <2> QED
        BY <2>1, <2>2, <2>3
<1>6. StoresGrow
    BY <1>4, <1>5 DEF StoresGrow
<1>7. ListFits(r)'
    BY <1>3, <1>4 DEF ListFits, Working
<1>8. PartsMade(r)'
    <2>1. part[r] = 1
        BY <1>1 DEF PartsMade, Records
    <2>2. ASSUME todo'[r] # <<>> PROVE 1 \in 1 .. Len(File(r)'.parts)
        <3>1. todo'[r] \in Seq(FilesOf(store[r])) /\ todo'[r] # <<>>
            BY <1>3, <1>4, <2>2
        <3>2. Head(todo'[r]) \in FilesOf(store[r])
            BY <3>1, HeadTailProperties
        <3>3. Head(todo'[r]) \in AllFiles
            BY <3>2 DEF FilesOf
        <3> QED
            BY <3>3, FileFacts DEF File
    <2>3. part'[r] = 1 /\ \A k \in 1 .. part'[r] - 1 : FALSE
        BY <1>4, <2>1
    <2> QED
        BY <1>4, <2>2, <2>3 DEF PartsMade
<1>9. PassesRecorded(r)'
    <2>1. SUFFICES ASSUME NEW f \in AllFiles, IsPast(r, f)' PROVE records'[f] > 0
        BY DEF PassesRecorded
    <2>2. CASE f = File(r)
        BY <1>5, <2>2
    <2>3. CASE f # File(r)
        <3>1. IsPast(r, f)
            BY <1>3, <1>4, <2>1, <2>3 DEF IsPast, AtWork, Records
        <3> QED
            BY <1>1, <1>5, <2>3, <3>1 DEF PassesRecorded
    <2> QED
        BY <2>2, <2>3
<1> QED
    BY <1>6, <1>7, <1>8, <1>9 DEF RunnerInv

\* A runner that starts, ends, finds no state or is done with a store.
LEMMA RestFits ==
    ASSUME StoreTypes, NEW r \in Runners, RunnerInv(r),
           \/ StartRun(r) \/ FindsNoState(r) \/ EndsStore(r) \/ End(r)
    PROVE  RunnerInv(r)'
<1>1. ListFits(r) /\ PartsMade(r) /\ PassesRecorded(r)
    BY DEF RunnerInv
<1>2. CASE StartRun(r)
    <2>1. /\ run'[r] = "listing" /\ store'[r] = "opensearch" /\ ~Working(r)
          /\ todo'[r] = todo[r] /\ part'[r] = part[r]
        BY <1>2 DEF StartRun, GoTo, StoreTypes, AtWork, Working
    <2>2. todo[r] = <<>> /\ part[r] = 1
        BY <1>1, <2>1 DEF ListFits, PartsMade
    <2>3. <<>> \in Seq(FilesOf("opensearch")) /\ Ascending(<<>>)
        BY DEF Ascending
    <2> QED
        BY <2>1, <2>2, <2>3
           DEF RunnerInv, ListFits, PartsMade, PassesRecorded, IsPast, AtWork, Working
<1>3. CASE FindsNoState(r)
    <2>1. /\ run[r] = "listing" /\ run'[r] = "creating state" /\ store[r] = "opensearch"
          /\ UNCHANGED <<storeVars, store, todo, part>>
        BY <1>3 DEF FindsNoState, GoTo, StoreTypes
    <2>2. ListFits(r)'
        BY <1>1, <2>1 DEF ListFits, Working
    <2>3. PartsMade(r)'
        BY <1>1, <2>1 DEF ListFits, PartsMade, Working, storeVars
    <2> QED
        BY <1>1, <2>1, <2>2, <2>3
           DEF RunnerInv, PassesRecorded, IsPast, AtWork, storeVars
<1>4. CASE EndsStore(r)
    <2>1. /\ run[r] = "applying" /\ todo[r] = <<>> /\ store'[r] = "neo4j"
          /\ run'[r] = IF store[r] = "opensearch" THEN "listing" ELSE "done"
          /\ UNCHANGED <<storeVars, todo, part>>
        BY <1>4 DEF EndsStore, GoTo, StoreTypes
    <2>2. <<>> \in Seq(FilesOf("neo4j")) /\ Ascending(<<>>)
        BY DEF Ascending
    <2>3. ListFits(r)'
        BY <2>1, <2>2 DEF ListFits, Working
    <2>4. PartsMade(r)'
        BY <1>1, <2>1 DEF PartsMade, storeVars
    <2>5. PassesRecorded(r)'
        <3>1. SUFFICES ASSUME NEW f \in AllFiles, IsPast(r, f)' PROVE records[f] > 0
            BY <2>1 DEF PassesRecorded, storeVars
        <3>2. ToSet(todo[r]) = {}
            BY <2>1 DEF ToSet
        <3>3. store[r] \in {"opensearch", "neo4j"} /\ f.store \in {"opensearch", "neo4j"}
            BY FileFacts DEF StoreTypes
        <3>4. IsPast(r, f)
            BY <2>1, <3>1, <3>2, <3>3 DEF IsPast, AtWork
        <3> QED
            BY <1>1, <3>4 DEF PassesRecorded
    <2> QED
        BY <2>3, <2>4, <2>5 DEF RunnerInv
<1>5. CASE End(r)
    <2>1. run'[r] = "down" /\ todo'[r] = <<>> /\ part'[r] = 1
        BY <1>5 DEF End, GoTo, StoreTypes
    <2>2. <<>> \in Seq(FilesOf(store'[r])) /\ Ascending(<<>>)
        BY DEF Ascending
    <2> QED
        BY <2>1, <2>2
           DEF RunnerInv, ListFits, PartsMade, PassesRecorded, IsPast, AtWork, Working
<1> QED
    BY <1>2, <1>3, <1>4, <1>5

\* Every step keeps what holds of each runner, and no store forgets.
LEMMA RunnersStep ==
    MigrationInv /\ [MigrationNext]_migrationVars =>
        StoresGrow /\ \A q \in Runners : RunnerInv(q)'
<1> SUFFICES ASSUME MigrationInv, [MigrationNext]_migrationVars
             PROVE  StoresGrow /\ \A q \in Runners : RunnerInv(q)'
    OBVIOUS
<1>1. StoreTypes /\ \A q \in Runners : RunnerInv(q)
    BY DEF MigrationInv
<1>2. CASE UNCHANGED migrationVars
    <2>1. StoresGrow
        BY <1>2 DEF migrationVars, storeVars, StoresGrow
    <2>2. UNCHANGED <<run, store, todo, part>>
        BY <1>2 DEF migrationVars, runVars
    <2> QED
        BY <1>1, <2>1, <2>2, RunnerRests
<1>3. ASSUME NEW r \in Runners, MigrationStep(r)
      PROVE  StoresGrow /\ \A q \in Runners : RunnerInv(q)'
    <2>1. StoresGrow /\ RunnerInv(r)'
        <3>1. CASE StartRun(r) \/ FindsNoState(r) \/ EndsStore(r) \/ Collides(r) \/ Cut(r)
            <4>1. UNCHANGED <<made, records>>
                BY <3>1 DEF StartRun, FindsNoState, EndsStore, Collides, Cut, End, storeVars
            <4>2. StartRun(r) \/ FindsNoState(r) \/ EndsStore(r) \/ End(r)
                BY <3>1 DEF Collides, Cut
            <4> QED
                BY <1>1, <4>1, <4>2, RestFits DEF StoresGrow
        <3>2. CASE CreatesState(r)
            <4>1. /\ run[r] = "creating state" /\ run'[r] = "applying"
                  /\ UNCHANGED <<records, store, part, made>>
                  /\ todo'[r] = ByVersion(FilesOf("opensearch"))
                BY <1>1, <3>2 DEF CreatesState, GoTo, StoreTypes, FilesOf
            <4>2. store[r] = "opensearch"
                BY <1>1, <4>1 DEF RunnerInv, ListFits
            <4>3. RunnerInv(r)'
                BY <1>1, <4>1, <4>2, ListedFits
            <4> QED
                BY <4>1, <4>3 DEF StoresGrow
        <3>3. CASE Lists(r)
            <4> DEFINE S == {f \in AllFiles : f.store = store[r]} \ Applied(store[r])
            <4>1. /\ run[r] = "listing" /\ run'[r] = "applying"
                  /\ UNCHANGED <<records, store, part, made>>
                  /\ todo'[r] = ByVersion(S)
                BY <1>1, <3>3 DEF Lists, GoTo, StoreTypes, Plan, storeVars
            <4>2. S \subseteq FilesOf(store[r])
                BY DEF FilesOf
            <4>3. \A f \in FilesOf(store[r]) \ S : records[f] > 0
                BY DEF FilesOf, Applied
            <4> HIDE DEF S
            <4>4. RunnerInv(r)'
                BY <1>1, <4>1, <4>2, <4>3, ListedFits
            <4> QED
                BY <4>1, <4>4 DEF StoresGrow
        <3>4. CASE FindsIndex(r) \/ CreatesIndex(r) \/ ChangesSchema(r)
            <4>1. /\ run[r] \in {"applying", "creating"} /\ todo[r] # <<>>
                  /\ UNCHANGED <<store, todo, records>> /\ made \subseteq made'
                <5>1. run[r] = "creating" => todo[r] # <<>>
                    BY <1>1 DEF RunnerInv, ListFits
                <5> QED
                    BY <3>4, <5>1 DEF FindsIndex, CreatesIndex, ChangesSchema, Step
            <4>2. StoresGrow
                BY <4>1 DEF StoresGrow
            <4>3. CASE NextPart(r) /\ Part(r) \in made'
                BY <1>1, <4>1, <4>2, <4>3, NextPartKeeps
            <4>4. CASE ~ (NextPart(r) /\ Part(r) \in made')
                <5>1. /\ FindsIndex(r) /\ GoTo(r, "creating")
                      /\ UNCHANGED <<part, made>>
                    BY <3>4, <4>4 DEF FindsIndex, CreatesIndex, ChangesSchema
                <5>2. run[r] = "applying" /\ run'[r] = "creating"
                    BY <1>1, <5>1 DEF FindsIndex, Step, GoTo, StoreTypes
                <5>3. ListFits(r)'
                    BY <1>1, <4>1, <5>2 DEF RunnerInv, ListFits, Working
                <5>4. PartsMade(r)'
                    BY <1>1, <4>1, <5>1, <5>2 DEF RunnerInv, PartsMade, File
                <5>5. PassesRecorded(r)'
                    BY <1>1, <4>1, <5>2 DEF RunnerInv, PassesRecorded, IsPast, AtWork
                <5> QED
                    BY <4>2, <5>3, <5>4, <5>5 DEF RunnerInv
            <4> QED
                BY <4>3, <4>4
        <3>5. CASE Records(r)
            BY <1>1, <3>5, RecordedFits
        <3> QED
            BY <1>3, <3>1, <3>2, <3>3, <3>4, <3>5 DEF MigrationStep
    <2>2. ASSUME NEW q \in Runners, q # r PROVE RunnerInv(q)'
        <3>1. /\ run'[q] = run[q] /\ store'[q] = store[q]
              /\ todo'[q] = todo[q] /\ part'[q] = part[q]
            BY <1>1, <1>3, <2>2
               DEF MigrationStep, StartRun, FindsNoState, CreatesState, Lists, FindsIndex,
                   CreatesIndex, ChangesSchema, Step, NextPart, Records, EndsStore, Collides,
                   Cut, End, GoTo, StoreTypes
        <3> QED
            BY <1>1, <2>1, <3>1, RunnerRests
    <2> QED
        BY <2>1, <2>2
<1> QED
    BY <1>2, <1>3 DEF MigrationNext

\* The stores keep their types.
LEMMA StoreTypesStep ==
    MigrationInv /\ [MigrationNext]_migrationVars => StoreTypes'
<1> SUFFICES ASSUME MigrationInv, [MigrationNext]_migrationVars PROVE StoreTypes'
    OBVIOUS
<1>1. StoreTypes /\ \A q \in Runners : RunnerInv(q)
    BY DEF MigrationInv
<1>2. CASE UNCHANGED migrationVars
    BY <1>1, <1>2 DEF migrationVars, storeVars, runVars, StoreTypes
<1>3. ASSUME NEW r \in Runners, MigrationStep(r) PROVE StoreTypes'
    <2>1. /\ run' \in [Runners -> {"down", "listing", "creating state", "applying",
                                    "creating", "recording", "done"}]
          /\ store' \in [Runners -> {"opensearch", "neo4j"}]
          /\ DOMAIN todo' = Runners /\ DOMAIN part' = Runners
          /\ stateIndex' \in BOOLEAN
        BY <1>1, <1>3
           DEF MigrationStep, StartRun, FindsNoState, CreatesState, Lists, FindsIndex,
               CreatesIndex, ChangesSchema, Step, NextPart, Records, EndsStore, Collides,
               Cut, End, GoTo, StoreTypes, storeVars
    <2>2. made' \subseteq Objects
        <3>1. CASE made' = made
            BY <1>1, <3>1 DEF StoreTypes
        <3>2. CASE made' # made
            <4>1. made' = made \cup {Part(r)} /\ run[r] \in {"applying", "creating"}
                  /\ todo[r] # <<>>
                <5>1. run[r] = "creating" => todo[r] # <<>>
                    BY <1>1 DEF RunnerInv, ListFits
                <5> QED
                    BY <1>3, <3>2, <5>1
                       DEF MigrationStep, StartRun, FindsNoState, CreatesState, Lists, FindsIndex,
                           CreatesIndex, ChangesSchema, Step, Records, EndsStore, Collides,
                           Cut, End, storeVars
            <4>2. File(r) \in AllFiles
                BY <1>1, <4>1, ListAtHand DEF RunnerInv, FilesOf
            <4>3. part[r] \in 1 .. Len(File(r).parts)
                BY <1>1, <4>1 DEF RunnerInv, PartsMade
            <4>4. Part(r) \in ToSet(File(r).parts)
                BY <4>2, <4>3, FileFacts DEF Part, ToSet
            <4> QED
                BY <1>1, <4>1, <4>2, <4>4 DEF StoreTypes, Objects
        <3> QED
            BY <3>1, <3>2
    <2>3. records' \in [AllFiles -> Nat]
        <3>1. CASE Records(r)
            <4>1. File(r) \in AllFiles
                BY <1>1, <3>1, ListAtHand DEF RunnerInv, ListFits, Records, FilesOf
            <4> DEFINE n == IF store[r] = "opensearch" THEN 1 ELSE records[File(r)] + 1
            <4>2. records' = [records EXCEPT ![File(r)] = n]
                BY <3>1 DEF Records
            <4>3. records \in [AllFiles -> Nat]
                BY <1>1 DEF StoreTypes
            <4>4. n \in Nat
                BY <4>1, <4>3
            <4> HIDE DEF n
            <4> QED
                BY <4>2, <4>3, <4>4
        <3>2. CASE ~Records(r)
            BY <1>1, <1>3, <3>2
               DEF MigrationStep, StartRun, FindsNoState, CreatesState, Lists, FindsIndex,
                   CreatesIndex, ChangesSchema, Step, EndsStore, Collides, Cut, End,
                   StoreTypes, storeVars
        <3> QED
            BY <3>1, <3>2
    <2> QED
        BY <2>1, <2>2, <2>3 DEF StoreTypes
<1> QED
    BY <1>2, <1>3 DEF MigrationNext

\* What is recorded stays made and recorded in order.
LEMMA InOrderStep ==
    MigrationInv /\ [MigrationNext]_migrationVars => RecordsInOrder'
<1> SUFFICES ASSUME MigrationInv, [MigrationNext]_migrationVars PROVE RecordsInOrder'
    OBVIOUS
<1>1. StoreTypes /\ RecordsInOrder /\ StoresGrow /\ \A q \in Runners : RunnerInv(q)
    BY RunnersStep DEF MigrationInv
<1>2. ASSUME NEW f \in AllFiles, records[f] > 0
      PROVE  /\ ToSet(f.parts) \subseteq made'
             /\ \A g \in FilesOf(f.store) : g.version < f.version => records'[g] > 0
    BY <1>1, <1>2 DEF RecordsInOrder, StoresGrow, FilesOf
<1>3. CASE \A f \in AllFiles : records'[f] > 0 => records[f] > 0
    BY <1>2, <1>3 DEF RecordsInOrder
<1>4. CASE ~ \A f \in AllFiles : records'[f] > 0 => records[f] > 0
    <2>1. PICK r \in Runners : Records(r)
        BY <1>4
           DEF MigrationNext, MigrationStep, StartRun, FindsNoState, CreatesState, Lists,
               FindsIndex, CreatesIndex, ChangesSchema, Step, EndsStore, Collides, Cut, End,
               storeVars, migrationVars
    <2>2. ListFits(r) /\ PartsMade(r) /\ PassesRecorded(r) /\ todo[r] # <<>>
        BY <1>1, <2>1 DEF RunnerInv, ListFits, Records
    <2> DEFINE F == File(r)
    <2>3. /\ F \in FilesOf(store[r])
          /\ ToSet(todo[r]) = {F} \cup ToSet(Tail(todo[r]))
          /\ \A g \in ToSet(Tail(todo[r])) : F.version < g.version
        BY <2>2, ListAtHand
    <2>4. ToSet(F.parts) \subseteq made
        BY <2>1, <2>2 DEF Records, PartsMade
    <2>5. \A f \in AllFiles \ {F} : records'[f] = records[f]
        BY <1>1, <2>1 DEF Records, StoreTypes
    <2> HIDE DEF F
    <2>6. ASSUME NEW g \in FilesOf(F.store), g.version < F.version PROVE records'[g] > 0
        <3>1. F.version \in Nat /\ g.version \in Nat /\ g \in AllFiles /\ g.store = store[r]
            BY <2>3, <2>6, FileFacts DEF FilesOf
        <3>2. g \notin ToSet(todo[r])
            BY <2>3, <2>6, <3>1
        <3>3. IsPast(r, g)
            BY <2>1, <3>1, <3>2 DEF IsPast, Records
        <3> QED
            BY <1>1, <2>2, <3>1, <3>3 DEF PassesRecorded, StoresGrow
    <2>7. made' = made
        BY <2>1 DEF Records
    <2>8. SUFFICES ASSUME NEW f \in AllFiles, records'[f] > 0
                   PROVE  /\ ToSet(f.parts) \subseteq made'
                          /\ \A g \in FilesOf(f.store) : g.version < f.version => records'[g] > 0
        BY DEF RecordsInOrder
    <2>9. CASE f = F
        BY <2>4, <2>6, <2>7, <2>9
    <2>10. CASE f # F
        BY <1>2, <2>5, <2>8, <2>10
    <2> QED
        BY <2>9, <2>10
<1> QED
    BY <1>3, <1>4

\* A runner does not record a file twice unless it met another.
LEMMA OneRecordStep ==
    MigrationInv /\ [MigrationNext]_migrationVars => OneRecord'
<1> SUFFICES ASSUME MigrationInv, [MigrationNext]_migrationVars PROVE OneRecord'
    OBVIOUS
<1>1. StoreTypes /\ OneRecord /\ \A q \in Runners : RunnerInv(q)
    BY DEF MigrationInv
<1>2. CASE UNCHANGED migrationVars
    BY <1>1, <1>2 DEF migrationVars, storeVars, runVars, OneRecord, AtWork
<1>3. ASSUME NEW r \in Runners, MigrationStep(r) PROVE OneRecord'
    <2>1. /\ \A q \in Runners \ {r} : run'[q] = run[q] /\ todo'[q] = todo[q]
          /\ raced => raced'
        <3>1. \A q \in Runners \ {r} : run'[q] = run[q] /\ todo'[q] = todo[q]
            BY <1>1, <1>3
               DEF MigrationStep, StartRun, FindsNoState, CreatesState, Lists, FindsIndex,
                   CreatesIndex, ChangesSchema, Step, NextPart, Records, EndsStore, Collides,
                   Cut, End, GoTo, StoreTypes
        <3>2. StartRun(r) \/ raced' = raced
            BY <1>3
               DEF MigrationStep, FindsNoState, CreatesState, Lists, FindsIndex, CreatesIndex,
                   ChangesSchema, Step, Records, EndsStore, Collides, Cut, End
        <3>3. raced => raced'
            BY <3>2 DEF StartRun
        <3> QED
            BY <3>1, <3>3
    <2>2. AtWork(r) \/ StartRun(r)
        BY <1>3
           DEF MigrationStep, FindsNoState, CreatesState, Lists, FindsIndex, CreatesIndex,
               ChangesSchema, Step, Records, EndsStore, Collides, Cut, AtWork
    <2>3. ~raced' => \A q \in Runners \ {r} : ~AtWork(q)
        <3>1. CASE AtWork(r)
            BY <1>1, <2>1, <3>1 DEF OneRecord
        <3>2. CASE StartRun(r)
            BY <3>2 DEF StartRun
        <3> QED
            BY <2>2, <3>1, <3>2
    <2>4. ASSUME ~raced' PROVE \A q \in Runners \ {r} : ~AtWork(q)' /\ todo'[q] = <<>>
        <3>1. \A q \in Runners \ {r} : ~AtWork(q) /\ todo[q] = <<>>
            BY <1>1, <2>3, <2>4 DEF RunnerInv, ListFits, Working, AtWork
        <3> QED
            BY <2>1, <3>1 DEF AtWork
    <2>5. ~raced' => \A p, q \in Runners : AtWork(p)' /\ AtWork(q)' => p = q
        BY <2>4
    <2>6. ToSet(<<>>) = {}
        BY DEF ToSet
    <2>7. CASE Records(r)
        <3>1. /\ ListFits(r) /\ todo[r] # <<>> /\ raced' = raced
              /\ todo'[r] = Tail(todo[r])
            BY <1>1, <2>7 DEF RunnerInv, ListFits, Records, StoreTypes
        <3> DEFINE F == File(r)
        <3>2. /\ F \in AllFiles /\ F.store = store[r]
              /\ ToSet(todo[r]) = {F} \cup ToSet(Tail(todo[r]))
              /\ \A g \in ToSet(Tail(todo[r])) : F.version < g.version
            BY <3>1, ListAtHand DEF FilesOf
        <3>3. /\ records'[F] = IF store[r] = "opensearch" THEN 1 ELSE records[F] + 1
              /\ \A f \in AllFiles \ {F} : records'[f] = records[f]
            BY <1>1, <2>7, <3>2 DEF Records, StoreTypes
        <3>4. \A f \in ToSet(Tail(todo[r])) : f # F
            BY <3>2, FileFacts
        <3> HIDE DEF F
        <3>5. \A f \in FilesOf("opensearch") : records'[f] <= 1
            BY <1>1, <3>2, <3>3 DEF OneRecord, FilesOf
        <3>6. ASSUME ~raced'
              PROVE  /\ \A f \in AllFiles : records'[f] <= 1
                     /\ \A q \in Runners : \A f \in ToSet(todo'[q]) :
                            f.store = "neo4j" => records'[f] = 0
            <4>1. F.store = "neo4j" => records[F] = 0
                BY <1>1, <3>1, <3>2, <3>6 DEF OneRecord
            <4>2. F.store \in {"opensearch", "neo4j"}
                BY <3>2, FileFacts
            <4>3. \A f \in AllFiles : records'[f] <= 1
                BY <1>1, <3>1, <3>2, <3>3, <3>6, <4>1, <4>2 DEF OneRecord
            <4>4. \A f \in ToSet(todo'[r]) : f.store = "neo4j" => records'[f] = 0
                <5>1. ToSet(todo[r]) \subseteq AllFiles
                    BY <3>1, ElementsOfList DEF ListFits, FilesOf
                <5> QED
                    BY <1>1, <3>1, <3>2, <3>3, <3>4, <3>6, <5>1 DEF OneRecord
            <4> QED
                BY <2>4, <2>6, <3>6, <4>3, <4>4
        <3> QED
            BY <2>5, <3>5, <3>6 DEF OneRecord
    <2>8. CASE ~Records(r)
        <3>1. records' = records
            BY <1>3, <2>8
               DEF MigrationStep, StartRun, FindsNoState, CreatesState, Lists, FindsIndex,
                   CreatesIndex, ChangesSchema, Step, EndsStore, Collides, Cut, End, storeVars
        <3>2. ASSUME ~raced', NEW f \in ToSet(todo'[r]), f.store = "neo4j" PROVE records[f] = 0
            <4>1. CASE todo'[r] = todo[r]
                BY <1>1, <2>1, <3>2, <4>1 DEF OneRecord
            <4>2. CASE todo'[r] = <<>>
                BY <2>6, <3>2, <4>2
            <4>3. CASE CreatesState(r)
                <5>1. todo'[r] = ByVersion(FilesOf("opensearch"))
                    BY <1>1, <4>3 DEF CreatesState, StoreTypes, FilesOf
                <5>2. f \in FilesOf("opensearch")
                    BY <3>2, <5>1, ByVersionSorts
                <5> QED
                    BY <3>2, <5>2 DEF FilesOf
            <4>4. CASE Lists(r)
                <5> DEFINE S == {g \in AllFiles : g.store = store[r]} \ Applied(store[r])
                <5>1. todo'[r] = ByVersion(S)
                    BY <1>1, <4>4 DEF Lists, StoreTypes, Plan
                <5>2. S \subseteq FilesOf(store[r])
                    BY DEF FilesOf
                <5>3. \A g \in S : g \in AllFiles /\ ~ (records[g] > 0)
                    BY DEF Applied
                <5> HIDE DEF S
                <5>4. f \in S
                    BY <3>2, <5>1, <5>2, ByVersionSorts
                <5>5. records[f] \in Nat /\ ~ (records[f] > 0)
                    BY <1>1, <5>3, <5>4 DEF StoreTypes
                <5> QED
                    BY <5>5
            <4> QED
                BY <1>1, <1>3, <2>8, <4>1, <4>2, <4>3, <4>4
                   DEF MigrationStep, StartRun, FindsNoState, FindsIndex, CreatesIndex,
                       ChangesSchema, Step, EndsStore, Collides, Cut, End, StoreTypes
        <3>3. ~raced' => \A q \in Runners : \A f \in ToSet(todo'[q]) :
                  f.store = "neo4j" => records'[f] = 0
            BY <2>4, <2>6, <3>1, <3>2
        <3> QED
            BY <1>1, <2>1, <2>5, <3>1, <3>3 DEF OneRecord
    <2> QED
        BY <2>7, <2>8
<1> QED
    BY <1>2, <1>3 DEF MigrationNext

\* The empty stores satisfy the invariant.
LEMMA MigrationInitInv == MigrationInit => MigrationInv
<1> SUFFICES ASSUME MigrationInit PROVE MigrationInv
    OBVIOUS
<1> USE DEF MigrationInit
<1>1. StoreTypes
    BY DEF StoreTypes
<1>2. RecordsInOrder
    BY DEF RecordsInOrder
<1>3. ToSet(<<>>) = {}
    BY DEF ToSet
<1>4. OneRecord
    BY <1>3 DEF OneRecord, AtWork, FilesOf
<1>5. ASSUME NEW r \in Runners PROVE RunnerInv(r)
    <2>1. <<>> \in Seq(FilesOf(store[r])) /\ Ascending(<<>>)
        BY DEF Ascending
    <2> QED
        BY <2>1
           DEF RunnerInv, ListFits, PartsMade, PassesRecorded, IsPast, AtWork, Working
<1> QED
    BY <1>1, <1>2, <1>4, <1>5 DEF MigrationInv

\* The inductive invariant of scripts/migrate.py, for any number of runners
\* and files.
THEOREM MigrationInvariant == MigrationSpec => []MigrationInv
<1>1. MigrationInv /\ [MigrationNext]_migrationVars => MigrationInv'
    <2>1. MigrationInv /\ [MigrationNext]_migrationVars => \A r \in Runners : RunnerInv(r)'
        BY RunnersStep
    <2> QED
        BY <2>1, StoreTypesStep, InOrderStep, OneRecordStep DEF MigrationInv
<1> QED
    BY <1>1, MigrationInitInv, PTL DEF MigrationSpec

\* Type correctness: a runner's list is of its store, and it stands at a part
\* of the first file of it.
THEOREM MigrationTypes == MigrationSpec => []MigrationTypeOK
<1>1. MigrationInv => MigrationTypeOK
    <2> SUFFICES ASSUME MigrationInv PROVE MigrationTypeOK
        OBVIOUS
    <2>1. StoreTypes /\ \A r \in Runners : ListFits(r) /\ PartsMade(r)
        BY DEF MigrationInv, RunnerInv
    <2>2. ASSUME NEW r \in Runners
          PROVE  ToSet(todo[r]) \subseteq {f \in AllFiles : f.store = store[r]}
        BY <2>1, ElementsOfList DEF ListFits, FilesOf
    <2>3. ASSUME NEW r \in Runners, todo[r] # <<>> PROVE part[r] \in DOMAIN File(r).parts
        <3>1. File(r) \in AllFiles
            BY <2>1, <2>3, ListAtHand DEF FilesOf
        <3> QED
            BY <2>1, <2>3, <3>1, FileFacts DEF PartsMade
    <2> QED
        BY <2>1, <2>2, <2>3 DEF MigrationTypeOK, StoreTypes
<1> QED
    BY <1>1, MigrationInvariant, PTL

\* What either store records is applied in full and follows recorded versions
\* only, and no runner passes over anything else: one that ends leaves every
\* file applied, whoever was cut off and whoever ran meanwhile.
THEOREM RecordsTrue == MigrationSpec => []RecordsAreTrue
<1>1. MigrationInv => RecordsAreTrue
    BY DEF MigrationInv, RecordsInOrder, RunnerInv, PassesRecorded, RecordsAreTrue, FilesOf
<1> QED
    BY <1>1, MigrationInvariant, PTL

\* Over any number of cut and repeated runs a file has one record, unless two
\* runners were at work at once.
THEOREM OneRecordEach == MigrationSpec => []RecordedOnce
<1>1. MigrationInv => RecordedOnce
    <2> SUFFICES ASSUME MigrationInv, NEW f \in AllFiles, records[f] > 1, ~raced PROVE FALSE
        BY DEF RecordedOnce
    <2>1. records[f] \in Nat /\ records[f] <= 1
        BY DEF MigrationInv, StoreTypes, OneRecord
    <2> QED
        BY <2>1
<1> QED
    BY <1>1, MigrationInvariant, PTL

-----------------------------------------------------------------------------
(* The limits that VKApiClient keeps, for any number of tasks and tokens,    *)
(* any interval and any number of attempts.                                  *)

\* Who waits for the limiter or sleeps under it is in the queue, who sleeps is
\* its head, and the sleep ends an interval after the last call or later.
QueueIsKept ==
    \A c \in Callers :
        /\ c \in ToSet(lockq) <=> call[c] \in {"queued", "sleeping"}
        /\ call[c] = "sleeping" => HoldsLimiter(c) /\ wake[c] >= last + Interval
        /\ call[c] = "backing off" => attempt[c] < Attempts

\* The spacing of the requests, counted from the last call too.
Spaced ==
    /\ \A j, k \in 1 .. Len(sent) : j < k => sent[k].time - sent[j].time >= (k - j) * Interval
    /\ \A k \in 1 .. Len(sent) : last - sent[k].time >= (Len(sent) - k) * Interval

\* In the round at hand the tokens before index were used once more than the rest.
Even == \E q \in Nat : \A t \in 1 .. Tokens : UsesOf(t) = IF t < index THEN q + 1 ELSE q

CallsInv == CallsTypeOK /\ QueueIsKept /\ Spaced /\ Even
-----------------------------------------------------------------------------
\* What leaving does to a queue in which nobody stands twice.
LEMMA LeaveQueueProperties ==
    ASSUME NEW S, NEW q \in Seq(S), IsInjective(q), NEW c
    PROVE  /\ LeaveQueue(q, c) \in Seq(S)
           /\ IsInjective(LeaveQueue(q, c))
           /\ \A d : d \in ToSet(LeaveQueue(q, c)) <=> d \in ToSet(q) /\ d # c
           /\ \A d : q # <<>> /\ Head(q) = d /\ d # c =>
                  LeaveQueue(q, c) # <<>> /\ Head(LeaveQueue(q, c)) = d
<1>1. CASE c \notin ToSet(q)
    BY <1>1 DEF LeaveQueue
<1>2. CASE c \in ToSet(q)
    <2> DEFINE k == CHOOSE k \in DOMAIN q : q[k] = c
               r == LeaveQueue(q, c)
    <2>1. k \in 1 .. Len(q) /\ q[k] = c
        BY <1>2 DEF ToSet
    <2>2. r = SubSeq(q, 1, k - 1) \o SubSeq(q, k + 1, Len(q))
        BY <1>2 DEF LeaveQueue, RemoveAt
    <2> HIDE DEF k
    <2>3. /\ r \in Seq(S) /\ Len(r) = Len(q) - 1
          /\ \A i \in 1 .. Len(q) - 1 : r[i] = IF i < k THEN q[i] ELSE q[i + 1]
        <3> DEFINE q1 == SubSeq(q, 1, k - 1)
                   q2 == SubSeq(q, k + 1, Len(q))
        <3>1. q1 \in Seq(S) /\ Len(q1) = k - 1 /\ \A i \in 1 .. k - 1 : q1[i] = q[i]
            BY <2>1, SubSeqProperties
        <3>2. /\ q2 \in Seq(S) /\ Len(q2) = Len(q) - k
              /\ \A i \in 1 .. Len(q) - k : q2[i] = q[k + i]
            BY <2>1, SubSeqProperties
        <3> HIDE DEF q1, q2
        <3>3. r = q1 \o q2
            BY <2>2 DEF q1, q2
        <3> HIDE DEF r
        <3>4. /\ r \in Seq(S) /\ Len(r) = Len(q1) + Len(q2)
              /\ \A i \in 1 .. Len(q1) + Len(q2) :
                     r[i] = IF i <= Len(q1) THEN q1[i] ELSE q2[i - Len(q1)]
            BY <3>1, <3>2, <3>3, ConcatProperties, Zenon
        <3>5. Len(r) = Len(q) - 1
            BY <2>1, <3>1, <3>2, <3>4
        <3>6. ASSUME NEW i \in 1 .. Len(q) - 1 PROVE r[i] = IF i < k THEN q[i] ELSE q[i + 1]
            <4>1. CASE i < k
                <5>1. i \in 1 .. k - 1 /\ i \in 1 .. Len(q1) + Len(q2) /\ i <= Len(q1)
                    BY <2>1, <3>1, <3>2, <4>1
                <5> QED
                    BY <3>1, <3>4, <4>1, <5>1, Zenon
            <4>2. CASE ~(i < k)
                <5>1. i - (k - 1) \in 1 .. Len(q) - k /\ k + (i - (k - 1)) = i + 1
                    BY <2>1, <4>2
                <5>2. Len(q1) = k - 1 /\ i \in 1 .. Len(q1) + Len(q2) /\ ~(i <= Len(q1))
                    BY <2>1, <3>1, <3>2, <4>2
                <5>3. r[i] = q2[i - Len(q1)]
                    BY <3>4, <5>2, Zenon
                <5> QED
                    BY <3>2, <4>2, <5>1, <5>2, <5>3
            <4> QED
                BY <4>1, <4>2
        <3> QED
            BY <3>4, <3>5, <3>6
    <2> HIDE DEF r
    <2>4. \A i, j \in 1 .. Len(q) : q[i] = q[j] => i = j
        BY DEF IsInjective
    <2>5. IsInjective(r)
        BY <2>1, <2>3, <2>4 DEF IsInjective
    <2>6. ASSUME NEW d, d \in ToSet(r) PROVE d \in ToSet(q) /\ d # c
        <3>1. PICK i \in 1 .. Len(q) - 1 : r[i] = d
            BY <2>3, <2>6 DEF ToSet
        <3>2. PICK j \in 1 .. Len(q) : q[j] = d /\ j # k
            BY <2>1, <2>3, <3>1
        <3> QED
            BY <2>1, <2>4, <3>2 DEF ToSet
    <2>7. ASSUME NEW d, d \in ToSet(q), d # c PROVE d \in ToSet(r)
        <3>1. PICK j \in 1 .. Len(q) : q[j] = d
            BY <2>7 DEF ToSet
        <3>2. j # k
            BY <2>1, <2>7, <3>1
        <3>3. \E i \in 1 .. Len(q) - 1 : r[i] = d
            <4>1. CASE j < k
                BY <2>1, <2>3, <3>1, <4>1
            <4>2. CASE j > k
                <5>1. j - 1 \in 1 .. Len(q) - 1 /\ r[j - 1] = d
                    BY <2>1, <2>3, <3>1, <4>2
                <5> QED
                    BY <5>1
            <4> QED
                BY <2>1, <3>2, <4>1, <4>2
        <3> QED
            BY <2>3, <3>3 DEF ToSet
    <2>8. ASSUME NEW d, q # <<>>, Head(q) = d, d # c PROVE r # <<>> /\ Head(r) = d
        <3>1. Len(q) \in Nat \ {0} /\ q[1] = d
            BY <2>8
        <3>2. k > 1
            BY <2>1, <2>8, <3>1
        <3>3. Len(r) > 0 /\ r[1] = d
            BY <2>1, <2>3, <3>1, <3>2
        <3> QED
            BY <2>3, <3>3
    <2> QED
        BY <2>3, <2>5, <2>6, <2>7, <2>8 DEF r
<1> QED
    BY <1>1, <1>2

\* What joining does to a queue in which the newcomer does not stand yet.
LEMMA JoinQueueProperties ==
    ASSUME NEW S, NEW q \in Seq(S), IsInjective(q), NEW c \in S, c \notin ToSet(q)
    PROVE  /\ Append(q, c) \in Seq(S)
           /\ IsInjective(Append(q, c))
           /\ \A d : d \in ToSet(Append(q, c)) <=> d \in ToSet(q) \/ d = c
           /\ \A d : q # <<>> /\ Head(q) = d => Append(q, c) # <<>> /\ Head(Append(q, c)) = d
<1> DEFINE r == Append(q, c)
<1>1. /\ r \in Seq(S) /\ Len(r) = Len(q) + 1 /\ r[Len(q) + 1] = c
      /\ \A i \in 1 .. Len(q) : r[i] = q[i]
    OBVIOUS
<1> HIDE DEF r
<1>2. /\ \A i, j \in 1 .. Len(q) : q[i] = q[j] => i = j
      /\ \A i \in 1 .. Len(q) : q[i] # c
    BY DEF IsInjective, ToSet
<1>3. IsInjective(r)
    BY <1>1, <1>2 DEF IsInjective
<1>4. \A d : d \in ToSet(r) <=> d \in ToSet(q) \/ d = c
    <2>1. DOMAIN r = 1 .. Len(q) + 1 /\ DOMAIN q = 1 .. Len(q) /\ Len(q) + 1 \in 1 .. Len(q) + 1
        BY <1>1
    <2> QED
        BY <1>1, <2>1 DEF ToSet
<1>5. \A d : q # <<>> /\ Head(q) = d => r # <<>> /\ Head(r) = d
    <2>1. ASSUME NEW d, q # <<>>, Head(q) = d PROVE r # <<>> /\ Head(r) = d
        <3>1. Len(q) \in Nat \ {0} /\ q[1] = d
            BY <2>1
        <3>2. Len(r) > 0 /\ r[1] = d
            BY <1>1, <3>1
        <3> QED
            BY <1>1, <3>2
    <2> QED
        BY <2>1
<1> QED
    BY <1>1, <1>3, <1>4, <1>5 DEF r

\* The invariant holds at the start.
LEMMA CallsInitInv == CallsInit => CallsInv
<1> SUFFICES ASSUME CallsInit PROVE CallsInv
    OBVIOUS
<1> USE DEF CallsInit
<1>1. CallsTypeOK
    BY PaceAssumption DEF CallsTypeOK, IsInjective
<1>2. QueueIsKept
    BY DEF QueueIsKept, ToSet
<1>3. Spaced
    BY DEF Spaced
<1>4. Even
    <2>1. \A t : UsesOf(t) = 0
        <3>1. \A t : {k \in DOMAIN sent : sent[k].token = t} = {}
            OBVIOUS
        <3> QED
            BY <3>1, FS_EmptySet DEF UsesOf
    <2> QED
        BY <2>1 DEF Even
<1> QED
    BY <1>1, <1>2, <1>3, <1>4 DEF CallsInv

\* The clock and the constants are integers, the last call is not ahead of now.
LEMMA Times ==
    ASSUME CallsTypeOK
    PROVE  /\ clock \in Int /\ last \in Int /\ 0 <= last /\ last <= clock /\ clock <= MaxTime
           /\ Interval \in Int /\ Interval > 0 /\ MaxTime \in Int
           /\ Tokens \in Int /\ Tokens > 0 /\ Attempts \in Int /\ Attempts > 0
<1>1. /\ Interval \in Int /\ Interval > 0 /\ MaxTime \in Int
      /\ Tokens \in Int /\ Tokens > 0 /\ Attempts \in Int /\ Attempts > 0
    BY PaceAssumption
<1>2. clock \in 0 .. MaxTime /\ last \in 0 .. clock
    BY DEF CallsTypeOK
<1> QED
    BY <1>1, <1>2

\* Steps that send nothing leave the tallies alone.
LEMMA NothingSent ==
    ASSUME CallsInv, UNCHANGED <<last, index, sent>>
    PROVE  Spaced' /\ Even'
BY DEF CallsInv, Spaced, Even, UsesOf

\* Joining the queue keeps the invariant.
LEMMA AcquireInv ==
    ASSUME CallsInv, NEW c \in Callers, Acquire(c)
    PROVE  CallsInv'
<1> USE DEF CallsInv
<1>1. lockq \in Seq(Callers) /\ IsInjective(lockq) /\ c \notin ToSet(lockq)
    BY DEF CallsTypeOK, QueueIsKept, Acquire
<1>2. /\ lockq' \in Seq(Callers) /\ IsInjective(lockq')
      /\ \A d : d \in ToSet(lockq') <=> d \in ToSet(lockq) \/ d = c
      /\ \A d : HoldsLimiter(d) => HoldsLimiter(d)'
    BY <1>1, JoinQueueProperties DEF Acquire, HoldsLimiter
<1>3. CallsTypeOK'
    <2>1. attempt' \in [Callers -> 1 .. Attempts]
        <3>1. attempt \in [Callers -> 1 .. Attempts] 
            BY DEF CallsTypeOK
        <3>2. 1 \in 1 .. Attempts
            BY Times
        <3>3. call[c] # "idle" => attempt[c] + 1 \in 1 .. Attempts
            <4>1. attempt[c] \in 1 .. Attempts
                BY <3>1
            <4>2. call[c] # "idle" => attempt[c] < Attempts
                BY DEF QueueIsKept, Acquire
            <4> QED
                BY <4>1, <4>2, Times
        <3> QED
            BY <3>1, <3>2, <3>3 DEF Acquire
    <2>2. call' \in [Callers -> {"idle", "queued", "sleeping", "sent", "backing off"}]
        BY DEF CallsTypeOK, Acquire
    <2> QED
        BY <1>2, <2>1, <2>2 DEF CallsTypeOK, Acquire
<1>4. QueueIsKept'
    BY <1>2 DEF CallsTypeOK, QueueIsKept, Acquire
<1> QED
    BY <1>3, <1>4, NothingSent DEF Acquire

\* Falling asleep at the head of the queue keeps the invariant.
LEMMA SleepsInv ==
    ASSUME CallsInv, NEW c \in Callers, Sleeps(c)
    PROVE  CallsInv'
<1> USE DEF CallsInv
<1>1. Wait \in 1 .. Interval /\ clock + Wait = last + Interval
    BY Times DEF Sleeps, Wait
<1>2. CallsTypeOK'
    <2>1. clock + Wait \in 0 .. MaxTime + Interval
        BY <1>1, Times
    <2>2. wake' \in [Callers -> 0 .. MaxTime + Interval]
        BY <2>1 DEF CallsTypeOK, Sleeps
    <2>3. call' \in [Callers -> {"idle", "queued", "sleeping", "sent", "backing off"}]
        BY DEF CallsTypeOK, Sleeps
    <2> QED
        BY <2>2, <2>3 DEF CallsTypeOK, Sleeps
<1>3. QueueIsKept'
    <2>1. wake'[c] = last + Interval /\ HoldsLimiter(c) /\ c \in ToSet(lockq) /\ call'[c] = "sleeping"
        BY <1>1 DEF CallsTypeOK, QueueIsKept, Sleeps
    <2>2. \A d \in Callers \ {c} : wake'[d] = wake[d] /\ call'[d] = call[d]
        BY DEF CallsTypeOK, Sleeps
    <2>3. last + Interval >= last + Interval
        BY Times
    <2>4. UNCHANGED <<last, lockq, attempt>>
        BY DEF Sleeps
    <2> QED
        BY <2>1, <2>2, <2>3, <2>4 DEF QueueIsKept, HoldsLimiter
<1> QED
    BY <1>2, <1>3, NothingSent DEF Sleeps

\* An answer, a retry, or the end of a task.
LEMMA ReturnInv ==
    ASSUME CallsInv, NEW c \in Callers, ReturnData(c) \/ Retry(c)
    PROVE  CallsInv'
<1> USE DEF CallsInv
<1>1. call' \in [Callers -> {"idle", "queued", "sleeping", "sent", "backing off"}]
    BY DEF CallsTypeOK, ReturnData, Retry
<1>2. CallsTypeOK'
    BY <1>1 DEF CallsTypeOK, ReturnData, Retry
<1>3. QueueIsKept'
    <2>1. /\ call[c] = "sent" /\ call'[c] \in {"idle", "backing off"}
          /\ call'[c] = "backing off" => attempt[c] < Attempts
          /\ \A d \in Callers \ {c} : call'[d] = call[d]
          /\ UNCHANGED <<last, lockq, attempt, wake>>
        BY DEF CallsTypeOK, ReturnData, Retry
    <2> QED
        BY <2>1 DEF QueueIsKept, HoldsLimiter
<1> QED
    BY <1>2, <1>3, NothingSent DEF ReturnData, Retry

\* Leaving the queue when cancelled keeps the invariant.
LEMMA CancelInv ==
    ASSUME CallsInv, NEW c \in Callers, CancelCall(c)
    PROVE  CallsInv'
<1> USE DEF CallsInv
<1>1. lockq \in Seq(Callers) /\ IsInjective(lockq)
    BY DEF CallsTypeOK
<1>2. /\ lockq' \in Seq(Callers) /\ IsInjective(lockq')
      /\ \A d : d \in ToSet(lockq') <=> d \in ToSet(lockq) /\ d # c
      /\ \A d : HoldsLimiter(d) /\ d # c => HoldsLimiter(d)'
    BY <1>1, LeaveQueueProperties DEF CancelCall, HoldsLimiter
<1>3. CallsTypeOK'
    <2>1. call' \in [Callers -> {"idle", "queued", "sleeping", "sent", "backing off"}]
        BY DEF CallsTypeOK, CancelCall
    <2> QED
        BY <1>2, <2>1 DEF CallsTypeOK, CancelCall
<1>4. QueueIsKept'
    <2>1. /\ call'[c] = "idle" /\ \A d \in Callers \ {c} : call'[d] = call[d]
          /\ UNCHANGED <<last, attempt, wake>>
        BY DEF CallsTypeOK, CancelCall
    <2> QED
        BY <1>2, <2>1 DEF QueueIsKept
<1> QED
    BY <1>3, <1>4, NothingSent DEF CancelCall

\* One request more adds one interval.
LEMMA OneMore == \A n, k \in Int : (n + 1 - k) * Interval = (n - k) * Interval + Interval
BY PaceAssumption

\* The request comes an interval after the last call, and its sender was the
\* head of the queue, so nobody else sleeps.
LEMMA SendIsDue ==
    ASSUME CallsInv, NEW c \in Callers, Send(c)
    PROVE  /\ HoldsLimiter(c)
           /\ \A d \in Callers \ {c} : call[d] # "sleeping"
           /\ clock >= last + Interval
<1> USE DEF CallsInv
<1>1. HoldsLimiter(c)
    BY DEF Send, QueueIsKept
<1>2. \A d \in Callers \ {c} : call[d] # "sleeping"
    BY <1>1 DEF QueueIsKept, HoldsLimiter
<1>3. CASE call[c] = "queued"
    <2>1. Wait <= 0
        BY <1>3 DEF Send
    <2> QED
        BY <1>1, <1>2, <2>1, Times DEF Wait
<1>4. CASE call[c] = "sleeping"
    <2>1. clock >= wake[c] /\ wake[c] >= last + Interval
        BY <1>4 DEF Send, QueueIsKept
    <2>2. wake[c] \in Int
        <3>1. wake \in [Callers -> 0 .. MaxTime + Interval]
            BY DEF CallsTypeOK
        <3>2. wake[c] \in 0 .. MaxTime + Interval
            BY <3>1
        <3> QED
            BY <3>2
    <2> QED
        BY <1>1, <1>2, <2>1, <2>2, Times
<1> QED
    BY <1>3, <1>4 DEF Send

\* The history is a sequence of times and tokens, and grows by now and index.
LEMMA SentGrows ==
    ASSUME CallsTypeOK
    PROVE  /\ Len(sent) \in Nat /\ DOMAIN sent = 1 .. Len(sent)
           /\ \A k \in 1 .. Len(sent) : sent[k].time \in Int
           /\ \A c \in Callers : Send(c) =>
                 /\ sent' \in Seq([time : 0 .. MaxTime, token : 1 .. Tokens])
                 /\ Len(sent') = Len(sent) + 1 /\ DOMAIN sent' = 1 .. Len(sent) + 1
                 /\ sent'[Len(sent) + 1].time = clock /\ sent'[Len(sent) + 1].token = index
                 /\ \A k \in 1 .. Len(sent) : sent'[k] = sent[k]
<1> DEFINE Stamped == [time : 0 .. MaxTime, token : 1 .. Tokens]
           now == [time |-> clock, token |-> index]
<1>1. sent \in Seq(Stamped) /\ now \in Stamped
    BY Times DEF CallsTypeOK
<1>2. \A r \in Stamped : r.time \in Int
    OBVIOUS
<1>3. /\ Append(sent, now) \in Seq(Stamped)
      /\ Len(Append(sent, now)) = Len(sent) + 1
      /\ \A k \in 1 .. Len(sent) : Append(sent, now)[k] = sent[k]
      /\ Append(sent, now)[Len(sent) + 1] = now
    BY <1>1, AppendProperties
<1>4. \A c \in Callers : Send(c) => sent' = Append(sent, now)
    BY DEF Send
<1>5. now.time = clock /\ now.token = index
    OBVIOUS
<1> HIDE DEF Stamped, now
<1>6. /\ Len(sent) \in Nat /\ DOMAIN sent = 1 .. Len(sent)
      /\ \A k \in 1 .. Len(sent) : sent[k] \in Stamped
    BY <1>1
<1>7. DOMAIN Append(sent, now) = 1 .. Len(sent) + 1
    BY <1>3
<1> QED
    BY <1>2, <1>3, <1>4, <1>5, <1>6, <1>7 DEF Stamped

\* A request keeps the types and the queue.
LEMMA SendTypes ==
    ASSUME CallsInv, NEW c \in Callers, Send(c)
    PROVE  CallsTypeOK' /\ QueueIsKept'
<1> USE DEF CallsInv
<1>1. lockq \in Seq(Callers) /\ IsInjective(lockq)
    BY DEF CallsTypeOK
<1>2. /\ lockq' \in Seq(Callers) /\ IsInjective(lockq')
      /\ \A d : d \in ToSet(lockq') <=> d \in ToSet(lockq) /\ d # c
    BY <1>1, LeaveQueueProperties DEF Send
<1>3. call' \in [Callers -> {"idle", "queued", "sleeping", "sent", "backing off"}]
    BY DEF CallsTypeOK, Send
<1>4. clock' \in 0 .. MaxTime /\ last' \in 0 .. clock' /\ clock \in 0 .. MaxTime
    <2>1. clock' = clock /\ last' = clock
        BY DEF Send
    <2> QED
        BY <2>1, Times
<1>5. index \in 1 .. Tokens /\ index' \in 1 .. Tokens
    <2>1. index \in 1 .. Tokens /\ index' = (index % Tokens) + 1
        BY DEF Send, CallsTypeOK, After
    <2> QED
        BY <2>1, Times
<1>6. sent' \in Seq([time : 0 .. MaxTime, token : 1 .. Tokens])
    BY SentGrows
<1>7. CallsTypeOK'
    BY <1>2, <1>3, <1>4, <1>5, <1>6 DEF CallsTypeOK, Send
<1>8. QueueIsKept'
    <2>1. /\ call'[c] = "sent" /\ \A d \in Callers \ {c} : call'[d] = call[d]
          /\ UNCHANGED attempt
        BY DEF CallsTypeOK, Send
    <2> QED
        BY <1>2, <2>1, SendIsDue DEF QueueIsKept
<1> QED
    BY <1>7, <1>8

\* A request is an interval after the one before.
LEMMA SendSpaced ==
    ASSUME CallsInv, NEW c \in Callers, Send(c)
    PROVE  Spaced'
<1> USE DEF CallsInv
<1> DEFINE n == Len(sent)
<1>1. /\ n \in Nat /\ Len(sent') = n + 1 /\ sent'[n + 1].time = clock
      /\ \A k \in 1 .. n : sent'[k] = sent[k] /\ sent[k].time \in Int
    BY SentGrows
<1> HIDE DEF n
<1>2. last' = clock /\ clock >= last + Interval
    BY SendIsDue DEF Send
<1>3. \A k \in 1 .. n : last - sent[k].time >= (n - k) * Interval
    BY DEF Spaced, n
<1>4. ASSUME NEW k \in 1 .. n PROVE clock - sent'[k].time >= (n + 1 - k) * Interval
    <2>1. n \in Int /\ k \in Int /\ n - k \in Int
        BY <1>1
    <2>2. (n + 1 - k) * Interval = (n - k) * Interval + Interval
        BY <2>1, OneMore, Zenon
    <2>3. (n - k) * Interval \in Int
        BY <2>1, Times
    <2>4. clock - sent[k].time >= (n - k) * Interval + Interval
        <3>1. last - sent[k].time >= (n - k) * Interval /\ sent[k].time \in Int
            BY <1>1, <1>3
        <3> DEFINE x == (n - k) * Interval
        <3> HIDE DEF x
        <3>2. clock - sent[k].time >= x + Interval
            BY <1>2, <2>3, <3>1, Times DEF x
        <3> QED
            BY <3>2 DEF x
    <2> QED
        <3>1. sent'[k] = sent[k]
            BY <1>1
        <3> QED
            BY <2>2, <2>4, <3>1, Zenon
<1>5. 0 * Interval = 0 /\ clock - clock = 0 /\ (n + 1) - (n + 1) = 0
    BY <1>1, Times
<1>6. \A k \in 1 .. n + 1 : last' - sent'[k].time >= (n + 1 - k) * Interval
    <2>1. ASSUME NEW k \in 1 .. n + 1 PROVE last' - sent'[k].time >= (n + 1 - k) * Interval
        <3>1. CASE k = n + 1
            <4>1. last' - sent'[k].time = 0 /\ (n + 1 - k) * Interval = 0
                BY <1>1, <1>2, <1>5, <3>1
            <4> QED
                BY <4>1
        <3>2. CASE k # n + 1
            <4>1. k \in 1 .. n
                BY <1>1, <3>2
            <4> QED
                BY <1>2, <1>4, <4>1
        <3> QED
            BY <3>1, <3>2
    <2> QED
        BY <2>1
<1>7. \A j, k \in 1 .. n + 1 : j < k => sent'[k].time - sent'[j].time >= (k - j) * Interval
    <2>1. ASSUME NEW j \in 1 .. n + 1, NEW k \in 1 .. n + 1, j < k
          PROVE  sent'[k].time - sent'[j].time >= (k - j) * Interval
        <3>1. j \in 1 .. n
            BY <1>1, <2>1
        <3>2. CASE k = n + 1
            BY <1>1, <1>4, <3>1, <3>2
        <3>3. CASE k # n + 1
            <4>1. k \in 1 .. n
                BY <1>1, <3>3
            <4>2. sent[k].time - sent[j].time >= (k - j) * Interval
                BY <2>1, <3>1, <4>1 DEF Spaced, n
            <4> QED
                BY <1>1, <3>1, <4>1, <4>2
        <3> QED
            BY <3>2, <3>3
    <2> QED
        BY <2>1
<1> QED
    <2>1. Len(sent') = n + 1
        BY <1>1
    <2>2. \A k \in 1 .. Len(sent') : last' - sent'[k].time >= (Len(sent') - k) * Interval
        <3>1. ASSUME NEW k \in 1 .. Len(sent')
              PROVE  last' - sent'[k].time >= (Len(sent') - k) * Interval
            <4>1. k \in 1 .. n + 1
                BY <2>1, <3>1, Zenon
            <4>2. last' - sent'[k].time >= (n + 1 - k) * Interval
                BY <1>6, <4>1, Zenon
            <4>3. Len(sent') - k = n + 1 - k
                BY <1>1, <4>1
            <4> QED
                BY <4>2, <4>3, Zenon
        <3> QED
            BY <3>1
    <2>3. \A j, k \in 1 .. Len(sent') : j < k => sent'[k].time - sent'[j].time >= (k - j) * Interval
        BY <1>7, <2>1, Zenon
    <2> QED
        BY <2>2, <2>3, Zenon DEF Spaced

\* A request takes the token that is next in turn.
LEMMA SendEven ==
    ASSUME CallsInv, NEW c \in Callers, Send(c)
    PROVE  Even'
<1> USE DEF CallsInv
<1> DEFINE n == Len(sent)
           Uses(t) == {k \in 1 .. n : sent[k].token = t}
<1>1. /\ n \in Nat
      /\ Len(sent') = n + 1 /\ sent'[n + 1].token = index
      /\ \A k \in 1 .. n : sent'[k] = sent[k]
    BY SentGrows
<1>2. /\ DOMAIN sent = 1 .. n /\ DOMAIN sent' = 1 .. n + 1
      /\ \A k : k \in 1 .. n + 1 <=> k \in 1 .. n \/ k = n + 1
      /\ n + 1 \notin 1 .. n
    BY <1>1, SentGrows
<1> HIDE DEF n
<1>3. \A t : IsFiniteSet(Uses(t)) /\ Cardinality(Uses(t)) \in Nat
    <2>1. n \in Int /\ 1 \in Int
        BY <1>1
    <2>2. IsFiniteSet(1 .. n)
        BY <2>1, FS_Interval
    <2>3. \A t : Uses(t) \in SUBSET (1 .. n)
        OBVIOUS
    <2> HIDE DEF Uses
    <2> QED
        BY <2>2, <2>3, FS_Subset, FS_CardinalityType
<1>4. \A t : UsesOf(t) = Cardinality(Uses(t))
    BY <1>2 DEF UsesOf
<1>5. \A t : {k \in DOMAIN sent' : sent'[k].token = t} =
                 IF t = index THEN Uses(t) \cup {n + 1} ELSE Uses(t)
    BY <1>1, <1>2
<1>6. \A t : n + 1 \notin Uses(t)
    BY <1>2
<1> HIDE DEF Uses
<1>7. \A t : UsesOf(t)' = IF t = index THEN UsesOf(t) + 1 ELSE UsesOf(t)
    <2>1. \A t : UsesOf(t)' = Cardinality(IF t = index THEN Uses(t) \cup {n + 1} ELSE Uses(t))
        BY <1>5 DEF UsesOf
    <2>2. \A t : Cardinality(Uses(t) \cup {n + 1}) = Cardinality(Uses(t)) + 1
        BY <1>3, <1>6, FS_AddElement
    <2> QED
        BY <1>4, <2>1, <2>2
<1>8. index \in 1 .. Tokens /\ index' = IF index = Tokens THEN 1 ELSE index + 1
    <2>1. index \in 1 .. Tokens /\ index' = (index % Tokens) + 1
        BY DEF Send, CallsTypeOK, After
    <2>2. index % Tokens = IF index = Tokens THEN 0 ELSE index
        BY <2>1, Times
    <2> QED
        BY <2>1, <2>2, Times
<1>9. PICK q \in Nat : \A t \in 1 .. Tokens : UsesOf(t) = IF t < index THEN q + 1 ELSE q
    BY DEF Even
<1>10. CASE index = Tokens
    <2>1. \A t \in 1 .. Tokens : UsesOf(t)' = q + 1 /\ ~(t < index')
        BY <1>7, <1>8, <1>9, <1>10, Times
    <2> QED
        BY <2>1 DEF Even
<1>11. CASE index # Tokens
    <2>1. \A t \in 1 .. Tokens : UsesOf(t)' = IF t < index' THEN q + 1 ELSE q
        BY <1>7, <1>8, <1>9, <1>11, Times
    <2> QED
        BY <2>1 DEF Even
<1> QED
    BY <1>10, <1>11

\* The invariant is inductive.
LEMMA CallsStep == CallsInv /\ [CallsNext]_callVars => CallsInv'
<1> SUFFICES ASSUME CallsInv, [CallsNext]_callVars PROVE CallsInv'
    OBVIOUS
<1>1. CASE LetTimePass
    <2>1. clock' \in 0 .. MaxTime /\ last \in 0 .. clock'
        BY <1>1, Times DEF LetTimePass, CallsInv
    <2>2. CallsTypeOK'
        BY <1>1, <2>1 DEF LetTimePass, CallsInv, CallsTypeOK
    <2>3. QueueIsKept'
        BY <1>1 DEF LetTimePass, CallsInv, QueueIsKept, HoldsLimiter
    <2> QED
        BY <1>1, <2>2, <2>3, NothingSent DEF LetTimePass, CallsInv
<1>2. ASSUME NEW c \in Callers,
             Acquire(c) \/ Sleeps(c) \/ Send(c) \/ ReturnData(c) \/ Retry(c) \/ CancelCall(c)
      PROVE  CallsInv'
    <2>1. CASE Send(c)
        BY <2>1, SendTypes, SendSpaced, SendEven DEF CallsInv
    <2> QED
        BY <1>2, <2>1, AcquireInv, SleepsInv, ReturnInv, CancelInv
<1>3. CASE UNCHANGED callVars
    <2>1. CallsTypeOK' /\ QueueIsKept'
        BY <1>3 DEF callVars, CallsInv, CallsTypeOK, QueueIsKept, HoldsLimiter
    <2> QED
        BY <1>3, <2>1, NothingSent DEF callVars, CallsInv
<1> QED
    BY <1>1, <1>2, <1>3 DEF CallsNext

\* The inductive invariant of the VK client, for any number of tasks and tokens.
THEOREM CallsInvariant == CallsSpec => []CallsInv
BY CallsInitInv, CallsStep, PTL DEF CallsSpec

\* The clock, the queue and the history of the requests keep their types,
\* whoever is cancelled where.  (clients/rate_limiter.py, clients/token_pool.py)
THEOREM CallsTypes == CallsSpec => []CallsTypeOK
<1>1. CallsInv => CallsTypeOK
    BY DEF CallsInv
<1> QED
    BY <1>1, CallsInvariant, PTL

\* The requests of all tasks together keep the interval, and no token is used
\* more than once more than another.  (clients/vk_api.py, _call_once)
THEOREM LimitsAreKept == CallsSpec => []CallsKeepLimits
<1>1. CallsInv => CallsKeepLimits
    <2> SUFFICES ASSUME CallsInv PROVE CallsKeepLimits
        OBVIOUS
    <2>1. DOMAIN sent = 1 .. Len(sent)
        BY SentGrows DEF CallsInv
    <2>2. PICK q \in Nat : \A t \in 1 .. Tokens : UsesOf(t) = IF t < index THEN q + 1 ELSE q
        BY DEF CallsInv, Even
    <2>3. \A t, u \in 1 .. Tokens : UsesOf(t) <= UsesOf(u) + 1
        BY <2>2
    <2> QED
        BY <2>1, <2>3 DEF CallsInv, Spaced, CallsKeepLimits
<1> QED
    BY <1>1, CallsInvariant, PTL

-----------------------------------------------------------------------------
(* GET /locations of the API gateway.                                        *)

\* The lesser of two numbers.
LEMMA MinOfTwo ==
    ASSUME NEW a \in Nat, NEW b \in Nat
    PROVE  /\ Min({a, b}) \in Nat /\ Min({a, b}) <= a /\ Min({a, b}) <= b
           /\ Min({a, b}) \in {a, b}
<1>1. \E x \in {a, b} : \A y \in {a, b} : x <= y
    <2>1. CASE a <= b
        BY <2>1
    <2>2. CASE b <= a
        BY <2>2
    <2> QED
        BY <2>1, <2>2
<1> QED
    BY <1>1 DEF Min

\* The texts top() finds are the first of the ranking.
LEMMA ConsideredAreFirst ==
    ASSUME NEW n \in Nat
    PROVE  /\ DOMAIN Considered(n) \subseteq DOMAIN Ranked
           /\ IsFiniteSet(DOMAIN Considered(n)) /\ DOMAIN Considered(n) \subseteq Nat
           /\ ToSet(Considered(n)) = {Ranked[k] : k \in DOMAIN Considered(n)}
           /\ ToSet(Considered(n)) \subseteq ToSet(Ranked)
<1> DEFINE S == ToSet(Ranked)
           m == Min({3 * n, Len(Ranked)})
<1>1. Ranked \in Seq(S) /\ Len(Ranked) \in Nat /\ DOMAIN Ranked = 1 .. Len(Ranked)
    BY PlacesAssumption
<1>2. m \in Nat /\ m <= Len(Ranked)
    BY <1>1, MinOfTwo
<1> HIDE DEF S, m
<1>3. /\ SubSeq(Ranked, 1, m) \in Seq(S) /\ DOMAIN SubSeq(Ranked, 1, m) = 1 .. m
      /\ \A k \in 1 .. m : SubSeq(Ranked, 1, m)[k] = Ranked[k]
    BY <1>1, <1>2
<1>4. /\ DOMAIN Considered(n) = 1 .. m
      /\ \A k \in 1 .. m : Considered(n)[k] = Ranked[k]
    BY <1>3 DEF Considered, m
<1>5. ToSet(Considered(n)) = {Ranked[k] : k \in 1 .. m}
    BY <1>4 DEF ToSet
<1>6. {Ranked[k] : k \in 1 .. m} \subseteq ToSet(Ranked)
    BY <1>1, <1>2 DEF ToSet
<1>7. IsFiniteSet(1 .. m)
    BY <1>2, FS_Interval
<1> QED
    BY <1>1, <1>2, <1>4, <1>5, <1>6, <1>7

\* An answer leaves out a text with coordinates only when it is full of texts
\* mentioned more.
LEMMA ShownIsComplete ==
    ASSUME NEW n \in Nat, NEW m \in Nat, NEW R \in SUBSET DOMAIN Considered(m)
    PROVE  /\ Len(Shown(n, R)) \in Nat /\ Len(Shown(n, R)) <= n
           /\ \A k \in R :
                 \/ Ranked[k] \in ToSet(Shown(n, R))
                 \/ /\ Len(Shown(n, R)) = n
                    /\ ToSet(Shown(n, R)) \subseteq ToSet(SubSeq(Ranked, 1, k - 1))
<1> DEFINE c == Cardinality(R)
           l == Min({n, c})
           s == Shown(n, R)
<1>1. R \in SUBSET Nat /\ R \subseteq DOMAIN Ranked /\ IsFiniteSet(R)
    BY ConsideredAreFirst, FS_Subset
<1>2. /\ c \in Nat
      /\ \A j \in 1 .. c : Nth(R, j) \in R
      /\ \A k \in R : \E i \in 1 .. c :
            Nth(R, i) = k /\ \A j \in 1 .. c : j < i => Nth(R, j) < k
    BY <1>1, NthFits
<1>3. l \in Nat /\ l <= n /\ l <= c /\ l \in {n, c}
    BY <1>2, MinOfTwo
<1>4. s = [j \in 1 .. l |-> Ranked[Nth(R, j)]]
    BY DEF Shown
<1> HIDE DEF c, l, s
<1>5. DOMAIN s = 1 .. l /\ Len(s) = l
    BY <1>3, <1>4
<1>6. ASSUME NEW k \in R
      PROVE  \/ Ranked[k] \in ToSet(s)
             \/ Len(s) = n /\ ToSet(s) \subseteq ToSet(SubSeq(Ranked, 1, k - 1))
    <2>1. PICK i \in 1 .. c : Nth(R, i) = k /\ \A j \in 1 .. c : j < i => Nth(R, j) < k
        BY <1>2
    <2>2. CASE i <= l
        <3>1. i \in 1 .. l /\ s[i] = Ranked[k]
            BY <1>3, <1>4, <2>1, <2>2
        <3> QED
            BY <1>5, <3>1 DEF ToSet
    <2>3. CASE ~ (i <= l)
        <3>1. l = n
            BY <1>2, <1>3, <2>1, <2>3
        <3>2. /\ Ranked \in Seq(ToSet(Ranked)) /\ Len(Ranked) \in Nat
              /\ k \in 1 .. Len(Ranked) /\ DOMAIN Ranked = 1 .. Len(Ranked)
            <4>1. Ranked \in Seq(ToSet(Ranked))
                BY PlacesAssumption
            <4>2. Len(Ranked) \in Nat /\ DOMAIN Ranked = 1 .. Len(Ranked)
                BY <4>1
            <4> QED
                BY <1>1, <4>1, <4>2
        <3> DEFINE front == SubSeq(Ranked, 1, k - 1)
        <3>3. /\ DOMAIN front = 1 .. k - 1
              /\ \A j \in 1 .. k - 1 : front[j] = Ranked[j]
            BY <3>2
        <3> HIDE DEF front
        <3>4. ASSUME NEW j \in 1 .. l PROVE s[j] \in ToSet(front)
            <4>1. j \in 1 .. c /\ j < i
                BY <1>2, <1>3, <2>1, <2>3
            <4>2. Nth(R, j) \in R /\ Nth(R, j) < k
                BY <1>2, <2>1, <4>1
            <4>3. Nth(R, j) \in 1 .. k - 1
                <5>1. Nth(R, j) \in 1 .. Len(Ranked)
                    BY <1>1, <3>2, <4>2
                <5> QED
                    BY <3>2, <4>2, <5>1
            <4>4. s[j] = Ranked[Nth(R, j)]
                BY <1>4
            <4> QED
                BY <3>3, <4>3, <4>4 DEF ToSet
        <3>5. ToSet(s) \subseteq ToSet(front)
            BY <1>5, <3>4 DEF ToSet
        <3> QED
            BY <1>5, <3>1, <3>5 DEF front
    <2> QED
        BY <2>2, <2>3
<1> QED
    BY <1>3, <1>5, <1>6 DEF s
-----------------------------------------------------------------------------
\* The ids a request looks up, and why an id may have no coordinates.
Asked(r) == Range(idOf[r]) \ {NoId}

Excused(q) == Place[q] = NoPlace \/ q \in Blamed

LocationTypes ==
    /\ cache \in [Ids -> Range(Place) \cup {NoPlace, Unknown}]
    /\ request \in [Requests -> {"idle", "looking up", "fetching", "done"}]
    /\ DOMAIN size = Requests /\ DOMAIN idOf = Requests /\ DOMAIN coords = Requests
    /\ DOMAIN fetched = Requests /\ DOMAIN rest = Requests /\ DOMAIN answer = Requests
    /\ failed \in Seq(SUBSET Ids)

\* What a request has at each of its stages.
StageFits(r) ==
    /\ request[r] = "idle" => size[r] = 0 /\ DOMAIN idOf[r] = {}
    /\ request[r] # "idle" =>
          size[r] \in Sizes /\ idOf[r] \in SampleIds(ToSet(Considered(size[r])))
    /\ request[r] \in {"idle", "looking up"} =>
          DOMAIN coords[r] = {} /\ DOMAIN fetched[r] = {} /\ rest[r] = {}
    /\ request[r] # "done" => answer[r] = <<>>
    /\ request[r] = "fetching" => DOMAIN coords[r] \cup DOMAIN fetched[r] = Asked(r)
    /\ request[r] = "done" =>
          /\ DOMAIN coords[r] = Asked(r)
          /\ answer[r] = Shown(size[r], Located(size[r], idOf[r], coords[r]))

\* What a request knows; a None it fetched is one of a batch to come, or has a
\* cause.
DictsFit(r) ==
    /\ DOMAIN coords[r] \subseteq Ids /\ DOMAIN fetched[r] \subseteq Ids
    /\ rest[r] \subseteq DOMAIN fetched[r]
    /\ \A q \in DOMAIN coords[r] : coords[r][q] = NoPlace => Excused(q)
    /\ \A q \in DOMAIN fetched[r] :
          /\ fetched[r][q] \in {Place[q], NoPlace}
          /\ fetched[r][q] = NoPlace => q \in rest[r] \/ Excused(q)

CacheFits == \A q \in Ids : cache[q] = NoPlace => Excused(q)

LocationsInv ==
    LocationTypes /\ CacheFits /\ \A r \in Requests : StageFits(r) /\ DictsFit(r)

\* Who is not served keeps what holds of it, and blame is not taken back.
LEMMA RequestRests ==
    ASSUME NEW r \in Requests, StageFits(r), DictsFit(r), Blamed \subseteq Blamed',
           request'[r] = request[r], size'[r] = size[r], idOf'[r] = idOf[r],
           coords'[r] = coords[r], fetched'[r] = fetched[r], rest'[r] = rest[r],
           answer'[r] = answer[r]
    PROVE  StageFits(r)' /\ DictsFit(r)'
<1>1. \A q : Excused(q) => Excused(q)'
    BY DEF Excused
<1>2. StageFits(r)'
    BY DEF StageFits, Asked
<1>3. DictsFit(r)'
    BY <1>1 DEF DictsFit
<1> QED
    BY <1>2, <1>3

\* The ids a request looks up are ids.
LEMMA AskedAreIds ==
    ASSUME NEW r \in Requests, LocationsInv, request[r] # "idle" PROVE Asked(r) \subseteq Ids
<1>1. idOf[r] \in SampleIds(ToSet(Considered(size[r])))
    BY DEF LocationsInv, StageFits
<1>2. idOf[r] \in [ToSet(Considered(size[r])) -> Ids \cup {NoId}]
    BY <1>1 DEF SampleIds
<1> QED
    BY <1>2 DEF Asked, Range

\* A new request.
LEMMA AskKeeps ==
    ASSUME LocationsInv, NEW r \in Requests, Ask(r) PROVE StageFits(r)' /\ DictsFit(r)'
<1>1. StageFits(r) /\ DictsFit(r) /\ LocationTypes
    BY DEF LocationsInv
<1>2. /\ request[r] = "idle" /\ request'[r] = "looking up"
      /\ size'[r] \in Sizes /\ idOf'[r] \in SampleIds(ToSet(Considered(size'[r])))
      /\ UNCHANGED <<coords, fetched, rest, answer, failed>>
    BY <1>1 DEF Ask, At, LocationTypes
<1>3. StageFits(r)'
    BY <1>1, <1>2 DEF StageFits
<1>4. DictsFit(r)'
    BY <1>1, <1>2 DEF StageFits, DictsFit
<1> QED
    BY <1>3, <1>4

\* The reply to a request whose coordinates are complete.
LEMMA ReplyKeeps ==
    ASSUME LocationsInv, NEW r \in Requests, request[r] \in {"looking up", "fetching"}, Reply(r),
           UNCHANGED <<size, idOf, failed>>, DOMAIN coords' = Requests,
           DOMAIN coords'[r] = Asked(r)
    PROVE  StageFits(r)'
<1>1. StageFits(r) /\ LocationTypes
    BY DEF LocationsInv
<1>2. /\ request'[r] = "done"
      /\ answer'[r] = Shown(size[r], Located(size[r], idOf[r], coords'[r]))
    BY <1>1 DEF Reply, At, LocationTypes
<1>3. size'[r] = size[r] /\ idOf'[r] = idOf[r]
    OBVIOUS
<1>4. Asked(r)' = Asked(r)
    BY <1>3 DEF Asked
<1> QED
    BY <1>1, <1>2, <1>3, <1>4 DEF StageFits

\* What mget answers.
LEMMA GetManyKeeps ==
    ASSUME LocationsInv, NEW r \in Requests, GetMany(r) PROVE StageFits(r)' /\ DictsFit(r)'
<1> DEFINE missing == {q \in Asked(r) : cache[q] = Unknown}
<1>1. StageFits(r) /\ DictsFit(r) /\ LocationTypes /\ CacheFits
    BY DEF LocationsInv
<1>2. /\ request[r] = "looking up" /\ UNCHANGED <<cache, size, idOf, failed>>
      /\ coords' = [coords EXCEPT ![r] = [q \in Asked(r) \ missing |-> cache[q]]]
      /\ fetched' = [fetched EXCEPT ![r] = [q \in missing |-> NoPlace]]
      /\ rest' = [rest EXCEPT ![r] = missing]
      /\ \/ missing = {} /\ Reply(r)
         \/ missing # {} /\ At(r, "fetching") /\ UNCHANGED answer
    BY DEF GetMany, Asked
<1>3. /\ coords'[r] = [q \in Asked(r) \ missing |-> cache[q]] /\ DOMAIN coords' = Requests
      /\ fetched'[r] = [q \in missing |-> NoPlace]
      /\ rest'[r] = missing
    BY <1>1, <1>2 DEF LocationTypes
<1>4. Asked(r) \subseteq Ids /\ missing \subseteq Asked(r)
    BY <1>2, AskedAreIds
<1> HIDE DEF missing
<1>5. StageFits(r)'
    <2>1. CASE Reply(r) /\ missing = {}
        BY <1>2, <1>3, <2>1, ReplyKeeps
    <2>2. CASE At(r, "fetching") /\ UNCHANGED answer
        <3>1. request'[r] = "fetching"
            BY <1>1, <2>2 DEF At, LocationTypes
        <3>2. Asked(r)' = Asked(r) /\ size'[r] = size[r] /\ idOf'[r] = idOf[r]
            BY <1>2 DEF Asked
        <3>3. DOMAIN coords'[r] \cup DOMAIN fetched'[r] = Asked(r)
            BY <1>3, <1>4
        <3>4. answer'[r] = <<>>
            BY <1>1, <1>2, <2>2 DEF StageFits
        <3> QED
            BY <1>1, <1>2, <3>1, <3>2, <3>3, <3>4 DEF StageFits
    <2> QED
        BY <1>2, <2>1, <2>2
<1>6. DictsFit(r)'
    <2>1. \A q : Excused(q)' <=> Excused(q)
        BY <1>2 DEF Excused, Blamed
    <2>2. \A q \in DOMAIN coords'[r] : q \in Ids /\ (coords'[r][q] = NoPlace => Excused(q))
        BY <1>1, <1>3, <1>4 DEF CacheFits
    <2> QED
        BY <1>3, <1>4, <2>1, <2>2 DEF DictsFit
<1> QED
    BY <1>5, <1>6

\* An answer to a batch, or its failure.
LEMMA FetchKeeps ==
    ASSUME LocationsInv, NEW r \in Requests, FetchBatch(r)
    PROVE  StageFits(r)' /\ DictsFit(r)' /\ Blamed \subseteq Blamed'
           /\ failed' \in Seq(SUBSET Ids)
<1>1. StageFits(r) /\ DictsFit(r) /\ LocationTypes
    BY DEF LocationsInv
<1>2. /\ request[r] = "fetching"
      /\ UNCHANGED <<cache, request, size, idOf, coords, answer>>
    BY DEF FetchBatch
<1>3. PICK chunk \in SUBSET rest[r] :
         \/ /\ fetched' = [fetched EXCEPT ![r] = Updated(fetched[r], [q \in chunk |-> Place[q]])]
            /\ rest' = [rest EXCEPT ![r] = rest[r] \ chunk]
            /\ UNCHANGED failed
         \/ /\ failed' = Append(failed, chunk)
            /\ rest' = [rest EXCEPT ![r] = rest[r] \ chunk]
            /\ UNCHANGED fetched
    BY DEF FetchBatch, Batches, kSubset, ContinueAfter
<1>4. rest'[r] = rest[r] \ chunk
    BY <1>1, <1>3 DEF LocationTypes
<1>5. chunk \subseteq DOMAIN fetched[r] /\ chunk \subseteq Ids
    BY <1>1 DEF DictsFit
<1>6. Asked(r)' = Asked(r)
    BY <1>2 DEF Asked
<1>7. CASE UNCHANGED failed /\ fetched' = [fetched EXCEPT ![r] =
                                   Updated(fetched[r], [q \in chunk |-> Place[q]])]
    <2>1. /\ DOMAIN fetched'[r] = DOMAIN fetched[r]
          /\ \A q \in chunk : fetched'[r][q] = Place[q]
          /\ \A q \in DOMAIN fetched[r] \ chunk : fetched'[r][q] = fetched[r][q]
        <3>1. fetched'[r] = Updated(fetched[r], [q \in chunk |-> Place[q]])
            BY <1>1, <1>7 DEF LocationTypes
        <3> QED
            BY <1>5, <3>1 DEF Updated
    <2>2. \A q : Excused(q)' <=> Excused(q)
        BY <1>7 DEF Excused, Blamed
    <2>3. StageFits(r)'
        BY <1>1, <1>2, <1>6, <2>1 DEF StageFits
    <2>4. ASSUME NEW q \in DOMAIN fetched[r]
          PROVE  /\ fetched'[r][q] \in {Place[q], NoPlace}
                 /\ fetched'[r][q] = NoPlace => q \in rest'[r] \/ Excused(q)
        <3>1. CASE q \in chunk
            BY <2>1, <3>1 DEF Excused
        <3>2. CASE q \notin chunk
            BY <1>1, <1>4, <2>1, <3>2 DEF DictsFit
        <3> QED
            BY <3>1, <3>2
    <2>5. DictsFit(r)'
        BY <1>1, <1>2, <1>4, <2>1, <2>2, <2>4 DEF DictsFit
    <2> QED
        BY <1>1, <1>7, <2>3, <2>5 DEF Blamed, LocationTypes
<1>8. CASE failed' = Append(failed, chunk) /\ UNCHANGED fetched
    <2>1. failed' \in Seq(SUBSET Ids) /\ Blamed' = Blamed \cup chunk
        <3>1. failed \in Seq(SUBSET Ids) /\ chunk \in SUBSET Ids
            BY <1>1, <1>5 DEF LocationTypes
        <3>2. /\ failed' \in Seq(SUBSET Ids) /\ Len(failed') = Len(failed) + 1
              /\ \A k \in 1 .. Len(failed) : failed'[k] = failed[k]
              /\ failed'[Len(failed) + 1] = chunk
            BY <1>8, <3>1, AppendProperties
        <3>3. /\ DOMAIN failed = 1 .. Len(failed) /\ DOMAIN failed' = 1 .. Len(failed) + 1
              /\ Len(failed) \in Nat
            BY <3>1, <3>2
        <3>4. ToSet(failed') = ToSet(failed) \cup {chunk}
            BY <3>2, <3>3 DEF ToSet
        <3> QED
            BY <3>2, <3>4 DEF Blamed
    <2>2. \A q : Excused(q)' <=> Excused(q) \/ q \in chunk
        BY <2>1 DEF Excused
    <2>3. StageFits(r)'
        BY <1>1, <1>2, <1>6, <1>8 DEF StageFits
    <2>4. DictsFit(r)'
        BY <1>1, <1>2, <1>4, <1>8, <2>2 DEF DictsFit
    <2> QED
        BY <2>1, <2>3, <2>4
<1> QED
    BY <1>3, <1>7, <1>8

\* What is fetched goes into the cache and the reply.
LEMMA SetManyKeeps ==
    ASSUME LocationsInv, NEW r \in Requests, SetMany(r)
    PROVE  /\ StageFits(r)' /\ DictsFit(r)' /\ CacheFits'
           /\ cache' \in [Ids -> Range(Place) \cup {NoPlace, Unknown}]
<1>1. StageFits(r) /\ DictsFit(r) /\ LocationTypes /\ CacheFits
    BY DEF LocationsInv
<1>2. /\ request[r] = "fetching" /\ rest[r] = {}
      /\ cache' = Updated(cache, fetched[r])
      /\ coords' = [coords EXCEPT ![r] = Updated(coords[r], fetched[r])]
      /\ Reply(r) /\ UNCHANGED <<size, idOf, fetched, rest, failed>>
    BY DEF SetMany
<1>3. /\ DOMAIN coords' = Requests
      /\ coords'[r] = Updated(coords[r], fetched[r])
    BY <1>1, <1>2 DEF LocationTypes
<1>4. DOMAIN coords'[r] = Asked(r)
    BY <1>1, <1>2, <1>3 DEF StageFits, Updated
<1>5. StageFits(r)'
    BY <1>2, <1>3, <1>4, ReplyKeeps
<1>6. \A q : Excused(q)' <=> Excused(q)
    BY <1>2 DEF Excused, Blamed
<1>7. \A q \in DOMAIN fetched[r] :
          /\ q \in Ids /\ fetched[r][q] \in Range(Place) \cup {NoPlace}
          /\ fetched[r][q] = NoPlace => Excused(q)
    <2>1. \A q \in Ids : Place[q] \in Range(Place)
        BY DEF Ids, Range
    <2> QED
        BY <1>1, <1>2, <2>1 DEF DictsFit
<1>8. DictsFit(r)'
    <2>1. \A q \in DOMAIN coords'[r] : coords'[r][q] = NoPlace => Excused(q)
        BY <1>1, <1>3, <1>7 DEF DictsFit, Updated
    <2>2. DOMAIN coords'[r] \subseteq Ids
        BY <1>2, <1>4, AskedAreIds
    <2> QED
        BY <1>1, <1>2, <1>6, <2>1, <2>2 DEF DictsFit
<1>9. /\ DOMAIN cache = Ids
      /\ cache' = [q \in Ids |-> IF q \in DOMAIN fetched[r] THEN fetched[r][q] ELSE cache[q]]
    <2>1. DOMAIN cache \cup DOMAIN fetched[r] = Ids /\ DOMAIN cache = Ids
        BY <1>1, <1>7 DEF LocationTypes
    <2> QED
        BY <1>2, <2>1 DEF Updated
<1>10. CacheFits'
    BY <1>1, <1>6, <1>7, <1>9 DEF CacheFits
<1>11. cache' \in [Ids -> Range(Place) \cup {NoPlace, Unknown}]
    BY <1>1, <1>7, <1>9 DEF LocationTypes
<1> QED
    BY <1>5, <1>8, <1>10, <1>11

\* Nothing is left of a request that is over.
LEMMA OverKeeps ==
    ASSUME LocationsInv, NEW r \in Requests, Over(r) PROVE StageFits(r)' /\ DictsFit(r)'
<1>1. LocationTypes
    BY DEF LocationsInv
<1>2. /\ request'[r] = "idle" /\ size'[r] = 0 /\ idOf'[r] = [t \in {} |-> NoId]
      /\ coords'[r] = Nothing /\ fetched'[r] = Nothing /\ rest'[r] = {} /\ answer'[r] = <<>>
    BY <1>1 DEF Over, At, LocationTypes
<1>3. DOMAIN Nothing = {} /\ DOMAIN [t \in {} |-> NoId] = {}
    BY DEF Nothing
<1> QED
    BY <1>2, <1>3 DEF StageFits, DictsFit

\* Every step keeps what holds of the cache and of every request.
LEMMA LocationsStep == LocationsInv /\ [LocationsNext]_locationVars => LocationsInv'
<1> SUFFICES ASSUME LocationsInv, [LocationsNext]_locationVars PROVE LocationsInv'
    OBVIOUS
<1>1. LocationTypes /\ CacheFits /\ \A q \in Requests : StageFits(q) /\ DictsFit(q)
    BY DEF LocationsInv
<1>2. CASE UNCHANGED locationVars
    BY <1>1, <1>2
       DEF locationVars, LocationsInv, LocationTypes, CacheFits, StageFits, DictsFit, Asked,
           Excused, Blamed
<1>3. ASSUME NEW r \in Requests,
             Ask(r) \/ GetMany(r) \/ FetchBatch(r) \/ SetMany(r) \/ Over(r)
      PROVE  LocationsInv'
    <2>1. StageFits(r)' /\ DictsFit(r)'
        BY <1>3, AskKeeps, GetManyKeeps, FetchKeeps, SetManyKeeps, OverKeeps
    <2>2. Blamed \subseteq Blamed' /\ failed' \in Seq(SUBSET Ids)
        <3>1. CASE FetchBatch(r)
            BY <3>1, FetchKeeps
        <3>2. CASE ~FetchBatch(r)
            <4>1. failed' = failed
                BY <1>3, <3>2 DEF Ask, GetMany, SetMany, Over
            <4> QED
                BY <1>1, <4>1 DEF Blamed, LocationTypes
        <3> QED
            BY <3>1, <3>2
    <2>3. CacheFits' /\ cache' \in [Ids -> Range(Place) \cup {NoPlace, Unknown}]
        <3>1. CASE SetMany(r)
            BY <3>1, SetManyKeeps
        <3>2. CASE ~SetMany(r)
            <4>1. cache' = cache
                BY <1>3, <3>2 DEF Ask, GetMany, FetchBatch, Over
            <4> QED
                BY <1>1, <2>2, <4>1 DEF CacheFits, Excused, LocationTypes
        <3> QED
            BY <3>1, <3>2
    <2>4. LocationTypes'
        <3>1. request' \in [Requests -> {"idle", "looking up", "fetching", "done"}]
            BY <1>1, <1>3
               DEF Ask, GetMany, FetchBatch, SetMany, Over, At, Reply, LocationTypes
        <3>2. /\ DOMAIN size' = Requests /\ DOMAIN idOf' = Requests /\ DOMAIN coords' = Requests
              /\ DOMAIN fetched' = Requests /\ DOMAIN rest' = Requests
              /\ DOMAIN answer' = Requests
            BY <1>1, <1>3
               DEF Ask, GetMany, FetchBatch, SetMany, Over, Reply, LocationTypes
        <3> QED
            BY <2>2, <2>3, <3>1, <3>2 DEF LocationTypes
    <2>5. ASSUME NEW q \in Requests, q # r PROVE StageFits(q)' /\ DictsFit(q)'
        <3>1. /\ request'[q] = request[q] /\ size'[q] = size[q] /\ idOf'[q] = idOf[q]
              /\ coords'[q] = coords[q] /\ fetched'[q] = fetched[q] /\ rest'[q] = rest[q]
              /\ answer'[q] = answer[q]
            BY <1>1, <1>3, <2>5
               DEF Ask, GetMany, FetchBatch, SetMany, Over, At, Reply, LocationTypes
        <3> QED
            BY <1>1, <2>2, <3>1, RequestRests
    <2> QED
        BY <2>1, <2>3, <2>4, <2>5 DEF LocationsInv
<1>4. ASSUME NEW q \in Ids, Expire(q) PROVE LocationsInv'
    <2>1. UNCHANGED <<request, size, idOf, coords, fetched, rest, answer, failed>>
        BY <1>4 DEF Expire
    <2>2. cache' = [cache EXCEPT ![q] = Unknown]
        BY <1>4 DEF Expire
    <2>3. Unknown # NoPlace
        BY PlacesAssumption
    <2>4. CacheFits'
        BY <1>1, <2>1, <2>2, <2>3 DEF CacheFits, Excused, Blamed, LocationTypes
    <2>5. LocationTypes'
        BY <1>1, <2>1, <2>2 DEF LocationTypes
    <2>6. \A r \in Requests : StageFits(r)' /\ DictsFit(r)'
        BY <1>1, <2>1 DEF StageFits, DictsFit, Asked, Excused, Blamed
    <2> QED
        BY <2>4, <2>5, <2>6 DEF LocationsInv
<1> QED
    BY <1>2, <1>3, <1>4 DEF LocationsNext

\* The empty cache satisfies the invariant.
LEMMA LocationsInitInv == LocationsInit => LocationsInv
<1> SUFFICES ASSUME LocationsInit PROVE LocationsInv
    OBVIOUS
<1> USE DEF LocationsInit
<1>1. LocationTypes
    BY DEF LocationTypes
<1>2. CacheFits
    BY PlacesAssumption DEF CacheFits
<1>3. DOMAIN Nothing = {} /\ DOMAIN [t \in {} |-> NoId] = {}
    BY DEF Nothing
<1>4. \A r \in Requests : StageFits(r) /\ DictsFit(r)
    BY <1>3 DEF StageFits, DictsFit
<1> QED
    BY <1>1, <1>2, <1>4 DEF LocationsInv

\* The inductive invariant of GET /locations, for any number of requests, any
\* ranking and any size of batches.
THEOREM LocationsInvariant == LocationsSpec => []LocationsInv
BY LocationsStep, LocationsInitInv, PTL DEF LocationsSpec

\* Type correctness: what a request still fetches has its None already, and an
\* answer is no longer than the size asked for.
THEOREM LocationsTypes == LocationsSpec => []LocationsTypeOK
<1>1. LocationsInv => LocationsTypeOK
    <2> SUFFICES ASSUME LocationsInv, NEW r \in Requests
                 PROVE  /\ size[r] \in Sizes \cup {0}
                        /\ DOMAIN idOf[r] \subseteq ToSet(Ranked)
                        /\ DOMAIN coords[r] \subseteq Ids
                        /\ rest[r] \subseteq DOMAIN fetched[r]
                        /\ Len(answer[r]) <= size[r]
        BY DEF LocationsInv, LocationTypes, LocationsTypeOK
    <2>1. StageFits(r) /\ DictsFit(r)
        BY DEF LocationsInv
    <2>2. size[r] \in Sizes \cup {0} /\ size[r] \in Nat
        <3>1. Sizes \subseteq Nat
            BY PlacesAssumption
        <3>2. CASE request[r] = "idle"
            <4>1. size[r] = 0
                BY <2>1, <3>2 DEF StageFits
            <4> QED
                BY <4>1
        <3>3. CASE request[r] # "idle"
            <4>1. size[r] \in Sizes
                BY <2>1, <3>3 DEF StageFits
            <4> QED
                BY <3>1, <4>1
        <3> QED
            BY <3>2, <3>3
    <2>3. DOMAIN idOf[r] \subseteq ToSet(Ranked)
        <3>1. CASE request[r] = "idle"
            BY <2>1, <3>1 DEF StageFits
        <3>2. CASE request[r] # "idle"
            <4>1. DOMAIN idOf[r] = ToSet(Considered(size[r]))
                BY <2>1, <3>2 DEF StageFits, SampleIds
            <4> QED
                BY <2>2, <4>1, ConsideredAreFirst
        <3> QED
            BY <3>1, <3>2
    <2>4. Len(answer[r]) <= size[r]
        <3>1. CASE request[r] = "done"
            <4>1. answer[r] = Shown(size[r], Located(size[r], idOf[r], coords[r]))
                BY <2>1, <3>1 DEF StageFits
            <4>2. Located(size[r], idOf[r], coords[r]) \subseteq DOMAIN Considered(size[r])
                BY DEF Located
            <4> QED
                BY <2>2, <4>1, <4>2, ShownIsComplete
        <3>2. CASE request[r] # "done"
            <4>1. answer[r] = <<>>
                BY <2>1, <3>2 DEF StageFits
            <4> QED
                BY <2>2, <4>1
        <3> QED
            BY <3>1, <3>2
    <2> QED
        BY <2>1, <2>2, <2>3, <2>4 DEF DictsFit
<1> QED
    BY <1>1, LocationsInvariant, PTL

\* A place that has coordinates is missing for a reason: the cache denies it
\* only after a failed chunk it was in, and an answer that leaves it out is
\* full of places mentioned more, or knows it by such a denial.
THEOREM MissingIsCaused == LocationsSpec => []MissingHasCause
<1>1. LocationsInv => MissingHasCause
    <2> SUFFICES ASSUME LocationsInv, NEW r \in Requests, request[r] = "done",
                        NEW k \in DOMAIN Considered(size[r])
                 PROVE  \/ Ranked[k] \in ToSet(answer[r])
                        \/ idOf[r][Ranked[k]] = NoId
                        \/ Place[idOf[r][Ranked[k]]] = NoPlace
                        \/ idOf[r][Ranked[k]] \in Blamed
                        \/ /\ Len(answer[r]) = size[r]
                           /\ ToSet(answer[r]) \subseteq ToSet(SubSeq(Ranked, 1, k - 1))
        BY DEF LocationsInv, CacheFits, Excused, MissingHasCause
    <2> DEFINE R == Located(size[r], idOf[r], coords[r])
               q == idOf[r][Ranked[k]]
    <2>1. StageFits(r) /\ DictsFit(r)
        BY DEF LocationsInv
    <2>2. /\ size[r] \in Nat /\ DOMAIN coords[r] = Asked(r) /\ answer[r] = Shown(size[r], R)
          /\ DOMAIN idOf[r] = ToSet(Considered(size[r]))
        BY <2>1, PlacesAssumption DEF StageFits, SampleIds
    <2>3. R \subseteq DOMAIN Considered(size[r])
        BY DEF Located
    <2>4. CASE k \in R
        <3> HIDE DEF R
        <3> QED
            BY <2>2, <2>3, <2>4, ShownIsComplete
    <2>5. CASE k \notin R
        <3>1. q = NoId \/ q \notin DOMAIN coords[r] \/ coords[r][q] = NoPlace
            BY <2>5 DEF Located
        <3>2. Ranked[k] \in DOMAIN idOf[r]
            BY <2>2, ConsideredAreFirst
        <3>3. q = NoId \/ q \in DOMAIN coords[r]
            BY <2>2, <3>2 DEF Asked, Range
        <3>4. q = NoId \/ Excused(q)
            BY <2>1, <3>1, <3>3 DEF DictsFit
        <3> QED
            BY <3>4 DEF Excused
    <2> QED
        BY <2>4, <2>5
<1> QED
    BY <1>1, LocationsInvariant, PTL

-----------------------------------------------------------------------------
(* The bus and these three side by side.                                     *)

\* A step of the whole is a step of one part, in which the others rest.
LEMMA PartsStep ==
    [MCNext]_allVars => /\ [BusNext]_busVars
                        /\ [MigrationNext]_migrationVars
                        /\ [CallsNext]_callVars
                        /\ [LocationsNext]_locationVars
BY DEF MCNext, allVars, Delivers, Migrates, Calls, Locates

\* The types of the bus, the migrations, the VK client and the places of the
\* gateway, whichever of them runs.
THEOREM ServicesTypes == ServicesSpec => []ServicesTypeOK
<1>1. MCInit => BusInit /\ MigrationInit /\ CallsInit /\ LocationsInit
    BY DEF MCInit
<1>2. ServicesSpec => BusSpec /\ MigrationSpec /\ CallsSpec /\ LocationsSpec
    BY <1>1, PartsStep, PTL
       DEF ServicesSpec, BusSpec, MigrationSpec, CallsSpec, LocationsSpec
<1>3. BusTypeOK /\ MigrationTypeOK /\ CallsTypeOK /\ LocationsTypeOK => ServicesTypeOK
    BY DEF ServicesTypeOK
<1> QED
    BY <1>2, <1>3, BusTypes, MigrationTypes, CallsTypes, LocationsTypes, PTL
=============================================================================
