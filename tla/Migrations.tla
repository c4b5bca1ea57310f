----------------------------- MODULE Migrations -----------------------------
(* scripts/migrate.py: a runner applies the versioned files of OpenSearch,  *)
(* then those of Neo4j, and records each in the store it changed.  A deploy *)
(* and an operator may start runners at the same time, a runner may end at  *)
(* any await, and it is started again by hand.                              *)
EXTENDS Integers, FiniteSets, Sequences, SequencesExt

CONSTANTS
    Runners,
    Files,      \* the files, in the order glob finds them: records of a store,
                \* a version, an action and the sequence of what it creates
    MaxCuts     \* bound: runs that end before their last step

ASSUME FilesAssumption ==
    /\ Files \in Seq(ToSet(Files))
    /\ IsInjective([k \in DOMAIN Files |-> <<Files[k].store, Files[k].version>>])
    /\ \A k \in DOMAIN Files :
          /\ Files[k].store \in {"opensearch", "neo4j"}
          /\ Files[k].action \in {"create_index", "update_mapping", "statements"}
          /\ Files[k].store = "neo4j" <=> Files[k].action = "statements"
          /\ Files[k].version \in Nat
          /\ Files[k].parts \in Seq(ToSet(Files[k].parts)) \ {<<>>}
ASSUME CutsAssumption == MaxCuts \in Nat

VARIABLES
    made,       \* the indices, mappings and constraints that exist
    stateIndex, \* does the index news_migrations exist?
    records,    \* of each file, how many records say it was applied
    run,        \* of each runner, where it stands
    store,      \* of each runner, the store it migrates
    todo,       \* of each runner, the files left to apply, in order
    part,       \* of each runner, the part of the first of them it is at
    raced,      \* history: were two runners at work at once?
    cuts

storeVars == <<made, stateIndex, records>>
runVars == <<run, store, todo, part>>
migrationVars == <<storeVars, runVars, raced, cuts>>

AllFiles == ToSet(Files)
Objects == UNION {ToSet(f.parts) : f \in AllFiles}

MigrationInit ==
    /\ made = {} /\ stateIndex = FALSE /\ records = [f \in AllFiles |-> 0]
    /\ run = [r \in Runners |-> "down"]
    /\ store = [r \in Runners |-> "opensearch"]
    /\ todo = [r \in Runners |-> <<>>]
    /\ part = [r \in Runners |-> 1]
    /\ raced = FALSE /\ cuts = 0

AtWork(r) == run[r] \notin {"down", "done"}

GoTo(r, place) == run' = [run EXCEPT ![r] = place]

StartRun(r) ==
    /\ ~AtWork(r)
    /\ GoTo(r, "listing")
    /\ store' = [store EXCEPT ![r] = "opensearch"]
    /\ raced' = (raced \/ \E q \in Runners \ {r} : AtWork(q))
    /\ UNCHANGED <<storeVars, todo, part, cuts>>

\* mutated: the nodes (:Migration) are not asked for.
AppliedIndexOnly(s) == {f \in AllFiles : f.store = s /\ s = "opensearch" /\ records[f] > 0}

Applied(s) == {f \in AllFiles : f.store = s /\ records[f] > 0}

\* mutated: in the order of the directory.
PlanUnsorted(s) == SelectSeq(Files, LAMBDA f : f.store = s /\ f \notin Applied(s))

\* sorted(..., key=parse_version)
ByVersion(files) ==
    CHOOSE q \in [1 .. Cardinality(files) -> files] :
        \A j, k \in DOMAIN q : j < k => q[j].version < q[k].version

\* The files sorted by version, without those applied.
Plan(s) == ByVersion({f \in AllFiles : f.store = s} \ Applied(s))

\* Without the state index nothing is applied; the runner creates it, which
\* fails when another one did meanwhile.
FindsNoState(r) ==
    /\ run[r] = "listing" /\ store[r] = "opensearch" /\ ~stateIndex
    /\ GoTo(r, "creating state")
    /\ UNCHANGED <<storeVars, store, todo, part, raced, cuts>>

CreatesState(r) ==
    /\ run[r] = "creating state" /\ ~stateIndex
    /\ stateIndex' = TRUE
    /\ GoTo(r, "applying")
    /\ todo' = [todo EXCEPT ![r] = ByVersion({f \in AllFiles : f.store = "opensearch"})]
    /\ UNCHANGED <<made, records, store, part, raced, cuts>>

Lists(r) ==
    /\ run[r] = "listing"
    /\ store[r] = "opensearch" => stateIndex
    /\ GoTo(r, "applying")
    /\ todo' = [todo EXCEPT ![r] = Plan(store[r])]
    /\ UNCHANGED <<storeVars, store, part, raced, cuts>>

File(r) == Head(todo[r])
Part(r) == File(r).parts[part[r]]

\* A file is made of parts; after the last one it is recorded.
NextPart(r) ==
    /\ GoTo(r, IF part[r] = Len(File(r).parts) THEN "recording" ELSE "applying")
    /\ part' = [part EXCEPT ![r] = IF @ = Len(File(r).parts) THEN 1 ELSE @ + 1]

Step(r) == run[r] = "applying" /\ todo[r] # <<>> /\ UNCHANGED <<stateIndex, records, store, todo, raced, cuts>>

\* indices.exists, whose answer the runner acts upon after the await.
FindsIndex(r) ==
    /\ Step(r) /\ File(r).action = "create_index"
    /\ IF Part(r) \in made THEN NextPart(r) ELSE GoTo(r, "creating") /\ UNCHANGED part
    /\ UNCHANGED made

CreatesIndex(r) ==
    /\ run[r] = "creating" /\ Part(r) \notin made
    /\ made' = made \cup {Part(r)}
    /\ NextPart(r)
    /\ UNCHANGED <<stateIndex, records, store, todo, raced, cuts>>

\* put_mapping and the statements, which all say IF NOT EXISTS, can be repeated.
ChangesSchema(r) ==
    /\ Step(r) /\ File(r).action # "create_index"
    /\ made' = made \cup {Part(r)}
    /\ NextPart(r)

\* A document under the version as its id, or one more node (:Migration).
Records(r) ==
    /\ run[r] = "recording"
    /\ records' = [records EXCEPT ![File(r)] = IF store[r] = "opensearch" THEN 1 ELSE @ + 1]
    /\ todo' = [todo EXCEPT ![r] = Tail(@)]
    /\ GoTo(r, "applying")
    /\ UNCHANGED <<made, stateIndex, store, part, raced, cuts>>

EndsStore(r) ==
    /\ run[r] = "applying" /\ todo[r] = <<>>
    /\ store' = [store EXCEPT ![r] = "neo4j"]
    /\ GoTo(r, IF store[r] = "opensearch" THEN "listing" ELSE "done")
    /\ UNCHANGED <<storeVars, todo, part, raced, cuts>>

End(r) ==
    /\ GoTo(r, "down")
    /\ todo' = [todo EXCEPT ![r] = <<>>]
    /\ part' = [part EXCEPT ![r] = 1]
    /\ UNCHANGED <<storeVars, store, raced>>

\* What is to be created exists by now: the request raises.
Collides(r) ==
    /\ \/ run[r] = "creating state" /\ stateIndex
       \/ run[r] = "creating" /\ Part(r) \in made
    /\ End(r) /\ UNCHANGED cuts

\* A failed request or a kill, before or after any of the requests.
Cut(r) == AtWork(r) /\ cuts < MaxCuts /\ cuts' = cuts + 1 /\ End(r)

MigrationStep(r) ==
    \/ StartRun(r) \/ FindsNoState(r) \/ CreatesState(r) \/ Lists(r)
    \/ FindsIndex(r) \/ CreatesIndex(r) \/ ChangesSchema(r)
    \/ Records(r) \/ EndsStore(r) \/ Collides(r) \/ Cut(r)

MigrationNext == \E r \in Runners : MigrationStep(r)

MigrationSpec == MigrationInit /\ [][MigrationNext]_migrationVars
-----------------------------------------------------------------------------
\* Types; a runner that has files left stands at a part of the first of them.
MigrationTypeOK ==
    /\ made \subseteq Objects /\ stateIndex \in BOOLEAN
    /\ records \in [AllFiles -> Nat]
    /\ run \in [Runners -> {"down", "listing", "creating state", "applying",
                            "creating", "recording", "done"}]
    /\ store \in [Runners -> {"opensearch", "neo4j"}]
    /\ \A r \in Runners :
          /\ ToSet(todo[r]) \subseteq {f \in AllFiles : f.store = store[r]}
          /\ todo[r] # <<>> => part[r] \in DOMAIN File(r).parts

\* A runner is past a file when its store is done with or its list left it out.
IsPast(r, f) ==
    \/ run[r] = "done"
    \/ AtWork(r) /\ store[r] = "neo4j" /\ f.store = "opensearch"
    \/ run[r] \in {"applying", "creating", "recording"} /\ f.store = store[r] /\ f \notin ToSet(todo[r])

\* README: the runner records what it applied, and a second run skips it.
\* Whatever was cut and whoever ran meanwhile: what is recorded is applied in
\* full and follows recorded versions only, and a runner passes over nothing
\* else, so that one that ends leaves every file applied.
RecordsAreTrue ==
    /\ \A f \in AllFiles : records[f] > 0 =>
          /\ ToSet(f.parts) \subseteq made
          /\ \A g \in AllFiles : g.store = f.store /\ g.version < f.version => records[g] > 0
    /\ \A r \in Runners, f \in AllFiles : IsPast(r, f) => records[f] > 0

\* Over any number of cut and repeated runs a file has one record, unless two
\* runners were at work at once: CREATE (:Migration) repeats itself.
RecordedOnce == \A f \in AllFiles : records[f] > 1 => raced
=============================================================================
