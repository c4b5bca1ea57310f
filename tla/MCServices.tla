----------------------------- MODULE MCServices -----------------------------
(* Instances for TLC of four parts that share no state with each other: a   *)
(* behaviour is one of the bus, of the migrations, of the VK client or of   *)
(* the places of the gateway, chosen at the start, while the others rest.   *)
EXTENDS StreamBus, Migrations, VKCalls, Locations

CONSTANTS vk, tg, m1, deploy, operator, c1, c2, r1, r2, posts, lemmas, unique, byText,
          moscow, paris, cafe, rome, Q1, Q2, Q3, north

VARIABLE part_of_system

allVars == <<part_of_system, busVars, migrationVars, callVars, locationVars>>

\* Two streams of one process with three entries each and replies of two: a
\* reply can be cut in the middle and a second one follows it.
MCMaxLog == [s \in Streams |-> 3]

MCFiles == <<
    [store |-> "opensearch", version |-> 2, action |-> "update_mapping", parts |-> <<lemmas>>],
    [store |-> "neo4j", version |-> 1, action |-> "statements", parts |-> <<unique, byText>>],
    [store |-> "opensearch", version |-> 1, action |-> "create_index", parts |-> <<posts>>]>>

MCRanked == <<moscow, paris, rome, cafe>>
MCIdsOf == (moscow :> {Q1}) @@ (paris :> {Q2, Q3}) @@ (rome :> {Q3}) @@ (cafe :> {})
MCPlace == (Q1 :> north) @@ (Q2 :> NoPlace) @@ (Q3 :> north)

Delivers == part_of_system = "bus" /\ UNCHANGED <<migrationVars, callVars, locationVars, part_of_system>>
Migrates == part_of_system = "migrations" /\ UNCHANGED <<busVars, callVars, locationVars, part_of_system>>
Calls == part_of_system = "calls" /\ UNCHANGED <<busVars, migrationVars, locationVars, part_of_system>>
Locates == part_of_system = "locations" /\ UNCHANGED <<busVars, migrationVars, callVars, part_of_system>>

\* The time at the start matters to the calls only.
MCInit ==
    /\ part_of_system \in {"bus", "migrations", "calls", "locations"}
    /\ BusInit /\ MigrationInit /\ CallsInit /\ LocationsInit
    /\ clock # 0 => part_of_system = "calls"

MCNext ==
    \/ Delivers /\ BusNext
    \/ Migrates /\ MigrationNext
    \/ Calls /\ CallsNext
    \/ Locates /\ LocationsNext

ServicesSpec == MCInit /\ [][MCNext]_allVars

\* The fairness of the bus, as in StreamBus, and of Redis, which expires a key.
MCSpec ==
    /\ ServicesSpec
    /\ \A s \in Streams :
          /\ WF_allVars(Delivers /\ StartConsume(s))
          /\ WF_allVars(Delivers /\ ReadGroup(s))
          /\ WF_allVars(Delivers /\ Yield(s))
          /\ WF_allVars(Delivers /\ HandlerReturns(s))
          /\ WF_allVars(Delivers /\ Ack(s))
    /\ \A q \in Ids : WF_allVars(Locates /\ Expire(q))

\* The types of the bus, the migrations, the VK client and the places.
ServicesTypeOK == BusTypeOK /\ MigrationTypeOK /\ CallsTypeOK /\ LocationsTypeOK
=============================================================================
