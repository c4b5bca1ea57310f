SPECIFICATION FairSpec
CONSTANTS
    m1 = m1
    m2 = m2
    m3 = m3
    putin = putin
    Putin = Putin
    kremlin = kremlin
    Q1 = Q1
    NoQid = NoQid
    Enriched = Enriched
    Streams = {Enriched}
    Msgs = {m1, m2, m3}
    Count = 2
    MaxLog <- MCMaxLog
    MaxCloses = 2
    Timer = Timer
    Main = Main
    Mentions <- MCMentions
    Pairs <- MCPairs
    Lower <- MCLower
    FlushEvery = 4
    MaxFaults = 2
INVARIANTS
    TypeOK
    MentionsAreConserved
    NoRelationUnmatched
    RelationsAreConserved
PROPERTIES
    RowsSettle
