SPECIFICATION Spec
CONSTANTS
    p1 = p1
    p2 = p2
    p3 = p3
    putin = putin
    Putin = Putin
    kremlin = kremlin
    Q1 = Q1
    Q2 = Q2
    NoQid = NoQid
    Uncached = Uncached
    Clean = Clean
    Streams = {Clean}
    Msgs = {p1, p2, p3}
    Count = 2
    MaxLog <- MCMaxLog
    MaxCloses = 2
    Mentions <- MCMentions
    Lower <- MCLower
    Answer <- MCAnswer
    FlushBatch = 2
    MaxFaults = 0
INVARIANT
    MentionsAreFound
