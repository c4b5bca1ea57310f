SPECIFICATION MCSpec
CONSTANTS
    vk = vk
    tg = tg
    m1 = m1
    Streams = {vk, tg}
    Msgs = {m1}
    Count = 2
    MaxLog <- MCMaxLog
    MaxCloses = 1
    deploy = deploy
    operator = operator
    c1 = c1
    c2 = c2
    r1 = r1
    r2 = r2
    posts = posts
    lemmas = lemmas
    unique = unique
    byText = byText
    moscow = moscow
    paris = paris
    cafe = cafe
    rome = rome
    Q1 = Q1
    Q2 = Q2
    Q3 = Q3
    north = north
    Runners = {deploy, operator}
    Files <- MCFiles
    MaxCuts = 2
    Callers = {c1, c2}
    Tokens = 2
    Interval = 2
    Attempts = 2
    MaxTime = 7
    MaxSent = 4
    Requests = {r1, r2}
    Ranked <- MCRanked
    IdsOf <- MCIdsOf
    Place <- MCPlace
    NoPlace = NoPlace
    Unknown = Unknown
    NoId = NoId
    Sizes = {2}
    Batch = 2
    MaxFailed = 1
INVARIANTS
    ServicesTypeOK
    RecordsAreTrue
    AckedWereHandled
    HandedOnceInOrder
    StrandedBound
    RecordedOnce
    CallsKeepLimits
    MissingHasCause
PROPERTIES
    DenialsExpire
    DeliversAtMostOnce
CHECK_DEADLOCK FALSE
