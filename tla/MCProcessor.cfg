SPECIFICATION Spec
CONSTANTS
    vk = vk
    tg = tg
    p1 = p1
    p2 = p2
    p3 = p3
    ad = ad
    p4 = p4
    Streams = {vk, tg}
    Msgs = {p1, p2, p3, p4}
    Count = 2
    MaxLog <- MCMaxLog
    MaxCloses = 1
    Timer = Timer
    Main = Main
    NoStream = NoStream
    Near <- MCNear
    Blank = {}
    Home <- MCHome
    FlushEvery = 2
    MaxFaults = 1
INVARIANTS
    TypeOK
    KeptAreDistinct
    DupHasOriginal
    FinishedAreDecided
    PublishedAreAccounted
    AtRiskBound
    FlushLag
CONSTRAINT MCOneBusy
SYMMETRY MCAlike
