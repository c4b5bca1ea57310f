SPECIFICATION FairSpec
CONSTANTS
    vk = vk
    tg = tg
    p1 = p1
    p2 = p2
    p3 = p3
    ad = ad
    p4 = p4
    Streams = {vk, tg}
    Msgs = {p1, p3, ad}
    Count = 2
    MaxLog <- MCOneEach
    MaxCloses = 2
    Timer = Timer
    Main = Main
    NoStream = NoStream
    Near <- MCNear
    Blank = {ad}
    Home <- MCHome
    FlushEvery = 2
    MaxFaults = 1
PROPERTIES
    PublishedSettle
    FailureEndsProcess
    RawSettle
