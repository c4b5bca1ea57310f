SPECIFICATION FairSpec
CONSTANTS
    ria = ria
    tass = tass
    rbc = rbc
    Communities <- MCThree
    BatchLimit = 2
    Window = 2
    MaxAttempts = 2
    Blank <- MCBlank
    MaxPosts <- MCPosts
    MaxFaults = 2
INVARIANTS
    TypeOK
    CursorSkipsNothing
    OncePerLife
PROPERTIES
    PostsArrive
