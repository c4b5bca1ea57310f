SPECIFICATION MCSpec
CONSTANTS
    a = a
    b = b
    c = c
    MaxMentions = 4
    MaxSentence = 3
    MaxDocs = 2
    MaxRows = 3
    MaxTimings = 6
    Posts <- MCPosts
    Radius = 1
    Corpora <- MCCorpora
    TypeMap <- MCTypeMap
    Datasets <- MCDatasets
    LabelMap <- MCLabelMap
    Builtin <- MCBuiltin
    Limits = {0, 2}
    Timings <- MCTimings
    Error = Error
    Malformed = Malformed
    NatashaType <- MCNatashaType
    Loads <- MCLoads
    Timeout = 2
    Documents <- MCDocs
    Days = 2
    TrackedHits = 2
    MaxStored = 3
    Flows <- MCFlows
    Nodes = {a, b, c}
    IsNamed = {a, b}
    Graphs <- MCGraphs
    Records = 4
CHECK_DEADLOCK FALSE
INVARIANTS
    RelationsAreSound
    WindowIsCovered
    NerAddsUp
    ThroughputAddsUp
    GraphIsTrue
    StatsAreTrue
