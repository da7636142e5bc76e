\* Each part on an instance of its own; see the README for the bounds.
SPECIFICATION PartsSpec
CONSTANTS
    n = n  m = m  e = e  l = l
    None = None
    Nodes = {n, m}
    Edges = {e, l}
    AtOpen = {n, m}
    Ends <- BothWays
    Readers = {r}
    Requests <- EachKind
    MaxSlots = 3
    PageSize = 1
    MaxPages = 2
    MaxEpoch = 1
    c = c  f = f  g = g  s = s
    Communities = {c}
    Code = {f, g, s}
    Near <- NearDef
    MaxGen = 3
    MaxSlices = 1
    MaxAsks = 2
    Polls = {p, q}
    MaxErrors = 2
    MaxRuns = 2
    MaxMounts = 2
    MaxPings = 1
    Sids = {p, q, t}
    Cap = 2
    Ttl = 2
    Hooks = {p, q}
    Symbols = {k, o}
    CacheMax = 1
    CacheTtl = 1
    Nobody = Nobody
    a = a  b = b
    Writes <- SomeWrites
    MaxAttempts = 2
    MaxCalls = 3
    MaxSwaps = 1
    Points <- Five
    Walks <- SomeWalks
    Clusters <- Numbers
    Maps <- SomeMaps
    NoMap = NoMap
    Tokens <- ThreeWords
    MaxChats = 2
    Walked <- OneOrder
    Texts <- ThreeTexts
    Absent = Absent
    Tops = {"all", "part"}
    Below <- DirFiles
    MaxChanges = 2
    MaxIndexings = 2
    SyntaxTrees <- FiveNodes
    Sheets <- SomeSheets
    Unread = Unread
    Facts <- SomeFacts
    FoldersOf <- SomeFolders
    Slug <- SomeSlugs
    Corpora <- SomeCorpora
    LayerPaths <- SomeLayers
    MayUse <- CoreUsesUi
    Modes = {"spans"}
    PageLimit = 2
    Askers = {p, q}
    MaxLost = 1
INVARIANTS StoreOK EndToldOnce AdviceHonest WritesAccounted QueriesRight  
PROPERTIES ViewHolds SessionsKept ChatFaithful  EveryWaitEnds
\* the parts stop at their bounds
CHECK_DEADLOCK FALSE
