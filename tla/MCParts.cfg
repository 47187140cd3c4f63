SPECIFICATION PartsSpec
CONSTANTS
    Blocks = {b1, b2, b3}
    BlockSize = 2
    MaxHolders = 3
    Tokens = {"a", "b"}
    Stops = {"b"}
    SpecPrompt <- MCSpecPrompt
    Budget = 3
    K = 2
    NGram = 1
    Mass = 3
    StringBytes = {"comma", "close"}
    MaxText = 8
    MaxFed = 4
    MaxWindow = 4
    MaxSinks = 3
    WindowBlock = 2
    TextLengths = {3, 8, 10, 13}
    RotaryTable = 10
    Tenants = {"low", "same", "high"}
    Targets <- MCTargets
    Scale <- MCScale
    NModules = 2
    NRows = 2
    MaxFolds = 1
    SourceFiles = {"core", "paged", "prefix", "router"}
    Core = {"core"}
    Engines = {"prefix", "router", "agents"}
    Mro <- MCMro
    Inner <- MCInner
    Listed <- MCListed
    Cites <- MCCites
    MaxEdits = 2
    PhysicalBlocks = {1, 2, 3}
    Slots = 2
    TableLength = 2
    MaxScore = 2
    Values = {0, 1}
    TileSize = 3
    Vocabulary = {1, 2, 3}
    Logits <- MCLogits
    Histories <- MCHistories
    InverseTemperatures = {0, 1, 2}
    TopKs = {0, 1, 2}
    MinPs = {0, 2, 8}
    TopPs = {4, 6, 8}
    NOut = 2
    NIn = 4
    Weights <- MCWeights
    LevelsOf <- MCLevels
    GroupSize = 2
    ElementSize = 4
    Arrivals <- MCArrivals
    TenantOf <- MCTenantOf
    None = ""
    QueueDepth = 1
    Workers = 2
    SloTtft = 2
    SloItl = 2
    BatchCap = 2
    TokenCap = 2
    Durations = {1, 3}
    LatencyEdges <- MCLatencyEdges
    BatchEdges <- MCBatchEdges
    WindowSteps = 2
    DModel = 1
    DHidden = 4
    ShardCounts = {1, 2, 4}
    Entry <- MCEntry
    NDrawn = 3
    Gaps = {1, 2}
    Questions <- MCQuestions
    SystemPrompt <- MCSystemPrompt
    TenantPrompts <- MCTenantPrompts
    RagSystem <- MCSystemPrompt
    NChunks = 3
    ChunkTokens = 2
    NPassages = 2
    AgentPreamble <- MCSystemPrompt
    TurnTokens = 2
    HistoryTurns = {0, 1, 2}
    NBuffers = 3
    PrefixLen = 2
    Lengths = {2, 5}
    QuietTenants <- MCQuiet
    QuietRequests = 2
    Burst = 2
    BurstAt = 1
    NoisyTenant = "hog"
    QuietPrompt = 2
    BurstPrompt = 5
    ShortPrompt = 5
    RoleOpen <- MCRoleOpen
    RoleClose <- MCRoleClose
    GenerationPrompt <- MCGeneration
    Period = 5
    Cycle = 3
    Models <- MCModels
    Element = 2
    Sizes = {1, 2, 3, 4, 5}
    CacheBlock = 2
INVARIANTS FreeListExact SpeculationIsInvisible NeverADeadEnd StreamedWhole WindowHeld RowsServedRight FiguresAreCurrent AttendsToContext DrawsWhatWasAsked SignalsHonest TraceAsDescribed RoundTripBounded SplitIsInvisible FootprintsExact
PROPERTY ImplementsPool
CHECK_DEADLOCK FALSE
