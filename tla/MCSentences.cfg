SPECIFICATION SentencesSpec
SYMMETRY Interchangeable
CONSTANTS
    Models <- MCModels
    Element = 2
    Sizes = {1}
    NOut = 1
    NIn = 2
    Weights = {1}
    LevelsOf <- MCLevels
    GroupSize = 2
    ElementSize = 4
    Vocabulary = {1, 2}
    Logits <- MCLogits
    Histories <- MCHistories
    InverseTemperatures = {1}
    TopKs = {0}
    MinPs = {0}
    TopPs = {4}
    SourceFiles = {"core", "paged", "prefix"}
    Core = {"core"}
    Engines = {"agents"}
    Mro <- MCMro
    Inner <- MCInner
    Listed <- MCListed
    Cites <- MCCites
    MaxEdits = 1
    NDrawn = 2
    Gaps = {1}
    Questions <- MCQuestions
    SystemPrompt <- MCText
    TenantPrompts <- MCTenantPrompts
    RagSystem <- MCText
    NChunks = 1
    ChunkTokens = 1
    NPassages = 1
    AgentPreamble <- MCText
    TurnTokens = 1
    HistoryTurns = {1}
    NBuffers = 1
    PrefixLen = 1
    Lengths = {2}
    QuietTenants <- MCQuiet
    QuietRequests = 1
    Burst = 1
    BurstAt = 1
    NoisyTenant = "hog"
    QuietPrompt = 1
    BurstPrompt = 1
    ShortPrompt = 1
    RoleOpen <- MCRole
    RoleClose <- MCText
    GenerationPrompt <- MCText
    Period = 200
    Cycle = 250
    CacheBlock = 2
    StringBytes = {"other"}
    MaxText = 8
    Tenants = {"pair", "one", "high"}
    NModules = 3
    Targets <- MCTargets
    Scale <- MCScale
    NRows = 1
    MaxFolds = 1
    r1 = r1
    r2 = r2
    x = x
    Garbage = Garbage
    NoPast = NoPast
    Blocks = {b1, b2}
    BlockSize = 4
    Requests <- MCRequests
    Vocab <- MCVocab
    Prompt <- MCPrompt
    StopTokens <- MCStopTokens
    MaxTokens <- MCMaxTokens
    MaxBatchSize = 2
    StepTokens = 2
INVARIANT SomeSentenceHolds
CHECK_DEADLOCK FALSE
