SPECIFICATION CachesSpec
SYMMETRY BlockSymmetry
CONSTANTS
    r1 = r1
    r2 = r2
    r3 = r3
    r4 = r4
    x = x
    y = y
    Garbage = Garbage
    Blocks = {b1, b2, b3, b4}
    BlockSize = 2
    Requests <- MCRequests
    Vocab <- MCVocab
    Prompt <- MCPrompt
    StopTokens <- MCStopTokens
    MaxTokens <- MCMaxTokens
    MaxBatchSize = 2
    TierBlocks = 2
INVARIANTS CacheIsHonest ReadsOwnContext TiersExact PromisesFit
PROPERTY NeverSpins
CHECK_DEADLOCK FALSE
