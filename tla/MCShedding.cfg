SPECIFICATION ShedFairSpec
CONSTANTS
    r1 = r1
    r2 = r2
    r3 = r3
    x = x
    Garbage = Garbage
    Blocks = {b1, b2, b3}
    BlockSize = 2
    Requests <- MCRequests
    Vocab <- MCVocab
    Prompt <- MCPrompt
    StopTokens <- MCStopTokens
    MaxTokens <- MCMaxTokens
    MaxBatchSize = 2
    MaxQueueDepth = 1
    MaxUtilisation <- MCMaxUtilisation
INVARIANTS ShedExact DrainedCutsNobody
PROPERTY EverybodyHears
CHECK_DEADLOCK FALSE
