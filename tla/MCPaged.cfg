SPECIFICATION FairSpec
CONSTANTS
    r1 = r1
    r2 = r2
    r3 = r3
    go = go
    stop = stop
    Blocks = {b1, b2, b3, b4}
    BlockSize = 2
    Requests <- MCRequests
    Vocab <- MCVocab
    Prompt <- MCPrompt
    StopTokens <- MCStopTokens
    MaxTokens <- MCMaxTokens
    MaxBatchSize = 3
INVARIANTS BlocksPartitioned MemoryServes StreamEnds
PROPERTIES ServesInLine EverybodyLeaves
CHECK_DEADLOCK FALSE
