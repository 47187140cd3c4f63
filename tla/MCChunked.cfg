SPECIFICATION ChunkedFairSpec
CONSTANTS
    r1 = r1
    r2 = r2
    r3 = r3
    x = x
    y = y
    Garbage = Garbage
    NoPast = NoPast
    Blocks = {b1, b2, b3, b4}
    BlockSize = 2
    StepTokens = 2
    Requests <- MCRequests
    Vocab <- MCVocab
    Prompt <- MCPrompt
    StopTokens <- MCStopTokens
    MaxTokens <- MCMaxTokens
    MaxBatchSize = 3
INVARIANTS ChunkedExact HonestUnlessTorn
PROPERTY ChunkedProgress
CHECK_DEADLOCK FALSE
