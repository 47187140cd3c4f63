SPECIFICATION FairSpec
CONSTANTS
    r1 = r1
    r2 = r2
    r3 = r3
    go = go
    stop = stop
    Requests <- MCRequests
    Vocab <- MCVocab
    Prompt <- MCPrompt
    StopTokens <- MCStopTokens
    MaxTokens <- MCMaxTokens
    Trace <- MCTrace
    MaxBatchSize = 2
    PrefillBatchSize = 1
    MaxSeqLen = 3
    Replicas = {1, 2}
    Kinds = {"naive", "cached", "static-batch", "continuous-batch", "disaggregated"}
    Policies = {"round-robin", "least-tokens", "prefix-affinity"}
    PrefixLength = 1
    MaxImbalances = {150, 200}
    NWorkers = 2
INVARIANTS OwnPast RoutedOnLoad LedgersAgree OverrunsOnlyStatic
PROPERTIES ServesTokens EverybodyAnswered
CHECK_DEADLOCK FALSE
