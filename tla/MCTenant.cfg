SPECIFICATION TenantFairSpec
CONSTANTS
    h1 = h1
    h2 = h2
    h3 = h3
    a1 = a1
    hog = hog
    alice = alice
    x = x
    Garbage = Garbage
    Blocks = {b1, b2, b3}
    BlockSize = 2
    Requests <- MCRequests
    Vocab <- MCVocab
    Prompt <- MCPrompt
    StopTokens <- MCStopTokens
    MaxTokens <- MCMaxTokens
    MaxBatchSize = 2
    Tenants <- MCTenants
    TenantOf <- MCTenantOf
    Weight <- MCWeight
INVARIANTS TenantsInOrder LagBounded
PROPERTY EverybodyLeaves
CHECK_DEADLOCK FALSE
