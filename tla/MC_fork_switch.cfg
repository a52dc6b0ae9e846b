\* A fork switch: the head block is popped and another block applied in
\* its place, reusing the object ids of the popped one.
CONSTANTS
    a1 = a1  a2 = a2  d1 = d1  d2 = d2  transfer = transfer
    NoAccount = NoAccount  NoData = NoData
    Accounts <- MCAccounts
    Data <- MCData
    Unescapable <- MCUnescapable
    OtherKinds <- MCOtherKinds
    ResultKinds <- ChainResults
    StartBlock = 1
    TransientFailures = FALSE
    ReplayBeforeStartup = FALSE
    MaxBlocks = 2
    MaxOps = 2
    MaxTrx = 1
    MaxBulk = 1
    MaxCards = 1
    MaxPerms = 1
    MaxCrashes = 0
    MaxForks = 1
SPECIFICATION Spec
SYMMETRY AccountSymmetry
INVARIANT ProjectionSound
CHECK_DEADLOCK FALSE
