\* Projection of graphene-shaped blocks over three blocks, the first below
\* the start block: every handler, the router and the plugin lifecycle.
CONSTANTS
    a1 = a1  a2 = a2  d1 = d1  d2 = d2  transfer = transfer
    NoAccount = NoAccount  NoData = NoData
    Accounts <- MCAccounts
    Data <- MCData
    Unescapable <- MCUnescapable
    OtherKinds <- MCOtherKinds
    ResultKinds <- ChainResults
    StartBlock = 2
    TransientFailures = FALSE
    ReplayBeforeStartup = FALSE
    MaxBlocks = 3
    MaxOps = 2
    MaxTrx = 1
    MaxBulk = 2
    MaxCards = 1
    MaxPerms = 2
    MaxCrashes = 0
    MaxForks = 0
SPECIFICATION Spec
SYMMETRY AccountSymmetry
INVARIANTS TypeOK ProjectionComplete ProjectionSound
PROPERTIES AppendThenMutate
CHECK_DEADLOCK FALSE
