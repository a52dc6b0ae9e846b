\* A process crash at any point, inside on_block included, then restart,
\* replay of the block log and re-delivery of the interrupted block.
CONSTANTS
    a1 = a1  a2 = a2  d1 = d1  d2 = d2  transfer = transfer
    NoAccount = NoAccount  NoData = NoData
    Accounts <- MCAccounts
    Data <- MCData
    Unescapable <- MCUnescapable
    OtherKinds <- MCOtherKinds
    ResultKinds <- ChainResults
    StartBlock = 1
    TransientFailures = FALSE
    ReplayBeforeStartup = FALSE
    MaxBlocks = 2
    MaxOps = 2
    MaxTrx = 1
    MaxBulk = 1
    MaxCards = 1
    MaxPerms = 1
    MaxCrashes = 1
    MaxForks = 0
SPECIFICATION Spec
SYMMETRY AccountSymmetry
INVARIANTS ProjectionComplete ProjectionSound ReplayIsIdempotent
CHECK_DEADLOCK FALSE
