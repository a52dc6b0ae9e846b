\* Statement failures and blocks of two transactions: any statement may fail,
\* every payload is one PQescapeLiteral rejects, several operations of one
\* transaction, over two projected blocks; operations of other kinds are left
\* to the projection run.
CONSTANTS
    a1 = a1  a2 = a2  d1 = d1  d2 = d2  transfer = transfer
    NoAccount = NoAccount  NoData = NoData
    Accounts <- MCAccounts
    Data <- MCData
    Unescapable <- MCData
    OtherKinds <- MCNoOtherKinds
    ResultKinds <- ChainResults
    StartBlock = 1
    TransientFailures = TRUE
    ReplayBeforeStartup = FALSE
    MaxBlocks = 2
    MaxOps = 2
    MaxTrx = 2
    MaxBulk = 2
    MaxCards = 1
    MaxPerms = 2
    MaxCrashes = 0
    MaxForks = 0
SPECIFICATION Spec
SYMMETRY AccountSymmetry
INVARIANTS CreatingTransaction ProjectionComplete ProjectionSound
CHECK_DEADLOCK FALSE
