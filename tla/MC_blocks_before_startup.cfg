\* Blocks applied after plugin_initialize connected on_block and before
\* plugin_startup opened the connection.
CONSTANTS
    a1 = a1  a2 = a2  d1 = d1  d2 = d2  transfer = transfer
    NoAccount = NoAccount  NoData = NoData
    Accounts <- MCAccounts
    Data <- MCData
    Unescapable <- MCUnescapable
    OtherKinds <- MCOtherKinds
    ResultKinds <- ChainResults
    StartBlock = 1
    TransientFailures = FALSE
    ReplayBeforeStartup = TRUE
    MaxBlocks = 2
    MaxOps = 2
    MaxTrx = 1
    MaxBulk = 2
    MaxCards = 1
    MaxPerms = 2
    MaxCrashes = 0
    MaxForks = 0
SPECIFICATION Spec
SYMMETRY AccountSymmetry
INVARIANT ProjectionComplete
CHECK_DEADLOCK FALSE
