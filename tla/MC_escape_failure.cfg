\* Two payloads, one of which PQescapeLiteral rejects: the permission is
\* stored with the literal '' and its statement reported a success.
CONSTANTS
    a1 = a1  a2 = a2  d1 = d1  d2 = d2  transfer = transfer
    NoAccount = NoAccount  NoData = NoData
    Accounts <- MCAccounts
    Data <- EscapeData
    Unescapable <- EscapeUnescapable
    OtherKinds <- MCOtherKinds
    ResultKinds <- ChainResults
    StartBlock = 1
    TransientFailures = FALSE
    ReplayBeforeStartup = FALSE
    MaxBlocks = 2
    MaxOps = 2
    MaxTrx = 1
    MaxBulk = 2
    MaxCards = 1
    MaxPerms = 2
    MaxCrashes = 0
    MaxForks = 0
SPECIFICATION Spec
SYMMETRY AccountSymmetry
INVARIANT PayloadStored
CHECK_DEADLOCK FALSE
