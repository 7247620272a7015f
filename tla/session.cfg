SPECIFICATION FairSpec
CONSTANTS
    a1 = a1
    a2 = a2
    t1 = t1
    t2 = t2
    c1 = c1
    c2 = c2
    Address = {a1}
    Root = {a1}
    Unlocks <- NoUnlocks
    Hd = TRUE
    WalletTx = {t1}
    Spends <- FromFirst
    Pays <- FromFirst
    Original <- Independent
    Caller = {c1}
    Wants = {"broadcast"}
    MaxRetries = 1
    MaxGeneration = 2
    MaxStart = 2
    MaxVersion = 0
    MaxReorgs = 1
    MaxDrops = 0
    MaxFailures = 1
    NoTx = NoTx
    NoOp = NoOp
INVARIANTS
    SnapshotOfSession
    NoForgottenWork
PROPERTIES
    DeferredWorkRuns
    ScanEnds
CHECK_DEADLOCK FALSE
