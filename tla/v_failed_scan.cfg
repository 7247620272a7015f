SPECIFICATION Spec
CONSTANTS
    a1 = a1
    a2 = a2
    t1 = t1
    t2 = t2
    c1 = c1
    c2 = c2
    Address = {a1, a2}
    Root <- FirstRoot
    Unlocks <- ChainUnlocks
    Hd = TRUE
    WalletTx = {}
    Spends <- FromFirst
    Pays <- ToSecond
    Original <- Independent
    Caller = {}
    Wants = {"refresh"}
    MaxRetries = 1
    MaxGeneration = 1
    MaxStart = 1
    MaxVersion = 2
    MaxReorgs = 1
    MaxDrops = 1
    MaxFailures = 1
    NoTx = NoTx
    NoOp = NoOp
INVARIANTS
    FreshHoldsSignals
CHECK_DEADLOCK FALSE
