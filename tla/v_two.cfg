SPECIFICATION Spec
CONSTANTS
    a1 = a1
    a2 = a2
    t1 = t1
    t2 = t2
    c1 = c1
    c2 = c2
    Address = {a1}
    Root = {a1}
    Unlocks <- NoUnlocks
    Hd = TRUE
    WalletTx = {t1}
    Spends <- FromFirst
    Pays <- FromFirst
    Original <- Independent
    Caller = {c1, c2}
    Wants = {"broadcast", "track"}
    MaxRetries = 1
    MaxGeneration = 1
    MaxStart = 1
    MaxVersion = 1
    MaxReorgs = 0
    MaxDrops = 0
    MaxFailures = 0
    NoTx = NoTx
    NoOp = NoOp
INVARIANTS
    SingleFlight
CHECK_DEADLOCK FALSE
