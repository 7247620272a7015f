SPECIFICATION Spec
CONSTANTS
    a1 = a1
    a2 = a2
    t1 = t1
    t2 = t2
    c1 = c1
    c2 = c2
    Address = {a1, a2}
    Root = {a1, a2}
    Unlocks <- NoUnlocks
    Hd = TRUE
    WalletTx = {t1, t2}
    Spends <- FromFirst
    Pays <- ToSecond
    Original <- Replacing
    Caller = {c1}
    Wants = {"broadcast", "track"}
    MaxRetries = 1
    MaxGeneration = 1
    MaxStart = 1
    MaxVersion = 0
    MaxReorgs = 0
    MaxDrops = 1
    MaxFailures = 0
    NoTx = NoTx
    NoOp = NoOp
INVARIANTS
    TypeOK
    PendingStaysProjected
    NoDoubleBalance
CHECK_DEADLOCK FALSE
