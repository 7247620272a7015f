SPECIFICATION Spec
CONSTANTS
    a1 = a1
    a2 = a2
    t1 = t1
    t2 = t2
    c1 = c1
    c2 = c2
    Address = {a1, a2}
    Root = {a1, a2}
    Unlocks <- NoUnlocks
    Hd = TRUE
    WalletTx = {t1, t2}
    Spends <- OneEach
    Pays <- OneEach
    Original <- Independent
    Caller = {c1}
    Wants = {"broadcast"}
    MaxRetries = 1
    MaxGeneration = 1
    MaxStart = 1
    MaxVersion = 1
    MaxReorgs = 0
    MaxDrops = 0
    MaxFailures = 0
    NoTx = NoTx
    NoOp = NoOp
INVARIANTS
    AcceptedStaysProjected
CHECK_DEADLOCK FALSE
