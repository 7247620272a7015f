SPECIFICATION FairSpec
CONSTANTS
    r1 = r1
    r2 = r2
    r3 = r3
    h1 = h1
    h2 = h2
    Request = {r1, r2}
    Hash <- TwoAddresses
    Servers = 2
    MaxConcurrent = 1
    MaxAttempts = 3
    MaxLosses = 2
    MaxFaults = 3
INVARIANTS
    TypeOK
    SlotsAccounted
    HandshakeAlone
    TimerAlone
    ListenersServed
PROPERTIES
    RequestsSettle
CHECK_DEADLOCK FALSE
