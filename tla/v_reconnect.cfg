SPECIFICATION FairSpec
CONSTANTS
    r1 = r1
    r2 = r2
    r3 = r3
    h1 = h1
    h2 = h2
    Request = {r1, r2}
    Hash <- TwoAddresses
    Servers = 1
    MaxConcurrent = 1
    MaxAttempts = 2
    MaxLosses = 1
    MaxFaults = 0
PROPERTIES
    LossIsRepaired
CHECK_DEADLOCK FALSE
