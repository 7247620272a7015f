SPECIFICATION FairSpec
CONSTANTS
    Branch = {"external", "internal"}
    Gap = 1
    Batch = 2
    Slots = 2
    Workers = 1
    MaxAttempts = 2
    MaxIndex = 2
    Issued <- TwoGiven
    Starts <- FirstOrLater
    MaxEvents = 2
INVARIANTS
    TypeOK
    Discovered
    SlotsKept
PROPERTIES
    FailureStops
    ScanSettles
CHECK_DEADLOCK FALSE
