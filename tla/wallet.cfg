SPECIFICATION FairSpec
CONSTANTS
    OpenKind = {"create", "email"}
    Delays = {0, 2}
    MaxRequests = 3
    MaxFaults = 2
INVARIANTS
    TypeOK
    NothingOutlivesLock
    AnsweredBySession
    SessionsAgree
    SensitiveNeverHidden
PROPERTIES
    AbsenceBounded
    AwayLocks
CHECK_DEADLOCK FALSE
