SPECIFICATION Spec
CONSTANTS
    None = None
    alice = alice
    bob = bob
    Coin = {1, 2, 3, 4}
    Value <- MCValue
    Dust = 2
    Overhead = 1
    InSize = 2
    OutSize = 1
    MaxRate = 10
    PremiumCap = 2
    MaxRecipients = 2
    MinUtxos = 3
    Steps <- MCSteps
    MinPerOutput = 5
    MaxBatchBytes = 7
    Recipient = {alice, bob}
    Family <- MCFamily
    Priority <- MCPriority
    Forms <- MCForms
    NetworkRate = {3}
    DefaultRate = 2
    Gap = 1
    MaxIndex = 2
    MaxReserved = 3
    MaxAside = 1
    MaxTxs = 2
    MaxPaid = 1
INVARIANTS
    TypeOK
    SignedIsReviewed
    NoSelfConflict
    QuoteFitsReceipt
    ChangeNotReused
    NeverGivenTwice
    ShownIsScanned
    RefreshCovers
    NoGridlock
PROPERTIES
    MaxIsMost
CHECK_DEADLOCK FALSE
