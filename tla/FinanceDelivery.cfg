SPECIFICATION Spec
CONSTANTS
    Events = {e1}
    Connections = {c1}
    Zones <- MCZones
    Workers = {w1, w2}
    Web = Web
    NoKey = NoKey
    MonthLength = 100
    Lifetime = 2
    MaxAttempts = 2
    RetryInterval = 1
    ClaimLease = 1
    Retention = 0
    BatchSize = 1
    RetryAfters = {0, 2}
    LastPublish = 0
    LastClaim = 3
    MaxTime = 3
    MaxChanges = 1
INVARIANTS
    TypeOK
    DuplicateNeedsFault
PROPERTIES
    ImplementsContract
    RecheckDecides
    RetrySpaced
SYMMETRY WorkerSymmetry
CHECK_DEADLOCK FALSE
