SPECIFICATION FairSpec
CONSTANTS
    Events = {e1}
    Connections = {c1, c2}
    Zones = {0}
    Workers = {w1}
    Web = Web
    NoKey = NoKey
    MonthLength = 100
    Lifetime = 1
    MaxAttempts = 2
    RetryInterval = 1
    ClaimLease = 1
    Retention = 0
    BatchSize = 2
    RetryAfters = {0}
    LastPublish = 0
    LastClaim = 2
    MaxTime = 3
    MaxChanges = 0
PROPERTIES
    EventuallyClosed
CHECK_DEADLOCK FALSE
