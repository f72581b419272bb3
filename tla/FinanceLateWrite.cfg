SPECIFICATION Spec
CONSTANTS
    Events = {e1}
    Connections = {c1}
    Zones = {0}
    Workers = {w1}
    Web = Web
    NoKey = NoKey
    MonthLength = 100
    Lifetime = 2
    MaxAttempts = 2
    RetryInterval = 1
    ClaimLease = 1
    Retention = 0
    BatchSize = 1
    RetryAfters = {0}
    LastPublish = 0
    LastClaim = 3
    MaxTime = 3
    MaxChanges = 0
PROPERTY
    WebCreationsReachSubscribers
CHECK_DEADLOCK FALSE
