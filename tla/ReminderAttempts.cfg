SPECIFICATION CountingSpec
CONSTANTS
    c1 = c1
    i1 = i1
    birthday = birthday
    Connections = {c1}
    Items = {i1}
    Kinds = {birthday}
    KindOf <- MCKindOf
    Dates = {1}
    Leads = {1}
    Zones <- MCZones
    Workers = {w1}
    DayLength = 3
    SendTime = 1
    MaxAttempts = 2
    RetryInterval = 1
    ClaimLease = 1
    Retention = 2
    BatchSize = 1
    RetryAfters = {0, 2}
    NoKey = NoKey
    PlanBound = 0
    MaxTime = 4
    MaxChanges = 0
INVARIANT
    AttemptsPerDay
CHECK_DEADLOCK FALSE
