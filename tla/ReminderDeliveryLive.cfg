SPECIFICATION FairSpec
CONSTANTS
    c1 = c1
    i1 = i1
    birthday = birthday
    Connections = {c1}
    Items = {i1}
    Kinds = {birthday}
    KindOf <- MCKindOf
    Dates = {1}
    Leads = {1}
    Zones <- MCZones
    Workers = {w1}
    DayLength = 3
    SendTime = 1
    MaxAttempts = 2
    RetryInterval = 1
    ClaimLease = 1
    Retention = 3
    BatchSize = 2
    RetryAfters = {0, 2}
    NoKey = NoKey
    PlanBound = 1
    MaxTime = 5
    MaxChanges = 2
PROPERTY
    EventuallyClosed
CHECK_DEADLOCK FALSE
