SPECIFICATION Spec
CONSTANTS
    Owners = {o1}
    Users = {u1, u2}
    Sessions = {s1, s2}
    NoOne = NoOne
    InvitationLimit = 2
    InvitationWindow = 1
    InvitationLife = 1
    PendingLife = 1
    ConnectionLimit = 1
    MaxInvitations = 2
    MaxConnections = 2
    MaxTime = 2
INVARIANT
    LimitKept
CHECK_DEADLOCK FALSE
