SPECIFICATION Spec
CONSTANTS
    Owners = {o1, o2}
    Users = {u1, u2}
    Sessions = {s1, s2}
    NoOne = NoOne
    InvitationLimit = 2
    InvitationWindow = 1
    InvitationLife = 1
    PendingLife = 1
    ConnectionLimit = 1
    MaxInvitations = 3
    MaxConnections = 2
    MaxTime = 2
INVARIANTS
    TypeOK
    OneActivePerUser
    InvitationsLimited
    OwnerRowsLimited
    NoStandstill
PROPERTY
    ClosedStaysClosed
SYMMETRY Symmetry
CHECK_DEADLOCK FALSE
