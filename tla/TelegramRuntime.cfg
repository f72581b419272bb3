SPECIFICATION Spec
CONSTANTS
    Procs = {p1, p2}
    Slots = {s1, s2}
    Modes = {"polling", "webhook"}
    Routes = {r1, r2}
    NoRoute = NoRoute
    NoProc = NoProc
    LeaseTtl = 2
    StatusTtl = 1
    MaxUpdates = 2
    MaxFaults = 1
INVARIANTS
    TypeOK
    OwnerUnlessStalled
    ReadyHonest
    ConfirmedSettled
PROPERTY
    LeaseLeftToHolder
    TakenOnce
SYMMETRY Symmetry
CHECK_DEADLOCK FALSE
