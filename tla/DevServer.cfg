CONSTANTS
    s1 = s1  w1 = w1  d1 = d1  k1 = k1
    Clients = {s1, w1, d1, k1}
    Calls <- OneOfEach
    Pids = {p1, p2, p3}
    CanCrash = {s1}
    None = None
SPECIFICATION Spec
INVARIANTS
    TypeOK
    ServersStayRecorded
    NoOrphanedLaunch
PROPERTIES
    BootsInPeace
    LockComesFree
\* Every call may have returned.
CHECK_DEADLOCK FALSE
