CONSTANTS
    Users = {u1, u2}
    PlatformAdmins = {u1}
    Names = {c1}
    NoName = NoName
    Connections = {i1, i2}
    Profiles = {p1}
    Gateways = {g1}
    NoProfile = NoProfile
    MaxRevision = 1
    MAX_ATTEMPTS = 1
    MaxLate = 1
    Pollers = {q1, q2}
    LIFETIME = 2
    INTERVAL = 1
    SLOW = 1
    MaxInterval = 3
    MaxTime = 3
SPECIFICATION SpecLifecycle
CHECK_DEADLOCK FALSE
INVARIANTS DeletedLeavesNothing
PROPERTIES LastAdminKept DeletionCompletes ConnectionDeletionCompletes OneTime PollsPaced ExpiredRemoved
