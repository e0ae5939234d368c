CONSTANTS
    Users = {u1}
    PlatformAdmins = {u1}
    Names = {c1, c2}
    NoName = NoName
    Connections = {i1, i2}
    Profiles = {p1}
    Gateways = {g1}
    NoProfile = NoProfile
    MaxRevision = 2
    MAX_ATTEMPTS = 1
    MaxLate = 1
SYMMETRY Symmetry
SPECIFICATION SpecPublishing
CHECK_DEADLOCK FALSE
INVARIANTS TypeOK LiveGatewayServed PublishedRelaysExist
PROPERTIES RevisionsImmutable ConnectionLifecycle
