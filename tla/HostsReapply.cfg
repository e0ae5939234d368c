CONSTANTS
    Parts = {"file"}
    KEY_TTL = 2
    TOKEN_TTL = 4
    TOKEN_RENEWAL_MARGIN = 2
    RETRY = 1
    TIMEOUT = 1
    SLACK = 1
    Skews = {1}
    Providers = {"broker", "sas", "static", "aad"}
    MaxTime = 5
    MaxKey = 1
    Commands = {"p1"}
    Credentials = {"c1", "c2", "c3"}
    MaxRevision = 2
    Hosts = {1, 2}
    Locals = {"f1", "f2"}
    Remotes = {"r1"}
    Addresses = {"a1", "a2"}
    Setups <- HostSetups
    Procs = {"p1"}
    Tags = {"A", "B"}
    Names = {1, 2}
    SLOTS = 2
    fnv1a32 <- Colliding
    MaxUser = 1
    MaxWrites = 3
    Clients = {"c1", "c2"}
    Rows = {1, 2}
    MaxCalls = 2
SPECIFICATION SpecParts
PROPERTY ReapplyingNeverMoves
CHECK_DEADLOCK FALSE
