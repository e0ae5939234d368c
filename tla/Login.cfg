CONSTANTS
    t1 = t1
    t2 = t2
    b1 = b1
    b2 = b2
    Tabs = {t1, t2}
    Browsers = {b1, b2}
    Users = {"u1", "u2"}
    Admins = {"u1"}
    OAUTH_SECONDS = 1
    SESSION_SECONDS = 2
    MaxTime = 2
    MaxLogins = 2
    MaxSessions = 2
    Requests = {"q1", "q2"}
    CAPACITY = 2
    WINDOW = 3
    STALL = 1
    MaxInstant = 5
    MaxAdmitted = 5
SYMMETRY Symmetry
SPECIFICATION SpecLogin
INVARIANTS ChallengeSpentOnce SessionsStayHome AdmissionsPaced
CHECK_DEADLOCK FALSE
