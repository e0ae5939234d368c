CONSTANTS
    Loops = {l1}
    Conns = {k1}
    Requests = {}
    ACCEPT_CHANNEL_CAPACITY = 1
    WS_CHANNEL_CAPACITY = 1
SPECIFICATION FairSpec
PROPERTIES ClosedStopsAccepting
