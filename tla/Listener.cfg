CONSTANTS
    Loops = {1, 2}
    Conns = {1, 2}
    Requests = {r1}
    ACCEPT_CHANNEL_CAPACITY = 1
    WS_CHANNEL_CAPACITY = 1
SPECIFICATION SpecListener
INVARIANTS OnlineIsConnected EndedIsOffline
PROPERTIES ConnectionsDelivered Reconnects SendsEnd RequestsEnd ClosedDoesNotReconnect
