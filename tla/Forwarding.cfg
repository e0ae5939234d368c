CONSTANTS
    ForwarderMaps <- Maps
    Names = {"web", "5000"}
    Numbers = {"5000"}
    MaxData = 2
    Routes = {1, 2}
    CHANNEL_CAPACITY = 1
    UDP_ROUTE_IDLE_TIMEOUT = 1
    MaxDatagrams = 2
    MaxReplies = 1
    MaxTime = 2
SPECIFICATION SpecForwarding
INVARIANTS DeliveredInFull FramingExact
PROPERTIES EndArrives LoopRecovers
CHECK_DEADLOCK FALSE
