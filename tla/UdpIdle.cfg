CONSTANTS
    Routes = {1, 2}
    CHANNEL_CAPACITY = 1
    UDP_ROUTE_IDLE_TIMEOUT = 1
    MaxDatagrams = 2
    MaxReplies = 1
    MaxTime = 2
SPECIFICATION UdpFairSpec
PROPERTIES IdleMeansIdle
CHECK_DEADLOCK FALSE
