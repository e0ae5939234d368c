CONSTANTS
    ForwarderMaps <- Maps
    Names = {"web", "5000"}
    Numbers = {"5000"}
    MaxData = 2
SPECIFICATION FairSpec
INVARIANTS HalfCloseDelivers
CHECK_DEADLOCK FALSE
