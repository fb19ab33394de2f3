CONSTANTS
    Peers = {1, 2, 3}
    Unhelpful = {1, 2}
    Limit = 2
    MaxTip = 2
    MaxFaults = 0
    MaxFlight = 1
SPECIFICATION Spec
PROPERTY CatchesUp
CHECK_DEADLOCK FALSE
