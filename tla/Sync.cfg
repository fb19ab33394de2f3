CONSTANTS
    Peers = {1, 2}
    Unhelpful = {1}
    Limit = 2
    MaxTip = 2
    MaxFaults = 3
    MaxFlight = 2
SPECIFICATION Spec
INVARIANTS TypeOK OnlyCertifiedHeights SyncingIsBehind NeverIdle
PROPERTIES StaleCompletionsIgnored CatchesUp
CHECK_DEADLOCK FALSE
