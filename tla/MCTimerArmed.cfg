CONSTANTS
    N = 4
    Faulty = {1, 2, 3}
    Nil = Nil
    None = None
    Stamps = {1}
    BadStamps = {}
    MaxRounds = 3
    MaxCachedRounds = 2
    MaxRoundAhead = 1
    MaxHeight = 1
    MaxCrashes = 0
    MaxTimers = 1
    FaultyBlocks <- TimerBlocks
    FaultyVotes <- TimerVotes
SPECIFICATION Spec
INVARIANT TimerArmed
CHECK_DEADLOCK FALSE
