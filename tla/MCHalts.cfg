CONSTANTS
    N = 2
    Faulty = {}
    Nil = Nil
    None = None
    Stamps = {1, 2}
    BadStamps = {}
    MaxRounds = 3
    MaxCachedRounds = 2
    MaxRoundAhead = 1
    MaxHeight = 1
    MaxCrashes = 1
    MaxTimers = 1
    FaultyBlocks = {}
    FaultyVotes = {}
SPECIFICATION Spec
INVARIANT HaltsOnlyOnConflict
CHECK_DEADLOCK FALSE
