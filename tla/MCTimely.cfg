CONSTANTS
    N = 4
    Faulty = {0}
    Nil = Nil
    None = None
    Stamps = {1}
    BadStamps = {}
    MaxRounds = 4
    MaxCachedRounds = 3
    MaxRoundAhead = 1
    MaxHeight = 1
    MaxCrashes = 0
    MaxTimers = 1
    FaultyBlocks <- TimelyBlocks
    FaultyVotes <- TimelyVotes
SPECIFICATION TimelySpec

PROPERTY Progress
