CONSTANTS
    N = 4
    Faulty = {1, 2, 3}
    Nil = Nil
    None = None
    Stamps = {1, 2}
    BadStamps = {2}
    MaxRounds = 3
    MaxCachedRounds = 2
    MaxRoundAhead = 1
    MaxHeight = 1
    MaxCrashes = 0
    MaxTimers = 1
    FaultyBlocks <- LockBlocks
    FaultyVotes <- LockVotes
SPECIFICATION Spec
INVARIANT VotesAreExecutable
PROPERTIES ImplementsVoting SignsOnlyNextHeight
CHECK_DEADLOCK FALSE
