CONSTANTS
    N = 2
    Faulty = {1}
    Nil = Nil
    None = None
    Stamps = {1}
    BadStamps = {}
    MaxRounds = 3
    MaxCachedRounds = 2
    MaxRoundAhead = 1
    MaxHeight = 1
    MaxCrashes = 2
    MaxTimers = 2
    FaultyBlocks <- RecoveryBlocks
    FaultyVotes <- RecoveryVotes
SPECIFICATION Spec
INVARIANTS TypeOK DurableBeforeBroadcast NoSlotConflict AlwaysRecoverable LockCoversPrecommits ProposerBacksItself
CHECK_DEADLOCK FALSE
