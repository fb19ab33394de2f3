CONSTANTS
    N = 2
    Faulty = {}
    Nil = Nil
    None = None
    Stamps = {1}
    BadStamps = {}
    MaxRounds = 2
    MaxCachedRounds = 2
    MaxRoundAhead = 1
    MaxHeight = 2
    MaxCrashes = 1
    MaxTimers = 1
    FaultyBlocks = {}
    FaultyVotes = {}
SPECIFICATION CrashSpec
INVARIANTS EvidenceOnlyAgainstFaulty ChainsAgree CertificatesAreBacked
CHECK_DEADLOCK FALSE
