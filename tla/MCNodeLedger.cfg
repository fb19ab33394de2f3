CONSTANTS
    Alice = Alice
    Bob = Bob
    Addresses <- MCAddresses
    None = None
    MaxSupply = 4
    RewardBand = 3
    Rewards <- MCRewards
    MaxStep = 2
    MaxTime = 4
    Transactions <- MCTransactions
    BlockLimit = 2
    Clocks = {1, 5}
    ForeignLimit = 2
    MaxMempool = 3
    MaxProposals = 1
    MaxHeight = 3
    MaintenanceHeights = {2}
    MaxFaults = 1
SPECIFICATION ExplorerSpec
INVARIANTS
    TypeOK SupplyIsBalances OneRewardPerChallenge NoncesInOrder MempoolExecutes ProposalsApply ReplayReproduces
    TablesMatchChain ShownRowsAreTrue ChallengeIssuedOnce RebuildSucceeds
CHECK_DEADLOCK FALSE
