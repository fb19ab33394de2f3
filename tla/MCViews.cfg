CONSTANTS
    PageLimit = 2
    Capacity = 2
    MaxBatch = 2
    MaxRows = 4
    MaxUpsets = 2
    FreshFor = 1
    AcceptFor = 2
    MaxInFlight = 2
    MaxChanges = 2
    MaxHeight = 1
SPECIFICATION ViewsSpec
INVARIANTS ListIsHistory ShownMeansRecent
PROPERTIES AnnouncedRowsAppear ShownSettles
CHECK_DEADLOCK FALSE
