SPECIFICATION FairSpec
CONSTANTS
    t1 = t1
    t2 = t2
    n1 = n1
    n2 = n2
    n3 = n3
    None = None
    Task <- TwoTasks
    Node <- TwoNodes
    Lists <- Shrinking
    Rtts = {}
    MaxTimeout = 1
    IndexCap = 2
    MaxRefresh = 2
INVARIANTS
    ServesLatestList
PROPERTIES
    IndexPanicNeedsRefresh
    SelectionEnds
    KeepsPromise
