SPECIFICATION Spec
CONSTANTS
    t1 = t1
    t2 = t2
    n1 = n1
    n2 = n2
    n3 = n3
    None = None
    Task <- TwoTasks
    Node <- TwoNodes
    Lists <- TwoList
    Rtts = {1}
    MaxTimeout = 2
    IndexCap = 2
    MaxRefresh = 1
INVARIANTS
    WeightsMatchList
SYMMETRY TaskSymmetry
