SPECIFICATION Spec
CONSTANTS
    t1 = t1
    t2 = t2
    n1 = n1
    n2 = n2
    n3 = n3
    None = None
    Task <- OneTask
    Node <- ThreeNodes
    Lists <- ThreeList
    Rtts = {0, 1, 3}
    MaxTimeout = 2
    IndexCap = 3
    MaxRefresh = 1
PROPERTIES
    NeverDrawsWorthless
