SPECIFICATION Spec
CONSTANTS
    None = None
    c1 = c1
    s1 = s1
    s2 = s2
    r1 = r1
    x1 = x1
    Conn <- OneConn
    SubId <- TwoSubs
    Room <- ChatAndOther
    NotChat <- Other
    Round <- TwoRounds
    MaxMessages = 2
    Lag = 1
INVARIANTS
    TypeOK
    MapsAgree
    NothingSkipped
    UnderflowIsRejected
    ClosedLeavesNothing
SYMMETRY SubSymmetry
