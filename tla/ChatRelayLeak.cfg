SPECIFICATION FairSpec
CONSTANTS
    None = None
    c1 = c1
    s1 = s1
    s2 = s2
    r1 = r1
    x1 = x1
    Conn <- OneConn
    SubId <- TwoSubs
    Room <- OneRoom
    NotChat <- NoRoom
    Round <- OneRound
    MaxMessages = 1
    Lag = 0
PROPERTIES
    DisconnectedAreRemoved
