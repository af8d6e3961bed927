SPECIFICATION FairProcess
CONSTANTS
    None = None
    a = a
    b = b
    c = c
    local = local
    near = near
    far = far
    n1 = n1
    Archiver <- ThreeArchivers
    Seeds <- SeedA
    Reports <- Disagreeing
    Standalone <- local
    MaxEntries = 3
    MaxWrites = 2
    MaxCrashes = 1
    NodeLists <- OneNodeList
    Reliable <- OnlyA
    Silent <- Nobody
    Garbling <- OnlyB
INVARIANTS
    ProcessTypeOK
    CacheIsLatest
PROPERTIES
    PublishesWhatVerified
    SeedsAreAsked
    ServerComesUp
