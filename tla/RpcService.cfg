SPECIFICATION FairSpec
CONSTANTS
    None = None
    c1 = c1
    Client <- OneClient
    Frame <- Requests
    Retries <- ThreeOrFour
    MaxFrames = 3
INVARIANTS
    TypeOK
    AnswersInOrder
    AttemptsAreCounted
PROPERTIES
    AnswersUnlessSilent
    KeepsPromise
CHECK_DEADLOCK FALSE
