SPECIFICATION Spec
CONSTANTS
    Origins = {o1, o2, o3}
    MinuteMs = 2
    MaxPublished = 1
    MaxOfOrigin = 1
    MaxRateLimitOrigins = 2
    PruneAbove = 1
    QueueCapacity = 2
    MaxSyncOrigins = 2
    DeadlineMs = 1
    MaxTime = 3
    MaxInputs = 5
    None = None
SYMMETRY Interchangeable
INVARIANTS
    TypeOK
    WorkBounded
    AcceptedInOrder
    AnswersSpaced
CHECK_DEADLOCK FALSE
