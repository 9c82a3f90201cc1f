SPECIFICATION FairSpec
CONSTANTS
    MessageWindow = 2
    MaxSentAt = 3
    MaxMoves = 3
    MaxBindings = 2
    MaxActions = 2
    MaxAsides = 1
    MaxFaults = 1
    MaxOrphans = 1
    MaxEvents = 5
    None = None
INVARIANTS
    TypeOK
    OwnActionsShown
    NoMessageLost
    ControlsHonest
PROPERTIES
    Converges
CHECK_DEADLOCK FALSE
