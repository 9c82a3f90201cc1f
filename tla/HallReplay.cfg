SPECIFICATION Spec
CONSTANTS
    Peers <- MCFourPeers
    EventTimes <- MCEventTimes
    MaxTime = 4
    SeatCount = 1
    Capacity = 3
    IdleMs = 2
    MaxLeaseMs = 3
    CooldownMs = 1
    SlowModeMs = 1
    MaxConsecutive = 1
    PresenceTtlMs = 2
    MaxRetainedMessages = 1
    JoinBackdateMs = 1
    None = None
INVARIANTS
    TypeOK
    CapacityRespected
    WorkConserving
    NothingOverdue
    SeatedAlive
    CooldownServed
    OneSpot
