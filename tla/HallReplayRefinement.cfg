SPECIFICATION FairSpecH
CONSTANTS
    Peers <- MCPeers
    EventTimes <- MCEventTimes
    MaxTime = 3
    SeatCount = 2
    Capacity = 3
    IdleMs = 1
    MaxLeaseMs = 2
    CooldownMs = 1
    SlowModeMs = 1
    MaxConsecutive = 1
    PresenceTtlMs = 2
    MaxRetainedMessages = 2
    JoinBackdateMs = 0
    None = None
INVARIANTS
    NoMonologue
PROPERTIES
    ReplaysLikeDerive
    AdvanceTerminates
