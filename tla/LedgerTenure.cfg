SPECIFICATION Spec
CONSTANTS
    Peers <- MCPeers
    MaxTime = 5
    SeatCount = 2
    Capacity = 2
    IdleMs = 4
    MaxLeaseMs = 4
    CooldownMs = 6
    SlowModeMs = 1
    MaxConsecutive = 1
    PresenceTtlMs = 2
    MaxRetainedMessages = 1
    JoinBackdateMs = 0
    MaxRetainedEvents = 6
    MaxTrackedJoins = 2
    MaxTrackedSequences = 2
    MaxClockSkewMs = 0
    MaxEventAgeMs = 9
    JoinFreshnessMs = 1
    None = None
INVARIANTS
    LeaseEnds
CHECK_DEADLOCK FALSE
