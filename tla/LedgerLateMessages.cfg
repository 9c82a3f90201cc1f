SPECIFICATION Spec
CONSTANTS
    Peers <- MCPeers
    Kinds <- AllKinds
    ClockLeads <- SameClock
    MaxTime = 4
    MaxSent = 4
    MaxRevision = 6
    SeatCount = 1
    Capacity = 2
    IdleMs = 2
    MaxLeaseMs = 3
    CooldownMs = 2
    SlowModeMs = 1
    MaxConsecutive = 1
    PresenceTtlMs = 2
    MaxRetainedMessages = 1
    JoinBackdateMs = 0
    MaxRetainedEvents = 6
    MaxTrackedJoins = 2
    MaxTrackedSequences = 2
    MaxClockSkewMs = 0
    MaxEventAgeMs = 9
    JoinFreshnessMs = 1
    MaxSyncEvents = 6
    None = None
INVARIANTS
    LateHostHasMessages
