SPECIFICATION Spec
CONSTANTS
    Peers <- MCPeers
    Kinds <- ChurnKinds
    ClockLeads <- SameClock
    MaxTime = 3
    MaxSent = 5
    MaxRevision = 6
    SeatCount = 1
    Capacity = 1
    IdleMs = 2
    MaxLeaseMs = 3
    CooldownMs = 2
    SlowModeMs = 1
    MaxConsecutive = 1
    PresenceTtlMs = 2
    MaxRetainedMessages = 1
    JoinBackdateMs = 0
    MaxRetainedEvents = 4
    MaxTrackedJoins = 1
    MaxTrackedSequences = 1
    MaxClockSkewMs = 0
    MaxEventAgeMs = 9
    JoinFreshnessMs = 1
    MaxSyncEvents = 6
    None = None
INVARIANTS
    Bounded
    IndexesLogged
    ActiveIndexed
