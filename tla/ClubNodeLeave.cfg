SPECIFICATION Spec
CONSTANTS
    Peers <- MCSelf
    Self = 1
    PresenceHeartbeatMs = 3
    MaxTime = 8
    MaxDisturbances = 3
    MaxTalk = 0
    MaxOutages = 0
    SeatCount = 1
    Capacity = 1
    IdleMs = 11
    MaxLeaseMs = 20
    CooldownMs = 40
    SlowModeMs = 1
    MaxConsecutive = 2
    PresenceTtlMs = 8
    MaxRetainedMessages = 3
    JoinBackdateMs = 0
    MaxRetainedEvents = 30
    MaxTrackedJoins = 2
    MaxTrackedSequences = 2
    MaxClockSkewMs = 0
    MaxEventAgeMs = 99
    JoinFreshnessMs = 2
    None = None
INVARIANTS
    PresenceRetained
CHECK_DEADLOCK FALSE
