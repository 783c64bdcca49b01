SPECIFICATION RetentionSpec
CONSTANTS
    Workers = {w1}
    Partitions = {p1}
    Envelopes <- OneEvent
    NoBody = "none"
    Sensitive = {"pii"}
    Opaque = {"array"}
    Policies = {{}}
    RetentionDays = 2555
    LegalHoldDefault = FALSE
    TsResolution = 1
    Ordered = FALSE
    MaxMessages = 1
    MaxFaults = 0
PROPERTIES HeldPayloadKept
CHECK_DEADLOCK FALSE
