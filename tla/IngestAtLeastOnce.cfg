SPECIFICATION Spec
CONSTANTS
    Workers = {w1}
    Partitions = {p1}
    Envelopes <- SerialEnvelopes
    NoBody = "none"
    Sensitive = {"pii"}
    Opaque = {"array"}
    Policies = {{"transfer"}}
    RetentionDays = 2555
    LegalHoldDefault = FALSE
    TsResolution = 1
    Ordered = TRUE
    MaxMessages = 2
    MaxFaults = 1
INVARIANTS NothingLost
CHECK_DEADLOCK FALSE
