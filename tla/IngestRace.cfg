SPECIFICATION Spec
CONSTANTS
    Workers = {w1, w2}
    Partitions = {p1}
    Envelopes <- SerialEnvelopes
    NoBody = "none"
    Sensitive = {"pii"}
    Opaque = {"array"}
    Policies = {{"transfer"}}
    RetentionDays = 2555
    LegalHoldDefault = FALSE
    TsResolution = 1
    Ordered = TRUE
    MaxMessages = 2
    MaxFaults = 0
INVARIANTS ChainIntact
CHECK_DEADLOCK FALSE
