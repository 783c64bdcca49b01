SPECIFICATION AuditFairSpec
CONSTANTS
    Workers = {w1}
    Partitions = {p1}
    Envelopes <- SerialEnvelopes
    NoBody = "none"
    Sensitive = {"pii"}
    Opaque = {"array"}
    Policies = {{"transfer"}}
    RetentionDays = 2555
    LegalHoldDefault = FALSE
    TsResolution = 1
    Ordered = TRUE
    MaxMessages = 3
    MaxFaults = 2
INVARIANTS ChainIntact AnchoredInRoot
PROPERTIES ImplementsLinearLog EventuallyAnchored
CHECK_DEADLOCK FALSE
