SPECIFICATION AuditSpec
CONSTANTS
    Workers = {w1, w2}
    Partitions = {p1}
    Envelopes <- TwoEvents
    NoBody = "none"
    Sensitive = {"pii"}
    Opaque = {"array"}
    Policies = {{}}
    RetentionDays = 2555
    LegalHoldDefault = FALSE
    TsResolution = 1
    Ordered = FALSE
    MaxMessages = 2
    MaxFaults = 1
INVARIANTS AuditTypeOK AnchorsMatchIndex AnchoredAfterAnchor
PROPERTIES ImplementsLog
CHECK_DEADLOCK FALSE
