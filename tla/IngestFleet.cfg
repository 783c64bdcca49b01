SPECIFICATION FairSpec
CONSTANTS
    Workers = {w1, w2}
    Partitions = {p1}
    Envelopes <- FleetEnvelopes
    NoBody = "none"
    Sensitive = {"pii"}
    Opaque = {"array"}
    Policies = {{"transfer"}, {}}
    RetentionDays = 2555
    LegalHoldDefault = FALSE
    TsResolution = 1
    Ordered = FALSE
    MaxMessages = 2
    MaxFaults = 2
INVARIANTS TypeOK NoSilentLoss
PROPERTIES ImplementsLog EventuallyHandled
CHECK_DEADLOCK FALSE
