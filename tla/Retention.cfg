SPECIFICATION RetentionSpec
CONSTANTS
    Workers = {w1, w2}
    Partitions = {p1, p2}
    Envelopes <- MixedEnvelopes
    NoBody = "none"
    Sensitive = {"pii"}
    Opaque = {"array"}
    Policies = {{}, {"transfer"}}
    RetentionDays = 106751
    LegalHoldDefault = FALSE
    TsResolution = 1
    Ordered = FALSE
    MaxMessages = 1
    MaxFaults = 1
INVARIANTS NoSilentLoss ProvableWhileRetained
CHECK_DEADLOCK FALSE
