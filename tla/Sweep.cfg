SPECIFICATION SweepSpec
CONSTANTS
    Events <- FourEvents
    Windows <- TwoWindows
    Now = 3
    PageLimit = 2
    Backends = {"memory", "postgres"}
    MaxAlterations = 1
    MaxAnchors = 1
    MaxSweeps = 1
    MaxFaults = 1
INVARIANTS NoFalseAlarm FindsAlterations AnchorsTell WalksWindow  EndpointExact
CHECK_DEADLOCK FALSE
