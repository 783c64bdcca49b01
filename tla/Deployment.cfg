SPECIFICATION DeploymentFairSpec
CONSTANTS
    Instances = {i1, i2}
    Commands = {c1}
    Versions = 2
    Events = {e1}
    MaxFaults = 1
    MaxCrashes = 1
    MaxCommands = 2
INVARIANTS ServesOnSchema Settled OneLog
PROPERTIES Boots
CHECK_DEADLOCK FALSE
