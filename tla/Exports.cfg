SPECIFICATION ExportSpec
CONSTANTS
    Events <- ThreeEvents
    Windows = {}
    Now = 2
    PageLimit = 2
    Backends = {"memory", "postgres"}
    MaxAlterations = 0
    MaxAnchors = 0
    MaxSweeps = 0
    MaxFaults = 1
    Jobs = {j1}
    Runners = {r1, r2}
    Filters <- AllFilters
    Retentions = {0, 106752}
INVARIANTS CompleteMatchesArtifact ArtifactsProve
CHECK_DEADLOCK FALSE
