SPECIFICATION UnpurgedSpec
CONSTANTS
    r1 = r1
    r2 = r2
    r3 = r3
    backup = backup
    trace = trace
    profile = profile
    keep = keep
    exp = exp
    Runs = {r1}
    Foreign = {}
    Logged = {}
    Managed = {r1}
    Artifacts = {trace, profile}
    Marker = keep
    Aliases = {exp}
    AliasOf <- MCAliasOf
    DeleteBatch = 2
    MaxFaults = 1
    MaxClock = 3
    MinAge = 2
    StaleAge = 1
    MinScanned = 5
    OrphanNum = 1
    OrphanDen = 2
    Servers = {"owner"}
    ApplyModes = {TRUE}
    Endpoints = {"up", "absent"}
PROPERTIES
    EarlierHoldSurvives
    GraceIsRespected
