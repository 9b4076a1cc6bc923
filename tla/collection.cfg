SPECIFICATION FairCollectionSpec
CONSTANTS
    r1 = r1
    r2 = r2
    r3 = r3
    backup = backup
    trace = trace
    profile = profile
    keep = keep
    exp = exp
    Runs = {r1}
    Foreign = {}
    Logged = {}
    Managed = {r1}
    Artifacts = {trace}
    Marker = keep
    Aliases = {exp}
    AliasOf <- MCAliasOf
    DeleteBatch = 1
    MaxFaults = 3
    MaxClock = 2
    MinAge = 1
    StaleAge = 1
    MinScanned = 2
    OrphanNum = 1
    OrphanDen = 2
    Servers = {"owner"}
    ApplyModes = {TRUE}
    Endpoints = {"up"}
PROPERTIES
    GarbageIsCollected
    AbandonedIsReported
