SPECIFICATION Spec
CONSTANTS
    r1 = r1
    r2 = r2
    r3 = r3
    backup = backup
    trace = trace
    profile = profile
    keep = keep
    exp = exp
    Runs = {r1}
    Foreign = {}
    Logged = {}
    Managed = {}
    Artifacts = {trace}
    Marker = keep
    Aliases = {exp}
    AliasOf <- MCAliasOf
    DeleteBatch = 1
    MaxFaults = 1
    MaxClock = 1
    MinAge = 1
    StaleAge = 1
    MinScanned = 5
    OrphanNum = 1
    OrphanDen = 2
    Servers = {"owner"}
    ApplyModes = {TRUE}
    Endpoints = {"absent"}
INVARIANT PurgedIsRetired
