SPECIFICATION UnpurgedSpec
CONSTANTS
    r1 = r1
    r2 = r2
    r3 = r3
    backup = backup
    trace = trace
    profile = profile
    keep = keep
    exp = exp
    Runs = {r1, r2, r3}
    Foreign = {backup}
    Logged = {r1, r2, r3}
    Managed = {r1, r2}
    Artifacts = {trace}
    Marker = keep
    Aliases = {exp}
    AliasOf <- MCAliasOf
    DeleteBatch = 1
    MaxFaults = 0
    MaxClock = 1
    MinAge = 1
    StaleAge = 1
    MinScanned = 2
    OrphanNum = 1
    OrphanDen = 2
    Servers = {"empty"}
    ApplyModes = {TRUE, FALSE}
    Endpoints = {"up"}
INVARIANTS
    MispointedIsCaught
    ForeignIsLeftAlone
