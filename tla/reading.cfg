SPECIFICATION UiSpec
CONSTANTS
    r1 = r1
    trace = trace
    profile = profile
    keep = keep
    exp = exp
    Runs = {r1}
    Foreign = {}
    Artifacts = {trace, profile}
    Marker = keep
    Aliases = {exp}
    AliasOf <- MCAliasOf
    DeleteBatch = 2
    MaxFaults = 2
    MaxClock = 1
    MinAge = 1
    StaleAge = 1
    MinScanned = 5
    OrphanNum = 1
    OrphanDen = 2
    Servers = {"owner"}
    ApplyModes = {TRUE}
    Endpoints = {"up"}
    ReadOps = {"stage", "inventory", "command", "download"}
INVARIANTS
    DownloadIsWhole
    InventoryIsWhole
SYMMETRY Symmetry
