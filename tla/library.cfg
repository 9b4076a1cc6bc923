CONSTANTS
    r1 = r1
    r2 = r2
    r3 = r3
    gpu = gpu
    cpu = cpu
    Runs = {r1, r2, r3}
    Chips = {gpu, cpu}
    ChipOf <- MCChipOf
    PageSizes = {1, 2}
    Limits = {0, 2}
    LookupOps = {"resolve", "search", "searchall", "select"}
    MaxLookupFaults = 1
    CoreKinds = {"finite", "nonfinite", "huge", "text", "absent"}
    ExtraKinds = {"finite", "nonfinite", "huge", "bool", "text", "list", "absent"}
    UserTags = {{}, {"extra"}, {"eval_metric"}, {"eval_task"}, {"reserved"}}
    Words = {"{", "}", "dir", "tmp", "file:", "files:"}
    MaxWords = 6
    OutLengths = {0, 200000, 200001, 999999999, 2000000000}
    HeadLength = 40
    MaxAdviceChars = 200000
    Chars = {"alnum", "mark", "slash", "query", "newline"}
    MaxAlias = 2
    Names = {"trace", "keep"}
    MarkerName = "keep"
    MaxPaths = 2
    MaxAttempts = 3
    SinglePart = 1
    Checksums = {TRUE, FALSE}
    FirstBlocks = {0, 1, 2, 3}
    MaxBlocks = 3
    MaxEdits = 2
SPECIFICATION FairLibrarySpec
CHECK_DEADLOCK FALSE
INVARIANTS
    LibraryTypeOK
    ReturnedIsDigested
    AlarmIsDeserved
    RaceIsWon
    UsableIsFound
    FoundOnce
    LatestIsSelected
    RecordIsOwn
    BadNumbersAreLogged
    ScalarsAreKept
    AccuracyHasMeaning
    TemplatesExpand
    AdviceFits
    FailureShows
    FilesAreKept
    HoldsAreSeen
    ReferencesReach
PROPERTIES
    EveryTransferEnds
    TransferRunsOut
    ImplementsTransfer
