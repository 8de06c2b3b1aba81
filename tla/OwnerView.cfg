SPECIFICATION ViewSpec
CONSTANTS
    NumFrames = 3
    PagesPerSection = 4
    Pages <- MemoryPages
    MainBase = 12
    MemMax = 3
    AppBase = 15
    AppLimit = 1
    NumMaps = 2
    Paths <- OnePath
    SideloadPaths <- NoRequests
    Prefixes <- SamePath
    MaxFilePages = 5
    FilePages <- TheFilePages
    BootMap <- SysMap
    MapRequests <- OneMap
    WarpRequests <- OneWarp
    LockRequests <- OneLock
    Values = {v1, v2}
    Disciplined = TRUE
    NoPte = NoPte
    NoPath = NoPath
    NoFile = NoFile
    Dangling = Dangling
    NoPending = NoPending
    NoSearch = NoSearch
    NoOp = NoOp
SYMMETRY ValueSymmetry
INVARIANTS ReadsCoherent HangOnlyWhenFull
PROPERTIES MemoryIsFlat SearchIsAtomic FreshFrameClean
CHECK_DEADLOCK FALSE
