SPECIFICATION Spec
CONSTANTS
    NumFrames = 2
    PagesPerSection = 4
    Pages <- ImagePages
    MainBase = 12
    MemMax = 2
    AppBase = 15
    AppLimit = 0
    NumMaps = 2
    Paths <- ThePaths
    SideloadPaths <- Side
    Prefixes <- SamePath
    MaxFilePages = 5
    FilePages <- TheFilePages
    BootMap <- SysMap
    MapRequests <- ImageMaps
    WarpRequests <- NoRequests
    LockRequests <- SideUnlocks
    Values = {1}
    Disciplined = TRUE
    NoPte = NoPte
    NoPath = NoPath
    NoFile = NoFile
    Dangling = Dangling
    NoPending = NoPending
INVARIANTS TypeOK PteSound SectionSound FileReadsCoherent
PROPERTIES LiveMappingServed LockedKept
CHECK_DEADLOCK FALSE
