SPECIFICATION CpuSpec
CONSTANTS
    NumFrames = 3
    PagesPerSection = 4
    Pages = {4, 12, 13, 16, 20}
    MainBase = 12
    MemMax = 3
    AppBase = 15
    AppLimit = 0
    NumMaps = 2
    Paths = {"sys", "app"}
    SideloadPaths <- NoRequests
    Prefixes <- SamePath
    MaxFilePages = 5
    FilePages <- TheFilePages
    BootMap <- SysMap
    MapRequests <- AppMaps
    WarpRequests <- NoRequests
    LockRequests <- NoRequests
    Values = {1}
    Disciplined = TRUE
    NoPte = NoPte
    NoPath = NoPath
    NoFile = NoFile
    Dangling = Dangling
    NoPending = NoPending
    CodePages = {4, 16}
    LoadPages = {16, 20}
    StorePages = {12, 13}
    NoInstr = NoInstr
INVARIANTS FewAborts
PROPERTIES InstructionCompletes
CHECK_DEADLOCK FALSE
