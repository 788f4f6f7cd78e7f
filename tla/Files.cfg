CONSTANTS
    Proc = {p1, p2}
    Live = {p1, p2}
    NFILE = 2
    NOFILE = 4
    NVMA = 2
    NOMMAPFILE = 2
    MaxLen = 2
    MaxRef = 3
    Flags = {{"read", "write"}}
    Preempt = FALSE
    NFILESYSTEM = 3
    RootPath <- MCRoot
    DevPath <- MCDev
    Points <- MCPoints
    Paths <- MCPaths
SYMMETRY Symmetry
SPECIFICATION MountsSpec
INVARIANTS RefsCover AreasApart LookupSound
PROPERTY ActsAsFileTable
CHECK_DEADLOCK FALSE
