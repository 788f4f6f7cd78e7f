CONSTANTS
    f1 = f1
    f2 = f2
    Files = {f1, f2}
    LastCluster = 7
    PerSector = 3
    Bytes = 2
    MaxLen = 3
    Counts = {4}
    Skips = {TRUE, FALSE}
    Capacity = 2
    Sub = 20
    Plain <- MCPlain
    Trees <- MCTrees
    Paths <- MCPaths
    Lens = {11, 30, 200}
SPECIFICATION FatSpec
INVARIANTS
    ClustersAccountedFor
    ReadsItsOwn
    LeadsThere
    LsListsWhatOpens
CHECK_DEADLOCK FALSE
