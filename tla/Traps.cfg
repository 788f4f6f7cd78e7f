CONSTANTS
    Procs = {p1, p2}
    First = {p1}
    Values = {0, 1}
    Known = {TRUE, FALSE}
SPECIFICATION FairSpec
CHECK_DEADLOCK FALSE
INVARIANTS
    TrapsNestRight
PROPERTIES
    ActsAsProcessors
    HartIsShared
