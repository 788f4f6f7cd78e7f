CONSTANTS
    NPROC = 4
    Status = {1, 2}
    Shifts = 3
    Workload = {"full", "childless"}
SPECIFICATION FairSpec
CHECK_DEADLOCK FALSE
INVARIANTS
    TreeSound
    NoWaiterForgotten
PROPERTIES
    StatusIsTheChilds
    InitWokenForZombies
