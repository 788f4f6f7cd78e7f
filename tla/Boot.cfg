CONSTANTS
    Procs = {p1, p2}
    Sectors = {0, 4194303}
    Data = {a, b}
    nobody = nobody
    Tries = 2
    SlowTries = 3
    MaxSlow = 3
    Found = {4, 15, 31, 120}
SPECIFICATION BootSpec
CHECK_DEADLOCK FALSE
INVARIANT BoardReady
PROPERTIES
    CardFound
    CommandsApart
    ActsAsBlockDevice
    LockWaitersWoken
