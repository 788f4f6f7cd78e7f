CONSTANTS
    CPU = {h0, h1}
    Lock = {l1, l2}
    NoCpu = NoCpu
    NoLock = NoLock
SPECIFICATION Spec
SYMMETRY Symmetry
INVARIANTS
    MutualExclusion
    HoldingExact
    InterruptsOff
PROPERTY IntenaIsBefore
CHECK_DEADLOCK FALSE
