CONSTANTS
    Readers = {r1}
    Writers = {w1, w2}
    Byte = {0, 1}
    PIPESIZE = 2
    Wrap = 4
    MaxN = 3
    EndsClose = TRUE
SPECIFICATION FairSpec
CHECK_DEADLOCK FALSE
INVARIANTS
    AsleepForAReason
    NoUseAfterDelete
PROPERTIES
    Fifo
    ReadersSeeTheEnd
