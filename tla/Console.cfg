CONSTANTS
    Readers = {r1, r2}
    Char = {a, newline}
    newline = newline
    INPUT_BUF = 3
    MaxN = 3
    MaxIndex = 7
SPECIFICATION FairSpec
CHECK_DEADLOCK FALSE
INVARIANTS
    NoLineMissed
PROPERTIES
    ActsAsLineEditor
    LinesAreRead
