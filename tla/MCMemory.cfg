CONSTANTS
    Procs = {p1, p2}
    NPages = 10
    Fan = 3
    PGSIZE = 2
    Gap = 2
    Lowest = 23
    NOMMAPFILE = 2
    Lengths = {3}
    Sizes = {2}
    MAXARG = 1
    Swapped = {TRUE, FALSE}
    Inverted = {TRUE, FALSE}
    Overlap = FALSE
    MaxForks = 3
SYMMETRY Symmetry
SPECIFICATION MCSpec
CHECK_DEADLOCK FALSE
INVARIANTS
    PagesApart
PROPERTIES
    ActsAsAddressSpaces
