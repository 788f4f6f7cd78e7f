CONSTANTS
    Harts = {h0}
    MaxChars = 1
    Acks = {FALSE}
SPECIFICATION FairInterruptsSpec
PROPERTY TicksArrive
