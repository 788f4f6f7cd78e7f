CONSTANTS
    Harts = {h0, h1}
    MaxChars = 2
    Acks = {TRUE, FALSE}
SPECIFICATION FairInterruptsSpec
INVARIANT RecognisesDevices
INVARIANT MaskedForAReason
PROPERTY InterruptsServed
