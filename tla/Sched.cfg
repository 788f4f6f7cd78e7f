CONSTANTS
    NProc = 3
    Asserts = FALSE
    RemoteWakes = TRUE
SPECIFICATION FairSpec
INVARIANTS
    LockHandoff
    NobodyStranded
    NoLostWakeup
PROPERTY RunnableRuns
