SPECIFICATION FairSpec
CONSTANTS
    Runs = {run1, run2}
    None = None
    MaxConf = 1
INVARIANTS
    TypeOK
    RunsNeverMeet
    ReadyMeansStreaming
PROPERTIES
    KeepsPromise
    GoesOn
CHECK_DEADLOCK FALSE
