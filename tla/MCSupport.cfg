SPECIFICATION Spec
CONSTANTS
    q1 = q1
    q2 = q2
    Everywhere = Everywhere
    Requests = {q1, q2}
    Asked <- Questions
    Users <- UserVersions
    Exclude <- Excluded
    MaxKeys = 2
    MaxHours = 1
    MaxTracks = 2
    MaxCandidates = 1
    MaxLosses = 1
    MinInterval = 2
    MaxTime = 3
    MaxChanges = 3
    MaxRounds = 2
INVARIANTS
    TypeOK
    EndedIsQuiet
    NothingStale
PROPERTIES
    Ends
CHECK_DEADLOCK FALSE
