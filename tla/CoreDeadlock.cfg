SPECIFICATION FairSpec
CONSTANTS
    Edits = {e1, e2, 1, 2}
    PathsOnly = {e2}
    MaxEntries = 2
    Handlers = {h1}
PROPERTY ReloadEnds
CHECK_DEADLOCK FALSE
