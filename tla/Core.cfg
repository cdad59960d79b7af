SPECIFICATION FairSpec
CONSTANTS
    Edits = {e1, e2, 1, 2}
    PathsOnly = {e2}
    MaxEntries = 2
    Handlers = {h1}
INVARIANTS TypeOK UsersFollow SettingsApplied
PROPERTIES  SendingEnds
CHECK_DEADLOCK FALSE
