SPECIFICATION RoutingSpec
CONSTANTS
    a = a
    b = b
    p1 = p1
    p2 = p2
    r1 = r1
    r2 = r2
    r3 = r3
    d1 = d1
    recA = recA
    recB = recB
    Names = {a, b}
    Paths = {path1, path2}
    Publishers = {pub}
    Readers = {rd}
    ConfMaps <- ManagerConfs
    Simulcasts = {a}
    PatientCore = TRUE
INVARIANTS
    TypeOK
    ManagerKnows
    SourcesDoNotConflict
    SurvivesFaults
PROPERTIES
    Ends
CHECK_DEADLOCK FALSE
