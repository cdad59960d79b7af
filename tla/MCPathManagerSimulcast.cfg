SPECIFICATION FairSpec
CONSTANTS
    a = a
    b = b
    Names = {a, b}
    Paths = {path1, path2}
    Publishers = {pub}
    Readers = {}
    ConfMaps <- SimulcastConfs
    Simulcasts = {a}
    PatientCore = TRUE
PROPERTIES PathWaitEnds
CHECK_DEADLOCK FALSE
