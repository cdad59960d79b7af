SPECIFICATION RegularSpec
CONSTANTS
    p1 = p1
    p2 = p2
    r1 = r1
    r2 = r2
    r3 = r3
    d1 = d1
    recA = recA
    recB = recB
    Publishers = {p1, p2}
    Readers = {r1, r2, r3}
    Describers = {d1}
    Confs <- RegularConfs
    InitializeMayFail = FALSE
INVARIANTS
    TypeOK
    ClientsAgree
    DemandAgrees
    ClosingMeansUnused
    RecorderFollowsConf
    NoPanic
    DoneIsClean
PROPERTIES
    IdlePathCloses
    KeepsPromise
CHECK_DEADLOCK FALSE
