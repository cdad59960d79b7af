SPECIFICATION Spec
CONSTANTS
    r1 = r1
    r2 = r2
    None = None
    RecordConfs <- AllRecordConfs
    PartDuration = 3
    SegmentDuration = 7
    MaxPartSize = 4
    mpegtsBufferSize = 3
    DeleteAfter = 24
    MaxSkew = 2
    MaxInstances = 2
    Starts = {0, 3, 7, 11}
    Durations = {4, 14}
    Zone <- OneHourAhead
    Minute = 10
    Readers = {r1, r2}
    Tracks = {"v", "a"}
    WriteQueueSize = 1
    Formats <- BothFormats
    MaxUnits <- UnitsOfTracks
    Protocols = {"srt", "webrtc"}
    MaxStreams = 2
    MaxReconnects = 1
INVARIANTS
    TypeOK
    PlayedAsRecorded
    FilesAreComplete
    DeliveryIsRight
PROPERTIES
    KeepsPromise
    Ends
CHECK_DEADLOCK FALSE
