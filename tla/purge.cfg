\* Would a purge find what is committed and free?
CONSTANTS
    Headers = {h1}
    null = null
    NoError = NoError
    DEBUG_MODE = FALSE
    LV_HIGHEST = 14
    LevelBytes <- ProgramLevels
    CommitGranuleBytes = 65536
    Needs = {1024}
    MaxRegions = 1
    Parts = {"segments"}
    Words <- ArenaWords
    TreeMinWords = 1
    BytesPerWord = 1
    Requests = {1}
    SegmentWords = {1}
    RegionWords = 1
    GranuleWords = 1
    MaxSegments = 1
SPECIFICATION MCSpec
INVARIANT PurgeFindsCommitted
CONSTRAINT BeforeStaleRoot
SYMMETRY Symmetry
CHECK_DEADLOCK FALSE
