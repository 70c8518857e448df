\* An arena allocates more than the first granule of its segment.
CONSTANTS
    null = null
    NoError = NoError
    Words <- ArenaWords
    TreeMinWords = 2
    BytesPerWord = 2
    Requests = {1, 5, 7, 9}
    SegmentWords = {5}
    RegionWords = 10
    GranuleWords = 5
    MaxSegments = 2
    Parts = {"arena"}
    Headers = {h1}
    DEBUG_MODE = FALSE
    LV_HIGHEST = 2
    LevelBytes <- ThreeLevels
    CommitGranuleBytes = 2
    Needs = {1}
    MaxRegions = 0
SPECIFICATION MCSpec
INVARIANT AllocatesCommittedMemory
CONSTRAINT FewBlocks
CHECK_DEADLOCK FALSE
