\* Segments are handed out, split, enlarged, used, given back and merged; or an arena's
\* memory is handed out, given back, salvaged and used again.
CONSTANTS
    Headers = {h1, h2, h3, h4}
    null = null
    NoError = NoError
    DEBUG_MODE = FALSE
    LV_HIGHEST = 2
    LevelBytes <- ThreeLevels
    CommitGranuleBytes = 2
    Needs = {1, 2}
    MaxRegions = 2
    Parts = {"segments", "arena"}
    Words <- ArenaWords
    TreeMinWords = 2
    BytesPerWord = 2
    Requests = {1, 5, 7, 9}
    SegmentWords = {5, 9}
    RegionWords = 10
    GranuleWords = 5
    MaxSegments = 2
SPECIFICATION MCSpec
INVARIANTS Tiling FreeListsExact BlocksPartitionUsedMemory TreeSound
PROPERTIES ArenaKeepsItsMemory
CONSTRAINTS BeforeStaleRoot FewBlocks
SYMMETRY Symmetry
CHECK_DEADLOCK FALSE
