\* Two threads' arenas, with marks and rollbacks, no request above a chunk's length.
CONSTANTS
    Threads = {t1, t2}
    Chunks = {c1, c2, c3}
    null = null
    NoError = NoError
    HeaderWords = 2
    PooledWords = {5, 8}
    InitWords = 5
    LargeWords = 8
    Requests = {2, 3}
    MaxMarks = 2
    Addresses = {a1}
    MEMFLAG = {F1}
    Sizes = {2}
    Grain = 4
    Levels = {"off"}
    OrderIds = 1
    MaxAllocs = 0
    Parts = {"arena"}
    Nodes = {n1}
    BitsPerWord = 1
    MaxBits = 0
    Elements = {e1}
    MaxCapacity = 1
SPECIFICATION MCSpec
INVARIANT BlocksSound
SYMMETRY Symmetry
CHECK_DEADLOCK FALSE
CONSTRAINT FewBlocks
