\* Two threads on the C heap, with every level of tracing, blocks of two tags released under
\* either, and releases of null; or a list of five nodes, a map of up to three words, an array
\* that grows.
CONSTANTS
    Threads = {t1, t2}
    Chunks = {c1}
    null = null
    NoError = NoError
    HeaderWords = 2
    PooledWords = {5, 8}
    InitWords = 5
    LargeWords = 8
    Requests = {2, 3}
    MaxMarks = 0
    Addresses = {a1, a2}
    MEMFLAG = {F1, F2}
    Sizes = {2, 4}
    Grain = 4
    Levels = {"off", "summary", "detail"}
    OrderIds = 4
    MaxAllocs = 3
    Parts = {"heap", "list", "bits", "array"}
    Nodes = {n1, n2, n3, n4, n5}
    BitsPerWord = 3
    MaxBits = 7
    Elements = {e1, e2}
    MaxCapacity = 3
SPECIFICATION MCSpec
INVARIANTS HistoryAlternates CountersMatchBlocks BitsExact ElementsKept
PROPERTIES ImplementsNodeList
CONSTRAINT BeforeParSet
SYMMETRY HeapSymmetry
CHECK_DEADLOCK FALSE
