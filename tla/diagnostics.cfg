\* Two threads log, fail assertions and report them on one stream.
CONSTANTS
    Threads = {t1, t2}
    Nobody = Nobody
    OStreamDefaultBufSize = 6
    SmallBuf = 2
    Expansion = 2
    Lengths = {3, 6}
    MaxTexts = 2
    MaxLines = 1
    MaxRecursive = 0
    Steps = 2
SPECIFICATION Spec
INVARIANTS LinesWhole ReportSound
PROPERTIES ErrorEndsProcess
CHECK_DEADLOCK FALSE
