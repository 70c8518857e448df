\* Two tasks with different intervals that come and go, and stop().
CONSTANTS
    a = a
    b = b
    Tasks = {a, b}
    Interval <- ShortAndLong
    P = P
    Main = Main
    NoThread = NoThread
    NoTask = NoTask
    NoError = NoError
    UNIT = 2
    Wrap = 6
    NoRunCheck = 1
    MaxTaskNum = 2
    MaxActivations = 3
    MaxSpurious = 1
    MaxLate = 1
SPECIFICATION FairSpec
INVARIANTS TableSound NoDanglingTask OncePerPass
PROPERTIES RunsNotEarly EveryTaskRuns StopEndsBusyThread
CHECK_DEADLOCK FALSE
