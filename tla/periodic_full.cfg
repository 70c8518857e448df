\* Two tasks for one place of the table.
CONSTANTS
    a = a
    b = b
    Tasks = {a, b}
    Interval <- ShortAndLong
    P = P
    Main = Main
    NoThread = NoThread
    NoTask = NoTask
    NoError = NoError
    UNIT = 2
    Wrap = 6
    NoRunCheck = 1
    MaxTaskNum = 1
    MaxActivations = 4
    MaxSpurious = 1
    MaxLate = 1
SPECIFICATION Spec
INVARIANT FailsOnlyAtLimits
CHECK_DEADLOCK FALSE
