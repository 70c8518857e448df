\* Two threads that come and go, two safepoints, one interrupt; no assertions.
CONSTANTS
    LangThreads = {t1, t2}
    Attached = {}
    VM = VM
    NoThread = NoThread
    NoError = NoError
    DEBUG_MODE = FALSE
    MaxSafepoints = 2
    MaxInterrupts = 1
SPECIFICATION FairSpec
INVARIANTS ProtocolAssertions HeldUntilEnd NoLostWakeup
PROPERTIES ListFrozen SynchronizeReturns SleepersResume
CHECK_DEADLOCK FALSE
