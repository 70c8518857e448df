\* A listed thread comes back from Mutex::lock during a safepoint.
CONSTANTS
    LangThreads = {t1}
    Attached = {}
    VM = VM
    NoThread = NoThread
    NoError = NoError
    DEBUG_MODE = FALSE
    MaxSafepoints = 1
    MaxInterrupts = 0
SPECIFICATION Spec
INVARIANT OnlyVMThreadRuns
CHECK_DEADLOCK FALSE
