\* Two callers, an operation nested in another, destroy at any moment.
CONSTANTS
    Requesters = {r1, r2}
    NestedOps = {n1}
    AtSafepoint = {r1, n1}
    NestingAllowed = {r1, r2}
    VM = VM
    Main = Main
    NoThread = NoThread
    NoOp = NoOp
    NoError = NoError
    WaitForStartup = TRUE
    WithDestroy = TRUE
    MaxRequests = 2
    MaxNested = 1
    MaxSpurious = 1
SPECIFICATION FairSpec
INVARIANTS TypeOK ReturnMeansEvaluated NoDanglingOperation SafepointHeld
    AssertionsHold DestroyWaitsForExit
PROPERTIES CallReturns DestroyReturns ImplementsService
CHECK_DEADLOCK FALSE
