\* Two threads commit and uncommit, raise the threshold, and collections move it.
CONSTANTS
    Threads = {t1, t2}
    NoThread = NoThread
    NoError = NoError
    DEBUG_MODE = TRUE
    CommitGranuleBytes = 65536
    RegionGranules = 3
    RegionsPerVolume = 2
    flag <- Flags
    AddressSpace = 18
    MaxVolumes = 2
SPECIFICATION Spec
INVARIANTS WithinLimits CountersAgree ReservationsAgree
PROPERTIES NoExpandAfterShrink
SYMMETRY Symmetry
CHECK_DEADLOCK FALSE
