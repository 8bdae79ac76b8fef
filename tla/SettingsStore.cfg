CONSTANTS
    Keys = {k1, k2}
    Threads = {t1, t2}
    MaxUpdates = 4
    MaxOutages = 1
    MaxFailures = 1
SPECIFICATION Spec
CHECK_DEADLOCK FALSE
SYMMETRY Renamings
INVARIANTS
    CacheIsLatest
    DiskCatchesUp
    NothingIsWiped
