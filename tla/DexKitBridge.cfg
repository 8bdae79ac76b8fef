CONSTANTS
    Threads = {t1, t2, t3}
    Keys = {k1, k2}
    Jobs = {j1, j2, j3, j4}
    MaxBridges = 4
SPECIFICATION DexKitSpec
CHECK_DEADLOCK FALSE
SYMMETRY Renamings
INVARIANTS
    UsedBridgeIsOpen
    ResultsOfThisBridge
    ReleaseIsComing
