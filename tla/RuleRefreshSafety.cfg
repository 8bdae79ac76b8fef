CONSTANTS
    Callers = {c1, c2}
    MaxEdits = 1
    MaxFaults = 2
SPECIFICATION Spec
SYMMETRY Threads
INVARIANTS
    SingleFlight
    ToldEditIsCovered
    MatchedAfterLoad
PROPERTIES
    CacheSpec
