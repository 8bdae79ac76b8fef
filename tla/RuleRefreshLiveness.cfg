CONSTANTS
    Callers = {c1}
    MaxEdits = 1
    MaxFaults = 1
SPECIFICATION FairSpec
PROPERTIES
    CallsReturn
    CatchesUp
