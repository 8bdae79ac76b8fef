CONSTANTS
    Streams = {s1, s2}
    Kinds = {"HEADERS", "DATA"}
    EndsHeaders = {TRUE}
    MaxBatch = 2
    MaxFlight = 1
    MaxOddities = 0
SPECIFICATION Spec
CHECK_DEADLOCK FALSE
SYMMETRY StreamIds
INVARIANTS
    VerdictBeforeResponse
    DeniedIsNotReported
    FinishedIsReported
