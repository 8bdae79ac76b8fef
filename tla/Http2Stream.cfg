CONSTANTS
    Streams = {s1}
    Kinds = {"HEADERS", "CONTINUATION", "PUSH_PROMISE", "DATA", "RST_STREAM"}
    EndsHeaders = {TRUE, FALSE}
    MaxBatch = 2
    MaxFlight = 2
    MaxOddities = 1
SPECIFICATION Spec
CHECK_DEADLOCK FALSE
INVARIANTS
    ResetAfterHeaders
    DenialIsNotLost
    DeniedIsNotReported
    InflatersInStep
