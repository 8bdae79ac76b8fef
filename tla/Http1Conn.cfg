\* Two requests of two or three parts; a buffer of four parts is too small for
\* both; three parts make a whole request in one write; two unusual events.
CONSTANTS
    MaxRequest = 2
    MAX_BUFFER_SIZE = 4
    MaxWrite = 3
    MaxFaults = 2

SPECIFICATION Spec

\* The application makes only MaxRequest requests, and may stop at any time.
CHECK_DEADLOCK FALSE

INVARIANTS
    OnlyUnfinishedStays
    DeniedIsStopped
    InnocentPasses
    AnswersMatch
    ReportedOnce
