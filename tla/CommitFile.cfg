CONSTANTS
    ManagerReaders = {m1}
    HookReaders = {h1}
    MaxWrites = 3
    MaxInterruptions = 3
SPECIFICATION Spec
INVARIANTS
    MarkerDiscipline
    OneInterruptionIsSafe
    ReadIsCurrent
PROPERTIES
    RegisterSpec
