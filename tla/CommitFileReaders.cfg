CONSTANTS
    ManagerReaders = {m1}
    HookReaders = {h1}
    MaxWrites = 1
    MaxInterruptions = 0
SPECIFICATION Spec
INVARIANTS
    ReadersPreferTemp
