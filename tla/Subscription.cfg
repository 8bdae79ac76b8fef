CONSTANTS
    Jobs = {j1, j2}
    Lease = 1
    MaxTime = 2
    MaxVersion = 2
SPECIFICATION Spec
SYMMETRY Coroutines
INVARIANTS
    OneRefreshAtATime
    LeasesEnd
    ValidatorOfRules
    NotModifiedConfirms
    NoOrphanRules
PROPERTIES
    RulesMoveForward
