SPECIFICATION Spec
CONSTANTS
    MaxDuration = 3
    MaxGap = 1
    MaxAhead = 2
    MaxBack = 3
INVARIANTS
    TypeOK
    OversleepIsBounded
    NoEarlyTimeout
    NeverSleepsWhenReady
PROPERTIES
    WaitReturns
