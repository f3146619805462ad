SPECIFICATION Spec
CONSTANTS
    Timers = {a}
    MaxDuration = 2
    MaxCount = 3
    MaxLag = 2
    None = None
INVARIANTS
    TypeOK
    SleepsToExpiry
    NeverJoinsASleeper
    FiresAtMost
PROPERTIES
    NoFireOnceStopped
    ExpiryIsServed
    DestructorReturns
