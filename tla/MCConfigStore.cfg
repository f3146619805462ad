SPECIFICATION MCSpec
CONSTANTS
    Modulus = 10
    Persons = {p1, p2}
    TinyIDs = {t1, t2, t3}
    AuIDs = {a1, a2, a3}
    Data = {d1, d2}
    Traces = {c1, c2, c3}
    MaxTime = 3
    MaxDeliveries = 4
    None = None
INVARIANTS
    SeedsDoNotRepeat
    PreferencesAreReadBack
    LastResultIsReturned
PROPERTIES
    ListIsAnswered
