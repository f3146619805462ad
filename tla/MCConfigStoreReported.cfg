SPECIFICATION MCSpec
CONSTANTS
    Modulus = 2
    Persons = {p1}
    TinyIDs = {t1}
    AuIDs = {a1}
    Data = {d1}
    Traces = {c1}
    MaxTime = 1
    MaxDeliveries = 1
    None = None
INVARIANTS
    ReportedIsFixed
