SPECIFICATION Spec
CONSTANTS
    Workers = {w1, w2}
    Clients = {c1}
    Tasks = {t1, t2, t3}
    Stop = Stop
    None = None
    ForeignCancel = TRUE
INVARIANTS
    StopForEveryThread
