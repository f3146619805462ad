SPECIFICATION Spec
CONSTANTS
    Workers = {w1, w2}
    Clients = {c1}
    Tasks = {t1, t2, t3}
    Stop = Stop
    None = None
    ForeignCancel = FALSE
INVARIANTS
    TypeOK
    TaskLedger
    StopForEveryThread
    NoLostWakeup
    DrainBeforeStop
PROPERTIES
    FinishReturns
    QueuedTaskSettles
    ServiceSpec
