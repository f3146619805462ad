SPECIFICATION Spec
CONSTANTS
    a1 = a1
    a2 = a2
    a3 = a3
    f1 = f1
    f2 = f2
    f3 = f3
    k1 = k1
    k2 = k2
    Traces = {a1, a2, a3}
    Keys = {k1, k2}
    Funcs = {f1, f2, f3}
    FuncStates = {"activated"}
    MaxRef = 1
    None = None
    Plan <- MCPlan
    Results <- MCResults
INVARIANTS
    TypeOK
    OneRowPerFunc
    LinksResolve
    PendingIsNotCounted
    SubmittedIsLinked
    ActivatedIffCounted
