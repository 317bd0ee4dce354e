SPECIFICATION Spec
CONSTANTS
    c1 = c1  c2 = c2  f1 = f1  f2 = f2  j1 = j1  j2 = j2
    Conns = {c1}
    Functions = {f1}
    Timed = {}
    Jobs = {j1}
    FunctionOf <- OneJob
    Oversized = {}
    NoJob = NoJob
    Capacity = 2
    MaxCalls = 1
    Window = 2
    MayPanic = FALSE
    MayReport = FALSE
    MayClone = FALSE
    MaxBreaks = 0
INVARIANT UnregisterReachesAll
CHECK_DEADLOCK FALSE
