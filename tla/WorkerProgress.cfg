SPECIFICATION FairSpec
CONSTANTS
    c1 = c1  c2 = c2  f1 = f1  f2 = f2  j1 = j1  j2 = j2
    Conns = {c1}
    Functions = {f1, f2}
    Timed = {f1, f2}
    Jobs = {j1, j2}
    FunctionOf <- TwoFunctions
    Oversized = {}
    NoJob = NoJob
    Capacity = 2
    MaxCalls = 1
    Window = 1
    MayPanic = FALSE
    MayReport = TRUE
    MayClone = TRUE
    MaxBreaks = 1
PROPERTIES ShutdownReturns UnregisterReturns JobsGetDone
CHECK_DEADLOCK FALSE
