SPECIFICATION Spec
CONSTANTS
    c1 = c1  c2 = c2  f1 = f1  f2 = f2  j1 = j1  j2 = j2
    Conns = {c1, c2}
    Functions = {f1}
    Timed = {}
    Jobs = {j1, j2}
    FunctionOf <- SameFunction
    Oversized = {}
    NoJob = NoJob
    Capacity = 1
    MaxCalls = 2
    Window = 2
    MayPanic = TRUE
    MayReport = TRUE
    MayClone = FALSE
    MaxBreaks = 1
SYMMETRY ConnSymmetry
INVARIANTS TypeOK OneGrabOutstanding AssignedIsInHand AdvertisesRegistry Withdrawn
PROPERTY ShutdownAbandonsNoJob
CHECK_DEADLOCK FALSE
