SPECIFICATION Spec
CONSTANTS
    f1 = f1  f2 = f2  f3 = f3  b1 = b1  x1 = x1  s1 = s1  u = u  h1 = h1
    Requests = {f1, f2, f3}
    Handles = {h1}
    Kind <- CoalescingKind
    Unique <- CoalescingUnique
    About <- NoQueries
    Oversized = {}
    NoRequest = NoRequest
    NoHandle = NoHandle
    NoUnique = NoUnique
    WithExceptions = TRUE
    ServerEmits = {"work_status", "work_exception"}
    MaxEvents = 2
    MaxBackoff = 3
SYMMETRY CoalescingSymmetry
INVARIANTS TypeOK ReplyAttribution EventsInOrder SlotsMirrorRegistrations
PROPERTY KeepsPromise
CHECK_DEADLOCK FALSE
