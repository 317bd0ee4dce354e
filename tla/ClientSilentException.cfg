SPECIFICATION FairSpec
CONSTANTS
    f1 = f1  f2 = f2  f3 = f3  b1 = b1  x1 = x1  s1 = s1  u = u  h1 = h1
    Requests = {f1}
    Handles = {h1}
    Kind <- SoloKind
    Unique <- SoloUnique
    About <- NoQueries
    Oversized = {}
    NoRequest = NoRequest
    NoHandle = NoHandle
    NoUnique = NoUnique
    WithExceptions = FALSE
    ServerEmits = {"work_exception"}
    MaxEvents = 0
    MaxBackoff = 1
PROPERTY StreamsEnd
CHECK_DEADLOCK FALSE
