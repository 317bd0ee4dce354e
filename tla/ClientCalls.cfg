SPECIFICATION FairSpec
CONSTANTS
    f1 = f1  f2 = f2  f3 = f3  b1 = b1  x1 = x1  s1 = s1  u = u  h1 = h1
    Requests = {f1, b1, x1, s1}
    Handles = {h1}
    Kind <- CallsKind
    Unique <- CallsUnique
    About <- CallsAbout
    Oversized = {x1}
    NoRequest = NoRequest
    NoHandle = NoHandle
    NoUnique = NoUnique
    WithExceptions = TRUE
    ServerEmits = {"work_fail"}
    MaxEvents = 0
    MaxBackoff = 1
INVARIANT ReplyAttribution
PROPERTIES KeepsPromise CallsReturn StreamsEnd ActorReturns
CHECK_DEADLOCK FALSE
