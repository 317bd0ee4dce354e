SPECIFICATION Spec
CONSTANTS
    c1 = c1  c2 = c2  u1 = u1
    ServerCount = 3
    Rings <- SomeRings
    Uniques = {u1}
    NoUnique = NoUnique
    Callers = {c1, c2}
    Asks <- SomeAsk
    Targets = {FALSE}
    CursorSize = 4
INVARIANT OneServerPerUnique
CHECK_DEADLOCK FALSE
