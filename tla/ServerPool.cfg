SPECIFICATION FairSpec
CONSTANTS
    c1 = c1  c2 = c2  u1 = u1
    ServerCount = 3
    Rings <- SomeRings
    Uniques = {u1}
    NoUnique = NoUnique
    Callers = {c1, c2}
    Asks <- SomeAsk
    Targets = {TRUE, FALSE}
    CursorSize = 4
INVARIANTS TypeOK OneServerPerUniqueInOrder FindsServer RoundRobinIsFair
PROPERTY ConnectReturns
CHECK_DEADLOCK FALSE
