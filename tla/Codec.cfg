SPECIFICATION FairSpec
CONSTANTS
    ArgCount <- SomeCounts
    Packets <- SomePackets
    Alien <- SomeAlien
    MaxPayload = 3
    MaxSent = 2
INVARIANTS TypeOK ReceivedAsSent ErrorsAreForeign
PROPERTY AllArrive
CHECK_DEADLOCK FALSE
