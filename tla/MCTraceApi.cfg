CONSTANTS
    MaxRequests = 3
    MaxTraces = 2
    MaxEvents = 3
    TTL = 0
    Client = {c1}
SPECIFICATION FillingSpec
INVARIANTS
    InOrderOnce
    EndedStreamIsComplete
    StatusMatchesLog
    OnlyFullTracesStick
    StoreBounded
PROPERTIES
    EvictionIsJustified
    ClosedIsFinal
    RequestEnds
    StreamEnds
    TailIsDelivered
