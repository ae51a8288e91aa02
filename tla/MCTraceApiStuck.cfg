CONSTANTS
    MaxRequests = 2
    MaxTraces = 1
    MaxEvents = 2
    TTL = 1
    Client = {c1}
SPECIFICATION Spec
INVARIANT FailureIsExposed
