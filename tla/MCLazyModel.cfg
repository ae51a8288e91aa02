CONSTANTS
    Thread = {t1, t2, t3}
    Free = Free
    MaxCalls = 2
SPECIFICATION FairSpec
INVARIANTS
    MutualExclusion
    LoadedOnce
    HaveMeansLoaded
PROPERTIES
    CallsEnd
