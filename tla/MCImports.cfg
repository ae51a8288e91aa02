SPECIFICATION FairSpec
CONSTANTS
    Entry = {"old", "new", "other"}
    Configured = "api"
    Chunk <- MCChunk
    SourceOf <- MCSourceOf
    IdOf <- MCIdOf
    SnapshotOf <- MCSnapshotOf
    Catalogs <- MCCatalogs
    MaxJobs = 2
    MaxBatches = 1
    Batch = Batch
    Torn = Torn
INVARIANTS RunsAsAsked BatchIsAccountedFor
PROPERTIES IsolatedRunIsExact JobsEnd
