SPECIFICATION Spec
CONSTANTS
    Manual = {m1}
    Page = {p1, p2, p3}
    Text = {t1, t2}
    SnapshotOf <- MCPrivateSnapshots
    BatchSize = 2
    MaxChanges = 1
    MaxFaults = 1
    t1 = t1
    t2 = t2
    Unlisted = Unlisted
    NoFile = NoFile
    NoVector = NoVector
    m1 = m1
    p1 = p1
    p2 = p2
    p3 = p3
INVARIANTS TypeOK VectorsMatch SyncedWhenDone IndexIsBacked
PROPERTY StoredBeforeDeleted
