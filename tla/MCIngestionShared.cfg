SPECIFICATION Spec
CONSTANTS
    Manual = {m1, m2}
    Page = {p1}
    Text = {t1, t2}
    SnapshotOf <- MCSharedSnapshot
    BatchSize = 2
    MaxChanges = 2
    MaxFaults = 2
    t1 = t1
    t2 = t2
    Unlisted = Unlisted
    NoFile = NoFile
    NoVector = NoVector
    m1 = m1
    m2 = m2
    p1 = p1
PROPERTY OtherManualsUntouched
