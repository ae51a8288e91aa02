SPECIFICATION FairSpec
CONSTANTS
    File = {"one", "two", "base"}
    Suite <- MCSuite
    Id = {"a", "b"}
    Absent = "absent"
    NoId = "no id"
    Scalar = "scalar"
    NoFile = "no file"
    Cases = 2
    Answerable = {1}
    NoReport = NoReport
INVARIANTS IdsAreResolved CompletedIsEarned
PROPERTY SuiteEnds
