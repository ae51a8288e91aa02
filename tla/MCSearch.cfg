SPECIFICATION FairSpec
CONSTANTS
    Chunk <- MCChunk
    ManualOf <- MCManualOf
    TopicOf <- MCTopicOf
    SectionOf <- MCSectionOf
    Text = {q1, q2}
    Blank = Blank
    Processor = {"rule", "rewrite", "multi"}
    Retriever = {"dense", "bm25", "hybrid", "graph"}
    Filter <- MCFilter
    MaxQueries = 2
    MaxRaw = 3
    TopK = 2
    CandidateTopK = 2
    RrfK = 60
    Scale = 3782
    PageSize = 2
INVARIANTS TypeOK FiltersHold ScrollIsComplete RankingIsJustified
PROPERTY SearchEnds
