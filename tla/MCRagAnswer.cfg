SPECIFICATION Spec
CONSTANTS
    Chunk <- MCChunk
    TopicOf <- MCTopicOf
    HashOf <- MCHashOf
    Score <- MCScore
    Strategy = {"vanilla", "self", "agentic", "graph"}
    CandidateTopK = 3
    EvidenceTopK = 2
    MinScore = 1
    PerTopicLimit = 1
    RepairAttempts = 1
    MaxSteps = 2
INVARIANTS PublishedIsReturned EvidenceFollowsPolicy BestEvidenceFirst AgentKeepsTheBest
PROPERTIES KeepsContract WorkRunsOut
