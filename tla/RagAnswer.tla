----------------------------- MODULE RagAnswer -----------------------------
(***************************************************************************)
(* One question answered by a RAG strategy (app/rag): retrieve candidates, *)
(* select evidence, generate a draft, validate its citations, repair them, *)
(* and answer or refuse.  Vanilla and Graph RAG retrieve once; Self-RAG    *)
(* lets a controller ask for one rewritten retrieval and veto the answer;  *)
(* Agentic RAG retrieves while its controller asks for it, up to MaxSteps. *)
(*                                                                         *)
(* Controller and generator are language models: whatever they return is   *)
(* possible here, and each of their calls may raise.  A text is known by   *)
(* the set of numbers it cites in brackets, a candidate by its chunk and   *)
(* score.  The order of candidates is the order of their scores, which all *)
(* retrievers sort by; candidates with the same score come in any order.   *)
(***************************************************************************)
EXTENDS Naturals, Sequences, FiniteSets

CONSTANTS
    Chunk,            \* the chunks of the index
    TopicOf, HashOf,  \* the topic and the content hash of each chunk
    Score,            \* the scores a retriever or reranker gives
    Strategy,         \* the strategies configured, among the four names
    CandidateTopK,    \* retrieval.candidate_top_k
    EvidenceTopK,     \* retrieval.evidence_top_k
    MinScore,         \* retrieval.min_score, 0 for none
    PerTopicLimit,    \* retrieval.per_topic_limit
    RepairAttempts,   \* generation.citation_repair_attempts
    MaxSteps          \* rag.max_steps

ASSUME SettingsAssumption ==
    /\ IsFiniteSet(Chunk) /\ Score \subseteq Nat
    /\ Strategy \subseteq {"vanilla", "self", "agentic", "graph"}
    /\ CandidateTopK \in Nat \ {0} /\ EvidenceTopK \in 1..CandidateTopK
    /\ MinScore \in Nat /\ PerTopicLimit \in Nat \ {0}
    /\ RepairAttempts \in Nat /\ MaxSteps \in Nat \ {0}

VARIABLES
    strategy,     \* the strategy serving the question
    require,      \* generation.require_inline_citations
    pc,           \* what the strategy awaits or does next
    candidates,   \* the retrieval outcome so far
    left,         \* candidates the evidence selector has not seen yet
    evidence,     \* chunks selected, in order: [1] is the first
    cites,        \* numbers the current draft cites
    answer,       \* the answer object, as returned when pc = "done"
    published,    \* payload of the last response.completed event
    retrievals,   \* retrievals done so far
    fetched,      \* all candidates these calls have returned
    generations   \* calls of the generator so far

vars == <<strategy, require, pc, candidates, left, evidence, cites, answer,
          published, retrievals, fetched, generations>>
inputVars == <<strategy, require>>
searchVars == <<candidates, left, retrievals, fetched>>
draftVars == <<cites, generations>>
answerVars == <<answer, published>>

Candidate == [chunk : Chunk, score : Score]
NoAnswer == [kind |-> "none"]

(* A retriever returns each chunk at most once.                            *)
DistinctChunks(cs) == \A c, d \in cs : c.chunk = d.chunk => c = d
Results == {cs \in SUBSET Candidate :
                DistinctChunks(cs) /\ Cardinality(cs) <= CandidateTopK}

Init ==
    /\ strategy \in Strategy
    /\ require \in BOOLEAN
    /\ pc = IF strategy = "agentic" THEN "plan" ELSE "retrieve"
    /\ candidates = {} /\ left = {} /\ fetched = {} /\ retrievals = 0
    /\ evidence = <<>>
    /\ cites = {} /\ generations = 0
    /\ answer = NoAnswer /\ published = NoAnswer

-----------------------------------------------------------------------------
(* Retrieval.                                                              *)

(* Faulty: the latest score wins.                                          *)
MergeLatest(old, new) ==
    new \union {c \in old : \A d \in new : d.chunk # c.chunk}

(* Each chunk with the best score it was found with.                       *)
Merge(old, new) ==
    {c \in old \union new :
        \A d \in old \union new : d.chunk = c.chunk => d.score <= c.score}

(* A retrieval after which the strategy holds the combined candidates and  *)
(* goes on at next.                                                        *)
Search(results, combined, next) ==
    /\ results \in Results
    /\ retrievals' = retrievals + 1
    /\ fetched' = fetched \union results
    /\ candidates' = combined
    /\ left' = combined
    /\ pc' = next
    /\ UNCHANGED <<inputVars, evidence, draftVars, answerVars>>

(* Vanilla and Graph RAG: one retrieval.  Graph RAG ranks the stored       *)
(* chunks itself.                                                          *)
RetrieveOnce ==
    /\ pc = "retrieve" /\ strategy \in {"vanilla", "graph"}
    /\ \E results \in Results : Search(results, results, "select")

SelfRetrieve ==
    /\ pc = "retrieve" /\ strategy = "self"
    /\ \E results \in Results : Search(results, results, "assess")

(* The controller finds the evidence sufficient, or asks for a rewrite.    *)
AssessEvidence ==
    /\ pc = "assess"
    /\ pc' \in {"select", "rewrite"}
    /\ UNCHANGED <<inputVars, searchVars, evidence, draftVars, answerVars>>

(* The rewritten query is used unless blank or the question itself.        *)
Rewrite ==
    /\ pc = "rewrite"
    /\ pc' \in {"select", "retrieve_again"}
    /\ UNCHANGED <<inputVars, searchVars, evidence, draftVars, answerVars>>

(* The outcome of the second retrieval replaces that of the first.         *)
RetrieveAgain ==
    /\ pc = "retrieve_again"
    /\ \E results \in Results : Search(results, results, "select")

(* The controller of Agentic RAG: "retrieve", "answer" or "stop"; anything *)
(* else is taken for "stop", which answers from what there is.             *)
Plan ==
    /\ pc = "plan"
    /\ pc' \in {"retrieve", "select"}
    /\ UNCHANGED <<inputVars, searchVars, evidence, draftVars, answerVars>>

(* Faulty: one step too many.                                              *)
OutOfStepsLate(n) == n > MaxSteps

OutOfSteps(n) == n = MaxSteps

AgentRetrieve ==
    /\ pc = "retrieve" /\ strategy = "agentic"
    /\ \E results \in Results :
        Search(results, Merge(candidates, results),
               IF OutOfSteps(retrievals + 1) THEN "select" ELSE "plan")

-----------------------------------------------------------------------------
(* Evidence.                                                               *)

OnTopic(selected, topic) ==
    {i \in DOMAIN selected : TopicOf[selected[i]] = topic}

(* Faulty: the same content counts twice when two topics hold it.          *)
PassesUnlessTopicIsFull(c, selected) ==
    /\ c.score >= MinScore
    /\ Cardinality(OnTopic(selected, TopicOf[c.chunk])) < PerTopicLimit

(* The policy on one candidate, apart from the size of the evidence.       *)
Passes(c, selected) ==
    /\ c.score >= MinScore
    /\ \A i \in DOMAIN selected : HashOf[selected[i]] # HashOf[c.chunk]
    /\ Cardinality(OnTopic(selected, TopicOf[c.chunk])) < PerTopicLimit

(* Faulty: no order among the candidates.                                  *)
AnyOf(cs) == cs

Best(cs) == {c \in cs : \A d \in cs : d.score <= c.score}

(* One round of the selector's loop: the best candidate left is evidence   *)
(* when it passes and there is room.                                       *)
Consider ==
    /\ pc = "select"
    /\ \E c \in Best(left) :
        /\ left' = left \ {c}
        /\ evidence' = IF Passes(c, evidence) /\ Len(evidence) < EvidenceTopK
                          THEN Append(evidence, c.chunk) ELSE evidence
    /\ UNCHANGED <<inputVars, pc, candidates, retrievals, fetched, draftVars,
                   answerVars>>

-----------------------------------------------------------------------------
(* The answer.                                                             *)

Valid(text) == text # {} /\ text \subseteq DOMAIN evidence

Refusal(shown, validated) ==
    [kind |-> "answer", refused |-> TRUE, validated |-> validated,
     cites |-> {}, citations |-> {}, evidence |-> shown]

Citations(used) ==
    {[index |-> i, chunk |-> evidence[i]] : i \in used \intersect DOMAIN evidence}

(* A text that cites nothing is taken to use all its evidence.             *)
Used(text) == IF text = {} THEN DOMAIN evidence ELSE text

Grounded(text) ==
    [kind |-> "answer", refused |-> FALSE, validated |-> Valid(text),
     cites |-> text, citations |-> Citations(Used(text)), evidence |-> evidence]

(* Vanilla's answer and its response.completed event.  Self-RAG goes on to *)
(* check an answer that is not a refusal.                                  *)
Respond(a) ==
    /\ answer' = a
    /\ published' = a
    /\ pc' = IF strategy = "self" /\ ~a.refused THEN "support" ELSE "done"

RefuseWithoutEvidence ==
    /\ pc = "select" /\ left = {} /\ evidence = <<>>
    /\ Respond(Refusal(<<>>, TRUE))
    /\ UNCHANGED <<inputVars, searchVars, evidence, draftVars>>

(* Faulty: the repaired text is not validated again.                       *)
JudgeRepairedUnseen(text, repairs) ==
    IF require /\ ~Valid(text) /\ repairs = 0 /\ RepairAttempts > 0
    THEN pc' = "repair" /\ UNCHANGED answerVars
    ELSE Respond(Grounded(text))

(* What follows a draft after so many repairs: another repair, refusal, or *)
(* the answer.                                                             *)
Judge(text, repairs) ==
    IF require /\ ~Valid(text)
    THEN IF repairs < RepairAttempts
            THEN pc' = "repair" /\ UNCHANGED answerVars
            ELSE Respond(Refusal(evidence, FALSE))
    ELSE Respond(Grounded(text))

(* The texts a model may return; one number too high stands for all.       *)
Texts == SUBSET (0..Len(evidence) + 1)

Draft(text) ==
    /\ cites' = text
    /\ generations' = generations + 1
    /\ Judge(text, generations)
    /\ UNCHANGED <<inputVars, searchVars, evidence>>

Generate ==
    /\ pc = "select" /\ left = {} /\ evidence # <<>>
    /\ \E text \in Texts : Draft(text)

RepairCitations ==
    /\ pc = "repair"
    /\ \E text \in Texts : Draft(text)

(* Faulty: the refusal that replaces an unsupported answer is not          *)
(* published.                                                              *)
VetoSilently ==
    /\ pc = "support"
    /\ answer' = Refusal(answer.evidence, TRUE)
    /\ pc' = "done"
    /\ UNCHANGED <<inputVars, searchVars, evidence, draftVars, published>>

(* The controller does not find the answer supported: it is replaced by a  *)
(* refusal that keeps the evidence, and a second response is published.    *)
Veto ==
    /\ pc = "support"
    /\ answer' = Refusal(answer.evidence, TRUE)
    /\ published' = answer'
    /\ pc' = "done"
    /\ UNCHANGED <<inputVars, searchVars, evidence, draftVars>>

FindSupported ==
    /\ pc = "support"
    /\ pc' = "done"
    /\ UNCHANGED <<inputVars, searchVars, evidence, draftVars, answerVars>>

Ended == pc \in {"done", "failed"}

(* A model, the index or a trace event raises: no strategy catches.        *)
Raise ==
    /\ ~Ended
    /\ pc' = "failed"
    /\ UNCHANGED <<inputVars, searchVars, evidence, draftVars, answerVars>>

Rest == Ended /\ UNCHANGED vars

Step ==
    \/ RetrieveOnce \/ SelfRetrieve \/ AssessEvidence \/ Rewrite \/ RetrieveAgain
    \/ Plan \/ AgentRetrieve \/ Consider \/ RefuseWithoutEvidence \/ Generate
    \/ RepairCitations \/ Veto \/ FindSupported \/ Raise

Next == Step \/ Rest

Spec == Init /\ [][Next]_vars

-----------------------------------------------------------------------------
Stages == <<"done", "failed", "support", "repair", "select", "retrieve_again",
            "rewrite", "assess", "retrieve", "plan">>

(* The types of the state.                                                 *)
TypeOK ==
    /\ strategy \in Strategy /\ require \in BOOLEAN
    /\ \E i \in DOMAIN Stages : pc = Stages[i]
    /\ candidates \subseteq Candidate /\ left \subseteq candidates
    /\ fetched \subseteq Candidate /\ retrievals \in Nat
    /\ evidence \in Seq(Chunk)
    /\ cites \subseteq Nat /\ generations \in Nat
    /\ {answer.kind, published.kind} \subseteq {"none", "answer"}

(* The strategies implement the contract of AnswerContract: whichever of   *)
(* them runs, and whatever models return, an answer is a refusal that      *)
(* cites nothing or is grounded in its evidence (vanilla.py, self_rag.py). *)
Contract == INSTANCE AnswerContract WITH
    outcome <- IF pc = "done" THEN answer
               ELSE IF pc = "failed" THEN [kind |-> "failed"]
               ELSE [kind |-> "pending"]
KeepsContract == Contract!Spec

(* The last response.completed event of a request is the answer that was   *)
(* returned, though Self-RAG publishes a draft before its support check.   *)
PublishedIsReturned == pc = "done" => published = answer

Retrievals == CASE strategy = "self" -> 2 [] strategy = "agentic" -> MaxSteps [] OTHER -> 1

(* How far each stage is from the end, with the candidates it looks at.    *)
Distance == (CHOOSE i \in DOMAIN Stages : Stages[i] = pc) + Cardinality(left)

(* The work that may still be done: retrievals, each with all that may     *)
(* follow it, drafts, and the way from this stage.                         *)
Work == (Retrievals - retrievals) * (Len(Stages) + Cardinality(Chunk))
        + (1 + RepairAttempts - generations) + Distance

(* Whatever the controller and the generator say, every step uses up some  *)
(* of the work a question may cost, and there is never less than none: so  *)
(* each question is answered or fails after a bounded number of calls.     *)
WorkRunsOut ==
    [][/\ retrievals' <= Retrievals /\ generations' <= 1 + RepairAttempts
       /\ Work' < Work]_vars

(* The evidence follows the policy of the selector at all times: within    *)
(* top_k, from the candidates that score enough, no content twice, no      *)
(* topic too often.                                                        *)
EvidenceFollowsPolicy ==
    /\ Len(evidence) <= EvidenceTopK
    /\ \A i \in DOMAIN evidence :
        /\ \E c \in candidates : c.chunk = evidence[i] /\ c.score >= MinScore
        /\ Cardinality(OnTopic(evidence, TopicOf[evidence[i]])) <= PerTopicLimit
        /\ \A j \in DOMAIN evidence :
            HashOf[evidence[i]] = HashOf[evidence[j]] => i = j

(* No better evidence was passed over: a candidate that scores more than   *)
(* some piece of evidence and is not evidence itself could not be, given   *)
(* the evidence before that piece; and none is left out while it passes    *)
(* and there is room.                                                      *)
BestEvidenceFirst ==
    \A c \in candidates \ left :
        \/ \E i \in DOMAIN evidence : evidence[i] = c.chunk
        \/ /\ \/ Len(evidence) = EvidenceTopK
              \/ ~Passes(c, evidence)
           /\ \A i \in DOMAIN evidence :
                (\E d \in candidates : d.chunk = evidence[i] /\ d.score < c.score)
                    => ~Passes(c, SubSeq(evidence, 1, i - 1))

(* Agentic RAG loses nothing it has retrieved: each chunk is a candidate   *)
(* once, with the best of its scores (_merge).                             *)
AgentKeepsTheBest ==
    strategy = "agentic" =>
        /\ DistinctChunks(candidates)
        /\ \A f \in fetched : \E c \in candidates :
                c.chunk = f.chunk /\ c.score >= f.score
=============================================================================
