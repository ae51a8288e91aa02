-------------------------- MODULE RagAnswerProofs --------------------------
(***************************************************************************)
(* Proofs about the answering of a question, for any finite set of chunks  *)
(* with any topics, contents and scores, any limits, and any behaviour of  *)
(* the models.                                                             *)
(***************************************************************************)
EXTENDS RagAnswer, FiniteSetTheorems, SequenceTheorems, TLAPS

(* Where each strategy may be, and how often it has called out by then.    *)
PathInv ==
    /\ pc = "plan" => strategy = "agentic" /\ retrievals < MaxSteps
    /\ pc = "retrieve" =>
        IF strategy = "agentic" THEN retrievals < MaxSteps ELSE retrievals = 0
    /\ pc \in {"assess", "rewrite", "retrieve_again"} =>
        strategy = "self" /\ retrievals = 1
    /\ pc \in {"plan", "retrieve", "assess", "rewrite", "retrieve_again"} =>
        evidence = <<>>
    /\ retrievals <= Retrievals

DraftInv ==
    /\ pc \in {"plan", "retrieve", "assess", "rewrite", "retrieve_again", "select"}
        => generations = 0
    /\ pc = "repair" => evidence # <<>> /\ generations \in 1..RepairAttempts
    /\ generations <= 1 + RepairAttempts

(* The selector has seen the best candidates first, and what it selected   *)
(* is among those.                                                         *)
SelectionInv ==
    /\ DistinctChunks(candidates)
    /\ \A c \in candidates \ left, d \in left : d.score <= c.score
    /\ \A i \in DOMAIN evidence :
        \E c \in candidates \ left : c.chunk = evidence[i]

(* What awaits the support check is an answer already, and published.      *)
AnswerInv ==
    /\ pc = "support" =>
        /\ answer.kind = "answer" /\ ~answer.refused
        /\ Contract!Acceptable(answer)
    /\ pc \in {"support", "done"} => published = answer

FetchedInv ==
    strategy = "agentic" =>
        \A f \in fetched : \E c \in candidates :
            c.chunk = f.chunk /\ c.score >= f.score

IInv == /\ TypeOK /\ PathInv /\ DraftInv /\ SelectionInv /\ AnswerInv
        /\ FetchedInv /\ EvidenceFollowsPolicy /\ BestEvidenceFirst

-----------------------------------------------------------------------------
(* The operators the strategies are built from.                            *)

LEMMA StagesAre ==
    /\ DOMAIN Stages = 1..10
    /\ Stages[1] = "done" /\ Stages[2] = "failed" /\ Stages[3] = "support"
    /\ Stages[4] = "repair" /\ Stages[5] = "select" /\ Stages[6] = "retrieve_again"
    /\ Stages[7] = "rewrite" /\ Stages[8] = "assess" /\ Stages[9] = "retrieve"
    /\ Stages[10] = "plan"
  BY DEF Stages

(* A strategy is at one of these stages.                                   *)
Stage == {"done", "failed", "support", "repair", "select", "retrieve_again",
          "rewrite", "assess", "retrieve", "plan"}

LEMMA PcIsAStage ==
    ASSUME NEW p PROVE (\E i \in DOMAIN Stages : p = Stages[i]) <=> p \in Stage
  BY StagesAre DEF Stage

LEMMA EmptyEvidence == <<>> \in Seq(Chunk) /\ DOMAIN <<>> = {} /\ Len(<<>>) = 0
  OBVIOUS

(* Appending to the evidence changes nothing about what was there.         *)
LEMMA AppendedEvidence ==
    ASSUME NEW s \in Seq(Chunk), NEW x \in Chunk
    PROVE  /\ Append(s, x) \in Seq(Chunk) /\ Append(s, x) # <<>>
           /\ DOMAIN s = 1..Len(s) /\ Len(s) \in Nat
           /\ DOMAIN Append(s, x) = 1..(Len(s) + 1)
           /\ Len(Append(s, x)) = Len(s) + 1
           /\ \A i \in DOMAIN s : Append(s, x)[i] = s[i]
           /\ Append(s, x)[Len(s) + 1] = x
  OBVIOUS

LEMMA AppendedOnTopic ==
    ASSUME NEW s \in Seq(Chunk), NEW x \in Chunk, NEW t
    PROVE  /\ IsFiniteSet(OnTopic(s, t)) /\ Cardinality(OnTopic(s, t)) \in Nat
           /\ OnTopic(Append(s, x), t) = IF TopicOf[x] = t
                 THEN OnTopic(s, t) \cup {Len(s) + 1} ELSE OnTopic(s, t)
           /\ Cardinality(OnTopic(Append(s, x), t)) = IF TopicOf[x] = t
                 THEN Cardinality(OnTopic(s, t)) + 1 ELSE Cardinality(OnTopic(s, t))
  <1>1. IsFiniteSet(OnTopic(s, t)) /\ Cardinality(OnTopic(s, t)) \in Nat
    <2>1. OnTopic(s, t) \in SUBSET (1..Len(s)) /\ Len(s) \in Nat
      BY DEF OnTopic
    <2>2. IsFiniteSet(1..Len(s))
      BY <2>1, FS_Interval
    <2>3. QED
      BY <2>1, <2>2, FS_Subset, FS_CardinalityType
  <1>2. OnTopic(Append(s, x), t) = IF TopicOf[x] = t
           THEN OnTopic(s, t) \cup {Len(s) + 1} ELSE OnTopic(s, t)
    <2>1. \A i \in DOMAIN Append(s, x) : i \in DOMAIN s \/ i = Len(s) + 1
      BY AppendedEvidence
    <2>2. \A i \in DOMAIN s : i \in DOMAIN Append(s, x) /\ Append(s, x)[i] = s[i]
      BY AppendedEvidence
    <2>3. /\ Len(s) + 1 \in DOMAIN Append(s, x)
          /\ Append(s, x)[Len(s) + 1] = x
      BY AppendedEvidence
    <2>4. QED
      BY <2>1, <2>2, <2>3, Zenon DEF OnTopic
  <1>3. Len(s) + 1 \notin OnTopic(s, t)
    BY AppendedEvidence DEF OnTopic
  <1>4. QED
    BY <1>1, <1>2, <1>3, FS_AddElement

(* What does not pass never passes later.                                  *)
LEMMA RejectionLasts ==
    ASSUME NEW s \in Seq(Chunk), NEW x \in Chunk, NEW c, ~Passes(c, s)
    PROVE  ~Passes(c, Append(s, x))
  <1> SUFFICES ASSUME Passes(c, Append(s, x)) PROVE Passes(c, s)
    OBVIOUS
  <1>1. \A i \in DOMAIN s : i \in DOMAIN Append(s, x) /\ Append(s, x)[i] = s[i]
    BY AppendedEvidence
  <1>2. \A i \in DOMAIN s : HashOf[s[i]] # HashOf[c.chunk]
    BY <1>1, Zenon DEF Passes
  <1>3. Cardinality(OnTopic(s, TopicOf[c.chunk])) < PerTopicLimit
    BY AppendedOnTopic, SettingsAssumption DEF Passes
  <1>4. QED
    BY <1>2, <1>3 DEF Passes

LEMMA EarlierEvidence ==
    ASSUME NEW s \in Seq(Chunk), NEW x \in Chunk
    PROVE  /\ \A i \in DOMAIN s :
                SubSeq(Append(s, x), 1, i - 1) = SubSeq(s, 1, i - 1)
           /\ SubSeq(Append(s, x), 1, Len(s)) = s
  OBVIOUS

LEMMA MergeProperties ==
    ASSUME NEW old \in SUBSET Candidate, NEW new \in SUBSET Candidate,
           DistinctChunks(old), DistinctChunks(new)
    PROVE  /\ Merge(old, new) \subseteq Candidate
           /\ DistinctChunks(Merge(old, new))
           /\ \A f \in old \cup new : \E c \in Merge(old, new) :
                c.chunk = f.chunk /\ c.score >= f.score
  <1>1. \A c \in Candidate : c.score \in Nat
    BY SettingsAssumption DEF Candidate
  <1>2. DistinctChunks(Merge(old, new))
    <2> SUFFICES ASSUME NEW c \in Merge(old, new), NEW d \in Merge(old, new),
                        c.chunk = d.chunk
                 PROVE  c = d
      BY DEF DistinctChunks
    <2>1. c.score <= d.score /\ d.score <= c.score
      BY DEF Merge
    <2>2. c \in Candidate /\ d \in Candidate
      BY DEF Merge
    <2>3. c.score = d.score
      BY <1>1, <2>1, <2>2
    <2>4. QED
      BY <2>2, <2>3 DEF Candidate
  <1>3. ASSUME NEW f \in old \cup new
        PROVE  \E c \in Merge(old, new) : c.chunk = f.chunk /\ c.score >= f.score
    <2>1. CASE \E d \in old \cup new : d.chunk = f.chunk /\ d.score > f.score
      <3>1. PICK d \in old \cup new : d.chunk = f.chunk /\ d.score > f.score
        BY <2>1
      <3>2. \A e \in old \cup new : e.chunk = d.chunk => e = d \/ e = f
        BY <3>1, <1>1 DEF DistinctChunks
      <3>3. d \in Merge(old, new)
        BY <3>1, <3>2, <1>1 DEF Merge
      <3>4. QED
        BY <3>1, <3>3, <1>1
    <2>2. CASE \A d \in old \cup new : d.chunk = f.chunk => ~(d.score > f.score)
      BY <2>2, <1>1 DEF Merge
    <2>3. QED
      BY <2>1, <2>2
  <1>4. QED
    BY <1>2, <1>3 DEF Merge

-----------------------------------------------------------------------------
LEMMA InitIInv == Init => IInv
  <1> SUFFICES ASSUME Init PROVE IInv
    OBVIOUS
  <1> USE SettingsAssumption DEF Init
  <1>1. TypeOK
    <2>1. pc \in Stage
      BY DEF Stage
    <2>2. answer.kind = "none" /\ published.kind = "none"
      BY DEF NoAnswer
    <2>3. QED
      BY <2>1, <2>2, PcIsAStage DEF TypeOK
  <1>2. PathInv /\ DraftInv
    BY DEF PathInv, DraftInv, Retrievals
  <1>3. SelectionInv /\ AnswerInv /\ FetchedInv
    BY DEF SelectionInv, AnswerInv, FetchedInv, DistinctChunks
  <1>4. EvidenceFollowsPolicy /\ BestEvidenceFirst
    BY EmptyEvidence DEF EvidenceFollowsPolicy, BestEvidenceFirst
  <1>5. QED
    BY <1>1, <1>2, <1>3, <1>4 DEF IInv

-----------------------------------------------------------------------------
(* What the steps do to the state.                                         *)

(* Which retrieval took place, and what it left behind.                    *)
Retrieve == RetrieveOnce \/ SelfRetrieve \/ RetrieveAgain \/ AgentRetrieve

LEMMA RetrieveEffect ==
    ASSUME IInv, Retrieve
    PROVE  /\ pc \in {"retrieve", "retrieve_again"}
           /\ candidates' \subseteq Candidate /\ left' = candidates'
           /\ DistinctChunks(candidates') /\ fetched' \subseteq Candidate
           /\ retrievals' = retrievals + 1
           /\ UNCHANGED <<inputVars, evidence, draftVars, answerVars>>
           /\ strategy = "agentic" =>
                \A f \in fetched' : \E c \in candidates' :
                    c.chunk = f.chunk /\ c.score >= f.score
  <1>0. TypeOK /\ PathInv /\ SelectionInv /\ FetchedInv
    BY DEF IInv
  <1>1. CASE AgentRetrieve
    <2>1. PICK results \in Results :
            Search(results, Merge(candidates, results),
                   IF OutOfSteps(retrievals + 1) THEN "select" ELSE "plan")
      BY <1>1 DEF AgentRetrieve
    <2>2. results \in SUBSET Candidate /\ DistinctChunks(results)
      BY DEF Results
    <2>3. candidates \in SUBSET Candidate /\ DistinctChunks(candidates)
      BY <1>0 DEF TypeOK, SelectionInv
    <2>4. /\ Merge(candidates, results) \subseteq Candidate
          /\ DistinctChunks(Merge(candidates, results))
          /\ \A f \in candidates \cup results : \E c \in Merge(candidates, results) :
                c.chunk = f.chunk /\ c.score >= f.score
      BY <2>2, <2>3, MergeProperties
    <2>5. /\ candidates' = Merge(candidates, results) /\ left' = candidates'
          /\ fetched' = fetched \cup results /\ retrievals' = retrievals + 1
          /\ UNCHANGED <<inputVars, evidence, draftVars, answerVars>>
      BY <2>1 DEF Search
    <2>6. ASSUME strategy = "agentic", NEW f \in fetched'
          PROVE  \E c \in candidates' : c.chunk = f.chunk /\ c.score >= f.score
      <3>0. \A c \in Candidate : c.score \in Nat
        BY SettingsAssumption DEF Candidate
      <3>1. CASE f \in results
        BY <2>4, <2>5, <3>1
      <3>2. CASE f \in fetched
        <4>1. PICK c \in candidates : c.chunk = f.chunk /\ c.score >= f.score
          BY <1>0, <2>6, <3>2 DEF FetchedInv
        <4>2. PICK d \in candidates' : d.chunk = c.chunk /\ d.score >= c.score
          BY <2>4, <2>5
        <4>3. f \in Candidate /\ c \in Candidate /\ d \in Candidate
          BY <1>0, <2>3, <2>4, <2>5, <3>2 DEF TypeOK
        <4>4. d.chunk = f.chunk /\ d.score >= f.score
          BY <3>0, <4>1, <4>2, <4>3
        <4>5. QED
          BY <4>4
      <3>3. QED
        BY <2>5, <3>1, <3>2
    <2>7. pc = "retrieve" /\ fetched' \subseteq Candidate
      BY <1>0, <1>1, <2>2, <2>5 DEF AgentRetrieve, TypeOK
    <2>8. QED
      BY <2>4, <2>5, <2>6, <2>7
  <1>2. CASE RetrieveOnce \/ SelfRetrieve \/ RetrieveAgain
    <2>1. /\ pc \in {"retrieve", "retrieve_again"}
          /\ strategy # "agentic"
      BY <1>0, <1>2 DEF RetrieveOnce, SelfRetrieve, RetrieveAgain, PathInv
    <2>2. PICK results \in Results, next \in Stage : Search(results, results, next)
      BY <1>2 DEF RetrieveOnce, SelfRetrieve, RetrieveAgain, Stage
    <2>3. results \in SUBSET Candidate /\ DistinctChunks(results)
      BY DEF Results
    <2>4. /\ candidates' = results /\ left' = candidates'
          /\ fetched' = fetched \cup results /\ retrievals' = retrievals + 1
          /\ UNCHANGED <<inputVars, evidence, draftVars, answerVars>>
      BY <2>2 DEF Search
    <2>5. fetched' \subseteq Candidate
      BY <1>0, <2>3, <2>4 DEF TypeOK
    <2>6. QED
      BY <2>1, <2>3, <2>4, <2>5
  <1>3. QED
    BY <1>1, <1>2 DEF Retrieve

(* The steps that neither retrieve nor select.                             *)
Draw == AssessEvidence \/ Rewrite \/ Plan \/ RefuseWithoutEvidence \/ Generate
        \/ RepairCitations \/ Veto \/ FindSupported \/ Raise \/ Rest

LEMMA StepIs == Next => Retrieve \/ Consider \/ Draw
  BY DEF Next, Step, Retrieve, Draw

LEMMA DrawEffect == Draw => UNCHANGED <<inputVars, searchVars, evidence>>
  BY DEF Draw, AssessEvidence, Rewrite, Plan, RefuseWithoutEvidence, Generate,
         RepairCitations, Draft, Veto, FindSupported, Raise, Rest, vars, inputVars,
         searchVars

(* A round of the selector takes the best candidate that is left.          *)
LEMMA ConsiderEffect ==
    ASSUME IInv, Consider
    PROVE  \E b \in left :
            /\ pc = "select" /\ b \in Candidate /\ b \in candidates
            /\ \A d \in left : d.score <= b.score
            /\ left' = left \ {b}
            /\ \/ /\ Passes(b, evidence) /\ Len(evidence) < EvidenceTopK
                  /\ evidence' = Append(evidence, b.chunk)
               \/ /\ ~(Passes(b, evidence) /\ Len(evidence) < EvidenceTopK)
                  /\ evidence' = evidence
            /\ UNCHANGED <<inputVars, pc, candidates, retrievals, fetched,
                           draftVars, answerVars>>
  <1>1. PICK b \in Best(left) :
        /\ left' = left \ {b}
        /\ evidence' = IF Passes(b, evidence) /\ Len(evidence) < EvidenceTopK
                          THEN Append(evidence, b.chunk) ELSE evidence
    BY DEF Consider
  <1>2. b \in left /\ \A d \in left : d.score <= b.score
    BY DEF Best
  <1>3. b \in candidates /\ b \in Candidate
    BY <1>2 DEF IInv, TypeOK
  <1>4. /\ pc = "select"
        /\ UNCHANGED <<inputVars, pc, candidates, retrievals, fetched,
                       draftVars, answerVars>>
    BY DEF Consider
  <1>5. \/ /\ Passes(b, evidence) /\ Len(evidence) < EvidenceTopK
           /\ evidence' = Append(evidence, b.chunk)
        \/ /\ ~(Passes(b, evidence) /\ Len(evidence) < EvidenceTopK)
           /\ evidence' = evidence
    BY <1>1, Zenon
  <1>6. QED
    BY <1>1, <1>2, <1>3, <1>4, <1>5, Zenon

(* The answer of a draft: another repair, a refusal, or the grounded text. *)
LEMMA DraftEffect ==
    ASSUME IInv, NEW text \in Texts, Draft(text)
    PROVE  /\ cites' = text /\ text \subseteq Nat /\ generations' = generations + 1
           /\ UNCHANGED <<inputVars, searchVars, evidence>>
           /\ \/ /\ require /\ ~Valid(text) /\ generations < RepairAttempts
                 /\ pc' = "repair" /\ UNCHANGED answerVars
              \/ Respond(Refusal(evidence, FALSE))
              \/ (require => Valid(text)) /\ Respond(Grounded(text))
  <1>1. /\ cites' = text /\ generations' = generations + 1
        /\ Judge(text, generations)
        /\ UNCHANGED <<inputVars, searchVars, evidence>>
    BY DEF Draft
  <1>2. text \subseteq Nat
    BY DEF Texts
  <1>3. \/ /\ require /\ ~Valid(text) /\ generations < RepairAttempts
           /\ pc' = "repair" /\ UNCHANGED answerVars
        \/ Respond(Refusal(evidence, FALSE))
        \/ (require => Valid(text)) /\ Respond(Grounded(text))
    BY <1>1, Zenon DEF Judge
  <1>4. QED
    BY <1>1, <1>2, <1>3

LEMMA RespondEffect ==
    ASSUME NEW a, Respond(a)
    PROVE  /\ answer' = a /\ published' = a
           /\ \/ pc' = "support" /\ strategy = "self" /\ ~a.refused
              \/ pc' = "done"
  BY Zenon DEF Respond

LEMMA AnswersAre ==
    ASSUME NEW text, NEW shown, NEW validated
    PROVE  /\ Refusal(shown, validated).kind = "answer"
           /\ Refusal(shown, validated).refused
           /\ Contract!Acceptable(Refusal(shown, validated))
           /\ Grounded(text).kind = "answer" /\ ~Grounded(text).refused
  BY DEF Refusal, Grounded, Contract!Acceptable

(* A text that the judge lets through makes an acceptable answer.          *)
LEMMA GroundedIsAcceptable ==
    ASSUME evidence # <<>>, NEW text, require => Valid(text)
    PROVE  Contract!Acceptable(Grounded(text))
  <1> DEFINE g == Grounded(text)
  <1>1. /\ g.refused = FALSE /\ g.validated = Valid(text) /\ g.cites = text
        /\ g.citations = Citations(Used(text)) /\ g.evidence = evidence
    BY DEF Grounded
  <1>2. Contract!CitesItsEvidence(g)
    BY <1>1 DEF Contract!CitesItsEvidence, Citations
  <1>3. g.validated = Contract!WellCited(g)
    BY <1>1 DEF Contract!WellCited, Valid
  <1>4. ASSUME Valid(text) PROVE {c.index : c \in g.citations} = g.cites
    <2>1. Used(text) \cap DOMAIN evidence = text
      BY <1>4 DEF Valid, Used
    <2>2. g.citations = {[index |-> i, chunk |-> evidence[i]] : i \in text}
      BY <1>1, <2>1 DEF Citations
    <2>3. {c.index : c \in {[index |-> i, chunk |-> evidence[i]] : i \in text}} = text
      <3> DEFINE cs == {[index |-> i, chunk |-> evidence[i]] : i \in text}
      <3>1. ASSUME NEW i \in text PROVE i \in {c.index : c \in cs}
        <4>1. [index |-> i, chunk |-> evidence[i]] \in cs
          OBVIOUS
        <4>2. [index |-> i, chunk |-> evidence[i]].index = i
          OBVIOUS
        <4>3. QED
          BY <4>1, <4>2, Zenon
      <3>2. ASSUME NEW i \in {c.index : c \in cs} PROVE i \in text
        OBVIOUS
      <3>3. QED
        BY <3>1, <3>2
    <2>4. QED
      BY <1>1, <2>2, <2>3, Zenon
  <1>5. (require => g.validated) /\ (g.validated => {c.index : c \in g.citations} = g.cites)
    BY <1>1, <1>4
  <1>6. QED
    BY <1>1, <1>2, <1>3, <1>5 DEF Contract!Acceptable

-----------------------------------------------------------------------------
(* Every step preserves the invariant.                                     *)

LEMMA StepTypeOK == IInv /\ Next => TypeOK'
  <1> SUFFICES ASSUME IInv, Next PROVE TypeOK'
    OBVIOUS
  <1>0. TypeOK
    BY DEF IInv
  <1>1. CASE Retrieve
    <2>1. pc' \in Stage
      BY <1>1 DEF Retrieve, RetrieveOnce, SelfRetrieve, RetrieveAgain, AgentRetrieve,
                  Search, Stage
    <2>2. /\ candidates' \subseteq Candidate /\ left' = candidates'
          /\ fetched' \subseteq Candidate /\ retrievals' = retrievals + 1
          /\ UNCHANGED <<inputVars, evidence, draftVars, answerVars>>
      BY <1>1, RetrieveEffect
    <2>3. \E i \in DOMAIN Stages : pc' = Stages[i]
      BY <2>1, PcIsAStage
    <2>4. QED
      BY <1>0, <2>2, <2>3 DEF TypeOK, inputVars, draftVars, answerVars
  <1>2. CASE Consider
    <2>1. PICK b \in left :
            /\ b \in Candidate /\ left' = left \ {b}
            /\ evidence' \in {evidence, Append(evidence, b.chunk)}
            /\ UNCHANGED <<inputVars, pc, candidates, retrievals, fetched,
                           draftVars, answerVars>>
      BY <1>2, ConsiderEffect
    <2>2. evidence' \in Seq(Chunk)
      BY <1>0, <2>1, AppendedEvidence DEF TypeOK, Candidate
    <2>3. left' \subseteq candidates'
      BY <1>0, <2>1 DEF TypeOK
    <2>4. QED
      BY <1>0, <2>1, <2>2, <2>3 DEF TypeOK, inputVars, draftVars, answerVars
  <1>3. CASE Draw
    <2>1. UNCHANGED <<inputVars, searchVars, evidence>>
      BY <1>3, DrawEffect
    <2>2. CASE Generate \/ RepairCitations
      <3>1. PICK text \in Texts : Draft(text)
        BY <2>2 DEF Generate, RepairCitations
      <3>2. /\ cites' \subseteq Nat /\ generations' = generations + 1
            /\ \/ pc' = "repair" /\ UNCHANGED answerVars
               \/ Respond(Refusal(evidence, FALSE))
               \/ Respond(Grounded(text))
        BY <3>1, DraftEffect
      <3>3. pc' \in Stage /\ {answer'.kind, published'.kind} \subseteq {"none", "answer"}
        <4>1. CASE pc' = "repair" /\ UNCHANGED answerVars
          BY <1>0, <4>1 DEF TypeOK, answerVars, Stage
        <4>2. CASE Respond(Refusal(evidence, FALSE))
          <5>1. /\ answer' = Refusal(evidence, FALSE) /\ published' = answer'
                /\ pc' \in Stage
            BY <4>2, RespondEffect, Zenon DEF Stage
          <5>2. QED
            BY <5>1, AnswersAre
        <4>3. CASE Respond(Grounded(text))
          <5>1. /\ answer' = Grounded(text) /\ published' = answer'
                /\ pc' \in Stage
            BY <4>3, RespondEffect, Zenon DEF Stage
          <5>2. QED
            BY <5>1, AnswersAre
        <4>4. QED
          BY <3>2, <4>1, <4>2, <4>3
      <3>4. QED
        BY <1>0, <2>1, <3>2, <3>3, PcIsAStage DEF TypeOK, inputVars, searchVars
    <2>3. CASE RefuseWithoutEvidence
      <3>1. /\ Respond(Refusal(<<>>, TRUE)) /\ UNCHANGED draftVars
        BY <2>3 DEF RefuseWithoutEvidence
      <3>2. /\ pc' \in Stage
            /\ {answer'.kind, published'.kind} \subseteq {"none", "answer"}
        <4>1. /\ answer' = Refusal(<<>>, TRUE) /\ published' = answer'
              /\ pc' \in Stage
          BY <3>1, RespondEffect, Zenon DEF Stage
        <4>2. QED
          BY <4>1, AnswersAre
      <3>3. QED
        BY <1>0, <2>1, <3>1, <3>2, PcIsAStage DEF TypeOK, inputVars, searchVars, draftVars
    <2>4. CASE Veto
      <3>1. /\ answer' = Refusal(answer.evidence, TRUE) /\ published' = answer'
            /\ pc' \in Stage /\ UNCHANGED draftVars
        BY <2>4 DEF Veto, Stage
      <3>2. {answer'.kind, published'.kind} \subseteq {"none", "answer"}
        BY <3>1, AnswersAre
      <3>3. QED
        BY <1>0, <2>1, <3>1, <3>2, PcIsAStage DEF TypeOK, inputVars, searchVars, draftVars
    <2>5. CASE AssessEvidence \/ Rewrite \/ Plan \/ FindSupported \/ Raise
      <3>1. pc' \in Stage /\ UNCHANGED <<draftVars, answerVars>>
        BY <2>5 DEF AssessEvidence, Rewrite, Plan, FindSupported, Raise, Stage
      <3>2. QED
        BY <1>0, <2>1, <3>1, PcIsAStage
           DEF TypeOK, inputVars, searchVars, draftVars, answerVars
    <2>6. CASE Rest
      BY <1>0, <2>6 DEF Rest, vars, TypeOK
    <2>7. QED
      BY <1>3, <2>2, <2>3, <2>4, <2>5, <2>6 DEF Draw
  <1>4. QED
    BY <1>1, <1>2, <1>3, StepIs

LEMMA StepPathInv == IInv /\ Next => PathInv' /\ DraftInv'
  <1> SUFFICES ASSUME IInv, Next PROVE PathInv' /\ DraftInv'
    OBVIOUS
  <1>0. /\ PathInv /\ DraftInv
        /\ retrievals \in Nat /\ generations \in Nat
        /\ MaxSteps \in Nat \ {0} /\ RepairAttempts \in Nat
    BY SettingsAssumption DEF IInv, TypeOK
  <1>1. CASE Retrieve
    <2>1. /\ retrievals' = retrievals + 1
          /\ UNCHANGED <<inputVars, evidence, draftVars>>
      BY <1>1, RetrieveEffect
    <2>2. \/ strategy = "self" /\ retrievals = 0 /\ pc' = "assess"
          \/ strategy \in {"vanilla", "graph"} /\ retrievals = 0 /\ pc' = "select"
          \/ strategy = "self" /\ retrievals = 1 /\ pc' = "select"
          \/ /\ strategy = "agentic" /\ retrievals < MaxSteps
             /\ pc' = IF retrievals + 1 = MaxSteps THEN "select" ELSE "plan"
      BY <1>0, <1>1 DEF Retrieve, RetrieveOnce, SelfRetrieve, RetrieveAgain,
         AgentRetrieve, Search, PathInv, OutOfSteps
    <2>3. evidence = <<>> /\ generations = 0
      BY <1>0, <1>1, RetrieveEffect DEF PathInv, DraftInv
    <2>4. QED
      BY <1>0, <2>1, <2>2, <2>3
         DEF PathInv, DraftInv, Retrievals, inputVars, draftVars
  <1>2. CASE Consider
    <2>1. /\ pc = "select"
          /\ UNCHANGED <<inputVars, pc, retrievals, draftVars>>
      BY <1>2, ConsiderEffect
    <2>2. QED
      BY <1>0, <2>1 DEF PathInv, DraftInv, Retrievals, inputVars, draftVars
  <1>3. CASE Draw
    <2>1. UNCHANGED <<inputVars, searchVars, evidence>>
      BY <1>3, DrawEffect
    <2>2. CASE Generate \/ RepairCitations
      <3>1. PICK text \in Texts : Draft(text)
        BY <2>2 DEF Generate, RepairCitations
      <3>2. /\ generations' = generations + 1
            /\ \/ pc' = "repair" /\ generations < RepairAttempts
               \/ pc' \in {"support", "done"}
        BY <3>1, DraftEffect, RespondEffect
      <3>3. evidence # <<>> /\ generations <= RepairAttempts
        BY <1>0, <2>2 DEF Generate, RepairCitations, DraftInv
      <3>4. QED
        BY <1>0, <2>1, <3>2, <3>3
           DEF PathInv, DraftInv, Retrievals, inputVars, searchVars
    <2>3. CASE RefuseWithoutEvidence
      <3>1. pc' \in {"support", "done"} /\ UNCHANGED draftVars
        BY <2>3, RespondEffect DEF RefuseWithoutEvidence
      <3>2. QED
        BY <1>0, <2>1, <3>1
           DEF PathInv, DraftInv, Retrievals, inputVars, searchVars, draftVars
    <2>4. CASE Veto \/ FindSupported \/ Raise
      <3>1. pc' \in {"done", "failed"} /\ UNCHANGED draftVars
        BY <2>4 DEF Veto, FindSupported, Raise
      <3>2. QED
        BY <1>0, <2>1, <3>1
           DEF PathInv, DraftInv, Retrievals, inputVars, searchVars, draftVars
    <2>5. CASE AssessEvidence \/ Rewrite \/ Plan
      <3>1. /\ \/ pc = "assess" /\ pc' \in {"select", "rewrite"}
               \/ pc = "rewrite" /\ pc' \in {"select", "retrieve_again"}
               \/ pc = "plan" /\ pc' \in {"select", "retrieve"}
            /\ UNCHANGED draftVars
        BY <2>5 DEF AssessEvidence, Rewrite, Plan
      <3>2. QED
        BY <1>0, <2>1, <3>1
           DEF PathInv, DraftInv, Retrievals, inputVars, searchVars, draftVars
    <2>6. CASE Rest
      BY <1>0, <2>6 DEF Rest, vars, PathInv, DraftInv, Retrievals
    <2>7. QED
      BY <1>3, <2>2, <2>3, <2>4, <2>5, <2>6 DEF Draw
  <1>4. QED
    BY <1>1, <1>2, <1>3, StepIs

LEMMA StepSelectionInv ==
    IInv /\ Next => SelectionInv' /\ EvidenceFollowsPolicy' /\ BestEvidenceFirst'
  <1> SUFFICES ASSUME IInv, Next
               PROVE  SelectionInv' /\ EvidenceFollowsPolicy' /\ BestEvidenceFirst'
    OBVIOUS
  <1>0. TypeOK /\ SelectionInv /\ EvidenceFollowsPolicy /\ BestEvidenceFirst
    BY DEF IInv
  <1>1. CASE Retrieve
    <2>1. /\ left' = candidates' /\ DistinctChunks(candidates')
          /\ evidence' = evidence
      BY <1>1, RetrieveEffect
    <2>2. evidence = <<>>
      BY <1>1, RetrieveEffect DEF IInv, PathInv
    <2>3. QED
      BY <2>1, <2>2, EmptyEvidence, SettingsAssumption
         DEF SelectionInv, EvidenceFollowsPolicy, BestEvidenceFirst
  <1>2. CASE Consider
    <2>1. PICK b \in left :
            /\ b \in Candidate /\ b \in candidates
            /\ \A d \in left : d.score <= b.score
            /\ left' = left \ {b} /\ candidates' = candidates
            /\ \/ /\ Passes(b, evidence) /\ Len(evidence) < EvidenceTopK
                  /\ evidence' = Append(evidence, b.chunk)
               \/ /\ ~(Passes(b, evidence) /\ Len(evidence) < EvidenceTopK)
                  /\ evidence' = evidence
      BY <1>2, ConsiderEffect
    <2>2. \A c \in Candidate : c.score \in Nat /\ c.chunk \in Chunk
      BY SettingsAssumption DEF Candidate
    <2>3. /\ evidence \in Seq(Chunk) /\ b.chunk \in Chunk
          /\ candidates \subseteq Candidate /\ left \subseteq candidates
      BY <1>0, <2>1, <2>2 DEF TypeOK
    <2>4. \A c \in candidates \ left', d \in left' : d.score <= c.score
      BY <1>0, <2>1, <2>2, <2>3 DEF SelectionInv
    <2>5. \A c \in candidates \ left' : c \in candidates \ left \/ c = b
      BY <2>1
    <2>6. CASE evidence' = evidence
      <3>1. SelectionInv' /\ EvidenceFollowsPolicy'
        BY <1>0, <2>1, <2>4, <2>6 DEF SelectionInv, EvidenceFollowsPolicy
      <3>2. Len(evidence) = EvidenceTopK \/ ~Passes(b, evidence)
        <4>1. evidence' # Append(evidence, b.chunk)
          BY <2>3, <2>6, AppendedEvidence
        <4>2. ~(Passes(b, evidence) /\ Len(evidence) < EvidenceTopK)
          BY <2>1, <4>1
        <4>3. Len(evidence) <= EvidenceTopK /\ Len(evidence) \in Nat
          BY <1>0, <2>3 DEF EvidenceFollowsPolicy
        <4>4. QED
          BY <4>2, <4>3, SettingsAssumption
      <3>3. ASSUME NEW i \in DOMAIN evidence, NEW d \in candidates,
                   d.chunk = evidence[i]
            PROVE  ~(d.score < b.score)
        <4>1. PICK e \in candidates \ left : e.chunk = evidence[i]
          BY <1>0 DEF SelectionInv
        <4>2. d = e
          BY <1>0, <3>3, <4>1 DEF SelectionInv, DistinctChunks
        <4>3. b.score <= d.score
          BY <1>0, <4>1, <4>2 DEF SelectionInv
        <4>4. QED
          BY <2>1, <2>2, <2>3, <4>3
      <3>4. BestEvidenceFirst'
        BY <1>0, <2>1, <2>5, <2>6, <3>2, <3>3 DEF BestEvidenceFirst
      <3>5. QED
        BY <3>1, <3>4
    <2>7. CASE evidence' # evidence
      <3>0. /\ evidence' = Append(evidence, b.chunk)
            /\ Passes(b, evidence) /\ Len(evidence) < EvidenceTopK
        BY <2>1, <2>7
      <3>1. /\ DOMAIN evidence = 1..Len(evidence) /\ Len(evidence) \in Nat
            /\ DOMAIN evidence' = 1..(Len(evidence) + 1)
            /\ Len(evidence') = Len(evidence) + 1
            /\ \A i \in DOMAIN evidence : evidence'[i] = evidence[i]
            /\ evidence'[Len(evidence) + 1] = b.chunk
            /\ \A i \in DOMAIN evidence' : i \in DOMAIN evidence \/ i = Len(evidence) + 1
        BY <2>3, <3>0, AppendedEvidence
      <3>2. SelectionInv'
        <4>1. ASSUME NEW i \in DOMAIN evidence'
              PROVE  \E c \in candidates \ left' : c.chunk = evidence'[i]
          BY <1>0, <2>1, <3>1 DEF SelectionInv
        <4>2. QED
          BY <1>0, <2>1, <2>4, <4>1 DEF SelectionInv
      <3>3. EvidenceFollowsPolicy'
        <4>1. Len(evidence') <= EvidenceTopK
          BY <3>0, <3>1, SettingsAssumption
        <4>2. ASSUME NEW i \in DOMAIN evidence'
              PROVE  \E c \in candidates : c.chunk = evidence'[i] /\ c.score >= MinScore
          <5>1. CASE i \in DOMAIN evidence
            BY <1>0, <3>1, <5>1 DEF EvidenceFollowsPolicy
          <5>2. CASE i = Len(evidence) + 1
            BY <2>1, <3>0, <3>1, <5>2 DEF Passes
          <5>3. QED
            BY <3>1, <5>1, <5>2
        <4>3. ASSUME NEW i \in DOMAIN evidence'
              PROVE  Cardinality(OnTopic(evidence', TopicOf[evidence'[i]])) <= PerTopicLimit
          <5> DEFINE t == TopicOf[evidence'[i]]
          <5>1. /\ Cardinality(OnTopic(evidence, t)) \in Nat
                /\ Cardinality(OnTopic(evidence', t)) =
                    IF TopicOf[b.chunk] = t THEN Cardinality(OnTopic(evidence, t)) + 1
                    ELSE Cardinality(OnTopic(evidence, t))
            BY <2>3, <3>0, AppendedOnTopic
          <5>2. CASE TopicOf[b.chunk] = t
            <6>1. Cardinality(OnTopic(evidence, t)) < PerTopicLimit
              BY <3>0, <5>2 DEF Passes
            <6>2. QED
              BY <5>1, <5>2, <6>1, SettingsAssumption
          <5>3. CASE TopicOf[b.chunk] # t
            <6>1. i \in DOMAIN evidence /\ evidence'[i] = evidence[i]
              BY <3>1, <5>3
            <6>2. QED
              BY <1>0, <5>1, <5>3, <6>1 DEF EvidenceFollowsPolicy
          <5>4. QED
            BY <5>2, <5>3
        <4>4. ASSUME NEW i \in DOMAIN evidence', NEW j \in DOMAIN evidence',
                     HashOf[evidence'[i]] = HashOf[evidence'[j]]
              PROVE  i = j
          <5>1. \A k \in DOMAIN evidence : HashOf[evidence[k]] # HashOf[b.chunk]
            BY <3>0 DEF Passes
          <5>2. QED
            BY <1>0, <3>1, <4>4, <5>1 DEF EvidenceFollowsPolicy
        <4>5. QED
          BY <2>1, <4>1, <4>2, <4>3, <4>4 DEF EvidenceFollowsPolicy
      <3>4. ASSUME NEW c \in candidates \ left',
                   \A i \in DOMAIN evidence' : evidence'[i] # c.chunk
            PROVE  ~Passes(c, evidence')
                   /\ \A i \in DOMAIN evidence' :
                        (\E d \in candidates : d.chunk = evidence'[i] /\ d.score < c.score)
                            => ~Passes(c, SubSeq(evidence', 1, i - 1))
        <4>1. c \in candidates \ left /\ \A i \in DOMAIN evidence : evidence[i] # c.chunk
          BY <2>5, <3>1, <3>4
        <4>2. /\ Len(evidence) = EvidenceTopK \/ ~Passes(c, evidence)
              /\ \A i \in DOMAIN evidence :
                    (\E d \in candidates : d.chunk = evidence[i] /\ d.score < c.score)
                        => ~Passes(c, SubSeq(evidence, 1, i - 1))
          BY <1>0, <4>1 DEF BestEvidenceFirst
        <4>3. ~Passes(c, evidence)
          <5>1. Len(evidence) # EvidenceTopK
            <6>1. EvidenceTopK \in Nat
              BY SettingsAssumption
            <6>2. Len(evidence) \in Nat /\ Len(evidence) < EvidenceTopK
              BY <3>0, <3>1
            <6>3. QED
              BY <6>1, <6>2
          <5>2. QED
            BY <4>2, <5>1
        <4>4. ~Passes(c, evidence')
          BY <2>3, <3>0, <4>3, RejectionLasts
        <4>5. /\ \A i \in DOMAIN evidence :
                    SubSeq(evidence', 1, i - 1) = SubSeq(evidence, 1, i - 1)
              /\ SubSeq(evidence', 1, Len(evidence) + 1 - 1) = evidence
          BY <2>3, <3>0, <3>1, EarlierEvidence
        <4>6. ASSUME NEW i \in DOMAIN evidence',
                     \E d \in candidates : d.chunk = evidence'[i] /\ d.score < c.score
              PROVE  ~Passes(c, SubSeq(evidence', 1, i - 1))
          <5>1. CASE i \in DOMAIN evidence
            BY <3>1, <4>2, <4>5, <4>6, <5>1
          <5>2. CASE i = Len(evidence) + 1
            <6>1. SubSeq(evidence', 1, i - 1) = evidence
              BY <4>5, <5>2
            <6>2. QED
              BY <4>3, <6>1
          <5>3. QED
            BY <3>1, <5>1, <5>2
        <4>7. QED
          BY <4>4, <4>6
      <3>5. BestEvidenceFirst'
        BY <2>1, <3>4 DEF BestEvidenceFirst
      <3>6. QED
        BY <3>2, <3>3, <3>5
    <2>8. QED
      BY <2>6, <2>7
  <1>3. CASE Draw
    <2>1. UNCHANGED <<candidates, left, evidence>>
      BY <1>3, DrawEffect DEF searchVars
    <2>2. QED
      BY <1>0, <2>1 DEF SelectionInv, EvidenceFollowsPolicy, BestEvidenceFirst
  <1>4. QED
    BY <1>1, <1>2, <1>3, StepIs

(* An answer stays acceptable.                                             *)
LEMMA AcceptableLasts ==
    ASSUME NEW a, require' = require, a = answer', Contract!Acceptable(a)
    PROVE  Contract!Acceptable(answer)'
  BY Zenon DEF Contract!Acceptable, Contract!CitesItsEvidence, Contract!WellCited

LEMMA StepAnswerInv == IInv /\ Next => AnswerInv'
  <1> SUFFICES ASSUME IInv, Next PROVE AnswerInv'
    OBVIOUS
  <1>0. AnswerInv
    BY DEF IInv
  <1>1. CASE Retrieve
    <2>1. pc' \in {"assess", "select", "plan"}
      BY <1>1 DEF Retrieve, RetrieveOnce, SelfRetrieve, RetrieveAgain, AgentRetrieve,
                  Search
    <2>2. QED
      BY <2>1 DEF AnswerInv
  <1>2. CASE Consider
    <2>1. pc' = "select"
      BY <1>2, ConsiderEffect
    <2>2. QED
      BY <2>1 DEF AnswerInv
  <1>3. CASE Generate \/ RepairCitations
    <2>1. PICK text \in Texts : Draft(text)
      BY <1>3 DEF Generate, RepairCitations
    <2>2. evidence # <<>> /\ require' = require
      BY <1>3, <2>1, DraftEffect DEF Generate, RepairCitations, IInv, DraftInv, inputVars
    <2>3. \/ pc' = "repair"
          \/ Respond(Refusal(evidence, FALSE))
          \/ (require => Valid(text)) /\ Respond(Grounded(text))
      BY <2>1, DraftEffect
    <2>4. CASE pc' = "repair"
      BY <2>4 DEF AnswerInv
    <2>5. CASE Respond(Refusal(evidence, FALSE))
      <3>1. pc' = "done" /\ published' = answer'
        BY <2>5, RespondEffect, AnswersAre
      <3>2. QED
        BY <3>1 DEF AnswerInv
    <2>6. CASE (require => Valid(text)) /\ Respond(Grounded(text))
      <3>1. answer' = Grounded(text) /\ published' = answer' /\ pc' \in {"support", "done"}
        BY <2>6, RespondEffect
      <3>2. Contract!Acceptable(answer)'
        BY <2>2, <2>6, <3>1, GroundedIsAcceptable, AcceptableLasts
      <3>3. answer'.kind = "answer" /\ ~answer'.refused
        BY <3>1, AnswersAre
      <3>4. QED
        BY <3>1, <3>2, <3>3 DEF AnswerInv
    <2>7. QED
      BY <2>3, <2>4, <2>5, <2>6
  <1>4. CASE RefuseWithoutEvidence
    <2>1. pc' = "done" /\ published' = answer'
      BY <1>4, RespondEffect, AnswersAre DEF RefuseWithoutEvidence
    <2>2. QED
      BY <2>1 DEF AnswerInv
  <1>5. CASE Veto
    BY <1>5 DEF Veto, AnswerInv
  <1>6. CASE FindSupported
    BY <1>0, <1>6 DEF FindSupported, AnswerInv, answerVars
  <1>7. CASE AssessEvidence \/ Rewrite \/ Plan \/ Raise
    <2>1. pc' \in {"select", "rewrite", "retrieve_again", "retrieve", "failed"}
      BY <1>7 DEF AssessEvidence, Rewrite, Plan, Raise
    <2>2. QED
      BY <2>1 DEF AnswerInv
  <1>8. CASE Rest
    BY <1>0, <1>8 DEF Rest, Ended, vars, AnswerInv
  <1>9. QED
    BY <1>1, <1>2, <1>3, <1>4, <1>5, <1>6, <1>7, <1>8, StepIs DEF Draw

LEMMA StepFetchedInv == IInv /\ Next => FetchedInv'
  <1> SUFFICES ASSUME IInv, Next PROVE FetchedInv'
    OBVIOUS
  <1>0. FetchedInv
    BY DEF IInv
  <1>1. CASE Retrieve
    <2>1. strategy' = strategy
      BY <1>1, RetrieveEffect DEF inputVars
    <2>2. QED
      BY <1>1, <2>1, RetrieveEffect DEF FetchedInv
  <1>2. CASE Consider
    <2>1. UNCHANGED <<strategy, candidates, fetched>>
      BY <1>2, ConsiderEffect DEF inputVars
    <2>2. QED
      BY <1>0, <2>1 DEF FetchedInv
  <1>3. CASE Draw
    <2>1. UNCHANGED <<strategy, candidates, fetched>>
      BY <1>3, DrawEffect DEF inputVars, searchVars
    <2>2. QED
      BY <1>0, <2>1 DEF FetchedInv
  <1>4. QED
    BY <1>1, <1>2, <1>3, StepIs

LEMMA IdleIInv == IInv /\ UNCHANGED vars => IInv'
  <1> SUFFICES ASSUME IInv, UNCHANGED vars PROVE IInv'
    OBVIOUS
  <1> USE DEF vars
  <1>1. TypeOK'
    BY DEF IInv, TypeOK
  <1>2. PathInv' /\ DraftInv'
    BY DEF IInv, PathInv, DraftInv, Retrievals
  <1>3. SelectionInv' /\ EvidenceFollowsPolicy' /\ BestEvidenceFirst'
    BY DEF IInv, SelectionInv, EvidenceFollowsPolicy, BestEvidenceFirst
  <1>4. AnswerInv'
    <2>1. AnswerInv
      BY DEF IInv
    <2>2. pc = "support" => Contract!Acceptable(answer)'
      BY <2>1, AcceptableLasts DEF AnswerInv
    <2>3. QED
      BY <2>1, <2>2 DEF AnswerInv
  <1>5. FetchedInv'
    BY DEF IInv, FetchedInv
  <1>6. QED
    BY <1>1, <1>2, <1>3, <1>4, <1>5 DEF IInv

LEMMA Invariance == Spec => []IInv
  <1>1. IInv /\ [Next]_vars => IInv'
    <2> SUFFICES ASSUME IInv, [Next]_vars PROVE IInv'
      OBVIOUS
    <2>1. CASE Next
      BY <2>1, StepTypeOK, StepPathInv, StepSelectionInv, StepAnswerInv,
         StepFetchedInv DEF IInv
    <2>2. CASE UNCHANGED vars
      BY <2>2, IdleIInv
    <2>3. QED
      BY <2>1, <2>2
  <1>2. QED
    BY <1>1, InitIInv, PTL DEF Spec

(* Type correctness.                                                       *)
THEOREM TypeCorrect == Spec => []TypeOK
  <1>1. IInv => TypeOK
    BY DEF IInv
  <1>2. QED
    BY <1>1, Invariance, PTL

(* What was published last is what is returned, for every strategy and any *)
(* verdicts of the models (vanilla.py, self_rag.py).                       *)
THEOREM AnswersArePublished == Spec => []PublishedIsReturned
  <1>1. IInv => PublishedIsReturned
    BY DEF IInv, AnswerInv, PublishedIsReturned
  <1>2. QED
    BY <1>1, Invariance, PTL

(* Whatever was retrieved, the evidence keeps to the policy (select).      *)
THEOREM SelectionKeepsPolicy == Spec => []EvidenceFollowsPolicy
  <1>1. IInv => EvidenceFollowsPolicy
    BY DEF IInv
  <1>2. QED
    BY <1>1, Invariance, PTL

(* The greedy selection passes over nothing better (select).               *)
THEOREM SelectionIsGreedy == Spec => []BestEvidenceFirst
  <1>1. IInv => BestEvidenceFirst
    BY DEF IInv
  <1>2. QED
    BY <1>1, Invariance, PTL

(* However often the agent retrieves, it keeps each chunk with the best of *)
(* its scores (_merge).                                                    *)
THEOREM AgentForgetsNothing == Spec => []AgentKeepsTheBest
  <1>1. IInv => AgentKeepsTheBest
    BY DEF IInv, SelectionInv, FetchedInv, AgentKeepsTheBest
  <1>2. QED
    BY <1>1, Invariance, PTL

-----------------------------------------------------------------------------
(* The work of a question.                                                 *)

Rank == CHOOSE i \in DOMAIN Stages : Stages[i] = pc

LEMMA RankOfAStage ==
    ASSUME NEW k \in 1..10, NEW p, p = Stages[k]
    PROVE  (CHOOSE i \in DOMAIN Stages : Stages[i] = p) = k
  <1>1. \A i, j \in DOMAIN Stages : Stages[i] = Stages[j] => i = j
    BY StagesAre
  <1>2. QED
    BY <1>1, StagesAre

(* The stages in the order of the way that is left.                        *)
LEMMA Ranks ==
    ASSUME NEW p, NEW r, r = CHOOSE i \in DOMAIN Stages : Stages[i] = p
    PROVE  /\ p = "done" => r = 1
           /\ p = "failed" => r = 2
           /\ p = "support" => r = 3
           /\ p = "repair" => r = 4
           /\ p = "select" => r = 5
           /\ p = "retrieve_again" => r = 6
           /\ p = "rewrite" => r = 7
           /\ p = "assess" => r = 8
           /\ p = "retrieve" => r = 9
           /\ p = "plan" => r = 10
  <1>1. \A k \in 1..10 : p = Stages[k] => r = k
    BY RankOfAStage
  <1>2. QED
    BY <1>1, StagesAre

(* As many candidates as chunks at most.                                   *)
LEMMA CandidatesAreFew ==
    ASSUME NEW cs \in SUBSET Candidate, DistinctChunks(cs)
    PROVE  /\ IsFiniteSet(cs) /\ Cardinality(cs) \in Nat
           /\ Cardinality(cs) <= Cardinality(Chunk) /\ Cardinality(Chunk) \in Nat
  <1> DEFINE f == [c \in cs |-> c.chunk]
  <1>1. f \in [cs -> Chunk]
    BY DEF Candidate
  <1>2. IsInjective(f)
    BY DEF IsInjective, DistinctChunks
  <1>3. f \in Injection(cs, Chunk)
    BY <1>1, <1>2 DEF Injection
  <1>4. IsFiniteSet(cs) /\ Cardinality(cs) <= Cardinality(Chunk)
    BY <1>3, FS_Injection, SettingsAssumption
  <1>5. QED
    BY <1>4, FS_CardinalityType, SettingsAssumption

LEMMA LeftIsFinite ==
    ASSUME IInv
    PROVE  /\ IsFiniteSet(left) /\ Cardinality(left) \in Nat
           /\ Cardinality(left) <= Cardinality(Chunk)
  <1>1. candidates \in SUBSET Candidate /\ DistinctChunks(candidates)
        /\ left \in SUBSET candidates
    BY DEF IInv, TypeOK, SelectionInv
  <1>2. /\ IsFiniteSet(candidates) /\ Cardinality(candidates) \in Nat
        /\ Cardinality(candidates) <= Cardinality(Chunk) /\ Cardinality(Chunk) \in Nat
    BY <1>1, CandidatesAreFew
  <1>3. /\ IsFiniteSet(left) /\ Cardinality(left) \in Nat
        /\ Cardinality(left) <= Cardinality(candidates)
    BY <1>1, <1>2, FS_Subset, FS_CardinalityType
  <1>4. QED
    BY <1>2, <1>3

LEMMA OneLess ==
    ASSUME NEW a \in Nat, NEW k \in Nat
    PROVE  (a + 1) * k = a * k + k /\ a * k \in Nat
  OBVIOUS

(* A retrieval uses up one of those that may be done, which pays for all   *)
(* the way it may lead back.                                               *)
LEMMA RetrievalCosts ==
    ASSUME NEW r \in Nat, NEW n \in Nat, n + 1 <= r, NEW k \in Nat,
           NEW g \in Nat, NEW d \in Nat, NEW e \in Nat, d >= 1, e <= k
    PROVE  (r - (n + 1)) * k + g + e < (r - n) * k + g + d
  <1>1. r - (n + 1) \in Nat /\ r - n = (r - (n + 1)) + 1
    OBVIOUS
  <1>2. PICK a \in Nat : a = r - (n + 1) /\ r - n = a + 1
    BY <1>1
  <1>3. (a + 1) * k = a * k + k /\ a * k \in Nat
    BY OneLess
  <1>4. QED
    BY <1>2, <1>3


(* Work in terms of its parts.                                             *)
Searching == (Retrievals - retrievals) * (10 + Cardinality(Chunk))

Drafting == 1 + RepairAttempts - generations

LEMMA WorkIs ==
    /\ Work = Searching + Drafting + (Rank + Cardinality(left))
    /\ Work' = Searching' + Drafting' + (Rank' + Cardinality(left'))
  <1>1. Len(Stages) = 10
    BY DEF Stages
  <1>2. QED
    BY <1>1, Zenon DEF Work, Distance, Rank, Searching, Drafting

WorkOK ==
    /\ retrievals \in Nat /\ Retrievals \in Nat /\ retrievals <= Retrievals
    /\ generations \in Nat /\ generations <= 1 + RepairAttempts
    /\ Cardinality(Chunk) \in Nat /\ Searching \in Nat /\ Drafting \in Nat
    /\ IsFiniteSet(left) /\ Cardinality(left) \in Nat
    /\ Cardinality(left) <= Cardinality(Chunk)
    /\ pc \in Stage /\ Rank \in 1..10

LEMMA WorkIsOK == IInv => WorkOK
  <1> SUFFICES ASSUME IInv PROVE WorkOK
    OBVIOUS
  <1>1. pc \in Stage /\ retrievals \in Nat /\ generations \in Nat
    BY PcIsAStage DEF IInv, TypeOK
  <1>2. Rank \in 1..10
    BY <1>1, Ranks DEF Rank, Stage
  <1>3. Retrievals \in Nat /\ retrievals <= Retrievals
    BY SettingsAssumption DEF IInv, PathInv, Retrievals
  <1>4. Cardinality(Chunk) \in Nat
    BY FS_CardinalityType, SettingsAssumption
  <1>5. Drafting \in Nat /\ generations <= 1 + RepairAttempts
    BY <1>1, SettingsAssumption DEF IInv, DraftInv, Drafting
  <1>6. Searching \in Nat
    <2>1. PICK n \in Nat : n = Retrievals - retrievals
      BY <1>1, <1>3
    <2>2. QED
      BY <1>4, <2>1 DEF Searching
  <1>7. IsFiniteSet(left) /\ Cardinality(left) \in Nat
        /\ Cardinality(left) <= Cardinality(Chunk)
    BY LeftIsFinite
  <1>8. QED
    BY <1>1, <1>2, <1>3, <1>4, <1>5, <1>6, <1>7 DEF WorkOK

LEMMA WorkIsOKNext == IInv' => WorkOK'
  BY WorkIsOK, PTL

(* A step that retrieves and drafts nothing but goes on pays with its way. *)
LEMMA WayCosts ==
    ASSUME WorkOK, WorkOK', UNCHANGED <<inputVars, retrievals, generations>>,
           Rank' + Cardinality(left') < Rank + Cardinality(left)
    PROVE  Work' < Work
  <1>1. Searching' = Searching /\ Drafting' = Drafting
    BY DEF Searching, Drafting, Retrievals, inputVars
  <1>2. /\ Searching \in Nat /\ Drafting \in Nat
        /\ Rank \in Nat /\ Rank' \in Nat
        /\ Cardinality(left) \in Nat /\ Cardinality(left') \in Nat
    BY DEF WorkOK
  <1>3. QED
    BY <1>1, <1>2, WorkIs

(* Every step of the strategies uses up some of the work.                  *)
LEMMA StepWorks == IInv /\ IInv' /\ Step => Work' < Work
  <1> SUFFICES ASSUME IInv, IInv', Step PROVE Work' < Work
    OBVIOUS
  <1>0. WorkOK /\ WorkOK'
    BY WorkIsOK, WorkIsOKNext
  <1>1. CASE Retrieve
    <2>1. /\ retrievals' = retrievals + 1 /\ UNCHANGED <<inputVars, draftVars>>
      BY <1>1, RetrieveEffect
    <2>2. Retrievals' = Retrievals /\ generations' = generations
      BY <2>1 DEF Retrievals, inputVars, draftVars
    <2>3. Drafting' = Drafting
      BY <2>2 DEF Drafting
    <2> DEFINE k == 10 + Cardinality(Chunk)
    <2> DEFINE d == Rank + Cardinality(left)
    <2>4. Searching = (Retrievals - retrievals) * k
          /\ Searching' = (Retrievals - (retrievals + 1)) * k
      BY <2>1, <2>2 DEF Searching
    <2>5. /\ Retrievals \in Nat /\ retrievals \in Nat /\ retrievals + 1 <= Retrievals
          /\ Drafting \in Nat /\ k \in Nat
          /\ d \in Nat /\ d >= 1 /\ d' \in Nat /\ d' <= k
      BY <1>0, <2>1, <2>2 DEF WorkOK
    <2> HIDE DEF k, d
    <2>6. (Retrievals - (retrievals + 1)) * k + Drafting + d'
            < (Retrievals - retrievals) * k + Drafting + d
      BY <2>5, RetrievalCosts
    <2>7. QED
      BY <2>3, <2>4, <2>6, WorkIs DEF d
  <1>2. CASE Consider
    <2>1. PICK b \in left : left' = left \ {b} /\ pc = "select" /\ pc' = "select"
            /\ UNCHANGED <<inputVars, retrievals, draftVars>>
      BY <1>2, ConsiderEffect
    <2>2. Rank' = 5 /\ Rank = 5
      BY <2>1, Ranks DEF Rank
    <2>3. Cardinality(left') = Cardinality(left) - 1
      BY <1>0, <2>1, FS_RemoveElement DEF WorkOK
    <2>4. QED
      BY <1>0, <2>1, <2>2, <2>3, WayCosts DEF draftVars, WorkOK
  <1>3. CASE Generate \/ RepairCitations
    <2>1. PICK text \in Texts : Draft(text)
      BY <1>3 DEF Generate, RepairCitations
    <2>2. /\ generations' = generations + 1
          /\ UNCHANGED <<inputVars, searchVars>>
          /\ pc' \in {"repair", "support", "done"}
      BY <2>1, DraftEffect, RespondEffect
    <2>3. pc \in {"select", "repair"}
      BY <1>3 DEF Generate, RepairCitations
    <2>4. Rank \in {5, 4} /\ Rank' \in {4, 3, 1}
      BY <2>2, <2>3, Ranks DEF Rank
    <2>5. Searching' = Searching /\ left' = left
      BY <2>2 DEF Searching, Retrievals, inputVars, searchVars
    <2>6. Drafting' = Drafting - 1
      BY <1>0, <2>2, SettingsAssumption DEF Drafting, WorkOK
    <2>7. Searching \in Nat /\ Drafting \in Nat /\ Cardinality(left) \in Nat
      BY <1>0 DEF WorkOK
    <2>8. QED
      BY <2>4, <2>5, <2>6, <2>7, WorkIs
  <1>4. CASE \/ AssessEvidence \/ Rewrite \/ Plan \/ RefuseWithoutEvidence
             \/ Veto \/ FindSupported \/ Raise
    <2>1. UNCHANGED <<inputVars, searchVars>>
      BY <1>4, DrawEffect DEF Draw
    <2>2. generations' = generations
      BY <1>4 DEF AssessEvidence, Rewrite, Plan, RefuseWithoutEvidence, Veto,
                  FindSupported, Raise, draftVars
    <2>3. \/ pc = "assess" /\ pc' \in {"select", "rewrite"}
          \/ pc = "rewrite" /\ pc' \in {"select", "retrieve_again"}
          \/ pc = "plan" /\ pc' \in {"retrieve", "select"}
          \/ pc = "support" /\ pc' = "done"
          \/ pc = "select" /\ pc' \in {"support", "done"}
          \/ pc \notin {"done", "failed"} /\ pc' = "failed"
      BY <1>4, RespondEffect DEF AssessEvidence, Rewrite, Plan, RefuseWithoutEvidence,
                  Veto, FindSupported, Raise, Ended
    <2>4. pc \in Stage
      BY <1>0 DEF WorkOK
    <2>5. Rank' < Rank
      <3>1. \/ pc = "assess" /\ pc' \in {"select", "rewrite"}
            \/ pc = "rewrite" /\ pc' \in {"select", "retrieve_again"}
            \/ pc = "plan" /\ pc' \in {"retrieve", "select"}
            \/ pc = "support" /\ pc' = "done"
            \/ pc = "select" /\ pc' \in {"support", "done"}
            => Rank' < Rank
        BY Ranks DEF Rank
      <3>2. pc \notin {"done", "failed"} /\ pc' = "failed" => Rank' < Rank
        BY <2>4, Ranks DEF Rank, Stage
      <3>3. QED
        BY <2>3, <3>1, <3>2
    <2>6. /\ Rank \in Nat /\ Rank' \in Nat /\ Cardinality(left) \in Nat
          /\ left' = left /\ retrievals' = retrievals
      BY <1>0, <2>1 DEF WorkOK, searchVars
    <2>7. Rank' + Cardinality(left') < Rank + Cardinality(left)
      BY <2>5, <2>6
    <2>8. QED
      BY <1>0, <2>1, <2>2, <2>6, <2>7, WayCosts
  <1>5. QED
    BY <1>1, <1>2, <1>3, <1>4 DEF Step, Retrieve

(* Whatever the models say, every step uses up some of the work a question *)
(* may cost, and neither retrievals nor drafts exceed their limits         *)
(* (agentic.py, self_rag.py, generation).                                  *)
THEOREM QuestionsAreBounded == Spec => WorkRunsOut
  <1>1. IInv /\ IInv' /\ [Next]_vars =>
          [/\ retrievals' <= Retrievals /\ generations' <= 1 + RepairAttempts
           /\ Work' < Work]_vars
    <2> SUFFICES ASSUME IInv, IInv', Step
                 PROVE  /\ retrievals' <= Retrievals
                        /\ generations' <= 1 + RepairAttempts
                        /\ Work' < Work
      BY Zenon DEF Next, Rest
    <2>1. retrievals' <= Retrievals' /\ generations' <= 1 + RepairAttempts
      BY WorkIsOKNext DEF WorkOK
    <2>2. strategy' = strategy
      BY StepIs, RetrieveEffect, ConsiderEffect, DrawEffect DEF Next, inputVars
    <2>3. Retrievals' = Retrievals
      BY <2>2 DEF Retrievals
    <2>4. QED
      BY <2>1, <2>3, StepWorks
  <1>2. QED
    BY <1>1, Invariance, PTL DEF Spec, WorkRunsOut

-----------------------------------------------------------------------------
(* The contract of an answer.                                              *)

Outcome == IF pc = "done" THEN answer
           ELSE IF pc = "failed" THEN [kind |-> "failed"] ELSE [kind |-> "pending"]

LEMMA OutcomeIs ==
    /\ pc = "done" => Outcome = answer
    /\ pc = "failed" => Outcome = [kind |-> "failed"]
    /\ pc \notin {"done", "failed"} => Outcome = [kind |-> "pending"]
    /\ pc' = "done" => Outcome' = answer'
    /\ pc' = "failed" => Outcome' = [kind |-> "failed"]
    /\ pc' \notin {"done", "failed"} => Outcome' = [kind |-> "pending"]
  BY DEF Outcome

LEMMA Delivers ==
    ASSUME pc \notin {"done", "failed"}, pc' = "done", require' = require,
           answer'.kind = "answer", Contract!Acceptable(answer')
    PROVE  Contract!Next
  <1>1. Outcome = [kind |-> "pending"] /\ Outcome' = answer'
    BY OutcomeIs
  <1>2. QED
    BY <1>1 DEF Contract!Next, Contract!Deliver, Contract!Pending, Outcome

LEMMA Fails ==
    ASSUME pc \notin {"done", "failed"}, pc' = "failed", require' = require
    PROVE  Contract!Next
  <1>1. Outcome = [kind |-> "pending"] /\ Outcome' = [kind |-> "failed"]
    BY OutcomeIs
  <1>2. QED
    BY <1>1 DEF Contract!Next, Contract!Fail, Contract!Pending, Contract!Failed, Outcome

LEMMA Stutters ==
    ASSUME require' = require, Outcome' = Outcome
    PROVE  UNCHANGED <<require, Outcome>>
  OBVIOUS

(* Each step of the strategies delivers, fails, or leaves the request      *)
(* pending.                                                                *)
LEMMA StepKeepsContract ==
    ASSUME IInv, Next
    PROVE  Contract!Next \/ UNCHANGED <<require, Outcome>>
  <1>0. require' = require
    BY StepIs, RetrieveEffect, ConsiderEffect, DrawEffect DEF inputVars
  <1>1. CASE Retrieve
    <2>1. pc' \in {"assess", "select", "plan"} /\ pc \notin {"done", "failed"}
      BY <1>1 DEF Retrieve, RetrieveOnce, SelfRetrieve, RetrieveAgain, AgentRetrieve,
                  Search
    <2>2. QED
      BY <1>0, <2>1, OutcomeIs
  <1>2. CASE Consider
    <2>1. pc' = "select" /\ pc = "select"
      BY <1>2, ConsiderEffect
    <2>2. QED
      BY <1>0, <2>1, OutcomeIs
  <1>3. CASE Generate \/ RepairCitations
    <2>1. PICK text \in Texts : Draft(text)
      BY <1>3 DEF Generate, RepairCitations
    <2>2. evidence # <<>> /\ pc \in {"select", "repair"}
      BY <1>3 DEF Generate, RepairCitations, IInv, DraftInv
    <2>3. \/ pc' = "repair"
          \/ Respond(Refusal(evidence, FALSE))
          \/ (require => Valid(text)) /\ Respond(Grounded(text))
      BY <2>1, DraftEffect
    <2>4. CASE pc' = "repair"
      BY <1>0, <2>2, <2>4, OutcomeIs
    <2>5. CASE Respond(Refusal(evidence, FALSE))
      <3>1. pc' = "done" /\ answer' = Refusal(evidence, FALSE)
        BY <2>5, RespondEffect, AnswersAre
      <3>2. QED
        BY <1>0, <2>2, <3>1, AnswersAre, Delivers
    <2>6. CASE (require => Valid(text)) /\ Respond(Grounded(text))
      <3>1. answer' = Grounded(text) /\ pc' \in {"support", "done"}
        BY <2>6, RespondEffect
      <3>2. Contract!Acceptable(answer') /\ answer'.kind = "answer"
        BY <2>2, <2>6, <3>1, GroundedIsAcceptable, AnswersAre
      <3>3. CASE pc' = "support"
        BY <1>0, <2>2, <3>3, OutcomeIs
      <3>4. CASE pc' = "done"
        BY <1>0, <2>2, <3>2, <3>4, Delivers
      <3>5. QED
        BY <3>1, <3>3, <3>4
    <2>7. QED
      BY <2>3, <2>4, <2>5, <2>6
  <1>4. CASE RefuseWithoutEvidence
    <2>1. pc = "select" /\ pc' = "done" /\ answer' = Refusal(<<>>, TRUE)
      BY <1>4, RespondEffect, AnswersAre DEF RefuseWithoutEvidence
    <2>2. QED
      BY <1>0, <2>1, AnswersAre, Delivers
  <1>5. CASE Veto
    <2>1. pc = "support" /\ pc' = "done" /\ answer' = Refusal(answer.evidence, TRUE)
      BY <1>5 DEF Veto
    <2>2. QED
      BY <1>0, <2>1, AnswersAre, Delivers
  <1>6. CASE FindSupported
    <2>1. pc = "support" /\ pc' = "done" /\ answer' = answer
      BY <1>6 DEF FindSupported, answerVars
    <2>2. answer.kind = "answer" /\ Contract!Acceptable(answer)
      BY <2>1 DEF IInv, AnswerInv
    <2>3. QED
      BY <1>0, <2>1, <2>2, Delivers
  <1>7. CASE Raise
    BY <1>0, <1>7, Fails DEF Raise, Ended
  <1>8. CASE AssessEvidence \/ Rewrite \/ Plan
    <2>1. /\ pc' \in {"select", "rewrite", "retrieve_again", "retrieve"}
          /\ pc \notin {"done", "failed"}
      BY <1>8 DEF AssessEvidence, Rewrite, Plan
    <2>2. QED
      BY <1>0, <2>1, OutcomeIs
  <1>9. CASE Rest
    BY <1>9 DEF Rest, vars, Outcome
  <1>10. QED
    BY <1>1, <1>2, <1>3, <1>4, <1>5, <1>6, <1>7, <1>8, <1>9, StepIs DEF Draw

(* Every strategy implements the contract of an answer, whatever its       *)
(* models return and whenever they raise (vanilla.py, self_rag.py,         *)
(* agentic.py).                                                            *)
THEOREM ContractIsKept == Spec => KeepsContract
  <1>1. Init => Contract!Init
    BY DEF Init, Contract!Init, Contract!Pending
  <1>2. IInv /\ [Next]_vars => [Contract!Next]_<<require, Outcome>>
    <2>1. ASSUME IInv, UNCHANGED vars PROVE UNCHANGED <<require, Outcome>>
      BY <2>1 DEF vars, Outcome
    <2>2. QED
      BY <2>1, StepKeepsContract
  <1>3. QED
    BY <1>1, <1>2, Invariance, PTL DEF Spec, KeepsContract, Contract!Spec, Outcome

=============================================================================
