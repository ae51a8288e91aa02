-------------------------- MODULE ExperimentsProofs --------------------------
(***************************************************************************)
(* Proofs about a suite of experiments, for any files and any inheritance  *)
(* between them, any suite, and any number of cases.                       *)
(***************************************************************************)
EXTENDS Experiments, FiniteSetTheorems, SequenceTheorems, WellFoundedInduction, TLAPS

Typed ==
    /\ pc \in {"load", "start", "next", "evaluate", "finish", "done", "rejected", "aborted"}
    /\ extends \in [File -> File \union {Absent, NoFile}] /\ section \in [File -> Section]
    /\ ids \in Seq(Id)
    /\ options \in [dry : BOOLEAN, retrievalOnly : BOOLEAN, goOn : BOOLEAN]
    /\ items \in Seq({"planned", "running", "completed", "failed"})
    /\ measured \in Seq([retrieval : SUBSET Case, generation : SUBSET Case])
    /\ details \in 0..Cases /\ retrieval \subseteq Case /\ generation \subseteq Case
    /\ errors \in Nat

(* The chain goes up from the file that is loaded, and never in a circle.  *)
LoadInv ==
    /\ pc = "load" =>
        /\ Len(ids) < Len(Suite)
        /\ chain \in Seq(File) /\ IsInjective(chain)
        /\ chain # <<>> => chain[1] = Suite[Len(ids) + 1]
        /\ \A i \in 1..Len(chain) : i + 1 <= Len(chain) => chain[i + 1] = extends[chain[i]]
    /\ pc = "start" => Len(ids) = Len(Suite)

(* Each item that has ended has a verdict and what was measured for it.    *)
SuiteInv ==
    /\ pc \in {"load", "start", "rejected"} => items = <<>> /\ measured = <<>>
    /\ pc # "done" => status # "completed"
    /\ options.dry =>
        /\ pc \notin {"evaluate", "finish"} /\ measured = <<>>
        /\ \A i \in DOMAIN items : items[i] = "planned"
    /\ ~options.dry =>
        /\ \A i \in DOMAIN items : IF i <= Len(measured) THEN items[i] \in {"completed", "failed"}
                                                         ELSE items[i] = "running"
        /\ pc \in {"next", "finish", "done"} => Len(items) = Len(measured)
        /\ pc = "evaluate" => Len(items) = Len(measured) + 1
    /\ pc = "finish" => "failed" \in ToSet(items)

(* As long as no case has failed, all that were dealt with have their      *)
(* figures.                                                                *)
EvalInv ==
    pc = "evaluate" =>
        /\ stage \in {"setup", "retrieve", "answer", "write", "markdown"}
        /\ stage = "setup" => details = 0
        /\ stage \in {"retrieve", "answer"} => details < Cases
        /\ stage = "answer" =>
            ~options.retrievalOnly /\ (details + 1 \in Answerable => details + 1 \in retrieval)
        /\ stage \in {"write", "markdown"} => details = Cases
        /\ stage = "markdown" => report = errors
        /\ errors = 0 => \A c \in 1..details :
            /\ c \in Answerable => c \in retrieval
            /\ options.retrievalOnly \/ c \in generation

IInv == Typed /\ LoadInv /\ IdsAreResolved /\ SuiteInv /\ EvalInv /\ CompletedIsEarned

-----------------------------------------------------------------------------
(* The suite, once its configurations are loaded.                          *)

LEMMA SizesAre ==
    ASSUME Typed
    PROVE  /\ Cases \in Nat /\ details \in Nat /\ details <= Cases
           /\ Len(items) \in Nat /\ DOMAIN items = 1..Len(items)
           /\ Len(measured) \in Nat /\ DOMAIN measured = 1..Len(measured)
           /\ Len(ids) \in Nat /\ DOMAIN ids = 1..Len(ids)
           /\ Len(Suite) \in Nat /\ DOMAIN Suite = 1..Len(Suite)
  BY ExperimentsAssumption DEF Typed

(* Loading leaves the suite alone.                                         *)
LEMMA LoadingKeepsSuite ==
    ASSUME IInv, pc \in {"load", "start"}, pc' \in {"load", "start", "rejected"},
           UNCHANGED <<options, manifestVars, evalVars, measured>>
    PROVE  SuiteInv' /\ EvalInv' /\ CompletedIsEarned'
  <1>1. /\ options' = options /\ items' = items /\ status' = status /\ measured' = measured
        /\ items = <<>> /\ measured = <<>> /\ status # "completed"
    BY DEF manifestVars, IInv, SuiteInv
  <1>2. Len(<<>>) = 0 /\ DOMAIN <<>> = {}
    OBVIOUS
  <1>3. SuiteInv'
    BY <1>1, <1>2 DEF IInv, SuiteInv
  <1>4. CompletedIsEarned'
    BY <1>1, <1>2 DEF CompletedIsEarned
  <1>5. QED
    BY <1>3, <1>4 DEF EvalInv

(* What runs later leaves the ids alone.                                   *)
LEMMA RunningKeepsIds ==
    ASSUME pc' \in {"next", "evaluate", "finish", "done", "aborted"}
    PROVE  LoadInv' /\ IdsAreResolved'
  BY DEF LoadInv, IdsAreResolved

LEMMA StartSuiteKeeps == IInv /\ StartSuite => IInv'
  <1> SUFFICES ASSUME IInv, StartSuite PROVE IInv'
    OBVIOUS
  <1>1. /\ pc = "start" /\ pc' = "next"
        /\ options' \in [dry : BOOLEAN, retrievalOnly : BOOLEAN, goOn : BOOLEAN]
        /\ status' = IF options'.dry THEN "planned" ELSE "running"
        /\ extends' = [f \in File |-> Absent] /\ section' = [f \in File |-> Absent]
        /\ UNCHANGED <<chain, ids, items, evalVars, measured>>
    BY DEF StartSuite
  <1>2. items = <<>> /\ measured = <<>> /\ Len(<<>>) = 0 /\ DOMAIN <<>> = {}
    BY <1>1 DEF IInv, SuiteInv
  <1>3. Typed'
    BY <1>1 DEF IInv, Typed, evalVars, metricVars, Section
  <1>4. SuiteInv'
    BY <1>1, <1>2 DEF SuiteInv
  <1>5. EvalInv' /\ CompletedIsEarned'
    BY <1>1, <1>2 DEF EvalInv, CompletedIsEarned
  <1>6. QED
    BY <1>1, <1>3, <1>4, <1>5, RunningKeepsIds DEF IInv

LEMMA AppendedItem ==
    ASSUME Typed, NEW item \in {"planned", "running", "completed", "failed"}
    PROVE  /\ Append(items, item) \in Seq({"planned", "running", "completed", "failed"})
           /\ Len(Append(items, item)) = Len(items) + 1
           /\ \A i \in DOMAIN Append(items, item) :
                Append(items, item)[i] = IF i <= Len(items) THEN items[i] ELSE item
           /\ \A i \in DOMAIN Append(items, item) : i <= Len(items) => i \in DOMAIN items
           /\ \A i \in DOMAIN Append(items, item) : ~(i <= Len(items)) => i = Len(items) + 1
  BY DEF Typed

LEMMA PlanItemKeeps == IInv /\ PlanItem => IInv'
  <1> SUFFICES ASSUME IInv, PlanItem PROVE IInv'
    OBVIOUS
  <1>1. /\ pc = "next" /\ options.dry /\ pc' \in {"next", "aborted"}
        /\ items' = items \/ items' = Append(items, "planned")
        /\ UNCHANGED <<treeVars, options, status, evalVars, measured>>
    BY DEF PlanItem
  <1>2. /\ Typed /\ measured = <<>> /\ \A i \in DOMAIN items : items[i] = "planned"
        /\ status # "completed"
    BY <1>1 DEF IInv, SuiteInv
  <1>3. /\ items' \in Seq({"planned", "running", "completed", "failed"})
        /\ \A i \in DOMAIN items' : items'[i] = "planned"
    <2>1. CASE items' = items
      BY <1>2, <2>1 DEF Typed
    <2>2. CASE items' = Append(items, "planned")
      BY <1>2, <2>2, AppendedItem
    <2>3. QED
      BY <1>1, <2>1, <2>2
  <1>4. Typed'
    BY <1>1, <1>2, <1>3 DEF Typed, treeVars, evalVars, metricVars
  <1>5. SuiteInv'
    BY <1>1, <1>2, <1>3 DEF SuiteInv
  <1>6. EvalInv' /\ CompletedIsEarned'
    BY <1>1, <1>2, <1>3 DEF EvalInv, CompletedIsEarned
  <1>7. QED
    BY <1>1, <1>4, <1>5, <1>6, RunningKeepsIds DEF IInv

LEMMA StartItemKeeps == IInv /\ StartItem => IInv'
  <1> SUFFICES ASSUME IInv, StartItem PROVE IInv'
    OBVIOUS
  <1>1. /\ pc = "next" /\ ~options.dry /\ items' = Append(items, "running")
        /\ pc' = "evaluate" /\ stage' = "setup" /\ NewEvaluation
        /\ UNCHANGED <<treeVars, options, status, measured>>
    BY DEF StartItem
  <1>2. /\ Typed /\ Len(items) = Len(measured) /\ status # "completed"
        /\ \A i \in DOMAIN items : items[i] \in {"completed", "failed"}
    <2>1. Typed /\ SuiteInv
      BY DEF IInv
    <2>2. Len(items) = Len(measured) /\ status # "completed"
      BY <1>1, <2>1 DEF SuiteInv
    <2>3. \A i \in DOMAIN items : i <= Len(measured)
      BY <2>1, <2>2, SizesAre
    <2>4. QED
      BY <1>1, <2>1, <2>2, <2>3 DEF SuiteInv
  <1>3. /\ items' \in Seq({"planned", "running", "completed", "failed"})
        /\ Len(items') = Len(measured') + 1
        /\ \A i \in DOMAIN items' :
            /\ i <= Len(items) => i \in DOMAIN items /\ items'[i] = items[i]
            /\ ~(i <= Len(items)) => items'[i] = "running"
    BY <1>1, <1>2, AppendedItem
  <1>4. Typed'
    BY <1>1, <1>2, <1>3, SizesAre DEF Typed, treeVars, NewEvaluation
  <1>5. SuiteInv'
    BY <1>1, <1>2, <1>3 DEF SuiteInv
  <1>6. EvalInv'
    BY <1>1 DEF EvalInv, NewEvaluation
  <1>7. CompletedIsEarned'
    BY <1>1, <1>2, <1>3 DEF CompletedIsEarned, IInv
  <1>8. QED
    BY <1>1, <1>4, <1>5, <1>6, <1>7, RunningKeepsIds DEF IInv

(* The verdict on the item is true to what its evaluation measured.        *)
LEMMA ConcludeKeeps ==
    ASSUME IInv, pc = "evaluate", NEW verdict \in {"completed", "failed"}, Conclude(verdict),
           UNCHANGED <<treeVars, options, status>>,
           verdict = "completed" =>
            Answerable \subseteq retrieval /\ (options.retrievalOnly \/ generation = Case)
    PROVE  IInv'
  <1> DEFINE figures == [retrieval |-> retrieval, generation |-> generation]
  <1>1. /\ items' = [items EXCEPT ![Len(items)] = verdict]
        /\ measured' = Append(measured, figures)
        /\ pc' = IF verdict = "failed" /\ ~options.goOn THEN "finish" ELSE "next"
        /\ stage' = "off" /\ NewEvaluation
    BY DEF Conclude
  <1>2. /\ Typed /\ Len(items) = Len(measured) + 1 /\ ~options.dry /\ status # "completed"
        /\ \A i \in DOMAIN items : i <= Len(measured) => items[i] \in {"completed", "failed"}
    BY DEF IInv, SuiteInv
  <1>3. /\ Len(items) \in Nat /\ DOMAIN items = 1..Len(items) /\ Len(items) \in DOMAIN items
        /\ Len(measured) \in Nat /\ DOMAIN measured = 1..Len(measured)
    BY <1>2, SizesAre
  <1>4. /\ items' \in Seq({"planned", "running", "completed", "failed"})
        /\ Len(items') = Len(items) /\ DOMAIN items' = 1..Len(items)
        /\ items'[Len(items)] = verdict
        /\ \A i \in 1..Len(items) : i # Len(items) => items'[i] = items[i]
    BY <1>1, <1>2, <1>3 DEF Typed
  <1>5. figures \in [retrieval : SUBSET Case, generation : SUBSET Case]
    BY <1>2 DEF Typed
  <1> HIDE DEF figures
  <1>6. /\ measured' \in Seq([retrieval : SUBSET Case, generation : SUBSET Case])
        /\ Len(measured') = Len(items) /\ measured'[Len(items)] = figures
        /\ \A i \in 1..Len(items) : i # Len(items) => i \in 1..Len(measured) /\ measured'[i] = measured[i]
    BY <1>1, <1>2, <1>3, <1>5 DEF Typed
  <1>7. Typed'
    BY <1>1, <1>2, <1>4, <1>6, SizesAre DEF Typed, treeVars, NewEvaluation
  <1>8. \A i \in DOMAIN items' : items'[i] \in {"completed", "failed"} /\ i <= Len(measured')
    BY <1>2, <1>3, <1>4, <1>6
  <1>9. pc' = "finish" => "failed" \in ToSet(items')
    BY <1>1, <1>3, <1>4 DEF ToSet
  <1>10. SuiteInv'
    BY <1>1, <1>2, <1>4, <1>6, <1>8, <1>9 DEF SuiteInv
  <1>11. ASSUME NEW i \in DOMAIN items', items'[i] = "completed"
         PROVE  /\ Answerable \subseteq measured'[i].retrieval
                /\ options'.retrievalOnly \/ measured'[i].generation = Case
    <2>1. CASE i = Len(items)
      <3>1. verdict = "completed" /\ measured'[i] = figures
        BY <1>4, <1>6, <1>11, <2>1
      <3>2. figures.retrieval = retrieval /\ figures.generation = generation
        BY DEF figures
      <3>3. QED
        BY <3>1, <3>2
    <2>2. CASE i # Len(items)
      <3>1. i \in DOMAIN items /\ items[i] = "completed" /\ measured'[i] = measured[i]
        BY <1>3, <1>4, <1>6, <1>11, <2>2
      <3>2. QED
        BY <3>1 DEF IInv, CompletedIsEarned
    <2>3. QED
      BY <2>1, <2>2
  <1>12. CompletedIsEarned'
    BY <1>1, <1>2, <1>11 DEF CompletedIsEarned
  <1>13. EvalInv' /\ LoadInv' /\ IdsAreResolved'
    BY <1>1, RunningKeepsIds DEF EvalInv
  <1>14. QED
    BY <1>7, <1>10, <1>12, <1>13 DEF IInv

LEMMA FailToStartKeeps == IInv /\ FailToStart => IInv'
  BY ConcludeKeeps DEF FailToStart

LEMMA ExitKeeps == IInv /\ Exit => IInv'
  <1> SUFFICES ASSUME IInv, Exit PROVE IInv'
    OBVIOUS
  <1>1. pc = "evaluate" /\ UNCHANGED <<treeVars, options, status>>
    BY DEF Exit
  <1>2. CASE stage = "markdown" /\ Conclude(Verdict(0))
    <2>1. /\ report = errors /\ details = Cases
          /\ errors = 0 => \A c \in 1..details :
                /\ c \in Answerable => c \in retrieval
                /\ options.retrievalOnly \/ c \in generation
      BY <1>1, <1>2 DEF IInv, EvalInv
    <2>2. Answerable \subseteq Case /\ generation \subseteq Case
      BY ExperimentsAssumption DEF IInv, Typed
    <2>3. Verdict(0) = "completed" =>
            Answerable \subseteq retrieval /\ (options.retrievalOnly \/ generation = Case)
      BY <2>1, <2>2 DEF Verdict, Case
    <2>4. Verdict(0) \in {"completed", "failed"}
      BY DEF Verdict
    <2>5. QED
      BY <1>1, <1>2, <2>3, <2>4, ConcludeKeeps
  <1>3. CASE Conclude(Verdict(1))
    <2>1. Verdict(1) = "failed"
      BY DEF Verdict
    <2>2. QED
      BY <1>1, <1>3, <2>1, ConcludeKeeps
  <1>4. QED
    BY <1>2, <1>3 DEF Exit

LEMMA FinishKeeps == IInv /\ Finish => IInv'
  <1> SUFFICES ASSUME IInv, Finish PROVE IInv'
    OBVIOUS
  <1>1. /\ pc = "finish" \/ (pc = "next" /\ AllTried)
        /\ pc' = "done"
        /\ status' = IF options.dry THEN "planned"
                     ELSE IF ToSet(items) = {"completed"} THEN "completed"
                     ELSE IF "failed" \in ToSet(items) THEN "failed"
                     ELSE "incomplete"
        /\ UNCHANGED <<treeVars, options, items, evalVars, measured>>
    BY DEF Finish
  <1>2. Typed /\ SuiteInv /\ CompletedIsEarned
    BY DEF IInv
  <1>3. Typed'
    BY <1>1, <1>2 DEF Typed, treeVars, evalVars, metricVars, Finish
  <1>4. pc' = "done"
    BY DEF Finish
  <1>5. SuiteInv'
    BY <1>1, <1>2, <1>4 DEF SuiteInv
  <1>6. ToSet(items) = {"completed"} => pc = "next" /\ AllTried
    BY <1>1, <1>2 DEF SuiteInv
  <1>7. ~options.dry /\ ToSet(items) # {"completed"} => "failed" \in ToSet(items)
    <2>1. CASE pc = "finish"
      BY <1>2, <2>1 DEF SuiteInv
    <2>2. CASE pc = "next" /\ AllTried /\ ~options.dry
      <3>1. Len(items) = Len(measured) /\ Len(items) = Len(Suite) /\ Len(items) \in Nat
        BY <1>2, <2>2, SizesAre DEF SuiteInv, AllTried
      <3>2. \A i \in DOMAIN items : items[i] \in {"completed", "failed"}
        BY <1>2, <2>2, <3>1, SizesAre DEF SuiteInv
      <3>3. 1 \in DOMAIN items
        BY <1>2, <3>1, SizesAre, ExperimentsAssumption
      <3>4. QED
        BY <3>2, <3>3 DEF ToSet
    <2>3. QED
      BY <1>1, <2>1, <2>2
  <1>8. CompletedIsEarned'
    <2>1. /\ items' = items /\ measured' = measured /\ options' = options
          /\ AllTried' = AllTried
      BY <1>1 DEF AllTried
    <2>2. status' = "completed" => ToSet(items) = {"completed"} /\ AllTried
      BY <1>1, <1>6
    <2>3. ~options.dry /\ status' # "completed" => status' = "failed" /\ "failed" \in ToSet(items)
      BY <1>1, <1>7
    <2>4. QED
      BY <1>2, <2>1, <2>2, <2>3 DEF CompletedIsEarned
  <1>9. QED
    BY <1>3, <1>4, <1>5, <1>8, RunningKeepsIds DEF IInv, EvalInv

LEMMA KillKeeps == IInv /\ Kill => IInv'
  <1> SUFFICES ASSUME IInv, Kill PROVE IInv'
    OBVIOUS
  <1>1. /\ pc \in {"next", "evaluate", "finish"} /\ pc' = "aborted"
        /\ UNCHANGED <<treeVars, options, manifestVars, evalVars, measured>>
    BY DEF Kill
  <1>2. Typed'
    BY <1>1 DEF IInv, Typed, treeVars, manifestVars, evalVars, metricVars
  <1>3. SuiteInv'
    BY <1>1 DEF IInv, SuiteInv, manifestVars
  <1>4. CompletedIsEarned'
    BY <1>1 DEF IInv, CompletedIsEarned, SuiteInv, AllTried, manifestVars
  <1>5. QED
    BY <1>1, <1>2, <1>3, <1>4, RunningKeepsIds DEF IInv, EvalInv

-----------------------------------------------------------------------------
(* The evaluation of one experiment.                                       *)

(* Its steps leave the suite alone.                                        *)
LEMMA EvaluationKeeps ==
    ASSUME IInv, pc = "evaluate", UNCHANGED suiteVars, EvalInv',
           details' \in 0..Cases, retrieval' \subseteq Case, generation' \subseteq Case, errors' \in Nat
    PROVE  IInv'
  <1>1. /\ pc' = "evaluate" /\ UNCHANGED <<options, items, status, measured>>
        /\ UNCHANGED treeVars
    BY DEF suiteVars, manifestVars
  <1>2. Typed'
    BY <1>1 DEF IInv, Typed, treeVars
  <1>3. SuiteInv'
    BY <1>1 DEF IInv, SuiteInv
  <1>4. CompletedIsEarned'
    BY <1>1 DEF IInv, CompletedIsEarned, AllTried
  <1>5. QED
    BY <1>1, <1>2, <1>3, <1>4, RunningKeepsIds DEF IInv

LEMMA SetUpKeeps == IInv /\ SetUp => IInv'
  <1> SUFFICES ASSUME IInv, SetUp PROVE IInv'
    OBVIOUS
  <1>1. /\ pc = "evaluate" /\ stage = "setup"
        /\ stage' = IF Cases = 0 THEN "write" ELSE "retrieve"
        /\ UNCHANGED suiteVars /\ UNCHANGED <<metricVars, report>>
    BY DEF SetUp, Evaluating
  <1>2. details = 0 /\ Cases \in Nat /\ Typed
    BY <1>1, SizesAre DEF IInv, EvalInv
  <1>3. EvalInv'
    BY <1>1, <1>2 DEF EvalInv, metricVars
  <1>4. QED
    BY <1>1, <1>2, <1>3, EvaluationKeeps DEF Typed, metricVars

LEMMA CaseDoneIs ==
    ASSUME Typed, details < Cases, CaseDone
    PROVE  /\ details' = details + 1 /\ details' \in 0..Cases /\ details + 1 \in Case
           /\ stage' \in {"retrieve", "write"}
           /\ stage' = "retrieve" => details' < Cases
           /\ stage' = "write" => details' = Cases
           /\ \A c \in 1..details' : c \in 1..details \/ c = details + 1
  BY SizesAre DEF CaseDone, AfterCase, Case

LEMMA RetrieveKeeps == IInv /\ Retrieve => IInv'
  <1> SUFFICES ASSUME IInv, Retrieve PROVE IInv'
    OBVIOUS
  <1>1. /\ pc = "evaluate" /\ stage = "retrieve" /\ UNCHANGED suiteVars
        /\ retrieval' = retrieval \union ({details + 1} \intersect Answerable)
        /\ UNCHANGED <<generation, errors, report>>
    BY DEF Retrieve, Evaluating
  <1>2. pc' = "evaluate" /\ options' = options
    BY <1>1 DEF suiteVars
  <1>3. Typed /\ details < Cases
    BY <1>1 DEF IInv, EvalInv
  <1>4. errors = 0 => \A c \in 1..details :
            /\ c \in Answerable => c \in retrieval'
            /\ options.retrievalOnly \/ c \in generation
    BY <1>1 DEF IInv, EvalInv
  <1>5. retrieval' \subseteq Case /\ generation' \subseteq Case /\ errors' \in Nat
    BY <1>1, <1>3, ExperimentsAssumption DEF Typed
  <1>6. details + 1 \in Answerable => details + 1 \in retrieval'
    BY <1>1
  <1>7. CASE options.retrievalOnly
    <2>1. CaseDone
      BY <1>7 DEF Retrieve
    <2>2. EvalInv'
      BY <1>1, <1>2, <1>3, <1>4, <1>6, <1>7, <2>1, CaseDoneIs DEF EvalInv
    <2>3. QED
      BY <1>1, <1>3, <1>5, <2>1, <2>2, CaseDoneIs, EvaluationKeeps
  <1>8. CASE ~options.retrievalOnly
    <2>1. stage' = "answer" /\ UNCHANGED details
      BY <1>8 DEF Retrieve
    <2>2. EvalInv'
      BY <1>1, <1>2, <1>3, <1>4, <1>6, <1>8, <2>1 DEF EvalInv
    <2>3. QED
      BY <1>1, <1>3, <1>5, <2>1, <2>2, EvaluationKeeps DEF Typed
  <1>9. QED
    BY <1>7, <1>8

LEMMA AnswerAndJudgeKeeps == IInv /\ AnswerAndJudge => IInv'
  <1> SUFFICES ASSUME IInv, AnswerAndJudge PROVE IInv'
    OBVIOUS
  <1>1. /\ pc = "evaluate" /\ stage = "answer" /\ UNCHANGED suiteVars
        /\ generation' = generation \union {details + 1} /\ CaseDone
        /\ UNCHANGED <<retrieval, errors, report>>
    BY DEF AnswerAndJudge, Evaluating
  <1>2. pc' = "evaluate" /\ options' = options
    BY <1>1 DEF suiteVars
  <1>3. /\ Typed /\ details < Cases
        /\ details + 1 \in Answerable => details + 1 \in retrieval
        /\ errors = 0 => \A c \in 1..details :
            /\ c \in Answerable => c \in retrieval
            /\ options.retrievalOnly \/ c \in generation
    BY <1>1 DEF IInv, EvalInv
  <1>4. EvalInv'
    BY <1>1, <1>2, <1>3, CaseDoneIs DEF EvalInv
  <1>5. retrieval' \subseteq Case /\ generation' \subseteq Case /\ errors' \in Nat /\ details' \in 0..Cases
    BY <1>1, <1>3, CaseDoneIs DEF Typed
  <1>6. QED
    BY <1>1, <1>4, <1>5, EvaluationKeeps

LEMMA FailCaseKeeps == IInv /\ FailCase => IInv'
  <1> SUFFICES ASSUME IInv, FailCase PROVE IInv'
    OBVIOUS
  <1>1. /\ pc = "evaluate" /\ stage \in {"retrieve", "answer"} /\ UNCHANGED suiteVars
        /\ errors' = errors + 1 /\ CaseDone
        /\ UNCHANGED <<retrieval, generation, report>>
    BY DEF FailCase
  <1>2. Typed /\ details < Cases
    BY <1>1 DEF IInv, EvalInv
  <1>3. errors' \in Nat /\ errors' # 0
    BY <1>1, <1>2 DEF Typed
  <1>4. EvalInv'
    BY <1>1, <1>2, <1>3, CaseDoneIs DEF EvalInv
  <1>5. retrieval' \subseteq Case /\ generation' \subseteq Case /\ details' \in 0..Cases
    BY <1>1, <1>2, CaseDoneIs DEF Typed
  <1>6. QED
    BY <1>1, <1>3, <1>4, <1>5, EvaluationKeeps

LEMMA WriteReportKeeps == IInv /\ WriteReport => IInv'
  <1> SUFFICES ASSUME IInv, WriteReport PROVE IInv'
    OBVIOUS
  <1>1. /\ pc = "evaluate" /\ stage = "write" /\ UNCHANGED suiteVars
        /\ report' = errors /\ stage' = "markdown" /\ UNCHANGED metricVars
    BY DEF WriteReport, Evaluating
  <1>2. EvalInv'
    BY <1>1 DEF IInv, EvalInv, metricVars, suiteVars
  <1>3. QED
    BY <1>1, <1>2, EvaluationKeeps DEF IInv, Typed, metricVars

-----------------------------------------------------------------------------
(* The generations above a file.                                           *)

LEMMA LeastNumber ==
    ASSUME NEW T, T \subseteq Nat, T # {}
    PROVE  \E x \in T : \A y \in T : x <= y
  <1> DEFINE R == OpToRel(<, Nat)
  <1>1. IsWellFoundedOn(R, Nat)
    BY NatLessThanWellFounded
  <1>2. \A x, y \in Nat : y < x => <<y, x>> \in R
    BY DEF OpToRel
  <1> HIDE DEF R
  <1>3. PICK x \in T : \A y \in T : ~(<<y, x>> \in R)
    BY <1>1, WFMin
  <1>4. ASSUME NEW y \in T PROVE x <= y
    <2>1. x \in Nat /\ y \in Nat
      OBVIOUS
    <2>2. ~(y < x)
      BY <1>2, <1>3, <2>1
    <2>3. QED
      BY <2>1, <2>2
  <1>5. QED
    BY <1>4

(* Induction, with a set in the place of a predicate.                      *)
LEMMA SetInduction ==
    ASSUME NEW Good, 0 \in Good, \A n \in Nat : n \in Good => n + 1 \in Good
    PROVE  Nat \subseteq Good
  <1> SUFFICES ASSUME Nat \ Good # {} PROVE FALSE
    OBVIOUS
  <1>1. PICK x \in Nat \ Good : \A y \in Nat \ Good : x <= y
    BY LeastNumber
  <1>2. x # 0 /\ x - 1 \in Nat /\ ~(x <= x - 1) /\ (x - 1) + 1 = x
    BY <1>1
  <1>3. x - 1 \in Good
    BY <1>1, <1>2
  <1>4. QED
    BY <1>1, <1>2, <1>3

Climbs(up, m) ==
    up = [n \in 0..m |->
            [f \in File |->
                IF n = 0 THEN f
                ELSE IF up[n - 1][f] \in File THEN extends[up[n - 1][f]] ELSE up[n - 1][f]]]

LEMMA UpExists ==
    ASSUME NEW m \in Nat
    PROVE  \E up : Climbs(up, m)
  <1> DEFINE Good == {n \in Nat : \E up : Climbs(up, n)}
  <1>1. 0 \in Good
    <2> DEFINE up == [n \in 0..0 |-> [f \in File |-> f]]
    <2>1. Climbs(up, 0)
      BY DEF Climbs
    <2>2. QED
      BY <2>1
  <1>2. ASSUME NEW n \in Nat, n \in Good PROVE n + 1 \in Good
    <2>1. PICK up : Climbs(up, n)
      BY <1>2
    <2> DEFINE Row(u, k) ==
                [f \in File |->
                    IF k = 0 THEN f
                    ELSE IF u[k - 1][f] \in File THEN extends[u[k - 1][f]] ELSE u[k - 1][f]]
               new == [k \in 0..(n + 1) |-> IF k <= n THEN up[k] ELSE Row(up, k)]
    <2>2. up = [k \in 0..n |-> Row(up, k)]
      BY <2>1 DEF Climbs
    <2>3. \A k \in 0..n : up[k] = Row(up, k) /\ new[k] = up[k]
      <3> HIDE DEF Row
      <3>1. \A k \in 0..n : k \in 0..(n + 1) /\ k <= n
        OBVIOUS
      <3>2. QED
        BY <2>2, <3>1
    <2>4. \A k \in 0..(n + 1) : new[k] = Row(up, k)
      <3> HIDE DEF Row
      <3>1. \A k \in 0..(n + 1) : k \in 0..n \/ ~(k <= n)
        OBVIOUS
      <3>2. QED
        BY <2>3, <3>1
    <2>5. \A k \in 0..(n + 1) : Row(new, k) = Row(up, k)
      <3> TAKE k \in 0..(n + 1)
      <3>1. CASE k = 0
        BY <3>1
      <3>2. CASE k # 0
        <4>1. k - 1 \in 0..n
          BY <3>2
        <4>2. new[k - 1] = up[k - 1]
          BY <2>3, <4>1
        <4> HIDE DEF new
        <4>3. QED
          BY <4>2
      <3>3. QED
        BY <3>1, <3>2
    <2>6. new = [k \in 0..(n + 1) |-> Row(new, k)]
      <3>1. new = [k \in 0..(n + 1) |-> new[k]]
        <4> HIDE DEF Row
        <4>1. QED
          OBVIOUS
      <3> HIDE DEF new, Row
      <3>2. QED
        BY <2>4, <2>5, <3>1
    <2> HIDE DEF new
    <2>7. Climbs(new, n + 1)
      BY <2>6 DEF Climbs
    <2>8. QED
      BY <2>7
  <1> HIDE DEF Good
  <1>3. m \in Good
    BY <1>1, <1>2, SetInduction
  <1>4. QED
    BY <1>3 DEF Good

Generations == Cardinality(File)

LEMMA UpIs ==
    /\ Generations \in Nat
    /\ \A f \in File : Up[0][f] = f
    /\ \A n \in Nat, f \in File : n < Generations =>
        Up[n + 1][f] = IF Up[n][f] \in File THEN extends[Up[n][f]] ELSE Up[n][f]
  <1>1. PICK m \in Nat : m = Generations
    BY ExperimentsAssumption, FS_CardinalityType DEF Generations
  <1>2. Climbs(Up, m)
    <2>1. Up = CHOOSE up : Climbs(up, m)
      BY <1>1 DEF Up, Climbs, Generations
    <2>2. \E up : Climbs(up, m)
      BY UpExists
    <2> HIDE DEF Up
    <2>3. QED
      BY <2>1, <2>2
  <1>3. \A n \in 0..m : Up[n] =
            [f \in File |->
                IF n = 0 THEN f
                ELSE IF Up[n - 1][f] \in File THEN extends[Up[n - 1][f]] ELSE Up[n - 1][f]]
    <2> DEFINE Row(n) == [f \in File |->
                IF n = 0 THEN f
                ELSE IF Up[n - 1][f] \in File THEN extends[Up[n - 1][f]] ELSE Up[n - 1][f]]
    <2>1. Up = [n \in 0..m |-> Row(n)]
      BY <1>2 DEF Climbs
    <2> HIDE DEF Row, Up
    <2>2. \A n \in 0..m : Up[n] = Row(n)
      BY <2>1
    <2>3. QED
      BY <2>2 DEF Row
  <1>4. \A f \in File : Up[0][f] = f
    <2> HIDE DEF Up
    <2>1. 0 \in 0..m
      OBVIOUS
    <2>2. QED
      BY <1>3, <2>1
  <1>5. ASSUME NEW n \in Nat, NEW f \in File, n < m
        PROVE  Up[n + 1][f] = IF Up[n][f] \in File THEN extends[Up[n][f]] ELSE Up[n][f]
    <2>1. PICK k \in 0..m : k = n + 1 /\ k # 0 /\ k - 1 = n
      BY <1>5
    <2> HIDE DEF Up
    <2>2. Up[k] = [g \in File |->
                    IF k = 0 THEN g
                    ELSE IF Up[k - 1][g] \in File THEN extends[Up[k - 1][g]] ELSE Up[k - 1][g]]
      BY <1>3
    <2>3. Up[k][f] = IF Up[n][f] \in File THEN extends[Up[n][f]] ELSE Up[n][f]
      BY <2>1, <2>2
    <2>4. QED
      BY <2>1, <2>3
  <1>6. QED
    BY <1>1, <1>4, <1>5

(* Above the last file nothing changes any more.                           *)
LEMMA NothingAbove ==
    ASSUME NEW f \in File, NEW n \in Nat, n <= Generations, Up[n][f] \notin File
    PROVE  \A m \in Nat : n <= m /\ m <= Generations => Up[m][f] = Up[n][f]
  <1> DEFINE Good == {m \in Nat : n <= m /\ m <= Generations => Up[m][f] = Up[n][f]}
  <1>1. 0 \in Good
    BY UpIs
  <1>2. ASSUME NEW m \in Nat, m \in Good PROVE m + 1 \in Good
    <2>1. ASSUME n <= m + 1, m + 1 <= Generations PROVE Up[m + 1][f] = Up[n][f]
      <3>1. Generations \in Nat
        BY UpIs
      <3>2. CASE n = m + 1
        BY <3>2
      <3>3. CASE n <= m
        <4>1. m < Generations /\ m <= Generations
          BY <2>1, <3>1
        <4>2. Up[m][f] = Up[n][f]
          BY <1>2, <3>3, <4>1
        <4>3. QED
          BY <4>1, <4>2, UpIs
      <3>4. QED
        BY <2>1, <3>2, <3>3
    <2>2. QED
      BY <2>1
  <1> HIDE DEF Good
  <1>3. Nat \subseteq Good
    BY <1>1, <1>2, SetInduction
  <1>4. QED
    BY <1>3 DEF Good

-----------------------------------------------------------------------------
(* The chain of the file that is loaded.                                   *)

Loading == Suite[Len(ids) + 1]
Climbing == IInv /\ pc = "load" /\ chain # <<>>

(* The chain lists the generations, and has no more files than there are.  *)
LEMMA ChainIs ==
    ASSUME Climbing
    PROVE  /\ Loading \in File /\ chain \in Seq(File) /\ IsInjective(chain)
           /\ Len(chain) \in Nat /\ Len(chain) >= 1 /\ Len(chain) <= Generations
           /\ \A n \in Nat : n < Len(chain) => Up[n][Loading] = chain[n + 1] /\ chain[n + 1] \in File
           /\ Up[Len(chain)][Loading] = Visited
  <1>1. /\ Typed /\ chain \in Seq(File) /\ IsInjective(chain) /\ Len(ids) < Len(Suite)
        /\ chain[1] = Loading
        /\ \A i \in 1..Len(chain) : i + 1 <= Len(chain) => chain[i + 1] = extends[chain[i]]
    BY DEF Climbing, IInv, LoadInv, Loading
  <1>2. PICK l \in Nat : l = Len(chain) /\ l >= 1 /\ DOMAIN chain = 1..l
    BY <1>1 DEF Climbing
  <1>3. \A i \in 1..l : chain[i] \in File
    BY <1>1, <1>2
  <1>4. Loading \in File
    BY <1>1, <1>2, <1>3
  <1>5. l <= Generations
    <2>1. chain \in [1..l -> File]
      BY <1>1, <1>2
    <2>2. chain \in Injection(1..l, File)
      BY <1>1, <2>1 DEF Injection
    <2>3. Cardinality(1..l) <= Cardinality(File)
      BY <2>2, ExperimentsAssumption, FS_Injection
    <2>4. Cardinality(1..l) = l
      BY FS_Interval
    <2>5. QED
      BY <2>3, <2>4 DEF Generations
  <1> DEFINE Good == {n \in Nat : n < l => Up[n][Loading] = chain[n + 1]}
  <1>6. 0 \in Good
    <2>1. 0 + 1 = 1
      OBVIOUS
    <2>2. QED
      BY <1>1, <1>4, <2>1, UpIs
  <1>7. ASSUME NEW n \in Nat, n \in Good PROVE n + 1 \in Good
    <2>1. ASSUME n + 1 < l PROVE Up[n + 1][Loading] = chain[(n + 1) + 1]
      <3>1. n < l /\ n + 1 \in 1..l /\ (n + 1) + 1 <= l
        BY <1>2, <2>1
      <3>2. n < Generations
        BY <1>5, <3>1, UpIs
      <3>3. Up[n][Loading] = chain[n + 1] /\ chain[n + 1] \in File
        BY <1>3, <1>7, <3>1
      <3>4. chain[(n + 1) + 1] = extends[chain[n + 1]]
        BY <1>1, <1>2, <3>1
      <3>5. QED
        BY <1>4, <3>2, <3>3, <3>4, UpIs
    <2>2. QED
      BY <2>1
  <1> HIDE DEF Good
  <1>8. Nat \subseteq Good
    BY <1>6, <1>7, SetInduction
  <1>9. ASSUME NEW n \in Nat, n < l PROVE Up[n][Loading] = chain[n + 1] /\ chain[n + 1] \in File
    <2>1. n + 1 \in 1..l
      BY <1>9
    <2>2. QED
      BY <1>3, <1>8, <1>9, <2>1 DEF Good
  <1>10. Up[l][Loading] = Visited
    <2>1. l - 1 \in Nat /\ l - 1 < l /\ (l - 1) + 1 = l /\ l - 1 < Generations
      BY <1>2, <1>5, UpIs
    <2>2. PICK k \in Nat : k = l - 1
      BY <2>1
    <2>3. k < l /\ k + 1 = l /\ k < Generations
      BY <2>1, <2>2
    <2>4. Up[k][Loading] = chain[l] /\ chain[l] \in File
      BY <1>9, <2>3
    <2>5. Up[k + 1][Loading] = extends[chain[l]]
      BY <1>4, <2>3, <2>4, UpIs
    <2>6. Visited = extends[chain[l]]
      BY <1>2 DEF Visited, Last, Climbing
    <2>7. QED
      BY <2>3, <2>5, <2>6
  <1>11. QED
    BY <1>1, <1>2, <1>4, <1>5, <1>9, <1>10

(* A chain that comes back to one of its files has no end.                 *)
LEMMA CycleHasNoRoot ==
    ASSUME Climbing, Visited \in ToSet(chain)
    PROVE  Root(Loading) # Absent
  <1>1. PICK l \in Nat : l = Len(chain) /\ l >= 1 /\ l <= Generations
    BY ChainIs
  <1>2. /\ Loading \in File /\ chain \in Seq(File) /\ Generations \in Nat
        /\ \A n \in Nat : n < l => Up[n][Loading] = chain[n + 1] /\ chain[n + 1] \in File
        /\ Up[l][Loading] = Visited
    BY <1>1, ChainIs, UpIs
  <1>3. DOMAIN chain = 1..l
    BY <1>1, <1>2
  <1>4. ASSUME NEW n \in Nat, n < Generations, Up[n][Loading] \in ToSet(chain)
        PROVE  Up[n + 1][Loading] \in ToSet(chain)
    <2>1. PICK i \in 1..l : chain[i] = Up[n][Loading]
      BY <1>3, <1>4 DEF ToSet
    <2>2. PICK k \in Nat : i = k + 1
      <3>1. i - 1 \in Nat /\ i = (i - 1) + 1
        OBVIOUS
      <3>2. QED
        BY <3>1
    <2>3. k < l /\ k < Generations
      BY <1>1, <1>2, <2>2
    <2>4. Up[k][Loading] = chain[i] /\ chain[i] \in File
      BY <1>2, <2>2, <2>3
    <2>5. Up[n + 1][Loading] = extends[chain[i]] /\ Up[k + 1][Loading] = extends[chain[i]]
      BY <1>2, <1>4, <2>1, <2>3, <2>4, UpIs
    <2>6. Up[k + 1][Loading] \in ToSet(chain)
      <3>1. CASE i = l
        BY <1>2, <2>2, <3>1
      <3>2. CASE i < l
        <4>1. i \in Nat /\ i + 1 \in 1..l
          BY <1>1, <3>2
        <4>2. Up[i][Loading] = chain[i + 1]
          BY <1>2, <3>2, <4>1
        <4>3. QED
          BY <1>3, <2>2, <4>1, <4>2 DEF ToSet
      <3>3. QED
        BY <1>1, <3>1, <3>2
    <2>7. QED
      BY <2>5, <2>6
  <1> DEFINE Good == {n \in Nat : n <= Generations => Up[n][Loading] \in ToSet(chain)}
  <1>5. 0 \in Good
    <2>1. 0 < l /\ 0 + 1 = 1 /\ 1 \in DOMAIN chain
      BY <1>1, <1>3
    <2>2. Up[0][Loading] = chain[1]
      BY <1>2, <2>1
    <2>3. QED
      BY <2>1, <2>2 DEF ToSet
  <1>6. ASSUME NEW n \in Nat, n \in Good PROVE n + 1 \in Good
    BY <1>2, <1>4, <1>6
  <1> HIDE DEF Good
  <1>7. Generations \in Good
    BY <1>2, <1>5, <1>6, SetInduction
  <1>8. Up[Generations][Loading] \in ToSet(chain)
    BY <1>2, <1>7 DEF Good
  <1>9. ToSet(chain) \subseteq File
    BY <1>2 DEF ToSet
  <1>10. QED
    BY <1>8, <1>9, ExperimentsAssumption DEF Root, Generations

-----------------------------------------------------------------------------
(* What the sections of a chain amount to.                                 *)

MergesUp(h, T) ==
    h = [s \in T |-> IF s = {} THEN Absent
                     ELSE Merge(h[s \ {Min(s)}], section[chain[Min(s)]])]

LEMMA MinIs ==
    ASSUME NEW s, s \subseteq Nat, s # {}, IsFiniteSet(s)
    PROVE  /\ Min(s) \in s /\ \A x \in s : Min(s) <= x
           /\ IsFiniteSet(s \ {Min(s)}) /\ Cardinality(s) \in Nat /\ Cardinality(s) # 0
           /\ Cardinality(s \ {Min(s)}) = Cardinality(s) - 1
  <1>1. \E x \in s : \A y \in s : x <= y
    BY LeastNumber
  <1>2. Min(s) \in s /\ \A x \in s : Min(s) <= x
    BY <1>1 DEF Min
  <1>3. Cardinality(s) \in Nat /\ Cardinality(s) # 0
    BY FS_CardinalityType, FS_EmptySet
  <1> HIDE DEF Min
  <1>4. QED
    BY <1>2, <1>3, FS_RemoveElement

LEMMA MergeExists ==
    ASSUME NEW D, IsFiniteSet(D), D \subseteq Nat
    PROVE  \E h : MergesUp(h, SUBSET D)
  <1> DEFINE Few(n) == {s \in SUBSET D : Cardinality(s) <= n}
             Good == {n \in Nat : \E h : MergesUp(h, Few(n))}
             Value(h, s) == IF s = {} THEN Absent
                            ELSE Merge(h[s \ {Min(s)}], section[chain[Min(s)]])
  <1> HIDE DEF Min, Merge
  <1>0. \A s \in SUBSET D : IsFiniteSet(s) /\ Cardinality(s) \in Nat
    BY FS_Subset, FS_CardinalityType
  <1>1. 0 \in Good
    <2>1. \A s \in Few(0) : s = {}
      BY <1>0, FS_EmptySet
    <2> DEFINE h == [s \in Few(0) |-> Absent]
    <2>2. h = [s \in Few(0) |-> Value(h, s)]
      BY <2>1
    <2>3. QED
      BY <2>2 DEF MergesUp
  <1>2. ASSUME NEW n \in Nat, n \in Good PROVE n + 1 \in Good
    <2>1. PICK h : h = [s \in Few(n) |-> Value(h, s)]
      BY <1>2 DEF MergesUp
    <2> DEFINE k == [s \in Few(n + 1) |-> IF s \in Few(n) THEN h[s] ELSE Value(h, s)]
    <2>2. Few(n) \subseteq Few(n + 1)
      BY <1>0
    <2>3. \A s \in Few(n) : k[s] = h[s] /\ h[s] = Value(h, s)
      <3>1. \A s \in Few(n) : k[s] = h[s]
        <4> HIDE DEF Value
        <4>1. QED
          BY <2>2
      <3>2. \A s \in Few(n) : h[s] = Value(h, s)
        <4> HIDE DEF Few, Value
        <4>1. QED
          BY <2>1
      <3>3. QED
        BY <3>1, <3>2
    <2>4. \A s \in Few(n + 1) : s # {} => s \ {Min(s)} \in Few(n)
      <3> TAKE s \in Few(n + 1)
      <3> HAVE s # {}
      <3>1. s \subseteq Nat /\ IsFiniteSet(s) /\ Cardinality(s) <= n + 1
        BY <1>0
      <3>2. Cardinality(s) \in Nat /\ Cardinality(s \ {Min(s)}) = Cardinality(s) - 1
        BY <3>1, MinIs
      <3>3. Cardinality(s \ {Min(s)}) <= n
        BY <3>1, <3>2
      <3>4. QED
        BY <3>3
    <2>5. \A s \in Few(n + 1) : k[s] = Value(h, s)
      <3>1. ASSUME NEW s \in Few(n + 1) PROVE k[s] = IF s \in Few(n) THEN h[s] ELSE Value(h, s)
        <4> HIDE DEF Few, Value
        <4>1. QED
          OBVIOUS
      <3> HIDE DEF k, Few, Value
      <3>2. QED
        BY <2>3, <3>1
    <2>6. \A s \in Few(n + 1) : Value(k, s) = Value(h, s)
      <3> TAKE s \in Few(n + 1)
      <3> HIDE DEF k
      <3>1. s # {} => k[s \ {Min(s)}] = h[s \ {Min(s)}]
        <4> HIDE DEF Value
        <4>1. QED
          BY <2>3, <2>4
      <3>2. QED
        BY <3>1
    <2>7. k = [s \in Few(n + 1) |-> Value(k, s)]
      <3>1. k = [s \in Few(n + 1) |-> k[s]]
        <4> HIDE DEF Few, Value
        <4>1. QED
          OBVIOUS
      <3>2. \A s \in Few(n + 1) : k[s] = Value(k, s)
        BY <2>5, <2>6
      <3> HIDE DEF k, Few, Value
      <3>3. QED
        BY <3>1, <3>2
    <2> HIDE DEF k
    <2>8. \E h0 : MergesUp(h0, Few(n + 1))
      BY <2>7 DEF MergesUp
    <2> HIDE DEF Few
    <2>9. QED
      BY <2>8
  <1> HIDE DEF Good
  <1>3. Cardinality(D) \in Nat
    BY FS_CardinalityType
  <1>4. Cardinality(D) \in Good
    BY <1>1, <1>2, <1>3, SetInduction
  <1>5. PICK h : MergesUp(h, Few(Cardinality(D)))
    BY <1>4 DEF Good
  <1>6. Few(Cardinality(D)) = SUBSET D
    BY FS_Subset
  <1>7. QED
    BY <1>5, <1>6

Merges(h) ==
    /\ Effective = h[1..Len(chain)] /\ h[{}] = Absent
    /\ \A s \in SUBSET (1..Len(chain)) :
        s # {} => h[s] = Merge(h[s \ {Min(s)}], section[chain[Min(s)]])

LEMMA EffectiveMerges ==
    ASSUME NEW l \in Nat, DOMAIN chain = 1..l, Len(chain) = l
    PROVE  \E h : Merges(h)
  <1> DEFINE h == CHOOSE h : MergesUp(h, SUBSET (1..l))
  <1> HIDE DEF Min, Merge
  <1>1. Effective = h[1..l]
    BY DEF Effective, FoldRight, MapThenFoldSet, MergesUp
  <1>2. IsFiniteSet(1..l) /\ 1..l \subseteq Nat
    BY FS_Interval
  <1>3. MergesUp(h, SUBSET (1..l))
    BY <1>2, MergeExists
  <1> HIDE DEF h
  <1>4. \A s \in SUBSET (1..l) : h[s] = IF s = {} THEN Absent
                     ELSE Merge(h[s \ {Min(s)}], section[chain[Min(s)]])
    <2> DEFINE v(s) == IF s = {} THEN Absent
                       ELSE Merge(h[s \ {Min(s)}], section[chain[Min(s)]])
    <2>1. h = [s \in SUBSET (1..l) |-> v(s)]
      BY <1>3 DEF MergesUp
    <2> HIDE DEF v
    <2>2. \A s \in SUBSET (1..l) : h[s] = v(s)
      BY <2>1
    <2>3. QED
      BY <2>2 DEF v
  <1>5. Merges(h)
    BY <1>1, <1>4 DEF Merges
  <1>6. QED
    BY <1>5

(* Says(i): the i-th file of the chain has a say in the id.                *)
Says(i) == section[chain[i]] \notin {Absent, NoId}

(* e takes its id, if any, from the first of the files n to l with a say.  *)
Told(e, n, l) ==
    \/ \E i \in n..l :
        /\ Says(i) /\ \A j \in n..l : Says(j) => i <= j
        /\ e \in Id <=> section[chain[i]] \in Id
        /\ e \in Id => e = section[chain[i]]
    \/ (\A j \in n..l : ~Says(j)) /\ e \notin Id

LEMMA MergeTells ==
    ASSUME NEW l \in Nat, NEW n \in 1..l, NEW base, Told(base, n + 1, l),
           section[chain[n]] \in Section
    PROVE  Told(Merge(base, section[chain[n]]), n, l)
  <1> DEFINE e == Merge(base, section[chain[n]])
  <1>1. {Absent, NoId, Scalar} \intersect Id = {}
    BY ExperimentsAssumption
  <1>2. n \in n..l /\ \A j \in n..l : j = n \/ j \in (n + 1)..l
    OBVIOUS
  <1>3. (n + 1)..l \subseteq n..l /\ \A j \in n..l : n <= j
    OBVIOUS
  <1>4. CASE Says(n)
    <2>1. e = section[chain[n]]
      BY <1>4 DEF Merge, Says
    <2>2. Says(n) /\ (\A j \in n..l : Says(j) => n <= j)
      BY <1>3, <1>4
    <2> HIDE DEF e
    <2>3. Told(e, n, l)
      BY <1>2, <2>1, <2>2 DEF Told
    <2>4. QED
      BY <2>3 DEF e
  <1>5. CASE ~Says(n)
    <2>1. (e \in Id <=> base \in Id) /\ (e \in Id => e = base)
      <3>1. CASE section[chain[n]] = Absent
        BY <3>1 DEF Merge
      <3>2. CASE section[chain[n]] # Absent /\ section[chain[n]] = NoId
        BY <1>1, <3>2 DEF Merge
      <3>3. QED
        BY <1>5, <3>1, <3>2 DEF Says
    <2> HIDE DEF e
    <2>2. CASE \E i \in (n + 1)..l :
                /\ Says(i) /\ \A j \in (n + 1)..l : Says(j) => i <= j
                /\ base \in Id <=> section[chain[i]] \in Id
                /\ base \in Id => base = section[chain[i]]
      <3>1. PICK i \in (n + 1)..l :
                /\ Says(i) /\ \A j \in (n + 1)..l : Says(j) => i <= j
                /\ base \in Id <=> section[chain[i]] \in Id
                /\ base \in Id => base = section[chain[i]]
        BY <2>2
      <3>2. i \in n..l /\ \A j \in n..l : Says(j) => i <= j
        BY <1>2, <1>3, <1>5, <3>1
      <3>3. Told(e, n, l)
        BY <2>1, <3>1, <3>2 DEF Told
      <3>4. QED
        BY <3>3 DEF e
    <2>3. CASE (\A j \in (n + 1)..l : ~Says(j)) /\ base \notin Id
      <3>1. Told(e, n, l)
        BY <1>2, <1>5, <2>1, <2>3 DEF Told
      <3>2. QED
        BY <3>1 DEF e
    <2>4. QED
      BY <2>2, <2>3 DEF Told
  <1>6. QED
    BY <1>4, <1>5

LEMMA EffectiveIsTold ==
    ASSUME Climbing
    PROVE  Told(Effective, 1, Len(chain))
  <1>1. PICK l \in Nat : l = Len(chain) /\ l >= 1 /\ DOMAIN chain = 1..l
    BY ChainIs
  <1>2. PICK h : Merges(h)
    BY <1>1, EffectiveMerges
  <1>3. \A i \in 1..l : section[chain[i]] \in Section
    <2>1. \A i \in 1..l : chain[i] \in File
      BY <1>1, ChainIs
    <2>2. QED
      BY <2>1 DEF Climbing, IInv, Typed
  <1>4. \A i \in 1..l : h[i..l] = Merge(h[(i + 1)..l], section[chain[i]])
    <2> TAKE i \in 1..l
    <2>1. i..l \in SUBSET (1..l) /\ i..l # {} /\ i \in i..l /\ i..l \subseteq Nat
      OBVIOUS
    <2>2. IsFiniteSet(i..l)
      BY FS_Interval
    <2>3. Min(i..l) \in i..l /\ Min(i..l) <= i
      BY <2>1, <2>2, MinIs
    <2>4. Min(i..l) = i
      <3> HIDE DEF Min
      <3>1. QED
        BY <2>3
    <2>5. (i..l) \ {i} = (i + 1)..l
      OBVIOUS
    <2> HIDE DEF Min, Merge
    <2>6. h[i..l] = Merge(h[(i..l) \ {Min(i..l)}], section[chain[Min(i..l)]])
      BY <1>1, <1>2, <2>1 DEF Merges
    <2>7. QED
      BY <2>4, <2>5, <2>6
  <1> DEFINE Good == {m \in Nat : m <= l => Told(h[((l + 1) - m)..l], (l + 1) - m, l)}
  <1>5. 0 \in Good
    <2>1. (l + 1) - 0 = l + 1 /\ (l + 1)..l = {}
      OBVIOUS
    <2>2. h[(l + 1)..l] = Absent
      BY <1>2, <2>1 DEF Merges
    <2>3. Told(h[(l + 1)..l], l + 1, l)
      BY <2>1, <2>2, ExperimentsAssumption DEF Told
    <2>4. QED
      BY <2>1, <2>3
  <1>6. ASSUME NEW m \in Nat, m \in Good PROVE m + 1 \in Good
    <2>1. ASSUME m + 1 <= l
          PROVE  Told(h[((l + 1) - (m + 1))..l], (l + 1) - (m + 1), l)
      <3>1. PICK n \in 1..l : n = (l + 1) - (m + 1) /\ n + 1 = (l + 1) - m
        BY <2>1
      <3>2. Told(h[(n + 1)..l], n + 1, l)
        BY <1>6, <2>1, <3>1
      <3>3. Told(Merge(h[(n + 1)..l], section[chain[n]]), n, l)
        BY <1>3, <3>2, MergeTells
      <3>4. Told(h[n..l], n, l)
        BY <1>4, <3>3, Zenon
      <3>5. QED
        BY <3>1, <3>4
    <2>2. QED
      BY <2>1
  <1> HIDE DEF Good
  <1>7. l \in Good
    BY <1>5, <1>6, SetInduction
  <1>8. Told(h[((l + 1) - l)..l], (l + 1) - l, l)
    BY <1>7 DEF Good
  <1>9. (l + 1) - l = 1
    OBVIOUS
  <1>10. Told(h[1..l], 1, l)
    BY <1>8, <1>9
  <1>11. QED
    BY <1>1, <1>2, <1>10, Zenon DEF Merges

(* A chain that has ended has the id its sections amount to.               *)
LEMMA TellingIs ==
    ASSUME Climbing, Visited \notin File
    PROVE  /\ Root(Loading) = Visited
           /\ \A n : n \in Telling(Loading) <=> n \in Nat /\ n < Len(chain) /\ Says(n + 1)
  <1>1. PICK l \in Nat : l = Len(chain) /\ l >= 1 /\ l <= Generations
    BY ChainIs
  <1>2. /\ Loading \in File /\ Generations \in Nat
        /\ \A n \in Nat : n < l => Up[n][Loading] = chain[n + 1] /\ chain[n + 1] \in File
        /\ Up[l][Loading] = Visited
    BY <1>1, ChainIs, UpIs
  <1>3. \A n \in Nat : l <= n /\ n <= Generations => Up[n][Loading] = Visited
    BY <1>1, <1>2, NothingAbove
  <1>4. Root(Loading) = Visited
    BY <1>1, <1>2, <1>3 DEF Root, Generations
  <1>5. ASSUME NEW n
        PROVE  n \in Telling(Loading) <=> n \in Nat /\ n < l /\ Says(n + 1)
    <2>1. n \in Telling(Loading) <=>
            n \in 0..Generations /\ Up[n][Loading] \in File /\ section[Up[n][Loading]] \notin {Absent, NoId}
      BY DEF Telling, Generations
    <2>2. CASE n \in Nat /\ n < l
      <3>1. n \in 0..Generations
        BY <1>1, <1>2, <2>2
      <3>2. QED
        BY <1>2, <2>1, <2>2, <3>1 DEF Says
    <2>3. CASE ~(n \in Nat /\ n < l)
      <3>1. n \in 0..Generations => n \in Nat /\ l <= n /\ n <= Generations
        BY <1>1, <1>2, <2>3
      <3>2. QED
        BY <1>3, <2>1, <2>3, <3>1
    <2>4. QED
      BY <2>2, <2>3
  <1>6. QED
    BY <1>1, <1>4, <1>5

LEMMA IdOfChain ==
    ASSUME Climbing, Visited = Absent
    PROVE  /\ HasId(Loading) <=> Effective \in Id
           /\ HasId(Loading) => Nearest(Loading) = Effective
  <1> DEFINE T == Telling(Loading)
  <1>1. PICK l \in Nat : l = Len(chain) /\ l >= 1
    BY ChainIs
  <1>2. Visited \notin File
    BY ExperimentsAssumption
  <1>3. Root(Loading) = Absent /\ \A n : n \in T <=> n \in Nat /\ n < l /\ Says(n + 1)
    BY <1>1, <1>2, TellingIs
  <1>4. Told(Effective, 1, l)
    BY <1>1, EffectiveIsTold
  <1> HIDE DEF T
  <1>5. ASSUME NEW i \in 1..l, Says(i), \A j \in 1..l : Says(j) => i <= j
        PROVE  T # {} /\ Nearest(Loading) = section[chain[i]]
    <2>1. PICK n \in Nat : n = i - 1 /\ n + 1 = i /\ n < l
      <3>1. i - 1 \in Nat /\ (i - 1) + 1 = i /\ i - 1 < l
        OBVIOUS
      <3>2. QED
        BY <3>1
    <2>2. n \in T
      BY <1>3, <1>5, <2>1
    <2>3. \A k \in T : k \in Nat /\ n <= k
      <3> TAKE k \in T
      <3>1. k \in Nat /\ k + 1 \in 1..l /\ Says(k + 1)
        BY <1>3
      <3>2. i <= k + 1
        BY <1>5, <3>1
      <3>3. QED
        BY <2>1, <3>1, <3>2
    <2>4. \A m \in T : (\A k \in T : m <= k) => m = n
      <3> TAKE m \in T
      <3> HAVE \A k \in T : m <= k
      <3>1. m \in Nat /\ m <= n /\ n <= m
        BY <2>2, <2>3
      <3>2. QED
        BY <3>1
    <2>5. (CHOOSE m \in T : \A k \in T : m <= k) = n
      BY <2>2, <2>3, <2>4
    <2>6. Nearest(Loading) = section[Up[n][Loading]]
      BY <2>5 DEF Nearest, T
    <2>7. Up[n][Loading] = chain[i]
      BY <1>1, <2>1, ChainIs
    <2>8. QED
      BY <2>2, <2>6, <2>7
  <1>6. CASE \E i \in 1..l :
                /\ Says(i) /\ \A j \in 1..l : Says(j) => i <= j
                /\ Effective \in Id <=> section[chain[i]] \in Id
                /\ Effective \in Id => Effective = section[chain[i]]
    <2>1. PICK i \in 1..l :
                /\ Says(i) /\ \A j \in 1..l : Says(j) => i <= j
                /\ Effective \in Id <=> section[chain[i]] \in Id
                /\ Effective \in Id => Effective = section[chain[i]]
      BY <1>6
    <2>2. T # {} /\ Nearest(Loading) = section[chain[i]]
      BY <1>5, <2>1
    <2>3. HasId(Loading) <=> section[chain[i]] \in Id
      BY <1>3, <2>2 DEF HasId, T
    <2>4. QED
      BY <2>1, <2>2, <2>3
  <1>7. CASE (\A j \in 1..l : ~Says(j)) /\ Effective \notin Id
    <2>1. T = {}
      <3>1. ASSUME NEW n \in T PROVE FALSE
        <4>1. n + 1 \in 1..l /\ Says(n + 1)
          BY <1>3
        <4>2. QED
          BY <1>7, <4>1
      <3>2. QED
        BY <3>1
    <2>2. ~HasId(Loading)
      BY <2>1 DEF HasId, T
    <2>3. QED
      BY <1>7, <2>2
  <1>8. QED
    BY <1>4, <1>6, <1>7 DEF Told

-----------------------------------------------------------------------------
(* Loading the configurations.                                             *)

LEMMA FilesStay ==
    ASSUME UNCHANGED <<extends, section>>
    PROVE  \A f : (HasId(f)' <=> HasId(f)) /\ Nearest(f)' = Nearest(f)
  BY DEF HasId, Root, Up, Telling, Nearest

LEMMA SuiteIs ==
    /\ \A i \in DOMAIN Suite : Suite[i] \in File /\ Suite[i] \in ToSet(Suite)
    /\ \A i, j \in DOMAIN Suite : i # j => Suite[i] # Suite[j]
  BY ExperimentsAssumption DEF ToSet, IsInjective

(* The suite is rejected for a file that has no id.                        *)
LEMMA RejectKeeps ==
    ASSUME IInv, pc = "load", chain # <<>>, ~HasId(Loading), Reject,
           UNCHANGED <<options, manifestVars, evalVars, measured>>
    PROVE  IInv'
  <1>1. pc' = "rejected" /\ UNCHANGED <<extends, section, chain, ids>>
    BY DEF Reject, treeVars
  <1>2. Loading \in ToSet(Suite)
    <2>1. Len(ids) < Len(Suite) /\ Typed
      BY DEF IInv, LoadInv
    <2>2. Len(ids) + 1 \in DOMAIN Suite
      BY <2>1, SizesAre
    <2>3. QED
      BY <2>2, SuiteIs DEF Loading
  <1>3. ~HasId(Loading)'
    BY <1>1, FilesStay DEF Loading
  <1>4. IdsAreResolved'
    BY <1>1, <1>2, <1>3 DEF IdsAreResolved, Loading
  <1>5. Typed' /\ LoadInv'
    BY <1>1 DEF IInv, Typed, LoadInv, evalVars, metricVars, manifestVars
  <1>6. QED
    BY <1>1, <1>4, <1>5, LoadingKeepsSuite DEF IInv

LEMMA VisitKeeps == IInv /\ Visit => IInv'
  <1> SUFFICES ASSUME IInv, Visit PROVE IInv'
    OBVIOUS
  <1>1. /\ pc = "load" /\ Visited # Absent
        /\ IF Visited = NoFile \/ Visited \in ToSet(chain)
           THEN Reject
           ELSE chain' = Append(chain, Visited) /\ UNCHANGED <<pc, extends, section, ids>>
        /\ UNCHANGED <<options, manifestVars, evalVars, measured>>
    BY DEF Visit
  <1>2. /\ Typed /\ Len(ids) < Len(Suite) /\ chain \in Seq(File) /\ IsInjective(chain)
        /\ \A i \in 1..Len(chain) : i + 1 <= Len(chain) => chain[i + 1] = extends[chain[i]]
        /\ chain # <<>> => chain[1] = Loading
    BY <1>1 DEF IInv, LoadInv, Loading
  <1>3. Loading \in File
    BY <1>2, SizesAre, SuiteIs DEF Loading
  <1>4. CASE Visited = NoFile \/ Visited \in ToSet(chain)
    <2>1. chain # <<>>
      <3>1. ASSUME chain = <<>> PROVE FALSE
        <4>1. Visited = Loading /\ ToSet(<<>>) = {}
          BY <3>1 DEF Visited, Loading, ToSet
        <4>2. QED
          BY <1>3, <1>4, <3>1, <4>1, ExperimentsAssumption
      <3>2. QED
        BY <3>1
    <2>2. Climbing
      BY <1>1, <2>1 DEF Climbing
    <2>3. Root(Loading) # Absent
      <3>1. CASE Visited \in ToSet(chain)
        BY <2>2, <3>1, CycleHasNoRoot
      <3>2. CASE Visited = NoFile
        BY <1>1, <2>2, <3>2, TellingIs, ExperimentsAssumption
      <3>3. QED
        BY <1>4, <3>1, <3>2
    <2>4. ~HasId(Loading)
      BY <2>3 DEF HasId
    <2>5. QED
      BY <1>1, <1>4, <2>1, <2>4, RejectKeeps
  <1>5. CASE ~(Visited = NoFile \/ Visited \in ToSet(chain))
    <2>1. chain' = Append(chain, Visited) /\ UNCHANGED <<pc, extends, section, ids>>
      BY <1>1, <1>5
    <2>2. PICK l \in Nat : l = Len(chain) /\ DOMAIN chain = 1..l
      BY <1>2
    <2>3. chain # <<>> => l \in 1..l /\ Visited = extends[chain[l]] /\ chain[l] \in File
      BY <1>2, <2>2 DEF Visited, Last
    <2>4. Visited \in File
      <3>1. CASE chain = <<>>
        BY <1>3, <3>1 DEF Visited, Loading
      <3>2. CASE chain # <<>>
        BY <1>1, <1>2, <1>5, <2>3, <3>2 DEF Typed
      <3>3. QED
        BY <3>1, <3>2
    <2>5. /\ chain' \in Seq(File) /\ Len(chain') = l + 1 /\ DOMAIN chain' = 1..(l + 1)
          /\ \A i \in 1..l : chain'[i] = chain[i]
          /\ chain'[l + 1] = Visited
      BY <1>2, <2>1, <2>2, <2>4
    <2>6. IsInjective(chain')
      <3>1. \A i \in 1..l : chain[i] # Visited
        BY <1>5, <2>2 DEF ToSet
      <3>2. \A i \in 1..(l + 1) : i \in 1..l \/ i = l + 1
        BY <2>2
      <3>3. \A i, j \in 1..l : chain[i] = chain[j] => i = j
        BY <1>2, <2>2 DEF IsInjective
      <3>4. \A i, j \in 1..(l + 1) : chain'[i] = chain'[j] => i = j
        BY <2>5, <3>1, <3>2, <3>3
      <3>5. QED
        BY <2>5, <3>4 DEF IsInjective
    <2>7. chain' # <<>> => chain'[1] = Loading
      <3>1. CASE chain = <<>>
        BY <2>2, <2>5, <3>1 DEF Visited, Loading
      <3>2. CASE chain # <<>>
        BY <1>2, <2>2, <2>3, <2>5, <3>2
      <3>3. QED
        BY <3>1, <3>2
    <2>8. \A i \in 1..Len(chain') : i + 1 <= Len(chain') => chain'[i + 1] = extends[chain'[i]]
      <3> TAKE i \in 1..Len(chain')
      <3> HAVE i + 1 <= Len(chain')
      <3>1. i \in 1..l /\ chain # <<>>
        BY <2>2, <2>5
      <3>2. CASE i = l
        BY <2>3, <2>5, <3>1, <3>2
      <3>3. CASE i < l
        <4>1. i + 1 \in 1..l /\ i + 1 <= l
          BY <2>2, <3>1, <3>3
        <4>2. QED
          BY <1>2, <2>2, <2>5, <3>1, <4>1
      <3>4. QED
        BY <2>2, <3>1, <3>2, <3>3
    <2>9. LoadInv'
      BY <1>1, <1>2, <2>1, <2>5, <2>6, <2>7, <2>8 DEF LoadInv, Loading
    <2>10. Typed'
      BY <1>1, <1>2, <2>1 DEF Typed, evalVars, metricVars, manifestVars
    <2>11. IdsAreResolved'
      <3>1. \A f : (HasId(f)' <=> HasId(f)) /\ Nearest(f)' = Nearest(f)
        BY <2>1, FilesStay
      <3>2. \A i \in DOMAIN ids : HasId(Suite[i]) /\ ids[i] = Nearest(Suite[i])
        BY <1>1 DEF IInv, IdsAreResolved
      <3>3. \A i \in DOMAIN ids' : HasId(Suite[i])' /\ ids'[i] = Nearest(Suite[i])'
        BY <2>1, <3>1, <3>2
      <3>4. QED
        BY <1>1, <2>1, <3>3 DEF IdsAreResolved
    <2>12. QED
      BY <1>1, <2>1, <2>9, <2>10, <2>11, LoadingKeepsSuite DEF IInv
  <1>6. QED
    BY <1>4, <1>5

LEMMA LoadIdKeeps == IInv /\ LoadId => IInv'
  <1> SUFFICES ASSUME IInv, LoadId PROVE IInv'
    OBVIOUS
  <1>1. /\ pc = "load" /\ chain # <<>> /\ Visited = Absent
        /\ IF Effective \in Id
           THEN /\ ids' = Append(ids, Effective) /\ chain' = <<>>
                /\ pc' = IF Len(ids') = Len(Suite) THEN "start" ELSE "load"
                /\ UNCHANGED <<extends, section>>
           ELSE Reject
        /\ UNCHANGED <<options, manifestVars, evalVars, measured>>
    BY DEF LoadId
  <1>2. Climbing
    BY <1>1 DEF Climbing
  <1>3. /\ HasId(Loading) <=> Effective \in Id
        /\ HasId(Loading) => Nearest(Loading) = Effective
    BY <1>1, <1>2, IdOfChain
  <1>4. CASE Effective \notin Id
    BY <1>1, <1>3, <1>4, RejectKeeps
  <1>5. CASE Effective \in Id
    <2>1. /\ ids' = Append(ids, Effective) /\ chain' = <<>>
          /\ pc' = IF Len(ids') = Len(Suite) THEN "start" ELSE "load"
          /\ UNCHANGED <<extends, section>>
      BY <1>1, <1>5
    <2>2. Typed /\ Len(ids) < Len(Suite) /\ ids \in Seq(Id)
      BY <1>1 DEF IInv, LoadInv, Typed
    <2>3. PICK n \in Nat : n = Len(ids) /\ DOMAIN ids = 1..n
      BY <2>2
    <2>4. /\ ids' \in Seq(Id) /\ Len(ids') = n + 1 /\ DOMAIN ids' = 1..(n + 1)
          /\ \A i \in 1..n : ids'[i] = ids[i]
          /\ ids'[n + 1] = Effective
      BY <1>5, <2>1, <2>2, <2>3
    <2>5. LoadInv'
      <3>1. n + 1 < Len(Suite) \/ n + 1 = Len(Suite)
        <4>1. PICK m \in Nat : m = Len(Suite)
          BY <2>2, SizesAre
        <4>2. n < m
          BY <2>2, <2>3, <4>1
        <4>3. n + 1 < m \/ n + 1 = m
          BY <4>2
        <4>4. QED
          BY <4>1, <4>3
      <3>2. chain' \in Seq(File) /\ IsInjective(chain') /\ Len(chain') = 0
        BY <2>1 DEF IsInjective
      <3>3. \A i \in 1..Len(chain') : FALSE
        BY <3>2
      <3>4. QED
        BY <2>1, <2>4, <3>1, <3>2, <3>3 DEF LoadInv
    <2>6. Typed'
      BY <1>1, <2>1, <2>2, <2>4 DEF Typed, evalVars, metricVars, manifestVars
    <2>7. IdsAreResolved'
      <3>1. \A f : (HasId(f)' <=> HasId(f)) /\ Nearest(f)' = Nearest(f)
        BY <2>1, FilesStay
      <3>2. \A i \in 1..n : HasId(Suite[i]) /\ ids[i] = Nearest(Suite[i])
        BY <1>1, <2>3 DEF IInv, IdsAreResolved
      <3>3. HasId(Suite[n + 1]) /\ Effective = Nearest(Suite[n + 1])
        BY <1>3, <1>5, <2>3 DEF Loading
      <3>4. \A i \in 1..(n + 1) : i \in 1..n \/ i = n + 1
        OBVIOUS
      <3>5. \A i \in DOMAIN ids' : HasId(Suite[i]) /\ ids'[i] = Nearest(Suite[i])
        BY <2>4, <3>2, <3>3, <3>4
      <3>6. \A i \in DOMAIN ids' : HasId(Suite[i])' /\ ids'[i] = Nearest(Suite[i])'
        BY <3>1, <3>5
      <3>7. QED
        BY <2>1, <3>6 DEF IdsAreResolved
    <2>8. QED
      BY <1>1, <2>1, <2>5, <2>6, <2>7, LoadingKeepsSuite DEF IInv
  <1>6. QED
    BY <1>4, <1>5

LEMMA RefuseSuiteKeeps == IInv /\ RefuseSuite => IInv'
  <1> SUFFICES ASSUME IInv, RefuseSuite PROVE IInv'
    OBVIOUS
  <1>1. /\ pc = "start" /\ ~IsInjective(ids) /\ pc' = "rejected"
        /\ UNCHANGED <<extends, section, chain, ids>>
        /\ UNCHANGED <<options, manifestVars, evalVars, measured>>
    BY DEF RefuseSuite, Reject, treeVars
  <1>2. Typed /\ Len(ids) = Len(Suite) /\ DOMAIN ids = DOMAIN Suite
    BY <1>1, SizesAre DEF IInv, LoadInv
  <1>3. PICK i \in DOMAIN ids, j \in DOMAIN ids : ids[i] = ids[j] /\ i # j
    BY <1>1 DEF IsInjective
  <1>4. Nearest(Suite[i]) = Nearest(Suite[j])
    BY <1>1, <1>3 DEF IInv, IdsAreResolved
  <1>5. Suite[i] # Suite[j] /\ Suite[i] \in ToSet(Suite) /\ Suite[j] \in ToSet(Suite)
    BY <1>2, <1>3, SuiteIs
  <1>6. Nearest(Suite[i])' = Nearest(Suite[j])'
    BY <1>1, <1>4, FilesStay
  <1>7. IdsAreResolved'
    BY <1>1, <1>5, <1>6 DEF IdsAreResolved
  <1>8. Typed' /\ LoadInv'
    BY <1>1, <1>2 DEF Typed, LoadInv, evalVars, metricVars, manifestVars
  <1>9. QED
    BY <1>1, <1>7, <1>8, LoadingKeepsSuite DEF IInv

LEMMA StutterKeeps == IInv /\ UNCHANGED vars => IInv'
  <1> SUFFICES ASSUME IInv, UNCHANGED vars PROVE IInv'
    OBVIOUS
  <1>1. UNCHANGED <<pc, extends, section, chain, ids, options, items, status, stage,
                    details, retrieval, generation, errors, report, measured>>
    BY DEF vars, treeVars, manifestVars, evalVars, metricVars
  <1>2. Typed' /\ LoadInv' /\ SuiteInv' /\ EvalInv' /\ CompletedIsEarned'
    <2>1. Typed' /\ LoadInv'
      BY <1>1 DEF IInv, Typed, LoadInv
    <2>2. SuiteInv' /\ EvalInv'
      BY <1>1 DEF IInv, SuiteInv, EvalInv
    <2>3. CompletedIsEarned'
      BY <1>1 DEF IInv, CompletedIsEarned, AllTried
    <2>4. QED
      BY <2>1, <2>2, <2>3
  <1>3. \A f : (HasId(f)' <=> HasId(f)) /\ Nearest(f)' = Nearest(f)
    BY <1>1, FilesStay
  <1>4. IdsAreResolved'
    BY <1>1, <1>3 DEF IInv, IdsAreResolved
  <1>5. QED
    BY <1>2, <1>4 DEF IInv

-----------------------------------------------------------------------------
LEMMA Invariance == Spec => []IInv
  <1>1. Init => IInv
    <2> SUFFICES ASSUME Init PROVE IInv
      OBVIOUS
    <2>1. /\ pc = "load" /\ chain = <<>> /\ ids = <<>> /\ items = <<>> /\ measured = <<>>
          /\ options = [dry |-> FALSE, retrievalOnly |-> FALSE, goOn |-> FALSE]
          /\ status = "none" /\ Len(<<>>) = 0 /\ DOMAIN <<>> = {}
      BY DEF Init
    <2>2. Typed
      BY <2>1, ExperimentsAssumption DEF Init, Typed
    <2>3. LoadInv
      <3>1. Len(Suite) > 0
        BY ExperimentsAssumption
      <3>2. \A i \in 1..Len(chain) : FALSE
        BY <2>1
      <3>3. QED
        BY <2>1, <3>1, <3>2 DEF LoadInv, IsInjective
    <2>4. IdsAreResolved /\ SuiteInv /\ EvalInv /\ CompletedIsEarned
      BY <2>1 DEF IdsAreResolved, SuiteInv, EvalInv, CompletedIsEarned
    <2>5. QED
      BY <2>2, <2>3, <2>4 DEF IInv
  <1>2. IInv /\ [Next]_vars => IInv'
    <2> SUFFICES ASSUME IInv, [Next]_vars PROVE IInv'
      OBVIOUS
    <2>1. CASE Step
      BY <2>1, VisitKeeps, LoadIdKeeps, RefuseSuiteKeeps, StartSuiteKeeps, PlanItemKeeps,
         StartItemKeeps, FailToStartKeeps, FinishKeeps, SetUpKeeps, RetrieveKeeps,
         AnswerAndJudgeKeeps, FailCaseKeeps, WriteReportKeeps, ExitKeeps DEF Step
    <2>2. CASE Kill
      BY <2>2, KillKeeps
    <2>3. CASE Rest \/ UNCHANGED vars
      BY <2>3, StutterKeeps DEF Rest
    <2>4. QED
      BY <2>1, <2>2, <2>3 DEF Next
  <1>3. QED
    BY <1>1, <1>2, PTL DEF Spec

(* The id of an experiment is the one the nearest file of its chain with a *)
(* say gives it, for every tree of files, and no suite is refused that has *)
(* one id for each experiment: the fold of _deep_merge along the chain     *)
(* (settings.py) amounts to that, and the search for a cycle finds only    *)
(* chains without an end.                                                  *)
THEOREM IdsComeFromTheChain == Spec => []IdsAreResolved
  <1>1. IInv => IdsAreResolved
    BY DEF IInv
  <1>2. QED
    BY <1>1, Invariance, PTL

(* An experiment the manifest calls completed has the figures of every     *)
(* case, and the manifest's status says what its items say, for any number *)
(* of experiments and cases and wherever an evaluation fails or is killed. *)
THEOREM CompletedMeansComplete == Spec => []CompletedIsEarned
  <1>1. IInv => CompletedIsEarned
    BY DEF IInv
  <1>2. QED
    BY <1>1, Invariance, PTL
=============================================================================
