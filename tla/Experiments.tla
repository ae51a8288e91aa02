---------------------------- MODULE Experiments ----------------------------
(***************************************************************************)
(* A suite of experiments (scripts/run_experiments.py): resolve the        *)
(* configuration of each experiment through its chain of extends           *)
(* (app/settings.py), then run one evaluation process after another        *)
(* (scripts/evaluate.py) and keep a manifest of what became of them.       *)
(*                                                                         *)
(* Of a configuration only the section "experiment" is looked at: absent,  *)
(* a mapping with an id, a mapping without, or something else, as an empty *)
(* id is, through which no inherited id shows.  Of metrics it is known for *)
(* which cases there are any, not what they say.                           *)
(***************************************************************************)
EXTENDS Naturals, Sequences, FiniteSets, SequencesExt

CONSTANTS
    File,         \* configuration files
    Suite,        \* the files of the suite, in order
    Id,           \* experiment ids
    Absent,       \* no section; no extends
    NoId, Scalar, \* a mapping without id, an empty id or no mapping at all
    NoFile,       \* a path with no file
    Cases,        \* number of cases in the dataset
    Answerable,   \* those with an answer
    NoReport

Case == 1..Cases
Section == Id \union {Absent, NoId, Scalar}

ASSUME ExperimentsAssumption ==
    /\ IsFiniteSet(File) /\ Suite \in Seq(File) /\ IsInjective(Suite) /\ Suite # <<>>
    /\ Cases \in Nat /\ Answerable \subseteq Case
    /\ {Absent, NoFile} \intersect File = {}
    /\ {Absent, NoId, Scalar} \intersect Id = {}

VARIABLES
    pc,         \* what the suite's runner does next
    extends,    \* extends[f]: the file f inherits from
    section,    \* section[f]: what f itself has for "experiment"
    chain,      \* files visited for the configuration being loaded
    ids,        \* ids of the configurations loaded
    options,    \* dry run, retrieval_only and continue_on_error
    items,      \* statuses of the manifest's runs
    status,     \* the manifest's own status
    stage,      \* what the evaluation process does next
    details,    \* how many cases it has dealt with
    retrieval,  \* cases with retrieval metrics
    generation, \* cases with generation metrics
    errors,     \* its error_count
    report,     \* the errors its report on disk claims
    measured    \* retrieval and generation of the evaluations that ended

treeVars == <<extends, section, chain, ids>>
manifestVars == <<items, status>>
metricVars == <<details, retrieval, generation, errors>>
evalVars == <<stage, metricVars, report>>
vars == <<pc, treeVars, options, manifestVars, evalVars, measured>>

NewEvaluation ==
    /\ details' = 0 /\ retrieval' = {} /\ generation' = {} /\ errors' = 0
    /\ report' = NoReport

Init ==
    /\ pc = "load"
    /\ extends \in [File -> File \union {Absent, NoFile}]
    /\ section \in [File -> Section]
    /\ chain = <<>> /\ ids = <<>>
    /\ options = [dry |-> FALSE, retrievalOnly |-> FALSE, goOn |-> FALSE]
    /\ items = <<>> /\ status = "none"
    /\ stage = "off" /\ details = 0 /\ retrieval = {} /\ generation = {}
    /\ errors = 0 /\ report = NoReport /\ measured = <<>>

-----------------------------------------------------------------------------
(* Loading.                                                                *)

Reject == pc' = "rejected" /\ UNCHANGED treeVars

Visited == IF chain = <<>> THEN Suite[Len(ids) + 1] ELSE extends[Last(chain)]

(* One call of _load_config_tree, on the way up.                           *)
Visit ==
    /\ pc = "load"
    /\ Visited # Absent
    /\ IF Visited = NoFile \/ Visited \in ToSet(chain)
       THEN Reject
       ELSE chain' = Append(chain, Visited) /\ UNCHANGED <<pc, extends, section, ids>>
    /\ UNCHANGED <<options, manifestVars, evalVars, measured>>

(* Faulty: the inherited value wins.                                       *)
MergeInherited(base, override) == IF base \in {Absent, NoId} THEN override ELSE base

(* _deep_merge of two sections: mappings are merged, all else replaces.    *)
Merge(base, override) ==
    CASE override = Absent -> base
      [] override = NoId /\ base \in Id -> base
      [] OTHER -> override

Effective == FoldRight(LAMBDA f, base : Merge(base, section[f]), chain, Absent)

(* The chain has ended, and the configuration has an id.                   *)
LoadId ==
    /\ pc = "load" /\ chain # <<>> /\ Visited = Absent
    /\ IF Effective \in Id
       THEN /\ ids' = Append(ids, Effective) /\ chain' = <<>>
            /\ pc' = IF Len(ids') = Len(Suite) THEN "start" ELSE "load"
            /\ UNCHANGED <<extends, section>>
       ELSE Reject
    /\ UNCHANGED <<options, manifestVars, evalVars, measured>>

-----------------------------------------------------------------------------
(* The suite.                                                              *)

(* Two experiments with one id would write to one report.                  *)
RefuseSuite ==
    /\ pc = "start" /\ ~IsInjective(ids)
    /\ Reject
    /\ UNCHANGED <<options, manifestVars, evalVars, measured>>

(* The manifest is begun.  What the files say is not looked at any more.   *)
StartSuite ==
    /\ pc = "start" /\ IsInjective(ids) /\ pc' = "next"
    /\ options' \in [dry : BOOLEAN, retrievalOnly : BOOLEAN, goOn : BOOLEAN]
    /\ status' = IF options'.dry THEN "planned" ELSE "running"
    /\ extends' = [f \in File |-> Absent] /\ section' = extends'
    /\ UNCHANGED <<chain, ids, items, evalVars, measured>>

AllTried == Len(items) = Len(Suite)

(* A dry run only validates the configuration, which may raise.            *)
PlanItem ==
    /\ pc = "next" /\ ~AllTried /\ options.dry
    /\ \/ items' = Append(items, "planned") /\ UNCHANGED pc
       \/ pc' = "aborted" /\ UNCHANGED items
    /\ UNCHANGED <<treeVars, options, status, evalVars, measured>>

StartItem ==
    /\ pc = "next" /\ ~AllTried /\ ~options.dry
    /\ items' = Append(items, "running")
    /\ pc' = "evaluate" /\ stage' = "setup"
    /\ NewEvaluation
    /\ UNCHANGED <<treeVars, options, status, measured>>

(* Faulty: a failed experiment is run again.                               *)
ConcludeOrRetry(verdict) ==
    /\ items' = [items EXCEPT ![Len(items)] = IF verdict = "failed" THEN "running" ELSE verdict]
    /\ measured' = IF verdict = "failed" THEN measured
                   ELSE Append(measured, [retrieval |-> retrieval, generation |-> generation])
    /\ stage' = IF verdict = "failed" THEN "setup" ELSE "off"
    /\ pc' = IF verdict = "failed" THEN "evaluate" ELSE "next"
    /\ NewEvaluation

(* The item gets its verdict, and the suite goes on or stops.              *)
Conclude(verdict) ==
    /\ items' = [items EXCEPT ![Len(items)] = verdict]
    /\ measured' = Append(measured, [retrieval |-> retrieval, generation |-> generation])
    /\ pc' = IF verdict = "failed" /\ ~options.goOn THEN "finish" ELSE "next"
    /\ stage' = "off"
    /\ NewEvaluation

(* The process cannot be started.                                          *)
FailToStart ==
    /\ pc = "evaluate" /\ stage = "setup"
    /\ Conclude("failed")
    /\ UNCHANGED <<treeVars, options, status>>

(* Faulty: an evaluation that exits with 0 is a success.                   *)
VerdictByCode(code) == IF code = 0 THEN "completed" ELSE "failed"

Verdict(code) == IF code = 0 /\ report = 0 THEN "completed" ELSE "failed"

Finish ==
    /\ pc = "finish" \/ (pc = "next" /\ AllTried)
    /\ pc' = "done"
    /\ status' = IF options.dry THEN "planned"
                 ELSE IF ToSet(items) = {"completed"} THEN "completed"
                 ELSE IF "failed" \in ToSet(items) THEN "failed"
                 ELSE "incomplete"
    /\ UNCHANGED <<treeVars, options, items, evalVars, measured>>

(* The runner is killed.                                                   *)
Kill ==
    /\ pc \in {"next", "evaluate", "finish"}
    /\ pc' = "aborted"
    /\ UNCHANGED <<treeVars, options, manifestVars, evalVars, measured>>

-----------------------------------------------------------------------------
(* The evaluation process.                                                 *)

Evaluating(at) == pc = "evaluate" /\ stage = at
suiteVars == <<pc, treeVars, options, manifestVars, measured>>

AfterCase == IF details' = Cases THEN "write" ELSE "retrieve"
CaseDone == details' = details + 1 /\ stage' = AfterCase

(* Cases are loaded, components and judge are built.                       *)
SetUp ==
    /\ Evaluating("setup")
    /\ stage' = IF Cases = 0 THEN "write" ELSE "retrieve"
    /\ UNCHANGED <<suiteVars, metricVars, report>>

Retrieve ==
    /\ Evaluating("retrieve")
    /\ retrieval' = retrieval \union ({details + 1} \intersect Answerable)
    /\ IF options.retrievalOnly
       THEN CaseDone
       ELSE stage' = "answer" /\ UNCHANGED details
    /\ UNCHANGED <<suiteVars, generation, errors, report>>

(* The answer is generated and judged.                                     *)
AnswerAndJudge ==
    /\ Evaluating("answer")
    /\ generation' = generation \union {details + 1}
    /\ CaseDone
    /\ UNCHANGED <<suiteVars, retrieval, errors, report>>

(* A call for this case raises: it is counted, and the next one follows.   *)
FailCase ==
    /\ pc = "evaluate" /\ stage \in {"retrieve", "answer"}
    /\ errors' = errors + 1
    /\ CaseDone
    /\ UNCHANGED <<suiteVars, retrieval, generation, report>>

(* The report is written as JSON and then as Markdown.                     *)
WriteReport ==
    /\ Evaluating("write")
    /\ report' = errors /\ stage' = "markdown"
    /\ UNCHANGED <<suiteVars, metricVars>>

(* The process ends, well or, at any time, with an exception or a signal.  *)
Exit ==
    /\ pc = "evaluate"
    /\ \/ stage = "markdown" /\ Conclude(Verdict(0))
       \/ Conclude(Verdict(1))
    /\ UNCHANGED <<treeVars, options, status>>

Ended == pc \in {"done", "rejected", "aborted"}
Rest == Ended /\ UNCHANGED vars

Step ==
    \/ Visit \/ LoadId \/ RefuseSuite \/ StartSuite \/ PlanItem \/ StartItem \/ FailToStart \/ Finish
    \/ SetUp \/ Retrieve \/ AnswerAndJudge \/ FailCase \/ WriteReport \/ Exit

Next == Step \/ Kill \/ Rest

Spec == Init /\ [][Next]_vars

(* The runner goes on; the process it waits for ends.                      *)
FairSpec == Spec /\ WF_vars(Step)
-----------------------------------------------------------------------------
(* Up[n][f]: n generations above f.                                        *)
Up[n \in 0..Cardinality(File)] ==
    [f \in File |->
        IF n = 0 THEN f
        ELSE IF Up[n - 1][f] \in File THEN extends[Up[n - 1][f]] ELSE Up[n - 1][f]]

Root(f) == Up[Cardinality(File)][f]

(* The generations that have a say in the id of f, and the nearest.        *)
Telling(f) ==
    {n \in 0..Cardinality(File) :
        Up[n][f] \in File /\ section[Up[n][f]] \notin {Absent, NoId}}
Nearest(f) ==
    LET n == CHOOSE n \in Telling(f) : \A k \in Telling(f) : n <= k IN section[Up[n][f]]
HasId(f) == Root(f) = Absent /\ Telling(f) # {} /\ Nearest(f) \in Id

(* Each experiment has the id the nearest file of its chain gives it, and  *)
(* a suite is only refused for a reason: a chain that is cyclic or breaks  *)
(* off, or an id that is missing or used twice.                            *)
IdsAreResolved ==
    /\ pc \in {"load", "start"} =>
            \A i \in DOMAIN ids : HasId(Suite[i]) /\ ids[i] = Nearest(Suite[i])
    /\ pc = "rejected" =>
            \/ \E f \in ToSet(Suite) : ~HasId(f)
            \/ \E f, g \in ToSet(Suite) : f # g /\ Nearest(f) = Nearest(g)

(* What the manifest calls completed has all its figures: retrieval        *)
(* metrics for each answerable case and a judgement of each, though an     *)
(* evaluation exits with 0 when cases failed; and the suite is completed   *)
(* when all its experiments are and failed when one is, killed or not.     *)
CompletedIsEarned ==
    /\ \A i \in DOMAIN items : items[i] = "completed" =>
            /\ Answerable \subseteq measured[i].retrieval
            /\ options.retrievalOnly \/ measured[i].generation = Case
    /\ status = "completed" => AllTried /\ ToSet(items) = {"completed"}
    /\ pc = "done" /\ ~options.dry /\ status # "completed" =>
            status = "failed" /\ "failed" \in ToSet(items)

(* A suite ends, whatever its files inherit from and however its           *)
(* evaluations fail.                                                       *)
SuiteEnds == <>Ended
=============================================================================
