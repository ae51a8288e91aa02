------------------------------ MODULE Imports ------------------------------
(***************************************************************************)
(* Who ingests, and side by side with whom: import jobs of the API         *)
(* (app/api/main.py), which switch data.incremental for a forced run, and  *)
(* the batch (app/ingestion/batch_service.py), another process that works  *)
(* through the catalog of manuals.  Both write to one collection, and      *)
(* GET /v1/manuals joins the two files the batch leaves.                   *)
(*                                                                         *)
(* A run of IngestionService has three stages here: it crawls, plans from  *)
(* what it parsed and what the collection holds, then stores chunk by      *)
(* chunk and deletes; Ingestion has the details of one run by itself.  A   *)
(* chunk's id is made from manual, snapshot and text, and the text names   *)
(* the catalog entry: the manual the API is configured for is a source of  *)
(* its own even if an entry has the same snapshot.                         *)
(***************************************************************************)
EXTENDS Naturals, Sequences, FiniteSets, SequencesExt

CONSTANTS
    Entry,         \* entries the catalog of manuals may have
    Configured,    \* the manual in the settings of the API
    Chunk,         \* chunks there may be, each of a source
    SourceOf,      \* the source of each chunk
    IdOf,          \* catalog_id of each entry
    SnapshotOf,    \* snapshot_id of each source
    Catalogs,      \* what the web site may publish: sequences of entries
    MaxJobs,       \* bound: import jobs
    MaxBatches,    \* bound: batches
    Batch,         \* the run of the batch, besides those of the jobs
    Torn           \* a file that is being written

JobId == 1..MaxJobs
Runner == JobId \union {Batch}
Source == Entry \union {Configured}

ASSUME ImportsAssumption ==
    /\ MaxJobs \in Nat /\ MaxBatches \in Nat
    /\ Configured \notin Entry /\ Batch \notin JobId
    /\ Catalogs \subseteq Seq(Entry) /\ \A entries \in Catalogs : IsInjective(entries)

VARIABLES
    configured,  \* data.incremental as the API's configuration has it
    incremental, \* data.incremental in the API's memory
    job,         \* job[j]: status of import job j, "none" before it exists
    run,         \* run[r]: the run of IngestionService for r, with the
                 \* job's force_reembed and previous_incremental
    index,       \* chunks of the collection
    batch,       \* the batch process
    items,       \* what it has dealt with
    outcome,     \* outcome[e]: what became of e in this batch
    catalog,     \* catalog.json, as a sequence of entries
    latest       \* the items of batch-latest.json

jobVars == <<configured, incremental, job>>
fileVars == <<catalog, latest>>
batchVars == <<batch, items, outcome, fileVars>>
vars == <<jobVars, run, index, batchVars>>

Idle == [stage |-> "off", source |-> Configured, forced |-> FALSE, previous |-> TRUE,
         incremental |-> TRUE, parsed |-> {}, pending |-> {}, stale |-> {}, alone |-> TRUE]

NoBatch(number) == [pc |-> "off", number |-> number, entries |-> <<>>, selected |-> <<>>,
                    failFast |-> FALSE, incremental |-> TRUE]

(* Earlier batches have left a collection and a progress file.             *)
Init ==
    /\ configured \in BOOLEAN /\ incremental = configured
    /\ job = [j \in JobId |-> "none"]
    /\ run = [r \in Runner |-> Idle]
    /\ index \in SUBSET Chunk
    /\ batch = NoBatch(0) /\ items = <<>> /\ outcome = [e \in Entry |-> "untried"]
    /\ catalog = <<>>
    /\ latest \in {<<>>} \union {<<[entry |-> e, status |-> "completed"]>> : e \in Entry}

-----------------------------------------------------------------------------
(* A run.                                                                  *)

Begun(source, forced, previous) ==
    [stage |-> "crawl", source |-> source, forced |-> forced, previous |-> previous,
     incremental |-> TRUE, parsed |-> {}, pending |-> {}, stale |-> {}, alone |-> TRUE]

OfSnapshot(S, source) == {c \in S : SnapshotOf[SourceOf[c]] = SnapshotOf[source]}

(* Faulty: what is stale is looked up in the whole collection.             *)
StaleAnywhere(parsed, source) == index \ parsed

Stale(parsed, source) == OfSnapshot(index, source) \ parsed

(* The other runs between plan and end on the snapshot of this source.     *)
Rivals(r, source) ==
    {q \in Runner \ {r} : /\ run[q].stage = "store"
                          /\ SnapshotOf[run[q].source] = SnapshotOf[source]}

(* data.incremental as the run sees it: the API has one settings object,   *)
(* the batch a copy for each manual.                                       *)
Mode(r) == IF r = Batch THEN batch.incremental ELSE incremental

(* The run with its plan: all or only the new chunks are pending.          *)
Planned(r, parsed) ==
    [stage |-> "store", source |-> run[r].source, forced |-> run[r].forced,
     previous |-> run[r].previous, incremental |-> Mode(r), parsed |-> parsed,
     pending |-> IF Mode(r) THEN parsed \ index ELSE parsed,
     stale |-> IF Mode(r) THEN Stale(parsed, run[r].source) ELSE {},
     alone |-> Rivals(r, run[r].source) = {}]

(* The crawl is over and there are chunks.                                 *)
Plan(r) ==
    /\ run[r].stage = "crawl"
    /\ \E parsed \in SUBSET {c \in Chunk : SourceOf[c] = run[r].source} :
        /\ parsed # {}
        /\ run' = [q \in Runner |->
            IF q = r THEN Planned(r, parsed)
            ELSE [run[q] EXCEPT !.alone = (@ /\ q \notin Rivals(r, run[r].source))]]
    /\ UNCHANGED <<jobVars, index, batchVars>>

Store(r) ==
    /\ run[r].stage = "store"
    /\ \E c \in run[r].pending :
        /\ index' = index \union {c}
        /\ run' = [run EXCEPT ![r].pending = @ \ {c}]
    /\ UNCHANGED <<jobVars, batchVars>>

(* Faulty: only a job that completed gets a new status.                    *)
ConcludeJobWhenCompleted(j, status) ==
    /\ job' = IF status = "completed" THEN [job EXCEPT ![j] = status] ELSE job
    /\ incremental' = run[j].previous

(* The end of run_import, with its finally clause.                         *)
ConcludeJob(j, status) ==
    /\ job' = [job EXCEPT ![j] = status]
    /\ incremental' = run[j].previous

(* The end of a turn of the batch's loop.  A failure that ends the loop    *)
(* skips the writing of the progress.                                      *)
ConcludeItem(status) ==
    LET entry == run[Batch].source
        stop == status = "failed" /\ batch.failFast
    IN  /\ items' = Append(items, [entry |-> entry, status |-> status])
        /\ batch' = [batch EXCEPT !.pc = IF stop THEN "report" ELSE "next"]
        /\ latest' = IF stop THEN latest ELSE items'
        /\ outcome' = [outcome EXCEPT ![entry] = status]

Conclude(r, status) ==
    /\ run' = [run EXCEPT ![r] = Idle]
    /\ IF r = Batch
       THEN ConcludeItem(status) /\ UNCHANGED <<jobVars, catalog>>
       ELSE ConcludeJob(r, status) /\ UNCHANGED <<configured, batchVars>>

(* All is stored: the stale chunks are deleted and the run returns.        *)
Finish(r) ==
    /\ run[r].stage = "store" /\ run[r].pending = {}
    /\ index' = index \ run[r].stale
    /\ Conclude(r, "completed")

(* The run raises; a crawl without any chunk does too.                     *)
Fail(r) ==
    /\ run[r].stage # "off"
    /\ Conclude(r, "failed")
    /\ UNCHANGED index

RunStep(r) == Plan(r) \/ Store(r) \/ Finish(r) \/ Fail(r)

-----------------------------------------------------------------------------
(* The API.                                                                *)

NoneRunning == \A j \in JobId : job[j] # "running"

(* Faulty: the gate is left out.                                           *)
AdmitsAny == TRUE

(* 409 while a job is running.                                             *)
Admits == NoneRunning

(* POST /v1/manuals/import, up to the creation of the task.                *)
ImportManual(j, force) ==
    /\ job[j] = "none" /\ \A i \in 1..(j - 1) : job[i] # "none"
    /\ Admits
    /\ job' = [job EXCEPT ![j] = "running"]
    /\ incremental' = (incremental /\ ~force)
    /\ run' = [run EXCEPT ![j] = Begun(Configured, force, incremental)]
    /\ UNCHANGED <<configured, index, batchVars>>

(* The API restarts: its jobs are unknown from then on.                    *)
RestartApi ==
    /\ ~NoneRunning
    /\ job' = [j \in JobId |-> IF job[j] = "none" THEN "none" ELSE "lost"]
    /\ incremental' = configured
    /\ run' = [r \in Runner |-> IF r = Batch THEN run[r] ELSE Idle]
    /\ UNCHANGED <<configured, index, batchVars>>

-----------------------------------------------------------------------------
(* The batch.                                                              *)

(* What can be left of a sequence when some of it is passed over.          *)
Subsequences(s) ==
    {t \in SeqOf(ToSet(s), Len(s)) : \E place \in [DOMAIN t -> DOMAIN s] :
        /\ \A i \in DOMAIN t : t[i] = s[place[i]]
        /\ \A i, j \in DOMAIN t : i < j => place[i] < place[j]}

(* A batch reads the catalog, selects by --include and --limit, and opens  *)
(* catalog.json for writing.                                               *)
StartBatch ==
    /\ batch.pc \in {"off", "done"} /\ batch.number < MaxBatches
    /\ \E entries \in Catalogs, failFast \in BOOLEAN, mode \in BOOLEAN :
        \E selected \in Subsequences(entries) :
            batch' = [pc |-> "catalog", number |-> batch.number + 1, entries |-> entries,
                      selected |-> selected, failFast |-> failFast, incremental |-> mode]
    /\ items' = <<>>
    /\ catalog' = Torn
    /\ outcome' = [e \in Entry |-> "untried"]
    /\ UNCHANGED <<jobVars, run, index, latest>>

WriteCatalog ==
    /\ batch.pc = "catalog"
    /\ batch' = [batch EXCEPT !.pc = "next"]
    /\ catalog' = batch.entries
    /\ UNCHANGED <<jobVars, run, index, items, outcome, latest>>

AllTried == Len(items) = Len(batch.selected)

NextManual ==
    /\ batch.pc = "next" /\ ~AllTried
    /\ batch' = [batch EXCEPT !.pc = "running"]
    /\ run' = [run EXCEPT ![Batch] = Begun(batch.selected[Len(items) + 1], FALSE, TRUE)]
    /\ UNCHANGED <<jobVars, index, items, outcome, fileVars>>

(* Faulty: what the loop wrote is taken for the report.                    *)
WriteReportOfLoop ==
    /\ batch.pc = "report" \/ (batch.pc = "next" /\ AllTried)
    /\ batch' = [batch EXCEPT !.pc = "done"]
    /\ UNCHANGED <<jobVars, run, index, items, outcome, fileVars>>

WriteReport ==
    /\ batch.pc = "report" \/ (batch.pc = "next" /\ AllTried)
    /\ batch' = [batch EXCEPT !.pc = "done"]
    /\ latest' = items
    /\ UNCHANGED <<jobVars, run, index, items, outcome, catalog>>

(* The process dies, or something outside the loop's try clause raises.    *)
BatchDies ==
    /\ batch.pc \notin {"off", "done"}
    /\ batch' = NoBatch(batch.number) /\ items' = <<>>
    /\ run' = [run EXCEPT ![Batch] = Idle]
    /\ outcome' = [e \in Entry |-> "untried"]
    /\ UNCHANGED <<jobVars, index, fileVars>>

BatchStep == StartBatch \/ WriteCatalog \/ NextManual \/ WriteReport \/ BatchDies

(* Nothing is under way.                                                   *)
Rest == NoneRunning /\ batch.pc \in {"off", "done"} /\ UNCHANGED vars

Next ==
    \/ \E r \in Runner : RunStep(r)
    \/ \E j \in JobId, force \in BOOLEAN : ImportManual(j, force)
    \/ RestartApi \/ BatchStep \/ Rest

Spec == Init /\ [][Next]_vars

(* Every await of a run ends, in a result or an exception.                 *)
FairSpec == Spec /\ \A j \in JobId : WF_vars(RunStep(j))
-----------------------------------------------------------------------------
(* GET /v1/manuals: the last item with the entry's id has its status.      *)
Status(e) ==
    LET own == {i \in DOMAIN latest : IdOf[latest[i].entry] = IdOf[e]}
    IN  IF own = {} THEN "discovered"
        ELSE latest[CHOOSE i \in own : \A k \in own : k <= i].status

RunRecord ==
    [stage : {"off", "crawl", "store"}, source : Source, forced : BOOLEAN, previous : BOOLEAN,
     incremental : BOOLEAN, parsed : SUBSET Chunk, pending : SUBSET Chunk,
     stale : SUBSET Chunk, alone : BOOLEAN]

Item == [entry : Entry, status : {"completed", "failed"}]

BatchRecord ==
    [pc : {"off", "catalog", "next", "running", "report", "done"}, number : 0..MaxBatches,
     entries : Seq(Entry), selected : Seq(Entry), failFast : BOOLEAN, incremental : BOOLEAN]

(* The types of the state; a job is running, and the batch in the middle   *)
(* of its loop, as long as its run is under way.                           *)
TypeOK ==
    /\ {configured, incremental} \subseteq BOOLEAN
    /\ job \in [JobId -> {"none", "running", "completed", "failed", "lost"}]
    /\ run \in [Runner -> RunRecord]
    /\ index \subseteq Chunk
    /\ batch \in BatchRecord /\ items \in Seq(Item)
    /\ outcome \in [Entry -> {"untried", "completed", "failed"}]
    /\ catalog \in Seq(Entry) \union {Torn} /\ latest \in Seq(Item)
    /\ \A j \in JobId : job[j] = "running" <=> run[j].stage # "off"
    /\ batch.pc = "running" <=> run[Batch].stage # "off"
    /\ Len(items) <= Len(batch.selected)
    /\ batch.pc = "running" =>
            Len(items) < Len(batch.selected) /\ run[Batch].source \in Entry

(* Every job plans as it was asked, though jobs share one settings object  *)
(* and the request that switches it has returned long before; and when no  *)
(* job is running the setting is what the configuration says.              *)
RunsAsAsked ==
    /\ \A j \in JobId : run[j].stage = "store" =>
            run[j].incremental = (configured /\ ~run[j].forced)
    /\ NoneRunning => incremental = configured

(* Runs side by side on one collection: one that shared its snapshot with  *)
(* no other while it stored leaves all it has parsed and, if incremental,  *)
(* nothing else of the snapshot; and no chunk ever goes whose snapshot is  *)
(* not being ingested.                                                     *)
IsolatedRunIsExact ==
    [][/\ \A r \in Runner :
            run[r].stage = "store" /\ run[r].alone /\ Finish(r) =>
                /\ run[r].parsed \subseteq index'
                /\ run[r].incremental => OfSnapshot(index', run[r].source) = run[r].parsed
       /\ \A c \in index \ index' : \E r \in Runner :
            run[r].stage = "store" /\ c \in OfSnapshot({c}, run[r].source)]_vars

(* No catalog has an id twice: up to the web site, the code only drops     *)
(* entries with the same URL.                                              *)
IdsAreUnique ==
    \A entries \in Catalogs : \A i, j \in DOMAIN entries :
        IdOf[entries[i]] = IdOf[entries[j]] => i = j

(* When a batch has ended, the listing of manuals shows what became of     *)
(* each, and one that was selected is only left out after a failure that   *)
(* was to stop the batch, though the loop then skips the progress file.    *)
(* Items are found by id: of two entries with one id, one could show what  *)
(* became of the other.                                                    *)
BatchIsAccountedFor ==
    IdsAreUnique /\ batch.pc = "done" =>
        \A i \in DOMAIN catalog :
            LET e == catalog[i] IN
            /\ Status(e) = IF outcome[e] = "untried" THEN "discovered" ELSE outcome[e]
            /\ e \in ToSet(batch.selected) /\ outcome[e] = "untried" =>
                batch.failFast /\ \E f \in ToSet(batch.selected) : outcome[f] = "failed"

(* Time and again no import job is running: a request is not refused for   *)
(* ever because of one that fails, or whose API has restarted.             *)
JobsEnd == []<>NoneRunning
=============================================================================
