--------------------------- MODULE ImportsProofs ---------------------------
(***************************************************************************)
(* Proofs about Imports for any catalog, any number of jobs and batches    *)
(* and any chunks.                                                         *)
(***************************************************************************)
EXTENDS Imports, TLAPS

(* A selection from a catalog is a sequence of entries.                    *)
LEMMA SelectionType ==
  ASSUME NEW s \in Seq(Entry), NEW t \in Subsequences(s)
  PROVE  t \in Seq(Entry)
  <1>1. t \in SeqOf(ToSet(s), Len(s))
    BY DEF Subsequences
  <1>2. ToSet(s) \subseteq Entry
    BY DEF ToSet
  <1>3. PICK n \in 0..Len(s) : t \in [1..n -> ToSet(s)]
    BY <1>1 DEF SeqOf
  <1>4. n \in Nat
    BY <1>3
  <1>5. QED
    BY <1>2, <1>3, <1>4

(* At most one job is running; it plans as it was asked and gives back     *)
(* what the configuration says.                                            *)
JobsInv ==
    /\ \A i, j \in JobId : job[i] = "running" /\ job[j] = "running" => i = j
    /\ \A j \in JobId : job[j] = "running" =>
            /\ run[j].previous = configured
            /\ incremental = (configured /\ ~run[j].forced)
            /\ run[j].stage = "store" => run[j].incremental = incremental
    /\ NoneRunning => incremental = configured

Storing(r) == run[r].stage = "store"

(* What a run that stores is about belongs to its source; one that is      *)
(* alone with its snapshot has in the collection what it stored and knows  *)
(* what is stale.                                                          *)
RunsInv ==
    /\ \A r \in Runner : Storing(r) =>
            /\ \A c \in run[r].parsed : SourceOf[c] = run[r].source
            /\ run[r].pending \subseteq run[r].parsed
            /\ run[r].stale \intersect run[r].parsed = {}
            /\ \A c \in run[r].stale : SnapshotOf[SourceOf[c]] = SnapshotOf[run[r].source]
            /\ run[r].alone => run[r].parsed \ run[r].pending \subseteq index
            /\ run[r].alone /\ run[r].incremental =>
                    OfSnapshot(index, run[r].source) \subseteq run[r].parsed \union run[r].stale
    /\ \A q, r \in Runner :
            /\ q # r /\ Storing(q) /\ Storing(r)
            /\ SnapshotOf[run[q].source] = SnapshotOf[run[r].source]
            => ~run[q].alone

(* A catalog with its selection: no entry is selected twice, each is one   *)
(* of the catalog, and this stands in catalog.json once it is written.     *)
CatalogInv ==
    batch.pc # "off" =>
        /\ batch.entries \in Catalogs /\ IsInjective(batch.selected)
        /\ \A i \in DOMAIN batch.selected :
                \E k \in DOMAIN batch.entries : batch.selected[i] = batch.entries[k]
        /\ batch.pc # "catalog" => catalog = batch.entries

SomeFailed == \E i \in DOMAIN items : items[i].status = "failed"

(* The progress of the batch: the items are the first of the selection, in *)
(* order, each with its outcome, and the loop is left when all are tried   *)
(* or after a failure that was to stop it.                                 *)
LoopInv ==
    /\ \A i \in DOMAIN items :
            /\ i \in DOMAIN batch.selected /\ items[i].entry = batch.selected[i]
            /\ outcome[items[i].entry] = items[i].status
    /\ \A e \in Entry :
            outcome[e] # "untried" => \E i \in DOMAIN items : items[i].entry = e
    /\ batch.pc = "running" => run[Batch].source = batch.selected[Len(items) + 1]
    /\ batch.pc = "report" => batch.failFast /\ SomeFailed
    /\ batch.pc = "done" =>
            /\ latest = items
            /\ AllTried \/ (batch.failFast /\ SomeFailed)

IInv == TypeOK /\ JobsInv /\ RunsInv /\ CatalogInv /\ LoopInv

LEMMA RunnersDiffer == Batch \notin JobId /\ Batch \in Runner /\ JobId \subseteq Runner
  BY ImportsAssumption DEF Runner

LEMMA IdleType == Idle \in RunRecord
  BY DEF Idle, RunRecord, Source

LEMMA BegunType ==
  ASSUME NEW source \in Source, NEW forced \in BOOLEAN, NEW previous \in BOOLEAN
  PROVE  /\ Begun(source, forced, previous) \in RunRecord
         /\ Begun(source, forced, previous).stage = "crawl"
         /\ Begun(source, forced, previous).source = source
         /\ Begun(source, forced, previous).forced = forced
         /\ Begun(source, forced, previous).previous = previous
  BY DEF Begun, RunRecord

(* The one field a step of another run, or of storing, changes.            *)
LEMMA FieldTypes ==
  ASSUME NEW x \in RunRecord, NEW alone \in BOOLEAN, NEW pending \in SUBSET Chunk
  PROVE  /\ [x EXCEPT !.alone = alone] \in RunRecord
         /\ [x EXCEPT !.pending = pending] \in RunRecord
  BY DEF RunRecord

LEMMA NoBatchType ==
  ASSUME NEW number \in 0..MaxBatches
  PROVE  /\ NoBatch(number) \in BatchRecord
         /\ NoBatch(number).pc = "off" /\ NoBatch(number).selected = <<>>
  BY DEF NoBatch, BatchRecord

LEMMA InitIInv == Init => IInv
  <1> SUFFICES ASSUME Init PROVE IInv
    OBVIOUS
  <1> USE ImportsAssumption, RunnersDiffer DEF Init
  <1>1. \A r \in Runner : run[r] = Idle /\ run[r].stage = "off"
    BY DEF Idle
  <1>2. TypeOK
    <2>1. run \in [Runner -> RunRecord]
      BY IdleType
    <2>2. batch \in BatchRecord /\ batch.pc = "off" /\ batch.selected = <<>>
      BY NoBatchType
    <2>3. catalog \in Seq(Entry) \union {Torn} /\ latest \in Seq(Item)
      <3>1. \A e \in Entry : <<[entry |-> e, status |-> "completed"]>> \in Seq(Item)
        <4> TAKE e \in Entry
        <4>1. [entry |-> e, status |-> "completed"] \in Item
          BY DEF Item
        <4>2. QED
          BY <4>1
      <3>2. latest = <<>> \/ \E e \in Entry : latest = <<[entry |-> e, status |-> "completed"]>>
        OBVIOUS
      <3>3. latest \in Seq(Item)
        <4>1. CASE latest = <<>>
          BY ONLY <4>1
        <4>2. CASE latest # <<>>
          <5>1. PICK e \in Entry : latest = <<[entry |-> e, status |-> "completed"]>>
            BY ONLY <3>2, <4>2
          <5>2. <<[entry |-> e, status |-> "completed"]>> \in Seq(Item)
            BY ONLY <3>1, e \in Entry
          <5>3. QED
            BY ONLY <5>1, <5>2
        <4>3. QED
          BY ONLY <4>1, <4>2
      <3>4. catalog \in Seq(Entry)
        OBVIOUS
      <3>5. QED
        BY ONLY <3>3, <3>4
    <2>4. \A j \in JobId : job[j] = "running" <=> run[j].stage # "off"
      BY <1>1
    <2>5. QED
      BY <1>1, <2>1, <2>2, <2>3, <2>4 DEF TypeOK
  <1>3. JobsInv
    BY DEF JobsInv, NoneRunning
  <1>4. RunsInv
    BY <1>1 DEF RunsInv, Storing
  <1>5. CatalogInv /\ LoopInv
    <2>1. batch.pc = "off" /\ DOMAIN items = {} /\ \A e \in Entry : outcome[e] = "untried"
      BY DEF NoBatch
    <2>2. QED
      BY <2>1 DEF CatalogInv, LoopInv
  <1>6. QED
    BY <1>2, <1>3, <1>4, <1>5 DEF IInv

(* Typing, action by action.                                               *)
LEMMA PlanType ==
  ASSUME TypeOK, NEW r \in Runner, Plan(r)
  PROVE  TypeOK'
  <1> USE RunnersDiffer DEF TypeOK, Plan
  <1>1. Mode(r) \in BOOLEAN
    BY DEF Mode, BatchRecord
  <1>2. PICK parsed \in SUBSET {c \in Chunk : SourceOf[c] = run[r].source} :
            run' = [q \in Runner |->
            IF q = r THEN Planned(r, parsed)
            ELSE [run[q] EXCEPT !.alone = (@ /\ q \notin Rivals(r, run[r].source))]]
    OBVIOUS
  <1>3. parsed \subseteq Chunk /\ Stale(parsed, run[r].source) \subseteq Chunk
    BY DEF Stale, OfSnapshot
  <1>4. /\ Planned(r, parsed) \in RunRecord /\ Planned(r, parsed).stage = "store"
        /\ Planned(r, parsed).source = run[r].source
    <2>1. run[r] \in RunRecord
      OBVIOUS
    <2>2. (Rivals(r, run[r].source) = {}) \in BOOLEAN
      OBVIOUS
    <2>3. QED
      BY <1>1, <1>3, <2>1, <2>2 DEF Planned, RunRecord
  <1>5. ASSUME NEW q \in Runner
        PROVE  /\ run'[q] \in RunRecord /\ run'[q].source = run[q].source
               /\ run'[q].stage # "off" <=> run[q].stage # "off"
    <2>1. CASE q = r
      BY <1>2, <1>4, <2>1
    <2>2. CASE q # r
      <3> DEFINE alone == run[q].alone /\ q \notin Rivals(r, run[r].source)
      <3>1. run[q] \in RunRecord /\ run[q].alone \in BOOLEAN
        BY DEF RunRecord
      <3>2. alone \in BOOLEAN
        BY <3>1
      <3>3. run'[q] = [run[q] EXCEPT !.alone = alone]
        BY <1>2, <2>2
      <3>4. run'[q].source = run[q].source /\ run'[q].stage = run[q].stage
        BY <3>1, <3>3 DEF RunRecord
      <3> HIDE DEF alone
      <3>5. [run[q] EXCEPT !.alone = alone] \in RunRecord
        BY ONLY <3>1, <3>2, FieldTypes
      <3>6. run'[q] \in RunRecord
        BY ONLY <3>3, <3>5
      <3>7. QED
        BY ONLY <3>4, <3>6
    <2>3. QED
      BY <2>1, <2>2
  <1>6. run' \in [Runner -> RunRecord]
    BY <1>2, <1>5
  <1>7. UNCHANGED <<configured, incremental, job, index, batch, items, outcome, catalog, latest>>
    BY DEF jobVars, batchVars, fileVars
  <1>8. QED
    BY <1>5, <1>6, <1>7

LEMMA StoreType ==
  ASSUME TypeOK, NEW r \in Runner, Store(r)
  PROVE  TypeOK'
  <1> USE RunnersDiffer DEF TypeOK, Store
  <1>1. PICK c \in run[r].pending :
            /\ index' = index \union {c}
            /\ run' = [run EXCEPT ![r].pending = @ \ {c}]
    OBVIOUS
  <1>2. c \in Chunk /\ run[r].pending \ {c} \in SUBSET Chunk
    BY <1>1 DEF RunRecord
  <1>3. run' \in [Runner -> RunRecord]
    BY <1>1, <1>2, FieldTypes
  <1>4. \A q \in Runner : run'[q].stage = run[q].stage /\ run'[q].source = run[q].source
    BY <1>1 DEF RunRecord
  <1>5. UNCHANGED <<configured, incremental, job, batch, items, outcome, catalog, latest>>
    BY DEF jobVars, batchVars, fileVars
  <1>6. QED
    BY <1>1, <1>2, <1>3, <1>4, <1>5

LEMMA ConcludeType ==
  ASSUME TypeOK, NEW r \in Runner, NEW status \in {"completed", "failed"},
         run[r].stage # "off", Conclude(r, status), index' \subseteq Chunk
  PROVE  TypeOK'
  <1> USE RunnersDiffer DEF TypeOK, Conclude
  <1>1. run' \in [Runner -> RunRecord] /\ run'[r].stage = "off"
    BY IdleType DEF Idle
  <1>2. \A q \in Runner \ {r} : run'[q] = run[q]
    OBVIOUS
  <1>3. CASE r = Batch
    <2> DEFINE entry == run[Batch].source
               stop == status = "failed" /\ batch.failFast
    <2>1. /\ items' = Append(items, [entry |-> entry, status |-> status])
          /\ batch' = [batch EXCEPT !.pc = IF stop THEN "report" ELSE "next"]
          /\ latest' = IF stop THEN latest ELSE items'
          /\ outcome' = [outcome EXCEPT ![entry] = status]
          /\ UNCHANGED <<configured, incremental, job, catalog>>
      BY <1>3 DEF ConcludeItem, jobVars
    <2>2. batch.pc = "running" /\ Len(items) < Len(batch.selected)
      BY <1>3
    <2>3. entry \in Entry /\ [entry |-> entry, status |-> status] \in Item
      BY <2>2 DEF Item
    <2>4. items' \in Seq(Item) /\ Len(items') = Len(items) + 1
      BY <2>1, <2>3
    <2>5. latest' \in Seq(Item)
      BY <2>1, <2>4
    <2>6. outcome' \in [Entry -> {"untried", "completed", "failed"}]
      BY <2>1, <2>3
    <2>7. /\ batch' \in BatchRecord /\ batch'.pc # "running"
          /\ batch'.selected = batch.selected
      BY <2>1 DEF BatchRecord
    <2>8. \A j \in JobId : run'[j] = run[j]
      BY <1>2, <1>3
    <2>9. run'[Batch].stage = "off"
      BY <1>1, <1>3
    <2>10. Len(items') <= Len(batch'.selected)
      BY <2>2, <2>4, <2>7 DEF BatchRecord
    <2>11. QED
      BY <1>1, <2>1, <2>4, <2>5, <2>6, <2>7, <2>8, <2>9, <2>10
  <1>4. CASE r # Batch
    <2>1. r \in JobId
      BY <1>4 DEF Runner
    <2>2. job' = [job EXCEPT ![r] = status] /\ incremental' = run[r].previous
          /\ UNCHANGED <<configured, batch, items, outcome, catalog, latest>>
      BY <1>4 DEF ConcludeJob, batchVars, fileVars
    <2>3. incremental' \in BOOLEAN
      BY <2>2 DEF RunRecord
    <2>4. \A j \in JobId : job'[j] = "running" <=> run'[j].stage # "off"
      BY <1>1, <1>2, <2>1, <2>2
    <2>5. job' \in [JobId -> {"none", "running", "completed", "failed", "lost"}]
      BY <2>1, <2>2
    <2>6. batch'.pc = "running" <=> run'[Batch].stage # "off"
      BY <1>2, <1>4, <2>2
    <2>7. QED
      BY <1>1, <2>2, <2>3, <2>4, <2>5, <2>6
  <1>5. QED
    BY <1>3, <1>4
LEMMA ApiType ==
  ASSUME TypeOK, (\E j \in JobId, force \in BOOLEAN : ImportManual(j, force)) \/ RestartApi
  PROVE  TypeOK'
  <1> USE RunnersDiffer DEF TypeOK
  <1>1. UNCHANGED <<configured, index, batch, items, outcome, catalog, latest>>
    BY DEF ImportManual, RestartApi, batchVars, fileVars
  <1>2. ASSUME NEW j \in JobId, NEW force \in BOOLEAN, ImportManual(j, force)
        PROVE  TypeOK'
    <2>1. /\ job' = [job EXCEPT ![j] = "running"]
          /\ incremental' = (incremental /\ ~force)
          /\ run' = [run EXCEPT ![j] = Begun(Configured, force, incremental)]
      BY <1>2 DEF ImportManual
    <2>2. /\ Begun(Configured, force, incremental) \in RunRecord
          /\ Begun(Configured, force, incremental).stage = "crawl"
      <3>1. Configured \in Source /\ incremental \in BOOLEAN
        BY DEF Source
      <3>2. QED
        BY ONLY <3>1, BegunType, force \in BOOLEAN
    <2>3. run' \in [Runner -> RunRecord] /\ run'[Batch] = run[Batch]
      BY <2>1, <2>2
    <2>4. \A i \in JobId : job'[i] = "running" <=> run'[i].stage # "off"
      BY <2>1, <2>2
    <2>5. job' \in [JobId -> {"none", "running", "completed", "failed", "lost"}]
      BY <2>1
    <2>6. incremental' \in BOOLEAN
      BY <2>1
    <2>7. QED
      BY <1>1, <2>3, <2>4, <2>5, <2>6
  <1>3. CASE RestartApi
    <2>1. /\ job' = [j \in JobId |-> IF job[j] = "none" THEN "none" ELSE "lost"]
          /\ incremental' = configured
          /\ run' = [r \in Runner |-> IF r = Batch THEN run[r] ELSE Idle]
      BY <1>3 DEF RestartApi
    <2>2. run' \in [Runner -> RunRecord] /\ run'[Batch] = run[Batch]
      BY <2>1, IdleType
    <2>3. \A i \in JobId : job'[i] # "running" /\ run'[i].stage = "off"
      BY <2>1 DEF Idle
    <2>4. job' \in [JobId -> {"none", "running", "completed", "failed", "lost"}]
      BY <2>1
    <2>5. QED
      BY <1>1, <2>1, <2>2, <2>3, <2>4
  <1>4. QED
    BY <1>2, <1>3

LEMMA StartBatchType ==
  ASSUME TypeOK, StartBatch
  PROVE  TypeOK'
  <1> USE RunnersDiffer, ImportsAssumption DEF TypeOK, StartBatch
  <1>1. UNCHANGED <<configured, incremental, job, run, index, latest>>
    BY DEF jobVars
  <1>2. PICK entries \in Catalogs, failFast \in BOOLEAN, mode \in BOOLEAN :
            \E selected \in Subsequences(entries) :
                batch' = [pc |-> "catalog", number |-> batch.number + 1, entries |-> entries,
                          selected |-> selected, failFast |-> failFast, incremental |-> mode]
    OBVIOUS
  <1>3. PICK selected \in Subsequences(entries) :
                batch' = [pc |-> "catalog", number |-> batch.number + 1, entries |-> entries,
                          selected |-> selected, failFast |-> failFast, incremental |-> mode]
    BY <1>2
  <1>4. entries \in Seq(Entry) /\ selected \in Seq(Entry)
    BY SelectionType
  <1>5. batch.number + 1 \in 0..MaxBatches
    BY DEF BatchRecord
  <1>6. batch' \in BatchRecord /\ batch'.pc = "catalog" /\ batch'.selected \in Seq(Entry)
    BY <1>3, <1>4, <1>5 DEF BatchRecord
  <1>7. items' = <<>> /\ items' \in Seq(Item) /\ Len(items') = 0
    OBVIOUS
  <1>8. batch.pc # "running"
    OBVIOUS
  <1>9. outcome' \in [Entry -> {"untried", "completed", "failed"}]
    OBVIOUS
  <1>10. Len(items') <= Len(batch'.selected)
    BY <1>6, <1>7
  <1>11. catalog' = Torn
    OBVIOUS
  <1>12. QED
    BY <1>1, <1>6, <1>7, <1>8, <1>9, <1>10, <1>11

LEMMA BatchType ==
  ASSUME TypeOK, WriteCatalog \/ NextManual \/ WriteReport \/ BatchDies
  PROVE  TypeOK'
  <1> USE RunnersDiffer DEF TypeOK
  <1>1. CASE WriteCatalog
    <2>1. /\ batch' = [batch EXCEPT !.pc = "next"] /\ catalog' = batch.entries
          /\ batch.pc = "catalog"
          /\ UNCHANGED <<configured, incremental, job, run, index, items, outcome, latest>>
      BY <1>1 DEF WriteCatalog, jobVars
    <2>2. /\ batch' \in BatchRecord /\ batch'.pc = "next"
          /\ batch'.selected = batch.selected /\ batch.entries \in Seq(Entry)
      BY <2>1 DEF BatchRecord
    <2>3. QED
      BY <2>1, <2>2
  <1>2. CASE NextManual
    <2> DEFINE entry == batch.selected[Len(items) + 1]
    <2>1. /\ batch.pc = "next" /\ Len(items) # Len(batch.selected)
          /\ batch' = [batch EXCEPT !.pc = "running"]
          /\ run' = [run EXCEPT ![Batch] = Begun(entry, FALSE, TRUE)]
          /\ UNCHANGED <<configured, incremental, job, index, items, outcome, catalog, latest>>
      BY <1>2 DEF NextManual, AllTried, jobVars, fileVars
    <2>2. /\ batch' \in BatchRecord /\ batch'.pc = "running"
          /\ batch'.selected = batch.selected /\ batch.selected \in Seq(Entry)
      BY <2>1 DEF BatchRecord
    <2>3. Len(items) < Len(batch.selected) /\ entry \in Entry
      BY <2>1, <2>2
    <2> HIDE DEF entry
    <2>4. /\ Begun(entry, FALSE, TRUE) \in RunRecord
          /\ Begun(entry, FALSE, TRUE).stage = "crawl"
          /\ Begun(entry, FALSE, TRUE).source = entry
      BY <2>3, BegunType DEF Source
    <2>5. run' \in [Runner -> RunRecord] /\ run'[Batch] = Begun(entry, FALSE, TRUE)
      BY <2>1, <2>4
    <2>6. \A j \in JobId : run'[j] = run[j]
      BY <2>1
    <2>7. QED
      BY <2>1, <2>2, <2>3, <2>4, <2>5, <2>6
  <1>3. CASE WriteReport
    <2>1. /\ batch' = [batch EXCEPT !.pc = "done"] /\ latest' = items
          /\ batch.pc # "running"
          /\ UNCHANGED <<configured, incremental, job, run, index, items, outcome, catalog>>
      BY <1>3 DEF WriteReport, jobVars
    <2>2. /\ batch' \in BatchRecord /\ batch'.pc = "done"
          /\ batch'.selected = batch.selected
      BY <2>1 DEF BatchRecord
    <2>3. QED
      BY <2>1, <2>2
  <1>4. CASE BatchDies
    <2>1. /\ batch' = NoBatch(batch.number) /\ items' = <<>>
          /\ run' = [run EXCEPT ![Batch] = Idle]
          /\ outcome' = [e \in Entry |-> "untried"]
          /\ UNCHANGED <<configured, incremental, job, index, catalog, latest>>
      BY <1>4 DEF BatchDies, jobVars, fileVars
    <2>2. batch.number \in 0..MaxBatches
      BY DEF BatchRecord
    <2>3. batch' \in BatchRecord /\ batch'.pc = "off" /\ batch'.selected = <<>>
      BY <2>1, <2>2, NoBatchType
    <2>4. run' \in [Runner -> RunRecord] /\ run'[Batch].stage = "off"
      BY <2>1, IdleType DEF Idle
    <2>5. \A j \in JobId : run'[j] = run[j]
      BY <2>1
    <2>6. items' \in Seq(Item) /\ Len(items') <= Len(batch'.selected)
      BY <2>1, <2>3
    <2>7. QED
      BY <2>1, <2>3, <2>4, <2>5, <2>6
  <1>5. QED
    BY <1>1, <1>2, <1>3, <1>4

LEMMA RunType ==
  ASSUME TypeOK, NEW r \in Runner, RunStep(r)
  PROVE  TypeOK'
  <1>1. CASE Plan(r)
    BY <1>1, PlanType
  <1>2. CASE Store(r)
    BY <1>2, StoreType
  <1>3. CASE Finish(r)
    <2>1. run[r].stage # "off" /\ Conclude(r, "completed")
      BY <1>3 DEF Finish
    <2>2. index' \subseteq Chunk
      BY <1>3 DEF Finish, TypeOK
    <2>3. QED
      BY <2>1, <2>2, ConcludeType
  <1>4. CASE Fail(r)
    <2>1. run[r].stage # "off" /\ Conclude(r, "failed") /\ index' \subseteq Chunk
      BY <1>4 DEF Fail, TypeOK
    <2>2. QED
      BY <2>1, ConcludeType
  <1>5. QED
    BY <1>1, <1>2, <1>3, <1>4 DEF RunStep

LEMMA TypeNext ==
  ASSUME TypeOK, [Next]_vars
  PROVE  TypeOK'
  <1>1. CASE UNCHANGED vars
    BY <1>1 DEF vars, jobVars, batchVars, fileVars, TypeOK
  <1>2. CASE Next
    BY <1>1, <1>2, RunType, ApiType, StartBatchType, BatchType DEF Next, BatchStep, Rest
  <1>3. QED
    BY <1>1, <1>2

(* Jobs.  Where jobs are not concerned, nothing changes for them.          *)
LEMMA JobsKept ==
  ASSUME JobsInv, UNCHANGED <<configured, incremental, job>>,
         \A j \in JobId :
            /\ run'[j].previous = run[j].previous /\ run'[j].forced = run[j].forced
            /\ run'[j].stage = "store" =>
                    \/ run[j].stage = "store" /\ run'[j].incremental = run[j].incremental
                    \/ run'[j].incremental = incremental
  PROVE  JobsInv'
  BY DEF JobsInv, NoneRunning

LEMMA JobsRun ==
  ASSUME TypeOK, JobsInv, NEW r \in Runner, RunStep(r)
  PROVE  JobsInv'
  <1> USE RunnersDiffer
  <1>0. \A q \in Runner : run[q] \in RunRecord
    BY DEF TypeOK
  <1>1. CASE Plan(r)
    <2>1. PICK parsed : run' = [q \in Runner |->
            IF q = r THEN Planned(r, parsed)
            ELSE [run[q] EXCEPT !.alone = (@ /\ q \notin Rivals(r, run[r].source))]]
      BY <1>1 DEF Plan
    <2>2. UNCHANGED <<configured, incremental, job>>
      BY <1>1 DEF Plan, jobVars
    <2>3. ASSUME NEW j \in JobId
          PROVE  /\ run'[j].previous = run[j].previous /\ run'[j].forced = run[j].forced
                 /\ run'[j].stage = "store" =>
                        \/ run[j].stage = "store" /\ run'[j].incremental = run[j].incremental
                        \/ run'[j].incremental = incremental
      <3>1. CASE j = r
        <4>1. run'[j] = Planned(r, parsed) /\ Mode(r) = incremental
          BY <2>1, <3>1 DEF Mode
        <4>2. QED
          BY <3>1, <4>1 DEF Planned
      <3>2. CASE j # r
        BY <1>0, <2>1, <3>2 DEF RunRecord
      <3>3. QED
        BY <3>1, <3>2
    <2>4. QED
      BY <2>2, <2>3, JobsKept
  <1>2. CASE Store(r)
    <2>1. UNCHANGED <<configured, incremental, job>>
      BY <1>2 DEF Store, jobVars
    <2>2. PICK c : run' = [run EXCEPT ![r].pending = @ \ {c}]
      BY <1>2 DEF Store
    <2>3. \A j \in JobId :
            /\ run'[j].previous = run[j].previous /\ run'[j].forced = run[j].forced
            /\ run'[j].stage = run[j].stage /\ run'[j].incremental = run[j].incremental
      BY <1>0, <2>2 DEF RunRecord, TypeOK
    <2>4. QED
      BY <2>1, <2>3, JobsKept
  <1>3. ASSUME NEW status \in {"completed", "failed"}, run[r].stage # "off", Conclude(r, status)
        PROVE  JobsInv'
    <2>1. \A q \in Runner \ {r} : run'[q] = run[q]
      BY <1>3 DEF Conclude, TypeOK
    <2>2. CASE r = Batch
      <3>1. UNCHANGED <<configured, incremental, job>>
        BY <1>3, <2>2 DEF Conclude, jobVars
      <3>2. \A j \in JobId : run'[j] = run[j]
        BY <2>1, <2>2
      <3>3. QED
        BY <3>1, <3>2, JobsKept
    <2>3. CASE r # Batch
      <3>1. r \in JobId /\ job[r] = "running"
        BY <1>3, <2>3 DEF TypeOK, Runner
      <3>2. run[r].previous = configured /\ \A j \in JobId \ {r} : job[j] # "running"
        BY <3>1 DEF JobsInv
      <3>3. job' = [job EXCEPT ![r] = status] /\ incremental' = run[r].previous
            /\ configured' = configured
        BY <1>3, <2>3 DEF Conclude, ConcludeJob
      <3>4. \A j \in JobId : job'[j] # "running"
        BY <3>2, <3>3 DEF TypeOK
      <3>5. QED
        BY <3>2, <3>3, <3>4 DEF JobsInv, NoneRunning
    <2>4. QED
      BY <2>2, <2>3
  <1>4. CASE Finish(r)
    BY <1>3, <1>4 DEF Finish
  <1>5. CASE Fail(r)
    BY <1>3, <1>5 DEF Fail
  <1>6. QED
    BY <1>1, <1>2, <1>4, <1>5 DEF RunStep

LEMMA JobsNext ==
  ASSUME TypeOK, JobsInv, [Next]_vars
  PROVE  JobsInv'
  <1> USE RunnersDiffer
  <1>1. ASSUME NEW j \in JobId, NEW force \in BOOLEAN, ImportManual(j, force)
        PROVE  JobsInv'
    <2>1. NoneRunning /\ incremental = configured
      BY <1>1 DEF ImportManual, Admits, JobsInv
    <2>2. /\ job' = [job EXCEPT ![j] = "running"]
          /\ incremental' = (incremental /\ ~force) /\ configured' = configured
          /\ run' = [run EXCEPT ![j] = Begun(Configured, force, incremental)]
      BY <1>1 DEF ImportManual
    <2>3. /\ run'[j].stage = "crawl" /\ run'[j].forced = force
          /\ run'[j].previous = incremental
      BY <2>2 DEF Begun, TypeOK
    <2>4. job'[j] = "running" /\ \A i \in JobId \ {j} : job'[i] # "running"
      BY <2>1, <2>2 DEF NoneRunning, TypeOK
    <2>5. \A i \in JobId : job'[i] = "running" => i = j
      BY <2>4
    <2>6. ~NoneRunning'
      BY <2>4 DEF NoneRunning
    <2>7. QED
      BY <2>1, <2>2, <2>3, <2>5, <2>6 DEF JobsInv
  <1>2. CASE RestartApi
    <2>1. configured' = configured /\ incremental' = configured
      BY <1>2 DEF RestartApi
    <2>2. \A j \in JobId : job'[j] # "running"
      BY <1>2 DEF RestartApi
    <2>3. QED
      BY <2>1, <2>2 DEF JobsInv, NoneRunning
  <1>3. CASE BatchStep
    <2>1. UNCHANGED <<configured, incremental, job>>
      BY <1>3 DEF BatchStep, StartBatch, WriteCatalog, NextManual, WriteReport, BatchDies, jobVars
    <2>2. \A j \in JobId : run'[j] = run[j]
      BY <1>3 DEF BatchStep, StartBatch, WriteCatalog, NextManual, WriteReport, BatchDies, TypeOK
    <2>3. QED
      BY <2>1, <2>2, JobsKept
  <1>4. CASE UNCHANGED vars
    BY <1>4, JobsKept DEF vars, jobVars
  <1>5. QED
    BY <1>1, <1>2, <1>3, <1>4, JobsRun DEF Next, Rest

(* Runs.  One that stores afterwards stored before, or it has just planned. *)
LEMMA RunsKept ==
  ASSUME RunsInv, index' = index,
         \A r \in Runner : run'[r].stage = "store" => run'[r] = run[r]
  PROVE  RunsInv'
  BY DEF RunsInv, Storing, OfSnapshot

LEMMA RunsPlan ==
  ASSUME TypeOK, RunsInv, NEW r \in Runner, Plan(r)
  PROVE  RunsInv'
  <1>1. PICK parsed \in SUBSET {c \in Chunk : SourceOf[c] = run[r].source} :
            run' = [q \in Runner |->
            IF q = r THEN Planned(r, parsed)
            ELSE [run[q] EXCEPT !.alone = (@ /\ q \notin Rivals(r, run[r].source))]]
    BY DEF Plan
  <1>2. index' = index /\ run[r].stage = "crawl"
    BY DEF Plan
  <1> DEFINE plan == Planned(r, parsed)
  <1>3. run'[r] = plan
    BY <1>1
  <1>4. /\ plan.source = run[r].source /\ plan.parsed = parsed /\ plan.incremental = Mode(r)
        /\ plan.pending = IF Mode(r) THEN parsed \ index ELSE parsed
        /\ plan.stale = IF Mode(r) THEN Stale(parsed, run[r].source) ELSE {}
        /\ plan.alone = (Rivals(r, run[r].source) = {})
    BY DEF Planned
  <1> HIDE DEF plan
  <1>5. ASSUME NEW q \in Runner, q # r
        PROVE  /\ run'[q].stage = run[q].stage /\ run'[q].source = run[q].source
               /\ run'[q].parsed = run[q].parsed /\ run'[q].pending = run[q].pending
               /\ run'[q].stale = run[q].stale /\ run'[q].incremental = run[q].incremental
               /\ run'[q].alone => run[q].alone /\ q \notin Rivals(r, run[r].source)
    <2>1. run[q] \in RunRecord
      BY DEF TypeOK
    <2>2. run'[q] = [run[q] EXCEPT !.alone = (@ /\ q \notin Rivals(r, run[r].source))]
      BY <1>1, <1>5
    <2>3. QED
      BY <2>1, <2>2 DEF RunRecord
  <1>6. ASSUME NEW q \in Runner, run'[q].stage = "store"
        PROVE  /\ \A c \in run'[q].parsed : SourceOf[c] = run'[q].source
               /\ run'[q].pending \subseteq run'[q].parsed
               /\ run'[q].stale \intersect run'[q].parsed = {}
               /\ \A c \in run'[q].stale : SnapshotOf[SourceOf[c]] = SnapshotOf[run'[q].source]
               /\ run'[q].alone => run'[q].parsed \ run'[q].pending \subseteq index'
               /\ run'[q].alone /\ run'[q].incremental =>
                    OfSnapshot(index', run'[q].source) \subseteq run'[q].parsed \union run'[q].stale
    <2>1. CASE q = r
      BY <1>1, <1>2, <1>3, <1>4, <2>1 DEF Stale, OfSnapshot
    <2>2. CASE q # r
      <3>1. run[q].stage = "store" /\ (run'[q].alone => run[q].alone)
        BY <1>5, <1>6, <2>2
      <3>2. /\ \A c \in run[q].parsed : SourceOf[c] = run[q].source
            /\ run[q].pending \subseteq run[q].parsed
            /\ run[q].stale \intersect run[q].parsed = {}
            /\ \A c \in run[q].stale : SnapshotOf[SourceOf[c]] = SnapshotOf[run[q].source]
            /\ run[q].alone => run[q].parsed \ run[q].pending \subseteq index
            /\ run[q].alone /\ run[q].incremental =>
                    OfSnapshot(index, run[q].source) \subseteq run[q].parsed \union run[q].stale
        BY <3>1 DEF RunsInv, Storing
      <3>3. OfSnapshot(index', run[q].source) = OfSnapshot(index, run[q].source)
        BY <1>2 DEF OfSnapshot
      <3>4. /\ run'[q].source = run[q].source /\ run'[q].parsed = run[q].parsed
            /\ run'[q].pending = run[q].pending /\ run'[q].stale = run[q].stale
            /\ run'[q].incremental = run[q].incremental
        BY <1>5, <2>2
      <3>5. QED
        BY <1>2, <3>1, <3>2, <3>3, <3>4
    <2>3. QED
      BY <2>1, <2>2
  <1>7. ASSUME NEW p \in Runner, NEW q \in Runner, p # q,
               run'[p].stage = "store", run'[q].stage = "store",
               SnapshotOf[run'[p].source] = SnapshotOf[run'[q].source]
        PROVE  ~run'[p].alone
    <2>1. CASE p = r
      <3>1. q \in Rivals(r, run[r].source)
        BY <1>3, <1>4, <1>5, <1>7, <2>1 DEF Rivals
      <3>2. QED
        BY <1>3, <1>4, <2>1, <3>1
    <2>2. CASE q = r
      <3>1. p \in Rivals(r, run[r].source)
        BY <1>3, <1>4, <1>5, <1>7, <2>2 DEF Rivals
      <3>2. QED
        BY <1>5, <1>7, <2>2, <3>1
    <2>3. CASE p # r /\ q # r
      <3>1. /\ run[p].stage = "store" /\ run[q].stage = "store"
            /\ SnapshotOf[run[p].source] = SnapshotOf[run[q].source]
        BY <1>5, <1>7, <2>3
      <3>2. ~run[p].alone
        BY <1>7, <3>1 DEF RunsInv, Storing
      <3>3. QED
        BY <1>5, <2>3, <3>2
    <2>4. QED
      BY <2>1, <2>2, <2>3
  <1>8. QED
    BY <1>6, <1>7 DEF RunsInv, Storing

LEMMA RunsStore ==
  ASSUME TypeOK, RunsInv, NEW r \in Runner, Store(r)
  PROVE  RunsInv'
  <1>1. PICK c \in run[r].pending :
            /\ index' = index \union {c}
            /\ run' = [run EXCEPT ![r].pending = @ \ {c}]
    BY DEF Store
  <1>2. run[r].stage = "store" /\ \A q \in Runner : run[q] \in RunRecord
    BY DEF Store, TypeOK
  <1>3. \A q \in Runner :
            /\ run'[q].stage = run[q].stage /\ run'[q].source = run[q].source
            /\ run'[q].parsed = run[q].parsed /\ run'[q].stale = run[q].stale
            /\ run'[q].incremental = run[q].incremental /\ run'[q].alone = run[q].alone
            /\ run'[q].pending = IF q = r THEN run[q].pending \ {c} ELSE run[q].pending
    <2>1. run' = [q \in Runner |->
            IF q = r THEN [run[r] EXCEPT !.pending = @ \ {c}] ELSE run[q]]
      BY <1>1 DEF TypeOK
    <2>2. ASSUME NEW x \in RunRecord, NEW y, y = [x EXCEPT !.pending = @ \ {c}]
          PROVE  /\ y.stage = x.stage /\ y.source = x.source /\ y.parsed = x.parsed
                 /\ y.stale = x.stale /\ y.incremental = x.incremental
                 /\ y.alone = x.alone /\ y.pending = x.pending \ {c}
      BY ONLY <2>2 DEF RunRecord
    <2>3. \A q \in Runner \ {r} : run'[q] = run[q]
      BY ONLY <2>1
    <2>4. run'[r] = [run[r] EXCEPT !.pending = @ \ {c}]
      BY ONLY <2>1, r \in Runner
    <2>5. /\ run'[r].stage = run[r].stage /\ run'[r].source = run[r].source
          /\ run'[r].parsed = run[r].parsed /\ run'[r].stale = run[r].stale
          /\ run'[r].incremental = run[r].incremental /\ run'[r].alone = run[r].alone
          /\ run'[r].pending = run[r].pending \ {c}
      BY ONLY <1>2, <2>2, <2>4, r \in Runner
    <2>6. QED
      BY ONLY <2>3, <2>5
  <1>4. SourceOf[c] = run[r].source /\ c \in run[r].parsed
    BY <1>1, <1>2 DEF RunsInv, Storing
  <1>5. ASSUME NEW q \in Runner, run[q].stage = "store"
        PROVE  /\ run'[q].pending \subseteq run[q].parsed
               /\ run[q].alone => run[q].parsed \ run'[q].pending \subseteq index'
               /\ run[q].alone /\ run[q].incremental =>
                    OfSnapshot(index', run[q].source) \subseteq run[q].parsed \union run[q].stale
    <2>1. /\ run[q].pending \subseteq run[q].parsed
          /\ run[q].alone => run[q].parsed \ run[q].pending \subseteq index
          /\ run[q].alone /\ run[q].incremental =>
                OfSnapshot(index, run[q].source) \subseteq run[q].parsed \union run[q].stale
      BY <1>5 DEF RunsInv, Storing
    <2>2. CASE q = r
      BY <1>1, <1>3, <1>4, <2>1, <2>2 DEF OfSnapshot
    <2>3. CASE q # r
      <3>1. run'[q].pending = run[q].pending
        BY <1>3, <2>3
      <3>2. run[q].alone => SnapshotOf[run[q].source] # SnapshotOf[SourceOf[c]]
        BY <1>2, <1>4, <1>5, <2>3 DEF RunsInv, Storing
      <3>3. QED
        BY <1>1, <2>1, <3>1, <3>2 DEF OfSnapshot
    <2>4. QED
      BY <2>2, <2>3
  <1>6. ASSUME NEW q \in Runner, run'[q].stage = "store"
        PROVE  /\ \A d \in run'[q].parsed : SourceOf[d] = run'[q].source
               /\ run'[q].pending \subseteq run'[q].parsed
               /\ run'[q].stale \intersect run'[q].parsed = {}
               /\ \A d \in run'[q].stale : SnapshotOf[SourceOf[d]] = SnapshotOf[run'[q].source]
               /\ run'[q].alone => run'[q].parsed \ run'[q].pending \subseteq index'
               /\ run'[q].alone /\ run'[q].incremental =>
                    OfSnapshot(index', run'[q].source) \subseteq run'[q].parsed \union run'[q].stale
    <2>1. run[q].stage = "store"
      BY <1>3, <1>6
    <2>2. /\ \A d \in run[q].parsed : SourceOf[d] = run[q].source
          /\ run[q].stale \intersect run[q].parsed = {}
          /\ \A d \in run[q].stale : SnapshotOf[SourceOf[d]] = SnapshotOf[run[q].source]
      BY <2>1 DEF RunsInv, Storing
    <2>3. /\ run'[q].source = run[q].source /\ run'[q].parsed = run[q].parsed
          /\ run'[q].stale = run[q].stale /\ run'[q].incremental = run[q].incremental
          /\ run'[q].alone = run[q].alone
      BY <1>3
    <2>4. QED
      BY <1>5, <2>1, <2>2, <2>3
  <1>7. ASSUME NEW p \in Runner, NEW q \in Runner, p # q,
               run'[p].stage = "store", run'[q].stage = "store",
               SnapshotOf[run'[p].source] = SnapshotOf[run'[q].source]
        PROVE  ~run'[p].alone
    <2>1. /\ run[p].stage = "store" /\ run[q].stage = "store"
          /\ SnapshotOf[run[p].source] = SnapshotOf[run[q].source]
      BY <1>3, <1>7
    <2>2. ~run[p].alone
      BY <1>7, <2>1 DEF RunsInv, Storing
    <2>3. QED
      BY <1>3, <2>2
  <1>8. QED
    BY <1>6, <1>7 DEF RunsInv, Storing

LEMMA RunsConclude ==
  ASSUME TypeOK, RunsInv, NEW r \in Runner, NEW status, Conclude(r, status),
         \/ index' = index
         \/ run[r].stage = "store" /\ index' = index \ run[r].stale
  PROVE  RunsInv'
  <1>1. run'[r].stage = "off" /\ \A q \in Runner \ {r} : run'[q] = run[q]
    BY DEF Conclude, TypeOK, Idle
  <1>2. CASE index' = index
    BY <1>1, <1>2, RunsKept
  <1>3. CASE run[r].stage = "store" /\ index' = index \ run[r].stale
    <2>1. \A c \in run[r].stale : SnapshotOf[SourceOf[c]] = SnapshotOf[run[r].source]
      BY <1>3 DEF RunsInv, Storing
    <2>2. ASSUME NEW q \in Runner, run'[q].stage = "store"
          PROVE  /\ run'[q] = run[q] /\ run[q].stage = "store"
                 /\ run[q].alone => run[q].parsed \ run[q].pending \subseteq index'
                 /\ run[q].alone /\ run[q].incremental =>
                    OfSnapshot(index', run[q].source) \subseteq run[q].parsed \union run[q].stale
      <3>1. q # r /\ run'[q] = run[q] /\ run[q].stage = "store"
        BY <1>1, <2>2
      <3>2. run[q].alone => SnapshotOf[run[q].source] # SnapshotOf[run[r].source]
        BY <1>3, <3>1 DEF RunsInv, Storing
      <3>3. /\ \A c \in run[q].parsed : SourceOf[c] = run[q].source
            /\ run[q].alone => run[q].parsed \ run[q].pending \subseteq index
            /\ run[q].alone /\ run[q].incremental =>
                OfSnapshot(index, run[q].source) \subseteq run[q].parsed \union run[q].stale
        BY <3>1 DEF RunsInv, Storing
      <3>4. run[q].alone => run[q].parsed \ run[q].pending \subseteq index'
        BY <1>3, <2>1, <3>2, <3>3
      <3>5. OfSnapshot(index', run[q].source) \subseteq OfSnapshot(index, run[q].source)
        BY <1>3 DEF OfSnapshot
      <3>6. QED
        BY <3>1, <3>3, <3>4, <3>5
    <2>3. QED
      BY <2>2 DEF RunsInv, Storing
  <1>4. QED
    BY <1>2, <1>3

LEMMA RunsNext ==
  ASSUME TypeOK, RunsInv, [Next]_vars
  PROVE  RunsInv'
  <1> USE RunnersDiffer
  <1>1. ASSUME NEW r \in Runner, RunStep(r)
        PROVE  RunsInv'
    <2>1. CASE Finish(r)
      BY <2>1, RunsConclude DEF Finish
    <2>2. CASE Fail(r)
      BY <2>2, RunsConclude DEF Fail
    <2>3. QED
      BY <1>1, <2>1, <2>2, RunsPlan, RunsStore DEF RunStep
  <1>2. ASSUME NEW j \in JobId, NEW force \in BOOLEAN, ImportManual(j, force)
        PROVE  RunsInv'
    <2>1. index' = index /\ run' = [run EXCEPT ![j] = Begun(Configured, force, incremental)]
      BY <1>2 DEF ImportManual
    <2>2. run'[j].stage = "crawl" /\ \A q \in Runner \ {j} : run'[q] = run[q]
      BY <2>1 DEF Begun, TypeOK
    <2>3. QED
      BY <2>1, <2>2, RunsKept
  <1>3. CASE RestartApi
    <2>1. /\ index' = index
          /\ \A q \in Runner : run'[q] = run[q] \/ run'[q].stage = "off"
      BY <1>3 DEF RestartApi, Idle
    <2>2. QED
      BY <2>1, RunsKept
  <1>4. CASE BatchStep
    <2>1. /\ index' = index
          /\ \A q \in Runner : run'[q] = run[q] \/ run'[q].stage # "store"
      <3>1. CASE NextManual
        BY <3>1 DEF NextManual, Begun, TypeOK
      <3>2. CASE BatchDies
        BY <3>2 DEF BatchDies, Idle, TypeOK
      <3>3. QED
        BY <1>4, <3>1, <3>2 DEF BatchStep, StartBatch, WriteCatalog, WriteReport
    <2>2. QED
      BY <2>1, RunsKept
  <1>5. CASE UNCHANGED vars
    BY <1>5, RunsKept DEF vars
  <1>6. QED
    BY <1>1, <1>2, <1>3, <1>4, <1>5 DEF Next, Rest

-----------------------------------------------------------------------------
(* A selection keeps the order of its catalog, so that it has no entry     *)
(* twice if the catalog has none.                                          *)
LEMMA SelectionDistinct ==
  ASSUME NEW s \in Seq(Entry), IsInjective(s), NEW t \in Subsequences(s)
  PROVE  /\ IsInjective(t)
         /\ \A i \in DOMAIN t : \E k \in DOMAIN s : t[i] = s[k]
  <1>1. t \in Seq(Entry)
    BY SelectionType
  <1>2. PICK place \in [DOMAIN t -> DOMAIN s] :
            /\ \A i \in DOMAIN t : t[i] = s[place[i]]
            /\ \A i, j \in DOMAIN t : i < j => place[i] < place[j]
    BY DEF Subsequences
  <1>3. DOMAIN t \subseteq Nat /\ DOMAIN s \subseteq Nat
    BY <1>1
  <1>4. ASSUME NEW i \in DOMAIN t, NEW j \in DOMAIN t, t[i] = t[j]
        PROVE  i = j
    <2>1. place[i] \in DOMAIN s /\ place[j] \in DOMAIN s
      BY <1>2
    <2>2. place[i] = place[j]
      BY <1>2, <1>4, <2>1 DEF IsInjective
    <2>3. ~(i < j) /\ ~(j < i) /\ i \in Nat /\ j \in Nat
      BY <1>2, <1>3, <2>1, <2>2
    <2>4. QED
      BY ONLY <2>3
  <1>5. QED
    BY <1>2, <1>4 DEF IsInjective

(* The pc is the only field of batch that most steps change.               *)
LEMMA PcChanges ==
  ASSUME NEW x \in BatchRecord, NEW pc, NEW y, y = [x EXCEPT !.pc = pc]
  PROVE  /\ y.pc = pc /\ y.entries = x.entries /\ y.selected = x.selected
         /\ y.failFast = x.failFast
  BY DEF BatchRecord

LEMMA ItemFields ==
  ASSUME NEW s \in Seq(Item), NEW i \in DOMAIN s
  PROVE  s[i].entry \in Entry /\ s[i].status # "untried"
  <1>1. s[i] \in Item
    OBVIOUS
  <1>2. QED
    BY <1>1 DEF Item

(* A step that does not concern the batch.                                 *)
LEMMA BatchKept ==
  ASSUME CatalogInv, LoopInv, UNCHANGED batchVars,
         batch.pc = "running" => run'[Batch].source = run[Batch].source
  PROVE  CatalogInv' /\ LoopInv'
  <1>1. UNCHANGED <<batch, items, outcome, catalog, latest>>
    BY DEF batchVars, fileVars
  <1>2. CatalogInv'
    BY <1>1 DEF CatalogInv
  <1>3. LoopInv'
    BY <1>1 DEF LoopInv, SomeFailed, AllTried
  <1>4. QED
    BY <1>2, <1>3

LEMMA PlanKeepsSource ==
  ASSUME TypeOK, NEW r \in Runner, Plan(r), NEW q \in Runner
  PROVE  run'[q].source = run[q].source
  <1>1. PICK parsed \in SUBSET {c \in Chunk : SourceOf[c] = run[r].source} :
            run' = [p \in Runner |->
            IF p = r THEN Planned(r, parsed)
            ELSE [run[p] EXCEPT !.alone = (@ /\ p \notin Rivals(r, run[r].source))]]
    BY DEF Plan
  <1>2. CASE q = r
    BY <1>1, <1>2 DEF Planned
  <1>3. CASE q # r
    <2>1. run'[q] = [run[q] EXCEPT !.alone = (@ /\ q \notin Rivals(r, run[r].source))]
      BY <1>1, <1>3
    <2>2. run[q] \in RunRecord
      BY DEF TypeOK
    <2>3. QED
      BY <2>1, <2>2 DEF RunRecord
  <1>4. QED
    BY <1>2, <1>3

LEMMA StoreKeepsSource ==
  ASSUME TypeOK, NEW r \in Runner, Store(r), NEW q \in Runner
  PROVE  run'[q].source = run[q].source
  <1>1. PICK c \in run[r].pending : run' = [run EXCEPT ![r].pending = @ \ {c}]
    BY DEF Store
  <1>2. run[q] \in RunRecord
    BY DEF TypeOK
  <1>3. QED
    BY <1>1, <1>2 DEF TypeOK, RunRecord

(* The end of a run of the batch: the manual gets its item and outcome.    *)
LEMMA ConcludeItemLoop ==
  ASSUME TypeOK, CatalogInv, LoopInv, NEW status \in {"completed", "failed"},
         batch.pc = "running", ConcludeItem(status), UNCHANGED catalog
  PROVE  CatalogInv' /\ LoopInv'
  <1> DEFINE entry == run[Batch].source
             stop == status = "failed" /\ batch.failFast
             n == Len(items)
  <1>1. /\ items' = Append(items, [entry |-> entry, status |-> status])
        /\ batch' = [batch EXCEPT !.pc = IF stop THEN "report" ELSE "next"]
        /\ outcome' = [outcome EXCEPT ![entry] = status]
    BY DEF ConcludeItem
  <1>2. /\ items \in Seq(Item) /\ n \in Nat /\ entry \in Entry /\ batch \in BatchRecord
        /\ batch.selected \in Seq(Entry) /\ n < Len(batch.selected)
        /\ outcome \in [Entry -> {"untried", "completed", "failed"}]
    BY DEF TypeOK, BatchRecord
  <1>3. /\ batch'.pc = IF stop THEN "report" ELSE "next"
        /\ batch'.entries = batch.entries /\ batch'.selected = batch.selected
        /\ batch'.failFast = batch.failFast
    BY <1>1, <1>2, PcChanges
  <1>4. CatalogInv'
    BY <1>3 DEF CatalogInv
  <1>5. entry = batch.selected[n + 1] /\ n + 1 \in DOMAIN batch.selected
    BY <1>2 DEF LoopInv
  <1>6. /\ DOMAIN items' = 1..(n + 1) /\ DOMAIN items = 1..n
        /\ items'[n + 1] = [entry |-> entry, status |-> status]
        /\ \A i \in DOMAIN items : items'[i] = items[i]
    BY <1>1, <1>2
  <1>7. items'[n + 1].entry = entry /\ items'[n + 1].status = status
    BY <1>6
  <1>8. outcome'[entry] = status /\ \A e \in Entry \ {entry} : outcome'[e] = outcome[e]
    BY <1>1, <1>2
  <1>9. \A i \in DOMAIN items' : i = n + 1 \/ i \in DOMAIN items
    BY <1>2, <1>6
  <1> HIDE DEF entry, stop, n
  <1>10. ASSUME NEW i \in DOMAIN items'
         PROVE  /\ i \in DOMAIN batch.selected /\ items'[i].entry = batch.selected[i]
                /\ outcome'[items'[i].entry] = items'[i].status
    <2>1. CASE i = n + 1
      BY <1>5, <1>7, <1>8, <2>1
    <2>2. CASE i # n + 1
      <3>1. i \in DOMAIN items /\ items'[i] = items[i]
        BY <1>6, <1>9, <1>10, <2>2
      <3>2. /\ i \in DOMAIN batch.selected /\ items[i].entry = batch.selected[i]
            /\ outcome[items[i].entry] = items[i].status
        BY <3>1 DEF LoopInv
      <3>3. items[i].entry # entry
        BY <1>5, <2>2, <3>2 DEF CatalogInv, IsInjective
      <3>4. items[i].entry \in Entry
        BY <1>2, <3>1, ItemFields
      <3>5. QED
        BY <1>8, <3>1, <3>2, <3>3, <3>4
    <2>3. QED
      BY <2>1, <2>2
  <1>11. ASSUME NEW e \in Entry, outcome'[e] # "untried"
         PROVE  \E i \in DOMAIN items' : items'[i].entry = e
    <2>0. n + 1 \in DOMAIN items' /\ \A i \in DOMAIN items : i \in DOMAIN items'
      BY <1>2, <1>6 DEF n
    <2>1. CASE e = entry
      BY <1>7, <2>0, <2>1
    <2>2. CASE e # entry
      <3>1. PICK i \in DOMAIN items : items[i].entry = e
        BY <1>8, <1>11, <2>2 DEF LoopInv
      <3>2. QED
        BY <1>6, <2>0, <3>1
    <2>3. QED
      BY <2>1, <2>2
  <1>12. batch'.pc = "report" => batch'.failFast /\ SomeFailed'
    <2>1. n + 1 \in DOMAIN items'
      BY <1>2, <1>6 DEF n
    <2>2. QED
      BY <1>3, <1>7, <2>1 DEF stop, SomeFailed
  <1>13. batch'.pc \notin {"running", "done"}
    BY <1>3
  <1>14. LoopInv'
    BY <1>3, <1>10, <1>11, <1>12, <1>13 DEF LoopInv
  <1>15. QED
    BY <1>4, <1>14

LEMMA RunLoop ==
  ASSUME TypeOK, CatalogInv, LoopInv, NEW r \in Runner, RunStep(r)
  PROVE  CatalogInv' /\ LoopInv'
  <1> USE RunnersDiffer
  <1>1. CASE Plan(r)
    BY <1>1, PlanKeepsSource, BatchKept DEF Plan
  <1>2. CASE Store(r)
    BY <1>2, StoreKeepsSource, BatchKept DEF Store
  <1>3. ASSUME NEW status \in {"completed", "failed"}, run[r].stage # "off", Conclude(r, status)
        PROVE  CatalogInv' /\ LoopInv'
    <2>1. CASE r = Batch
      <3>1. batch.pc = "running" /\ ConcludeItem(status) /\ UNCHANGED catalog
        BY <1>3, <2>1 DEF Conclude, TypeOK
      <3>2. QED
        BY <3>1, ConcludeItemLoop
    <2>2. CASE r # Batch
      <3>1. UNCHANGED batchVars /\ run'[Batch] = run[Batch]
        BY <1>3, <2>2 DEF Conclude, TypeOK
      <3>2. QED
        BY <3>1, BatchKept
    <2>3. QED
      BY <2>1, <2>2
  <1>4. QED
    BY <1>1, <1>2, <1>3 DEF RunStep, Finish, Fail

(* A new batch: nothing is tried, and the catalog is not there yet.        *)
LEMMA StartBatchLoop ==
  ASSUME TypeOK, StartBatch
  PROVE  CatalogInv' /\ LoopInv'
  <1>1. PICK entries \in Catalogs, failFast \in BOOLEAN, mode \in BOOLEAN :
            \E selected \in Subsequences(entries) :
                batch' = [pc |-> "catalog", number |-> batch.number + 1, entries |-> entries,
                          selected |-> selected, failFast |-> failFast, incremental |-> mode]
    BY DEF StartBatch
  <1>2. PICK selected \in Subsequences(entries) :
                batch' = [pc |-> "catalog", number |-> batch.number + 1, entries |-> entries,
                          selected |-> selected, failFast |-> failFast, incremental |-> mode]
    BY <1>1
  <1>3. entries \in Seq(Entry) /\ IsInjective(entries)
    BY ImportsAssumption
  <1>4. /\ IsInjective(selected)
        /\ \A i \in DOMAIN selected : \E k \in DOMAIN entries : selected[i] = entries[k]
    BY <1>3, SelectionDistinct
  <1>5. batch'.pc = "catalog" /\ batch'.entries = entries /\ batch'.selected = selected
    BY <1>2
  <1>6. CatalogInv'
    BY <1>3, <1>4, <1>5 DEF CatalogInv
  <1>7. items' = <<>> /\ DOMAIN items' = {} /\ \A e \in Entry : outcome'[e] = "untried"
    BY DEF StartBatch
  <1>8. LoopInv'
    BY <1>5, <1>7 DEF LoopInv
  <1>9. QED
    BY <1>6, <1>8

LEMMA BatchLoop ==
  ASSUME TypeOK, CatalogInv, LoopInv, WriteCatalog \/ NextManual \/ WriteReport \/ BatchDies
  PROVE  CatalogInv' /\ LoopInv'
  <1>0. batch \in BatchRecord
    BY DEF TypeOK
  <1>1. CASE WriteCatalog
    <2>1. /\ batch.pc = "catalog" /\ batch' = [batch EXCEPT !.pc = "next"]
          /\ catalog' = batch.entries /\ items' = items /\ outcome' = outcome
      BY <1>1 DEF WriteCatalog
    <2>2. /\ batch'.pc = "next" /\ batch'.entries = batch.entries
          /\ batch'.selected = batch.selected /\ batch'.failFast = batch.failFast
      BY <1>0, <2>1, PcChanges
    <2>3. CatalogInv'
      BY <2>1, <2>2 DEF CatalogInv
    <2>4. LoopInv'
      BY <2>1, <2>2 DEF LoopInv
    <2>5. QED
      BY <2>3, <2>4
  <1>2. CASE NextManual
    <2> DEFINE entry == batch.selected[Len(items) + 1]
    <2>1. /\ batch.pc = "next" /\ batch' = [batch EXCEPT !.pc = "running"]
          /\ run' = [run EXCEPT ![Batch] = Begun(entry, FALSE, TRUE)]
          /\ catalog' = catalog /\ items' = items /\ outcome' = outcome
      BY <1>2 DEF NextManual, fileVars
    <2>2. /\ batch'.pc = "running" /\ batch'.entries = batch.entries
          /\ batch'.selected = batch.selected /\ batch'.failFast = batch.failFast
      BY <1>0, <2>1, PcChanges
    <2>3. run'[Batch].source = entry
      BY <2>1, RunnersDiffer DEF Begun, TypeOK
    <2>4. CatalogInv'
      BY <2>1, <2>2 DEF CatalogInv
    <2>5. LoopInv'
      BY <2>1, <2>2, <2>3 DEF LoopInv
    <2>6. QED
      BY <2>4, <2>5
  <1>3. CASE WriteReport
    <2>1. /\ batch.pc = "report" \/ (batch.pc = "next" /\ AllTried)
          /\ batch' = [batch EXCEPT !.pc = "done"]
          /\ latest' = items /\ catalog' = catalog /\ items' = items /\ outcome' = outcome
      BY <1>3 DEF WriteReport
    <2>2. /\ batch'.pc = "done" /\ batch'.entries = batch.entries
          /\ batch'.selected = batch.selected /\ batch'.failFast = batch.failFast
      BY <1>0, <2>1, PcChanges
    <2>3. CatalogInv'
      BY <2>1, <2>2 DEF CatalogInv
    <2>4. LoopInv'
      BY <2>1, <2>2 DEF LoopInv, AllTried, SomeFailed
    <2>5. QED
      BY <2>3, <2>4
  <1>4. CASE BatchDies
    <2>1. /\ batch'.pc = "off" /\ items' = <<>> /\ DOMAIN items' = {}
          /\ \A e \in Entry : outcome'[e] = "untried"
      BY <1>4 DEF BatchDies, NoBatch
    <2>2. QED
      BY <2>1 DEF CatalogInv, LoopInv
  <1>5. QED
    BY <1>1, <1>2, <1>3, <1>4

LEMMA LoopNext ==
  ASSUME TypeOK, CatalogInv, LoopInv, [Next]_vars
  PROVE  CatalogInv' /\ LoopInv'
  <1> USE RunnersDiffer
  <1>1. ASSUME NEW j \in JobId, NEW force \in BOOLEAN, ImportManual(j, force)
        PROVE  CatalogInv' /\ LoopInv'
    <2>1. UNCHANGED batchVars /\ run'[Batch] = run[Batch]
      BY <1>1 DEF ImportManual, TypeOK
    <2>2. QED
      BY <2>1, BatchKept
  <1>2. CASE RestartApi
    <2>1. UNCHANGED batchVars /\ run'[Batch] = run[Batch]
      BY <1>2 DEF RestartApi
    <2>2. QED
      BY <2>1, BatchKept
  <1>3. CASE BatchStep
    BY <1>3, StartBatchLoop, BatchLoop DEF BatchStep
  <1>4. CASE UNCHANGED vars
    <2>1. UNCHANGED batchVars /\ run' = run
      BY <1>4 DEF vars
    <2>2. QED
      BY <2>1, BatchKept
  <1>5. QED
    BY <1>1, <1>2, <1>3, <1>4, RunLoop DEF Next, Rest

LEMMA Invariance == Spec => []IInv
  <1>1. IInv /\ [Next]_vars => IInv'
    BY TypeNext, JobsNext, RunsNext, LoopNext DEF IInv
  <1>2. QED
    BY InitIInv, <1>1, PTL DEF Spec

-----------------------------------------------------------------------------
(* The state keeps its types; a job is running exactly while its run is    *)
(* under way, whatever the other runs do (app/api/main.py run_import).     *)
THEOREM TypeCorrect == Spec => []TypeOK
  <1>1. IInv => TypeOK
    BY DEF IInv
  <1>2. QED
    BY Invariance, <1>1, PTL

(* Every import job plans with the setting it was asked for, though the    *)
(* jobs share one settings object that a forced one switches and restores, *)
(* and no job leaves the setting other than the configuration has it.      *)
THEOREM JobsRunAsAsked == Spec => []RunsAsAsked
  <1>1. IInv => RunsAsAsked
    <2> SUFFICES ASSUME IInv PROVE RunsAsAsked
      OBVIOUS
    <2>1. \A j \in JobId : run[j].stage = "store" => job[j] = "running"
      BY DEF IInv, TypeOK
    <2>2. QED
      BY <2>1 DEF IInv, JobsInv, RunsAsAsked
  <1>2. QED
    BY Invariance, <1>1, PTL

(* A run that no other run on its snapshot overlapped between its plan and *)
(* its end leaves exactly what it parsed if it is incremental, and at      *)
(* least that if it is not; and a chunk is only ever deleted by a run on   *)
(* its snapshot.                                                           *)
THEOREM IsolatedRuns == Spec => IsolatedRunIsExact
  <1> DEFINE Exact ==
        /\ \A r \in Runner :
            run[r].stage = "store" /\ run[r].alone /\ Finish(r) =>
                /\ run[r].parsed \subseteq index'
                /\ run[r].incremental => OfSnapshot(index', run[r].source) = run[r].parsed
        /\ \A c \in index \ index' : \E r \in Runner :
            run[r].stage = "store" /\ c \in OfSnapshot({c}, run[r].source)
  <1>1. ASSUME IInv, [Next]_vars
        PROVE  Exact \/ UNCHANGED vars
    <2>1. ASSUME NEW r \in Runner, run[r].stage = "store", run[r].alone, Finish(r)
          PROVE  /\ run[r].parsed \subseteq index'
                 /\ run[r].incremental => OfSnapshot(index', run[r].source) = run[r].parsed
      <3>1. index' = index \ run[r].stale /\ run[r].pending = {}
        BY <2>1 DEF Finish
      <3>2. /\ \A c \in run[r].parsed : SourceOf[c] = run[r].source
            /\ run[r].stale \intersect run[r].parsed = {}
            /\ run[r].parsed \ run[r].pending \subseteq index
            /\ run[r].incremental =>
                OfSnapshot(index, run[r].source) \subseteq run[r].parsed \union run[r].stale
        BY <1>1, <2>1 DEF IInv, RunsInv, Storing
      <3>3. run[r].parsed \subseteq index'
        BY <3>1, <3>2
      <3>4. run[r].parsed \subseteq OfSnapshot(index', run[r].source)
        BY <3>2, <3>3 DEF OfSnapshot
      <3>5. run[r].incremental => OfSnapshot(index', run[r].source) \subseteq run[r].parsed
        BY <3>1, <3>2 DEF OfSnapshot
      <3>6. QED
        BY <3>3, <3>4, <3>5
    <2>2. ASSUME NEW c \in index \ index'
          PROVE  \E r \in Runner : run[r].stage = "store" /\ c \in OfSnapshot({c}, run[r].source)
      <3>1. PICK r \in Runner : Finish(r)
        BY <1>1, <2>2 DEF Next, RunStep, Plan, Store, Fail, ImportManual, RestartApi, BatchStep,
            StartBatch, WriteCatalog, NextManual, WriteReport, BatchDies, Rest, vars
      <3>2. run[r].stage = "store" /\ c \in run[r].stale
        BY <2>2, <3>1 DEF Finish
      <3>3. SnapshotOf[SourceOf[c]] = SnapshotOf[run[r].source]
        BY <1>1, <3>2 DEF IInv, RunsInv, Storing
      <3>4. QED
        BY <3>2, <3>3 DEF OfSnapshot
    <2>3. QED
      BY <2>1, <2>2
  <1>2. QED
    BY Invariance, <1>1, PTL DEF Spec, IsolatedRunIsExact

(* The listing of manuals after a batch: each entry of the catalog has the *)
(* status of its own outcome, though items are found by id and only the    *)
(* last counts; and a selected one is left out only after a failure that   *)
(* was to stop the batch (batch_service.py, main.py list_manuals).         *)
THEOREM BatchesAreAccountedFor == Spec => []BatchIsAccountedFor
  <1>1. ASSUME TypeOK, CatalogInv, LoopInv, IdsAreUnique, batch.pc = "done",
               NEW k \in DOMAIN catalog
        PROVE  LET e == catalog[k] IN
               /\ Status(e) = IF outcome[e] = "untried" THEN "discovered" ELSE outcome[e]
               /\ e \in ToSet(batch.selected) /\ outcome[e] = "untried" =>
                   batch.failFast /\ \E f \in ToSet(batch.selected) : outcome[f] = "failed"
    <2> DEFINE e == catalog[k]
               own == {i \in DOMAIN latest : IdOf[latest[i].entry] = IdOf[e]}
    <2>1. /\ latest = items /\ catalog = batch.entries
          /\ AllTried \/ (batch.failFast /\ SomeFailed)
          /\ \A i, j \in DOMAIN batch.entries :
                IdOf[batch.entries[i]] = IdOf[batch.entries[j]] => i = j
      BY <1>1 DEF LoopInv, CatalogInv, IdsAreUnique
    <2>2. /\ items \in Seq(Item) /\ batch.entries \in Seq(Entry) /\ batch.selected \in Seq(Entry)
          /\ e \in Entry
      BY <1>1, <2>1 DEF TypeOK, BatchRecord
    <2>3. \A i \in DOMAIN items :
            /\ i \in DOMAIN batch.selected /\ items[i].entry = batch.selected[i]
            /\ outcome[items[i].entry] = items[i].status /\ items[i].status # "untried"
      BY <1>1, <2>2, ItemFields DEF LoopInv
    <2>4. \A i \in DOMAIN items : IdOf[items[i].entry] = IdOf[e] => items[i].entry = e
      <3> TAKE i \in DOMAIN items
      <3>1. PICK m \in DOMAIN batch.entries : items[i].entry = batch.entries[m]
        BY <1>1, <2>3 DEF CatalogInv
      <3>2. QED
        BY <1>1, <2>1, <3>1
    <2>5. own = {i \in DOMAIN items : items[i].entry = e}
      BY <2>1, <2>4
    <2>6. \A i, j \in own : i = j
      BY <1>1, <2>3, <2>5 DEF CatalogInv, IsInjective
    <2>7. own \subseteq Nat
      BY <2>2, <2>5
    <2>8. own = {} <=> outcome[e] = "untried"
      BY <1>1, <2>2, <2>3, <2>5 DEF LoopInv
    <2>9. own # {} => Status(e) = outcome[e]
      <3> SUFFICES ASSUME own # {} PROVE Status(e) = outcome[e]
        OBVIOUS
      <3> DEFINE last == CHOOSE i \in own : \A m \in own : m <= i
      <3>1. PICK i \in own : \A m \in own : m <= i
        <4>1. PICK i \in own : TRUE
          OBVIOUS
        <4>2. \A m \in own : m = i /\ m <= i
          BY <2>6, <2>7, <4>1
        <4>3. QED
          BY <4>1, <4>2
      <3>2. last \in own
        BY <3>1
      <3>3. Status(e) = latest[last].status
        BY DEF Status
      <3> HIDE DEF last
      <3>4. QED
        BY <2>1, <2>3, <2>5, <3>2, <3>3
    <2>10. own = {} => Status(e) = "discovered"
      BY DEF Status
    <2>11. ASSUME e \in ToSet(batch.selected), outcome[e] = "untried"
           PROVE  batch.failFast /\ \E f \in ToSet(batch.selected) : outcome[f] = "failed"
      <3>1. PICK i \in DOMAIN batch.selected : batch.selected[i] = e
        BY <2>11 DEF ToSet
      <3>2. i \notin DOMAIN items
        BY <2>3, <2>11, <3>1
      <3>3. Len(items) # Len(batch.selected)
        BY <2>2, <3>1, <3>2
      <3>4. batch.failFast /\ SomeFailed
        BY <2>1, <3>3 DEF AllTried
      <3>5. PICK m \in DOMAIN items : items[m].status = "failed"
        BY <3>4 DEF SomeFailed
      <3>6. items[m].entry \in ToSet(batch.selected) /\ outcome[items[m].entry] = "failed"
        BY <2>3, <3>5 DEF ToSet
      <3>7. QED
        BY <3>4, <3>6
    <2> HIDE DEF own
    <2>12. QED
      BY <2>8, <2>9, <2>10, <2>11
  <1>2. IInv => BatchIsAccountedFor
    BY <1>1 DEF IInv, BatchIsAccountedFor
  <1>3. QED
    BY Invariance, <1>2, PTL
=============================================================================
