----------------------------- MODULE Ingestion -----------------------------
(***************************************************************************)
(* Ingestion of manuals into the vector index (app/ingestion/service.py    *)
(* with crawler.py, embedding_cache.py and vector_store.py): crawl the     *)
(* pages of one manual, turn them into chunks, embed what the index does   *)
(* not hold, upsert it batch by batch and delete what has gone.  One run   *)
(* is active at a time; it may break at every await, by an exception or a  *)
(* crash, and its local state is then lost while files, cache and index    *)
(* stay.                                                                   *)
(*                                                                         *)
(* A page has one chunk.  The id of a chunk is the hash of its manual,     *)
(* page and text, so the chunk stands for it; a vector is known by the     *)
(* text that was embedded; an etag, by the text it was sent with.          *)
(***************************************************************************)
EXTENDS Naturals, FiniteSets, Sequences, SequencesExt

CONSTANTS
    Manual, Page,
    Text,           \* the texts pages have, without manual and vehicle
    SnapshotOf,     \* data.snapshot_id of each manual
    BatchSize,      \* embedding.batch_size
    MaxChanges,     \* bound: changes of the web site
    MaxFaults,      \* bound: failed fetches and broken runs
    Unlisted, NoFile, NoVector

ASSUME IngestionAssumption ==
    /\ IsFiniteSet(Page)
    /\ BatchSize \in Nat \ {0} /\ MaxChanges \in Nat /\ MaxFaults \in Nat
    /\ {Unlisted, NoFile, NoVector} \intersect Text = {}
    /\ Unlisted # NoFile

Chunk == [manual : Manual, page : Page, text : Text]

VARIABLES
    site,        \* site[m][p]: text of the page, or Unlisted in the menu
    raw,         \* raw[m][p]: text of the local file, or NoFile
    recorded,    \* recorded[m][p]: etag of the last "ok" line of manifest.jsonl
    cache,       \* cache[t]: the cached vector of a text, or NoVector
    index,       \* index[c]: the vector stored with chunk c, or NoVector
    pc,          \* what the run awaits
    manual,      \* the manual of the run
    incremental, \* data.incremental, FALSE for a forced run
    revalidate,  \* data.revalidate_remote
    menu,        \* pages listed when the run read the index page
    tofetch,     \* pages of the menu still to be fetched
    records,     \* pages fetched by this run and not recorded yet
    wanted,      \* chunks parsed from the local files
    pending,     \* chunks to upsert, in order
    vectors,     \* vectors of the next batch
    stale,       \* chunks to delete
    report,      \* the figures of the report
    clean,       \* the run revalidates and has met no fault, change or unrecorded file
    changes, faults

webVars == <<site, changes>>
fileVars == <<raw, recorded>>
storeVars == <<cache, index>>
scopeVars == <<manual, incremental, revalidate>>
crawlVars == <<menu, tofetch, records>>
planVars == <<wanted, pending, vectors, stale, report>>
vars == <<webVars, fileVars, storeVars, pc, scopeVars, crawlVars, planVars,
          clean, faults>>

Indexed == {c \in Chunk : index[c] # NoVector}

EmptyReport == [before |-> 0, reused |-> 0, embedded |-> 0, hits |-> 0,
                upserted |-> 0, deleted |-> 0]

Init ==
    /\ site \in [Manual -> [Page -> Text \union {Unlisted}]]
    /\ raw = [m \in Manual |-> [p \in Page |-> NoFile]]
    /\ recorded = raw
    /\ cache = [t \in Text |-> NoVector]
    /\ index = [c \in Chunk |-> NoVector]
    /\ pc = "idle"
    /\ manual \in Manual /\ incremental = TRUE /\ revalidate = TRUE
    /\ menu = {} /\ tofetch = {} /\ records = {}
    /\ wanted = {} /\ pending = <<>> /\ vectors = <<>> /\ stale = {}
    /\ report = EmptyReport
    /\ clean = FALSE
    /\ changes = 0 /\ faults = 0

-----------------------------------------------------------------------------
(* The publisher changes, lists or removes a page.                         *)
SiteChanges(m, p) ==
    /\ changes < MaxChanges /\ changes' = changes + 1
    /\ \E body \in (Text \union {Unlisted}) \ {site[m][p]} :
        site' = [site EXCEPT ![m][p] = body]
    /\ clean' = (clean /\ m # manual)
    /\ UNCHANGED <<fileVars, storeVars, pc, scopeVars, crawlVars, planVars, faults>>

(* A run starts and reads the menu of its manual.                          *)
StartRun ==
    /\ pc \in {"idle", "done"}
    /\ manual' \in Manual /\ incremental' \in BOOLEAN /\ revalidate' \in BOOLEAN
    /\ menu' = {p \in Page : site[manual'][p] # Unlisted}
    /\ tofetch' = menu'
    /\ records' = {}
    /\ clean' = (revalidate' /\ \A p \in Page :
                    raw[manual'][p] \in {NoFile, recorded[manual'][p]})
    /\ pc' = "crawl"
    /\ wanted' = {} /\ pending' = <<>> /\ vectors' = <<>> /\ stale' = {}
    /\ report' = EmptyReport
    /\ UNCHANGED <<webVars, fileVars, storeVars, faults>>

(* Faulty: a page that has a file is never fetched again.                  *)
SkippedWhenPresent(p) == raw[manual][p] # NoFile

Skipped(p) == raw[manual][p] # NoFile /\ ~revalidate

(* The server answers 304: the etag sent is that of its page.              *)
NotModified(p) ==
    raw[manual][p] # NoFile /\ recorded[manual][p] = site[manual][p]

(* One fetch_topic call that ends well.  A page unlisted meanwhile is gone.*)
Fetch(p) ==
    /\ pc = "crawl" /\ p \in tofetch
    /\ tofetch' = tofetch \ {p}
    /\ \/ Skipped(p) /\ UNCHANGED <<raw, records>>
       \/ /\ ~Skipped(p) /\ site[manual][p] # Unlisted
          /\ raw' = [raw EXCEPT ![manual][p] =
                        IF NotModified(p) THEN @ ELSE site[manual][p]]
          /\ records' = IF NotModified(p) THEN records ELSE records \union {p}
    /\ UNCHANGED <<webVars, recorded, storeVars, pc, scopeVars, menu, planVars,
                   clean, faults>>

(* Faulty: the file is opened for writing before the page is there.        *)
FailFetchTruncating(p) ==
    /\ pc = "crawl" /\ p \in tofetch /\ ~Skipped(p)
    /\ IF site[manual][p] = Unlisted
          THEN UNCHANGED faults
          ELSE faults < MaxFaults /\ faults' = faults + 1
    /\ tofetch' = tofetch \ {p}
    /\ raw' = [raw EXCEPT ![manual][p] = NoFile]
    /\ clean' = FALSE
    /\ UNCHANGED <<webVars, recorded, storeVars, pc, scopeVars, menu, records, planVars>>

(* All retries failed: the failure is noted and the old file stays.        *)
FailFetch(p) ==
    /\ pc = "crawl" /\ p \in tofetch /\ ~Skipped(p)
    /\ IF site[manual][p] = Unlisted
          THEN UNCHANGED faults
          ELSE faults < MaxFaults /\ faults' = faults + 1
    /\ tofetch' = tofetch \ {p}
    /\ clean' = FALSE
    /\ UNCHANGED <<webVars, fileVars, storeVars, pc, scopeVars, menu, records, planVars>>

-----------------------------------------------------------------------------
(* The chunks of the pages that have a file.                               *)
Parsed == {c \in Chunk : c.manual = manual /\ c.page \in menu
                            /\ c.text = raw[manual][c.page]}

(* Indexed chunks of this snapshot that were not parsed.                   *)
Stale(parsed) ==
    {c \in Indexed : SnapshotOf[c.manual] = SnapshotOf[manual]} \ parsed

(* The crawl is over: its records go to the manifest, the files are parsed *)
(* and the run is planned.  A manual without a single chunk ends the run.  *)
PlanRun ==
    /\ pc = "crawl" /\ tofetch = {}
    /\ recorded' = [recorded EXCEPT ![manual] =
                       [p \in Page |-> IF p \in records THEN raw[manual][p] ELSE @[p]]]
    /\ records' = {}
    /\ IF Parsed = {}
          THEN pc' = "idle" /\ UNCHANGED planVars
          ELSE LET toUpsert == IF incremental THEN Parsed \ Indexed ELSE Parsed IN
               /\ pc' = "embed"
               /\ wanted' = Parsed
               /\ pending' = SetToSeq(toUpsert)
               /\ vectors' = <<>>
               /\ stale' = IF incremental THEN Stale(Parsed) ELSE {}
               /\ report' = [EmptyReport EXCEPT
                                !.before = Cardinality(Indexed),
                                !.reused = Cardinality(Parsed \ toUpsert)]
    /\ UNCHANGED <<webVars, raw, storeVars, scopeVars, menu, tofetch, clean, faults>>

Batch == SubSeq(pending, 1, IF Len(pending) < BatchSize THEN Len(pending) ELSE BatchSize)

(* The texts of a batch the cache does not know.                           *)
Missing(batch) == {batch[i].text : i \in DOMAIN batch} \intersect
                      {t \in Text : cache[t] = NoVector}

(* Faulty: the cached vectors, then the new ones.                          *)
ResolvedApart(batch, known) ==
    LET Cached(c) == c.text \notin Missing(batch)
        New(c) == c.text \in Missing(batch)
        both == SelectSeq(batch, Cached) \o SelectSeq(batch, New)
    IN  [i \in DOMAIN both |-> known[both[i].text]]

(* Faulty: equal texts of a batch share one vector.                        *)
ResolvedOncePerText(batch, known) ==
    SetToSeq({known[batch[i].text] : i \in DOMAIN batch})

(* One vector for each chunk, by its key in the cache.                     *)
Resolved(batch, known) == [i \in DOMAIN batch |-> known[batch[i].text]]

WithoutStale == [c \in Chunk |-> IF c \in stale THEN NoVector ELSE index[c]]

(* Faulty: the stale chunks are deleted before the batches.                *)
EmbedAfterDeleting ==
    /\ pc = "embed" /\ pending # <<>>
    /\ index' = WithoutStale
    /\ cache' = [t \in Text |-> IF t \in Missing(Batch) THEN t ELSE cache[t]]
    /\ vectors' = Resolved(Batch, cache')
    /\ report' = [report EXCEPT !.embedded = @ + Cardinality(Missing(Batch)),
                                !.hits = @ + Len(Batch) - Cardinality(Missing(Batch))]
    /\ pc' = "upsert"
    /\ UNCHANGED <<webVars, fileVars, scopeVars, crawlVars, wanted, pending, stale,
                   clean, faults>>

(* The missing texts are embedded in a worker thread and cached.           *)
Embed ==
    /\ pc = "embed" /\ pending # <<>>
    /\ cache' = [t \in Text |-> IF t \in Missing(Batch) THEN t ELSE cache[t]]
    /\ vectors' = Resolved(Batch, cache')
    /\ report' = [report EXCEPT !.embedded = @ + Cardinality(Missing(Batch)),
                                !.hits = @ + Len(Batch) - Cardinality(Missing(Batch))]
    /\ pc' = "upsert"
    /\ UNCHANGED <<webVars, fileVars, index, scopeVars, crawlVars, wanted, pending,
                   stale, clean, faults>>

WithBatch ==
    [c \in Chunk |->
        IF \E i \in DOMAIN Batch : Batch[i] = c
        THEN vectors[CHOOSE i \in DOMAIN Batch : Batch[i] = c]
        ELSE index[c]]

Upsert ==
    /\ pc = "upsert"
    /\ index' = WithBatch
    /\ pending' = SubSeq(pending, Len(Batch) + 1, Len(pending))
    /\ report' = [report EXCEPT !.upserted = @ + Len(Batch)]
    /\ vectors' = <<>>
    /\ pc' = "embed"
    /\ UNCHANGED <<webVars, fileVars, cache, scopeVars, crawlVars, wanted, stale,
                   clean, faults>>

(* The batches are done: the stale chunks are deleted, the index counted   *)
(* and the report returned.                                                *)
Finish ==
    /\ pc = "embed" /\ pending = <<>>
    /\ index' = WithoutStale
    /\ report' = [report EXCEPT !.deleted = Cardinality(stale)]
    /\ pc' = "done"
    /\ UNCHANGED <<webVars, fileVars, cache, scopeVars, crawlVars, wanted, pending,
                   vectors, stale, clean, faults>>

(* The run breaks at an await.  The store may have done what it was asked. *)
Break ==
    /\ pc \in {"crawl", "embed", "upsert"}
    /\ faults < MaxFaults /\ faults' = faults + 1
    /\ index' \in {index} \union (IF pc = "upsert" THEN {WithBatch} ELSE {})
                          \union (IF pc = "embed" /\ pending = <<>> THEN {WithoutStale} ELSE {})
    /\ pc' = "idle"
    /\ clean' = FALSE
    /\ UNCHANGED <<webVars, fileVars, cache, scopeVars, crawlVars, planVars>>

RunStep ==
    \/ \E p \in Page : Fetch(p) \/ FailFetch(p)
    \/ PlanRun \/ Embed \/ Upsert \/ Finish \/ Break

Next == RunStep \/ StartRun \/ \E m \in Manual, p \in Page : SiteChanges(m, p)

Spec == Init /\ [][Next]_vars
-----------------------------------------------------------------------------
Count == [before : Nat, reused : Nat, embedded : Nat, hits : Nat,
          upserted : Nat, deleted : Nat]

(* The state's types; each chunk of a batch being upserted has its vector. *)
TypeOK ==
    /\ site \in [Manual -> [Page -> Text \union {Unlisted}]]
    /\ raw \in [Manual -> [Page -> Text \union {NoFile}]]
    /\ recorded \in [Manual -> [Page -> Text \union {NoFile}]]
    /\ cache \in [Text -> Text \union {NoVector}]
    /\ index \in [Chunk -> Text \union {NoVector}]
    /\ pc \in {"idle", "crawl", "embed", "upsert", "done"}
    /\ manual \in Manual /\ incremental \in BOOLEAN /\ revalidate \in BOOLEAN
    /\ tofetch \subseteq menu /\ records \subseteq menu /\ menu \subseteq Page
    /\ wanted \subseteq Chunk /\ stale \subseteq Chunk
    /\ pending \in Seq(Chunk) /\ vectors \in Seq(Text)
    /\ pc = "upsert" => Len(vectors) = Len(Batch)
    /\ report \in Count /\ clean \in BOOLEAN

(* A chunk is only ever stored with the vector of its own text, though the *)
(* vectors of a batch come partly from the cache and partly from the model.*)
VectorsMatch ==
    /\ \A c \in Indexed : index[c] = c.text
    /\ \A t \in Text : cache[t] \in {NoVector, t}

(* After an incremental run the index holds exactly what the run parsed of *)
(* its manual, whatever earlier runs left behind in the index.  What it    *)
(* parsed is the manual as published only if the run is clean: it asked    *)
(* the site for every page, nothing changed or failed meanwhile, and every *)
(* file it found had its record.  A file newer than its record is outside  *)
(* this: it is the matter of FetchedPagesAreRecorded.  The figures of the  *)
(* report agree with each other and with the index.                        *)
SyncedWhenDone ==
    pc = "done" =>
        /\ wanted \subseteq Indexed
        /\ incremental => {c \in Indexed : c.manual = manual} = wanted
        /\ clean => {[page |-> c.page, text |-> c.text] : c \in wanted} =
                    {[page |-> p, text |-> site[manual][p]] :
                        p \in {q \in Page : site[manual][q] # Unlisted}}
        /\ report.embedded + report.hits = report.upserted
        /\ report.reused + report.upserted = Cardinality(wanted)
        /\ incremental =>
            Cardinality(Indexed) = report.before + report.upserted - report.deleted

(* Every indexed chunk comes from a page that still has a file, so a site  *)
(* that cannot be reached costs no page its place in the index.            *)
IndexIsBacked == \A c \in Indexed : raw[c.manual][c.page] # NoFile

(* New chunks are stored before old ones are deleted: when something       *)
(* leaves the index, the run has nothing left to store and all it wants is *)
(* there, so that a query meanwhile finds the old or the new of every page *)
(* (service.py:142-182).                                                   *)
StoredBeforeDeleted ==
    [][(\E c \in Indexed : index'[c] = NoVector)
            => pending' = <<>> /\ wanted' \subseteq Indexed']_vars

(* A run deletes chunks of its own manual only: the manual and its         *)
(* snapshot are the boundary of what an ingestion may touch.               *)
OtherManualsUntouched ==
    [][\A c \in Indexed : index'[c] = NoVector => c.manual = manual]_vars

(* What TECHNICAL_DESIGN.md:80 says of the crawler, that each page is      *)
(* written to manifest.jsonl as soon as it is fetched, so that a crawl can *)
(* be resumed: no run leaves a file without its record behind.             *)
FetchedPagesAreRecorded ==
    pc # "crawl" => \A m \in Manual, p \in Page : raw[m][p] \in {NoFile, recorded[m][p]}
=============================================================================
