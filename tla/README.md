# Verification of the manual RAG service

TLA+ models of the service in `src/`: a question-answering service over car
manuals (FastAPI, Qdrant or an in-memory store, local embedding and reranking
models, an OpenAI-compatible generator) with an offline ingestion pipeline that
crawls, parses, embeds and indexes the manuals. TLC checks each model on small
instances; TLAPS proves the properties that matter most for every value of the
constants.

Every definition is translated from the source; `PROJECT.json` maps each to the
lines it stands for. Definitions whose comment starts with "Faulty" belong to no
specification: each is a plausible bug of the definition next to it, and shows
that a property would notice it.

## 1. The system

| Component | State | Operations | Interacts with |
|---|---|---|---|
| Trace store (`app/tracing/store.py`) | a dictionary of traces: events, status, `updated_at`; one lock | create, append, complete, fail, get, events_after, expiry, eviction | the API creates, reads and closes; the recorder appends |
| Trace recorder (`recorder.py`, `serializers.py`) | context variables | `emit_trace` | called by retrieval and strategies, partly from worker threads |
| HTTP API (`app/api/main.py`) | background tasks, one import task, `data.incremental` | `/v1/chat`, `/v1/retrieve`, `/v1/traces`, `/events` (SSE), `/v1/manuals/import` | everything |
| RAG strategies (`app/rag/`) | the course of one question | vanilla, self, agentic, graph | retriever, evidence selector, controller, generator, recorder |
| Retrieval (`app/retrieval/`) | BM25 index, local models loaded lazily | query processing, dense and sparse search, fusion, reranking, evidence selection | vector store, models |
| Local models (`embedder.py`, `reranker.py`) | the model object, one lock | double-checked load, inference | worker threads of concurrent requests |
| Generation (`app/generation/`) | none | generate, repair citations | an external provider |
| Ingestion (`app/ingestion/`) | files, manifest, embedding cache, collection | crawl, parse, chunk, embed, upsert, delete | web site, vector store |
| Batch ingestion (`batch_service.py`) | catalog, progress and report files | one ingestion per manual, fail-fast | ingestion; `/v1/manuals` reads the catalog |
| Settings, registry, wiring | none after the start | inheritance of configuration files, construction | all |
| Evaluation and experiments | files | F1@k, MRR@k, judging, a suite of runs | HTTP API |

What is hard here, and what makes each part correct:

- **Traces.** A background task, lookups, expiry, eviction and event streams meet
  on one store. Correct means: an event stream delivers 1, 2, 3, ... across
  disconnects and resumptions, ends only when all of a closed trace is sent, a
  closed trace is final, the store stays within its limits, and every request
  and stream comes to an end.
- **Answers.** Two language models steer the control flow with whatever they
  return, and any call may fail. Correct means: an answer is a refusal that
  cites nothing, or is grounded in the evidence it returns; the work is bounded;
  the evidence follows its policy; and the published answer is the returned one.
- **Local models.** Worker threads share objects that are not thread-safe and
  take long to construct. Correct means: one thread at a time, constructed once,
  never used unconstructed, and no deadlock when construction fails.
- **Ingestion.** Three stores without transactions (files and manifest, cache,
  collection) and a site that changes; runs break anywhere. Correct means: a
  later run repairs what an earlier one left, nothing still wanted disappears,
  other manuals are untouched, vectors belong to their chunks.
- **The crawler.** Coroutines share a rate limiter that sleeps inside its lock and
  a semaphore that is held during retries and back-off. Correct means: requests
  keep their distance, a crawl ends, a page that fails stops no other and keeps
  the file it had, and one that is not reported as failed has a file.
- **Retrieval.** Several searches, each filtered in its own way, meet in one
  ranking, and two of them read the collection page by page while an ingestion
  changes it. Correct means: nothing from outside the filter comes back, a scroll
  misses nothing that stays, an order follows from what was found, and it ends.
- **Imports and batches.** Jobs share a settings object that one of them switches;
  a batch in another process writes to the same collection and leaves files that
  the API joins. Correct means: each run works in the mode it was asked for, runs
  on different snapshots leave each other alone, the listing tells what became of
  a batch, and a job ends, or no other could ever start.
- **Experiments.** Configurations inherit from each other; an evaluation exits
  with 0 although cases failed. Correct means: an experiment has the id its chain
  gives it, and what is called completed is complete.

`PROJECT.json` lists the hazards with their lines and the properties that would
catch each.

## 2. The modules

```
TraceStore <--EXTENDS-- TraceApi <- MCTraceApi, TraceApiProofs (which also proves about TraceStore alone)
AnswerContract <--INSTANCE-- RagAnswer <- MCRagAnswer, RagAnswerProofs
LazyModel <- LazyModelProofs               Search <- MCSearch, SearchProofs
Ingestion <- MCIngestion, IngestionProofs  Crawl <- MCCrawl, CrawlProofs
Imports <- MCImports, ImportsProofs        Experiments <- MCExperiments, ExperimentsProofs
```

### TraceStore: `app/tracing/store.py`

Every method of the store runs under one lock, so every method is an action:
`Create` (expire, evict the oldest, insert), `AppendEvent`, `Close` (complete and
fail, which accept any status), `Get` (expire, look up), and the read
`events_after`, of which `LastSeq` and `status` are the result. `_cleanup_locked`
is `Unexpired`, the eviction loop `Survivors`. Random trace ids are the numbers
in order of creation; `updated_at` is an age in ticks that stops at TTL + 1, the
first age at which a trace is expired. `StoreSpec` calls the methods in any order;
the proofs use it.

### TraceApi: the traced requests, `app/api/main.py` 109-199

Composes the store with its users. A coroutine runs undisturbed between two
awaits, so each such segment is one action. `task[t]` is the background task of
trace t (`Emit`, `PipelineRaises`, `Answered`, `HandleFailure`). Retrieval emits
from a worker thread, so a single `Emit` interleaves with everything else.
`conn`, `watched`, `cursor`, `batch` are the generator behind the SSE response
(`Poll` is one turn up to its first yield or break; `Yield` sends one event;
`PollGone` is the `KeyError` of `events_after`). `wire` and `seen` are the
connection and the client: it delivers in order, and what is on its way is lost
when it breaks (`Disconnect`). A client may resume with the last id it received,
which the endpoint takes from `Last-Event-ID`, or start over (`OpenStream`). The trace
console does neither: on an error it closes its stream and fetches the snapshot.

### LazyModel: `app/retrieval/embedder.py` 38-67, `reranker.py`

One `pc` per worker thread walks through the double-checked load and the
inference, each a `with` block on the one non-reentrant lock. Construction may
fail at any time.

### AnswerContract and RagAnswer: `app/rag/`, `app/retrieval/evidence.py`

`AnswerContract` is what a caller may rely on, with one variable: a question is
pending, and then fails or has an answer that is either a refusal that cites
nothing or grounded, with citations that number its own evidence. `RagAnswer` is one question under the four strategies: `RetrieveOnce` for vanilla and graph,
`SelfRetrieve`/`AssessEvidence`/`Rewrite`/`RetrieveAgain`/`Veto` for Self-RAG,
`Plan`/`AgentRetrieve` for Agentic RAG, then for all of them `Consider` (one
candidate of the greedy evidence selection), `Generate` and `RepairCitations`
with `Judge`. A text is the set of numbers it cites, a candidate its chunk and
score. Retrievers, controllers and generators are external: whatever they may
return is possible, and any await may raise (`Raise`). `KeepsContract` says that
`RagAnswer` implements `AnswerContract`, the outcome being the answer when the
strategy has returned.

### Ingestion: `app/ingestion/service.py`, `crawler.py`, `embedding_cache.py`

Runs of `IngestionService.run`, one at a time, over a site that changes: fetching
with conditional requests (`Fetch`, `FailFetch`), `PlanRun` (records to the
manifest, parsing, comparison with the index), `Embed` and `Upsert` per batch,
`Finish` (deletion, report), and `Break`, the exception, cancellation or death of
the process at any await, after which files, cache and collection stay as they
are and the next run starts from them. The store may or may not have carried out
the call the run was waiting for. A page has one chunk; its content-derived id
is the chunk itself, and a vector or an etag is the text it was made from.

### Crawl: `app/ingestion/crawler.py` over time

`Ingestion` takes the fetching of a page for one step; `Crawl` is what happens in
it. `pc[f]` is what the coroutine of a page (or of the index page) awaits: the
semaphore ("queue"), the limiter's lock ("limit"), its sleep inside the lock
("paced"), the reply ("sent") or the end of a back-off ("backoff"); the code in
between is one action. Time is what is left of each delay: `sleep[f]`, and
`cooldown` for `_next_allowed` minus now. `quiet` measures the time since the last
request, independently of the limiter. A coroutine may be woken later than its
sleep ends, as nothing forces it to run before the next `Tick`. A crawl returns
(`EndCrawl`), or raises without the index page (`IndexFails`) or when its records
cannot be written (`ManifestFails`); `had` is a history variable, the files it found. `Backoff` is a
table, so that the proofs hold for any; `MCCrawl` gives it the code's `0.5 * 2^n`
seconds with a tick of half a second. Redirects, which httpx follows by itself
and past the limiter, and the menu parser are left out. The contents of files,
their versions and crashes are in `Ingestion`.

### Search: `app/retrieval/`, `app/rag/graph_rag.py`

One retrieval beside an ingestion. `request` is the retriever and the filter;
`pc` is the call the retrieval makes next. `PlanQueries` stands for the seven
processors: what each may produce (`RuleQueries`, `RewrittenQueries`,
`PlannedQueries`), refused if blank, cut and without repetitions. Each query is
then searched: `DenseSearch`, one call of the store; `ScrollPage`, one turn of the
loop in `all_chunks`, from `offset` on; `ScoreSparse`, BM25 over what was read and,
in a hybrid search, the fusion of the two rankings. `FuseQueries` fuses the rankings
of the queries by reciprocal ranks, `Rerank` orders and cuts. The graph retriever
reads the collection as well (`LoadGraph`), takes seeds by their words, and adds
the chunks that follow or precede them in the same topic or section of the same
manual (`ExpandGraph`). `Upserted` and `Deleted` are single points of an ingestion,
between any two calls. What models find similar is open: a search may return its
chunks in any order, the reranker too. Scores of the fusion are exact: `Scale` is a
common multiple of the denominators. The scroll is that of the Qdrant store; the
in-memory store returns everything in one step, which is the special case of one
page. `RaiseAndRetry` and other faulty variants show what the properties catch.

### Imports: `app/api/main.py` 208-285, `batch_service.py`, `catalog.py`

Several runs of `IngestionService` on one collection. `Ingestion` has the details
of a run; here it has three stages, of which each reads or writes what it shares
with others: `Plan` (which chunks are new, which are stale, and in which mode: it
reads `data.incremental` only now), `Store` (one chunk), `Finish` (the stale go).
`run[j]` belongs to import job j, `run[Batch]` to the batch. `ImportManual` is the
request with its 409; `ConcludeJob` the end of the task with its `finally` clause;
`RestartApi` drops jobs and restores the setting. The batch goes from `StartBatch`
(the catalog is fetched and selected from; `catalog.json` is opened and `Torn`)
through `WriteCatalog`, `NextManual`, `ConcludeItem` (progress, unless a failure
stops the loop) to `WriteReport`; it may die anywhere. `Status` is what
`GET /v1/manuals` says. `alone` is a history variable: whether a run with the same
snapshot stored at the same time. A listing while `catalog.json` is torn raises and
returns nothing; no property is about it.

### Experiments: `run_experiments.py`, `settings.py`, `evaluate.py`

A suite from its configurations to its manifest. `Visit` is one call of
`_load_config_tree` on the way up the chain of `extends`, any mapping from files to
files; `LoadId` merges the sections on the way down (`Merge`). Then the suite runs
one evaluation process after another: `StartItem`, the steps of `evaluate.py` from
`SetUp` to `WriteReport` with a case that fails anywhere (`FailCase`) and an exit at
any time (`Exit`), and the verdict on it. `Kill` ends the runner.

## 3. Runs

| Run | Asks | Bounds |
|---|---|---|
| `trace_api` | Are streams complete, ordered and consistent under expiry, eviction, disconnects, does the store keep its limits, and do requests and streams end? | 3 traces on 2 places: an eviction keeps one trace and drops another, which may be the one being watched; 3 events, so a batch of several events is cut anywhere; a trace expires when a tick passes without an update; one client, since streams share nothing but the store. The first request works and is watched in full; the later ones only take up room (`FillingSpec`): each records one event, its last, or none, and is not watched |
| `trace_stuck` | violation, see section 6 | 2 events |
| `lazy_model` | Exclusion, one construction, no use before it; does every call end when the lock is not fair? | 3 threads: one loads, one waits for the lock, one is at the unlocked test; 2 calls each, so a failed load is retried |
| `rag_answer` | Contract, evidence policy, bounded work, publication, all strategies | 4 chunks of which two share a topic and two a content, so each of the selector's limits decides alone; 3 candidates for 2 pieces of evidence; scores 0..2 around the minimum 1; 1 repair; 2 agent steps |
| `search` | Do filters hold everywhere, is a scroll complete beside an ingestion, is the order justified, does it end? | 3 chunks of two manuals that share a topic and a section, pages of 2, so a scroll has a second page and loses its place; rankings of 2, so fused ones are cut; 2 queries of up to 3 planned, with repetitions and blanks |
| `ingestion` | Index, cache, files and report after any sequence of runs | one manual, 3 pages in batches of 2, so there are a full and a partial batch and repeated texts in one; one change of the site, one fault |
| `ingestion_shared`, `ingestion_records` | violations, see section 6 | two manuals with a page each, 2 changes, 2 faults; one manual |
| `imports` | Does each job run as asked, do runs disturb each other, what does the listing show, does every job end? | 3 catalog entries, of which one is the new version of another under its id, and the API's own manual with the snapshot of one of them; 4 chunks; 2 jobs beside one batch |
| `experiments` | Is a suite's every id the one its chain gives, is completed complete, does the suite end? | 3 files in any inheritance, so chains of 3 and cycles of 1 to 3; 2 experiments; 2 cases, one answerable |
| `crawl` | Do requests keep the interval, what does a crawl leave behind, does every crawl end, also for pages that wait for a slot while its owner backs off? | 3 pages for 2 slots, so one waits while two contend for the limiter; 2 attempts, an interval of 2 ticks and a back-off of 1; 2 crawls, the first into an empty directory (`FirstCrawlSpec`), the second meets the limiter and the files as the first left them |
| `crawl_batch` | violation, see section 6 | one page, 2 crawls |

Bounds that exist only in the model are `MaxRequests`, `MaxCalls`, `MaxChanges`,
`MaxFaults`, `MaxCrawls`, `MaxRaw`, `MaxJobs` and `MaxBatches`, and the overlaps 0..3 of
`Search!ExpandGraph`; every other constant is a setting of the program or what it
works on. `MaxChanges` and `MaxFaults` count the environment's moves, not the
program's: runs of ingestion are unlimited. The traces, ages, calls, jobs and batches
are bounded in guards, so no run has a state constraint. Deadlock is checked in all
runs; `Rest` is the state after the answer, the retrieval or the suite, and in
`Imports` the one in which nothing is under way.

The type invariants of `TraceStore`, `TraceApi`, `LazyModel`, `RagAnswer`, `Crawl` and
`Imports` are proved (section 5) and have no runs of their own; that of `Experiments` is a part of its inductive invariant.

What the properties say is in the comment above each of them. Some deserve a
remark:

- `EndedStreamIsComplete` depends on `events_after` reading events and status
  under one lock: a stream that saw the status first would lose the tail.
- `PublishedIsReturned` holds although Self-RAG publishes a draft before its
  support check, because a withdrawn draft is followed by a second
  `response.completed`. A reader of the trace must take the last one.
- `SyncedWhenDone` has a `clean` clause: the index equals the published manual
  when the run revalidates, nothing changed or failed during it *and no earlier run
  left a file without its record*. Without the last it is false: a crash leaves a
  new file with the old etag, the page is reverted, the server answers 304, and the
  wrong file stays. So `SyncedWhenDone` says nothing about that case; it is
  `FetchedPagesAreRecorded` that catches it. Section 6 has the cause.
- `StoredBeforeDeleted` is the order of the two loops at the end of a run. While a
  page has a new text, a query finds its old chunk or its new one, also after a
  break; deleting first (`EmbedAfterDeleting`) would leave a gap.
- `EndedMeansLocal` is about crawls that raise, too: only a crawl that knows of no page,
  since it could not get the index page, ends before each has its outcome.
- `RankingIsJustified` compares chunks that the fused lists rank differently. It says
  nothing of ties, or of the order the reranker gives.
- `IsolatedRunIsExact` speaks of runs that share their snapshot with no other. What
  two runs on one snapshot make of it, say a batch and an import of the same manual,
  is outside it, and nothing in the code keeps them apart.
- `BatchIsAccountedFor` speaks of a batch that has ended. Before its first manual is
  done, and for good if it dies before, the listing joins the new catalog with the
  progress of the batch before; nothing in the repository says what it should show.
- `IndexIsBacked` is about a site that cannot be reached: the old file is kept,
  the page still parses, so its chunks are not stale.

## 4. Fairness

`TraceApi!Fairness`: weak fairness for each background task and each stream (the
event loop runs every ready coroutine; every await of a request ends, since model
calls run to their end and provider calls have timeouts) and for each client's
reception. Nothing is assumed of time, of lookups or of disconnections, so a
trace need never expire, and `StreamEnds` names the stuck trace as the exception.

`LazyModel!FairSpec`: weak fairness for a thread's own steps: a running thread
goes on, a construction or an inference ends. The lock promises no order among
the waiting, so nothing stronger is assumed of it. Calls are finite in number
(`MaxCalls`), so what the run shows is that no thread is left waiting for a lock
nobody will release; a thread could still be overtaken by an endless series of
new calls, and the property does not claim otherwise.

`RagAnswer` needs none: `WorkRunsOut` gives every state a number and says that each
step but `Rest` lowers it. A question is answered or fails after boundedly many
steps whatever the models answer, as long as each of their calls ends; that they
end is the providers' timeouts.

`Search!FairSpec`: weak fairness of the retrieval's next step: every call ends. An
ingestion is free to store and delete points between any two of them, for ever.

`Imports!FairSpec`: weak fairness for the run of each import job: every await of a
run ends, in a result or an exception. Nothing is assumed of the batch, which an
operator may stop, or of the API's restarts.

`Experiments!FairSpec`: weak fairness of the runner and the process it waits for.
`Kill` is not fair. The runner sets no timeout for an evaluation, so that one ends
is an assumption on the calls the evaluation makes, which have timeouts.

`Crawl!Fairness`: weak fairness for each coroutine, for the crawl's own steps and
for time. Each await of a request ends, because httpx has a timeout
(`request_timeout_seconds`). Nothing is assumed of the order in which the
limiter's lock or the semaphore is granted; each coroutine asks for them a
bounded number of times.

## 5. Proofs

Every safety property that a passing run checks is also a theorem: TLAPS proves it for
every value of the constants that satisfies the named assumptions of the module. These
say that limits are natural numbers, positive where the settings require it, that
pages, chunks and configuration files are finite, that a suite names a configuration once
(as its validator demands) and a catalog a URL once (`parse_catalog` drops the others), that `Scale` is a common
multiple of the denominators, and that markers such as `NoFile` are no values
(`StoreAssumption`, `LazyAssumption`, `SettingsAssumption`,
`IngestionAssumption`, `SearchAssumption`, `CrawlAssumption`, `ImportsAssumption`,
`ExperimentsAssumption`). TLC evaluates them in every run.

| Module | Theorem | States |
|---|---|---|
| `TraceApiProofs` | `StoreTypeCorrect` | `[]StoreTypeOK`, which includes the event limit |
| | `StoreStaysBounded` | `[]StoreBounded` |
| | `StoreEvictsJustly` | `EvictionIsJustified` |
| | `TraceApiTypeCorrect` | `[]TypeOK` |
| | `DeliveredInOrder` | `[]InOrderOnce` |
| | `EndedIsComplete` | `[]EndedStreamIsComplete` |
| | `ClosedStaysClosed` | `ClosedIsFinal` |
| | `StatusTellsTheLog` | `[]StatusMatchesLog` |
| | `OnlyFullTracesAreStuck` | `[]OnlyFullTracesStick` |
| `LazyModelProofs` | `TypeCorrect` | `[]TypeOK` |
| | `InferenceIsExclusive` | `[]MutualExclusion` |
| | `ConstructedOnce` | `[]LoadedOnce` |
| | `NoModelNoInference` | `[]HaveMeansLoaded` |
| `RagAnswerProofs` | `TypeCorrect` | `[]TypeOK` |
| | `AnswersArePublished` | `[]PublishedIsReturned` |
| | `SelectionKeepsPolicy` | `[]EvidenceFollowsPolicy` |
| | `SelectionIsGreedy` | `[]BestEvidenceFirst` |
| | `AgentForgetsNothing` | `[]AgentKeepsTheBest` |
| | `QuestionsAreBounded` | `WorkRunsOut` |
| | `ContractIsKept` | `KeepsContract`: `RagAnswer` implements `AnswerContract` |
| `SearchProofs` | `TypeCorrect` | `[]TypeOK` |
| | `OnlyWhatWasAskedFor` | `[]FiltersHold` |
| | `ScrollFindsAllThatStays` | `[]ScrollIsComplete` |
| | `OrderFollowsFromWhatWasFound` | `[]RankingIsJustified` |
| `IngestionProofs` | `TypeCorrect` | `[]TypeOK` |
| | `VectorsAreTheirOwn` | `[]VectorsMatch` |
| | `NothingIndexedIsUnbacked` | `[]IndexIsBacked` |
| | `DoneIsSynced` | `[]SyncedWhenDone` |
| | `NewComesBeforeOldGoes` | `StoredBeforeDeleted` |
| | `PrivateSnapshotsIsolate` | if `SnapshotOf` is injective, `OtherManualsUntouched` |
| `CrawlProofs` | `CrawlTypeCorrect` | `[]TypeOK` |
| | `EndedIsLocal` | `[]EndedMeansLocal` |
| | `OneCrawlerKeepsTheRate` | `OneCrawler` implies `RequestsAreSpaced` |
| `ImportsProofs` | `TypeCorrect` | `[]TypeOK` |
| | `JobsRunAsAsked` | `[]RunsAsAsked` |
| | `IsolatedRuns` | `[]IsolatedRunIsExact` |
| | `BatchesAreAccountedFor` | `[]BatchIsAccountedFor` |
| `ExperimentsProofs` | `IdsComeFromTheChain` | `[]IdsAreResolved` |
| | `CompletedMeansComplete` | `[]CompletedIsEarned` |

`BatchIsAccountedFor` is about catalogs in which each id occurs once (`IdsAreUnique`). That is up
to the web site: the code checks the URLs, and the listing finds what became of an entry by
its id. `PrivateSnapshotsIsolate` is the other half of the run `ingestion_shared` (section 6):
the property fails when two manuals share a snapshot, and only then.

*The store.* `StoreTypeOK` is inductive; the capacity follows from
`SurvivorsFit`: what the eviction loop leaves plus the new trace fits. The
eviction property needs the order of ids: a survivor is younger than everything
that was dropped.

*Traced requests.* Neither `InOrderOnce` nor `EndedStreamIsComplete` is inductive.
The invariant `IInv` adds `TasksOpen` and `StreamsFollow`. `TasksOpen`: a trace
whose task is under way is running or gone, since the task closes it in the
segment in which it ends. `complete` and `fail` would reopen nothing but would
overwrite anything, so this order of calls is what makes a closed trace final.
`StreamsFollow`: what a client has received counts from 1, what is on its way
continues it, both end at the stream's cursor, and the cursor never passes the
log. The proof goes once over what a step does to one trace (`TraceChange`: it is
kept, grows while running, goes, or is born), then once over whose stream it
concerns (`StreamsChange`). A stream that rests keeps its part of the invariant
by the first; the six stream actions have a lemma each.
`StatusMatchesLog` and `OnlyFullTracesStick` are about the end of a trace's list of
events. `Tale` says what a step does to one trace in that respect: it is opened, left
alone, worked on by its task, or collapses, by appending "failed" and closing; each
property is inductive relative to `IInv` by one case for each.

*Lazy loading.* The invariant relates the program counter to the lock: a thread
inside a `with` block holds it.

*Answers.* The invariant follows the course of a question. `PathInv` and `DraftInv` say
which strategy may be where and how often it has called out by then, which makes
`Work`, the number of `WorkRunsOut`, go down. `SelectionInv` is the loop invariant of the
greedy selection: what is left is no better than what was considered, and the evidence is
of the latter. `BestEvidenceFirst` is inductive only with it: a candidate that is passed
over stays excluded, as the limits only get tighter when evidence is added.
`AnswerInv` relates the answer to the evidence and to what was published last, and
`FetchedInv` the agent's candidates to all that it was ever given. For the refinement,
every action either leaves the mapped outcome pending (`Draw` and the cases of
`ContractIsKept`) or ends with an answer that `AnswerInv` says the contract allows.

*Retrieval.* `ListsInv`: every list is without repetition, of chunks that the filter
admits, and those that are fused are short enough for the rank constant. `ScrollInv` is
the loop invariant of the scroll: what it has read lies before the offset, and all that
lies there, matches and was there throughout has been read; chunks that an ingestion
stores behind the offset are not owed. `RankingIsJustified` compares sums of
reciprocal ranks: if some list has c ahead of d and none has d ahead of c, each summand
of c is at least that of d and one is larger (`SumsCompare`), so c comes first and the cut
cannot keep d alone (`FusionAgrees`). For the graph, half the weight of a
seed is below that seed's own, and if TopK seeds lie before a chunk's own seed there is no
place left for the chunk (`NoRoom`).

*Ingestion.* `StoreInv` is about what runs leave behind. `PlanInv` and `BatchInv` say what
is still to be done: each chunk the run wants is indexed or pending, once; each indexed
chunk of the manual that it does not want is stale; and a batch has the vectors of its own
texts. `SyncedWhenDone` follows at `Finish`, where nothing is pending, and so does
`StoredBeforeDeleted`: only the deletion at the end of a run takes something out of the
index (`OnlyStaleLeaves`), when `PlanInv` leaves no wanted chunk but in the index. Its clause on
undisturbed runs needs `CleanInv`: the file of a page that has been fetched is the
published one, and one that has not been is absent or what the record's etag stands for,
so that a 304 is never about another text. That is what a crash between file and
record takes away (section 3, on `clean`).

*Experiments.* `LoadInv`: the chain follows `extends` from the file that is loaded and has no
file twice. Since the files are finite, so is the chain, and three facts about `Up`, the
generations above a file, give `IdsAreResolved`: they are the chain's files (`ChainIs`),
above the last nothing changes (`NothingAbove`), and a chain that comes back to one of its
files never leaves them (`CycleHasNoRoot`), so only a file without an id is ever
refused. That the fold of `_deep_merge` yields the id of the nearest file with a say is
`EffectiveIsTold`, by induction along the chain. `SuiteInv` and `EvalInv` relate the items to
what was measured and the figures of an evaluation to the cases it has dealt with: as
long as no case has failed, all of them are there.

*Induction over data.* Sums of scores (`Search`), generations and folds (`Experiments`) and
sequences made from sets are recursive definitions, which the provers
cannot unfold for every input. Their proofs use `SetInduction`, induction with a set in the
place of the predicate, which follows from the natural numbers being well founded; that
the recursive function exists is proved the same way (`UpExists`, `MergeExists`).

*The crawler.* `LimiterHolds` relates the limiter to the real distance of requests:
`quiet + cooldown >= Interval`, and whoever sleeps inside the lock sleeps no
shorter than the cooldown. Only the lock makes this inductive: `Send` raises the
cooldown, which would break it for a second sleeper. `InTurn` (pages run only
after the index page, no coroutine outlives its crawl) and `Accounted` (a listed
page without an outcome still has its coroutine, none is listed before the index page
arrived, no file goes) give `EndedMeansLocal`.

*Imports.* Neither property is inductive. `JobsInv`: at most one job is running; what
it will give back is what the configuration says, and the setting is what it asked
for as long as it runs. The gate makes it inductive: a second job would remember
the first one's setting as the one to give back. `RunsInv`: what a run has parsed is
of its source, what it holds for stale is of its snapshot and not parsed; two runs
that store on one snapshot both know it; and one that is alone finds what it has
stored in the collection, and nothing of its snapshot there that it did not parse or
hold for stale. A step of another run cannot break the last: what it stores or
deletes is of its own snapshot. `BatchIsAccountedFor` needs `CatalogInv` and `LoopInv`:
the selected entries are of the catalog on disk, and the items of the progress are the
first of the selection, in order, each with its outcome; so the batch is done
when all are tried or after the failure that was to stop it.

Only model-checked: the liveness properties `RequestEnds`, `StreamEnds`, `TailIsDelivered`,
`CallsEnd`, `CrawlEnds`, `SearchEnds`, `JobsEnd` and `SuiteEnds`. They rest on
fairness, hence on ENABLED, which this prover cannot reason about. For a question,
`WorkRunsOut` takes their place and is proved.

## 6. Where the code and its documentation disagree

- `trace_stuck`: the `except` clause of `run_trace` (`main.py:141-148`) emits
  `request.failed` and then calls `store.fail`. If the pipeline failed because
  the trace is full, that emit raises again, `fail` is never reached, and the
  trace stays "running" until it expires, its streams polling on. The run needs
  nothing but a trace that reaches `max_events_per_trace`. `OnlyFullTracesStick`
  shows that this is the only way in.
- `ingestion_shared`: stale chunks are looked up by `snapshot_id` alone
  (`service.py:133`) in a collection shared by all manuals. The snapshot id comes
  from the manual's URL and nothing keeps two manuals from having the same one;
  then an incremental run of one deletes the chunks of the other.
  `IsolatedRunIsExact` (run `imports`, theorem `IsolatedRuns`) shows that snapshots of
  their own suffice: chunks only go by a run on their snapshot.
- `ingestion_records`: `docs/TECHNICAL_DESIGN.md:80` says that each page goes to
  `manifest.jsonl` as soon as it is fetched. The crawler appends the records of
  all pages after the last one (`crawler.py:279`).
- `crawl_batch`: `docs/TECHNICAL_DESIGN.md:79` promises no more than two requests
  a second globally. The limiter belongs to a crawler object and a batch makes one
  for each manual (`batch_service.py:51`), so between two manuals the interval is
  not kept. `OneCrawlerKeepsTheRate` proves that it is with one crawler.

## 7. Not modelled, and the plan

Left out for good: the wording of prompts and answers, the HTML parser's
selectors, metrics, the rendering of the trace console, the load test, dataset
scripts. They have no state that a property could be about, or only text.

Abstracted in what is modelled:

- chunks per page (one): how `chunker.py` splits blocks and overlaps them is a pass
  over text, which a property would have to restate;
- ranking scores (any, with the order respected), hence BM25's formula and the
  similarities; the reranker's scores;
- the coercion of odd replies by the controllers: what they lead to is possible;
- trace payloads, their levels and redaction;
- the values of F1@k, MRR@k and the judge, and so averages over no case;
- the run manifest that `IngestionService` writes after its report, disabled
  embedding caches, the fields of a batch report beyond entry and status;
- a listing of manuals that meets a torn `catalog.json`: it raises and changes
  nothing;
- overrides of the configuration by environment variables, and the validation of
  single values.

Planned, in this order:

1. **Imports and Ingestion**: that `Ingestion` implements the three stages `Imports`
   makes of a run. Both are translated from the same lines, and a refinement would
   tie them together.
2. **Progress**: for the components whose liveness is only model-checked, the number
   that goes down with each step of their own, as `WorkRunsOut` has it for a question.
3. **Chunker**: block splitting and overlap (`chunker.py:18-123`) as a fold over
   blocks of known length, if a property is found that is not the code again.

## 8. Running

```
tlc -config MCTraceApi.cfg MCTraceApi      # any row of PROJECT.json "runs"
tlapm TraceApiProofs.tla                   # all proofs of a module
```
