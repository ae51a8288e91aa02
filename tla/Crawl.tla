------------------------------- MODULE Crawl -------------------------------
(***************************************************************************)
(* The crawler (app/ingestion/crawler.py) over time: the pages of a manual *)
(* are fetched by concurrent coroutines that share a semaphore and a rate  *)
(* limiter, every request being retried with exponential back-off.         *)
(*                                                                         *)
(* Time is counted in ticks; it is kept as what is left of each delay.  A  *)
(* coroutine runs undisturbed between two awaits, which are here the lock  *)
(* of the limiter, its sleep, the request, the back-off and the semaphore. *)
(***************************************************************************)
EXTENDS Naturals, FiniteSets

CONSTANTS
    Page,         \* the pages a manual may have
    Index,        \* the index page, which is fetched first
    Free,         \* the value of the limiter's lock when nobody holds it
    Interval,     \* 1 / data.requests_per_second, in ticks
    Retries,      \* data.request_retries: attempts for each request
    Backoff,      \* Backoff[n]: ticks slept after n + 1 failed attempts
    Concurrency,  \* data.request_concurrency
    OneCrawler,   \* TRUE: the imports of the API; FALSE: a batch
    MaxCrawls     \* bound of the model: crawls one after the other

Fetcher == Page \union {Index}

ASSUME CrawlAssumption ==
    /\ Index \notin Page /\ Free \notin Fetcher
    /\ Interval \in Nat /\ Retries \in Nat \ {0} /\ Concurrency \in Nat \ {0}
    /\ Backoff \in [0..(Retries - 1) -> Nat]
    /\ OneCrawler \in BOOLEAN /\ MaxCrawls \in Nat

VARIABLES
    present,    \* pages with a file
    recorded,   \* pages with an "ok" line in manifest.jsonl
    revalidate, \* data.revalidate_remote
    stage,      \* "idle", "crawling", "returned" or "raised"
    menu,       \* the pages listed by the index page
    pc,         \* pc[f]: what the coroutine that fetches f awaits
    attempt,    \* attempt[f]: attempts that have failed
    sleep,      \* sleep[f]: ticks left of the sleep f is in
    holder,     \* the coroutine within the limiter's lock
    cooldown,   \* ticks left to the limiter's _next_allowed
    outcome,    \* outcome[p]: "none", "downloaded", "skipped" or "failed"
    records,    \* pages of this crawl with a record for the manifest
    had,        \* history: the pages that had a file when the crawl began
    quiet,      \* ticks since the last request was sent, up to Interval
    crawls      \* crawls begun so far

localVars == <<present, recorded, revalidate>>
limiterVars == <<holder, cooldown, quiet>>
crawlVars == <<had, crawls>>
vars == <<localVars, stage, menu, pc, attempt, sleep, limiterVars, outcome,
          records, crawlVars>>

(* The directory may hold whatever earlier processes left in it.           *)
Init ==
    /\ present \in SUBSET Page /\ recorded \in SUBSET Page
    /\ revalidate \in BOOLEAN
    /\ stage = "idle" /\ menu = {}
    /\ pc = [f \in Fetcher |-> "off"]
    /\ attempt = [f \in Fetcher |-> 0] /\ sleep = [f \in Fetcher |-> 0]
    /\ holder = Free /\ cooldown = 0 /\ quiet = Interval
    /\ outcome = [p \in Page |-> "none"]
    /\ records = {}
    /\ had = present /\ crawls = 0

Goto(f, from, to) == pc[f] = from /\ pc' = [pc EXCEPT ![f] = to]

-----------------------------------------------------------------------------
(* The API uses the crawler of its container for every import; a batch     *)
(* makes a new one, with a new limiter, for each manual.                   *)
InheritedCooldown == IF OneCrawler THEN cooldown ELSE 0

(* crawl() is called.                                                      *)
StartCrawl ==
    /\ stage # "crawling" /\ crawls < MaxCrawls
    /\ crawls' = crawls + 1 /\ had' = present
    /\ stage' = "crawling" /\ menu' = {}
    /\ pc' = [f \in Fetcher |-> IF f = Index THEN "limit" ELSE "off"]
    /\ attempt' = [f \in Fetcher |-> 0]
    /\ outcome' = [p \in Page |-> "none"]
    /\ records' = {}
    /\ cooldown' = InheritedCooldown
    /\ UNCHANGED <<localVars, sleep, holder, quiet>>

(* Faulty: a page that failed keeps its place.                             *)
AdmittedWithFailed ==
    {p \in Page : pc[p] \in {"limit", "paced", "sent", "backoff"} \/ outcome[p] = "failed"}

(* The pages between the two ends of "async with semaphore".               *)
Admitted == {p \in Page : pc[p] \in {"limit", "paced", "sent", "backoff"}}

Admit(p) ==
    /\ Cardinality(Admitted) < Concurrency
    /\ Goto(p, "queue", "limit")
    /\ UNCHANGED <<localVars, stage, menu, attempt, sleep, limiterVars, outcome,
                   records, crawlVars>>

(* Faulty: the limiter is entered without its lock.                        *)
EnterLimiterFreely(f) ==
    /\ Goto(f, "limit", "paced")
    /\ holder' = f
    /\ sleep' = [sleep EXCEPT ![f] = cooldown]
    /\ UNCHANGED <<localVars, stage, menu, attempt, cooldown, quiet, outcome,
                   records, crawlVars>>

(* _RateLimiter.wait takes the lock and computes its delay.                *)
EnterLimiter(f) ==
    /\ Goto(f, "limit", "paced")
    /\ holder = Free /\ holder' = f
    /\ sleep' = [sleep EXCEPT ![f] = cooldown]
    /\ UNCHANGED <<localVars, stage, menu, attempt, cooldown, quiet, outcome,
                   records, crawlVars>>

(* Faulty: the lock is kept until the reply.                               *)
SendLocked(f) ==
    /\ Goto(f, "paced", "sent")
    /\ sleep[f] = 0
    /\ cooldown' = Interval
    /\ quiet' = 0
    /\ UNCHANGED <<localVars, stage, menu, attempt, sleep, holder, outcome,
                   records, crawlVars>>

(* The sleep is over: the next request is allowed Interval from now, the   *)
(* lock is released and the request is sent.                               *)
Send(f) ==
    /\ Goto(f, "paced", "sent")
    /\ sleep[f] = 0
    /\ holder' = Free
    /\ cooldown' = Interval
    /\ quiet' = 0
    /\ UNCHANGED <<localVars, stage, menu, attempt, sleep, outcome, records, crawlVars>>

(* The request fails, another attempt is left: sleep, then the limiter.    *)
Retry(f) ==
    /\ attempt[f] + 1 < Retries
    /\ Goto(f, "sent", "backoff")
    /\ attempt' = [attempt EXCEPT ![f] = @ + 1]
    /\ sleep' = [sleep EXCEPT ![f] = Backoff[attempt[f]]]
    /\ UNCHANGED <<localVars, stage, menu, limiterVars, outcome, records, crawlVars>>

WakeUp(f) ==
    /\ sleep[f] = 0
    /\ Goto(f, "backoff", "limit")
    /\ UNCHANGED <<localVars, stage, menu, attempt, sleep, limiterVars, outcome,
                   records, crawlVars>>

-----------------------------------------------------------------------------
(* The index page lists the pages of the manual; a coroutine starts for    *)
(* each.  One that has a file is skipped unless files are revalidated.     *)
IndexArrives ==
    /\ \E listed \in SUBSET Page :
        LET Skipped(p) == p \in listed /\ p \in present /\ ~revalidate IN
        /\ menu' = listed
        /\ pc[Index] = "sent"
        /\ pc' = [f \in Fetcher |->
                    CASE f = Index -> "off"
                      [] f \in listed /\ ~Skipped(f) -> "queue"
                      [] OTHER -> "off"]
        /\ outcome' = [p \in Page |-> IF Skipped(p) THEN "skipped" ELSE "none"]
    /\ UNCHANGED <<localVars, stage, attempt, sleep, limiterVars, records, crawlVars>>

(* All attempts have failed, or the page cannot be written or parsed: the  *)
(* crawl raises.                                                           *)
IndexFails ==
    /\ Goto(Index, "sent", "off")
    /\ stage' = "raised"
    /\ UNCHANGED <<localVars, menu, attempt, sleep, limiterVars, outcome, records,
                   crawlVars>>

(* A page is through: its coroutine leaves the semaphore and appends the   *)
(* record that will go to the manifest.                                    *)
Conclude(p, result) ==
    /\ Goto(p, "sent", "off")
    /\ outcome' = [outcome EXCEPT ![p] = result]
    /\ records' = records \union {p}
    /\ UNCHANGED <<recorded, revalidate, stage, menu, attempt, sleep, limiterVars, crawlVars>>

PageArrives(p) ==
    /\ Conclude(p, "downloaded")
    /\ present' = present \union {p}

(* The request carries the etag of an earlier crawl.                       *)
Conditional(p) == p \in recorded /\ p \in present

(* 304: the local file is up to date.                                      *)
PageNotModified(p) ==
    /\ Conditional(p)
    /\ Conclude(p, "skipped")
    /\ UNCHANGED present

(* Faulty: the old file is removed before the new one is there.            *)
PageFailsUnlinked(p) ==
    /\ Conclude(p, "failed")
    /\ present' = present \ {p}

(* Faulty: the exception leaves the coroutine, and gather raises it.       *)
PageFailsUncaught(p) ==
    /\ Goto(p, "sent", "off")
    /\ stage' = "raised"
    /\ UNCHANGED <<localVars, menu, attempt, sleep, limiterVars, outcome, records,
                   crawlVars>>

(* All attempts have failed, or something that is not retried: the file    *)
(* cannot be written.                                                      *)
PageFails(p) ==
    /\ Conclude(p, "failed")
    /\ UNCHANGED present

(* Faulty: the crawl returns when nobody is at work, whoever is queued.    *)
EndCrawlEarly ==
    /\ stage = "crawling" /\ \A f \in Fetcher : pc[f] \in {"off", "queue"}
    /\ stage' = "returned"
    /\ recorded' = recorded \union {p \in records : outcome[p] # "failed"}
    /\ UNCHANGED <<present, revalidate, menu, pc, attempt, sleep, limiterVars,
                   outcome, records, crawlVars>>

(* All coroutines are through: the records go to the manifest.             *)
EndCrawl ==
    /\ stage = "crawling" /\ \A f \in Fetcher : pc[f] = "off"
    /\ stage' = "returned"
    /\ recorded' = recorded \union {p \in records : outcome[p] # "failed"}
    /\ UNCHANGED <<present, revalidate, menu, pc, attempt, sleep, limiterVars,
                   outcome, records, crawlVars>>

(* All coroutines are through, but the manifest cannot be written, or not  *)
(* to its end, or the file of metadata after it.                           *)
ManifestFails ==
    /\ stage = "crawling" /\ \A f \in Fetcher : pc[f] = "off"
    /\ stage' = "raised"
    /\ \E written \in SUBSET {p \in records : outcome[p] # "failed"} :
        recorded' = recorded \union written
    /\ UNCHANGED <<present, revalidate, menu, pc, attempt, sleep, limiterVars,
                   outcome, records, crawlVars>>

-----------------------------------------------------------------------------
Less(n) == IF n = 0 THEN 0 ELSE n - 1

Tick ==
    /\ sleep' = [f \in Fetcher |-> Less(sleep[f])]
    /\ cooldown' = Less(cooldown)
    /\ quiet' = IF quiet = Interval THEN quiet ELSE quiet + 1
    /\ UNCHANGED <<localVars, stage, menu, pc, attempt, holder, outcome, records,
                   crawlVars>>

FetchStep(f) == EnterLimiter(f) \/ Send(f) \/ Retry(f) \/ WakeUp(f)

PageStep(p) ==
    Admit(p) \/ PageArrives(p) \/ PageNotModified(p) \/ PageFails(p)

CrawlStep == IndexArrives \/ IndexFails \/ EndCrawl \/ ManifestFails

Next ==
    \/ StartCrawl \/ CrawlStep \/ Tick
    \/ \E f \in Fetcher : FetchStep(f)
    \/ \E p \in Page : PageStep(p)

Spec == Init /\ [][Next]_vars

(* The event loop runs what is ready, requests time out, time goes by.     *)
Fairness ==
    /\ WF_vars(Tick) /\ WF_vars(CrawlStep)
    /\ \A f \in Fetcher : WF_vars(FetchStep(f))
    /\ \A p \in Page : WF_vars(PageStep(p))

-----------------------------------------------------------------------------
(* The state's types; a coroutine within the limiter holds its lock.       *)
TypeOK ==
    /\ present \subseteq Page /\ recorded \subseteq Page /\ revalidate \in BOOLEAN
    /\ stage \in {"idle", "crawling", "returned", "raised"} /\ menu \subseteq Page
    /\ pc \in [Fetcher -> {"off", "queue", "limit", "paced", "sent", "backoff"}]
    /\ attempt \in [Fetcher -> 0..(Retries - 1)] /\ sleep \in [Fetcher -> Nat]
    /\ holder \in Fetcher \union {Free}
    /\ cooldown \in 0..Interval /\ quiet \in 0..Interval
    /\ outcome \in [Page -> {"none", "downloaded", "skipped", "failed"}]
    /\ records \subseteq Page /\ had \subseteq Page /\ crawls \in 0..MaxCrawls
    /\ \A f \in Fetcher : pc[f] = "paced" <=> holder = f

(* Two requests are never closer together than the interval, however many  *)
(* coroutines wait for the limiter, retry or come back from their back-off *)
(* (crawler.py:112-126; TECHNICAL_DESIGN.md:79).                           *)
RequestsAreSpaced ==
    [][\A f \in Fetcher : pc[f] # "sent" /\ pc'[f] = "sent" => quiet = Interval]_vars

(* However a crawl ends, it has dealt with every page that it knows the    *)
(* manual to list, so that one page that fails stops none of the others.   *)
(* Such a page has a file unless it is reported as failed, and no page     *)
(* loses the file it had when the crawl began (crawler.py:210-278).        *)
EndedMeansLocal ==
    stage \in {"returned", "raised"} =>
        /\ \A p \in menu : outcome[p] # "none" /\ (outcome[p] # "failed" => p \in present)
        /\ had \subseteq present

(* Every crawl ends, whatever fails: the sleep inside the limiter's lock   *)
(* and the back-off inside the semaphore only delay the others, those that *)
(* wait for a slot included.                                               *)
CrawlEnds == stage = "crawling" ~> stage # "crawling"
=============================================================================
