---------------------------- MODULE CrawlProofs ----------------------------
(***************************************************************************)
(* Proofs about the crawler's rate limiter, for any number of pages,       *)
(* retries and crawls and any interval, concurrency and back-off.          *)
(*                                                                         *)
(* The inductive invariant says of the limiter what its code relies on:    *)
(* when the next request is allowed, the interval since the last one is    *)
(* over; and whoever sleeps inside the lock sleeps at least until then.    *)
(* InTurn adds that the coroutines of the pages run only after the index   *)
(* page arrived, and no coroutine outlives its crawl.  Accounted: a listed *)
(* page without an outcome still has its coroutine, none is listed before  *)
(* the index page arrived, and no file goes.                               *)
(***************************************************************************)
EXTENDS Crawl, TLAPS

LimiterHolds ==
    /\ quiet + cooldown >= Interval
    /\ \A f \in Fetcher : pc[f] = "paced" => sleep[f] >= cooldown

InTurn ==
    /\ pc[Index] # "off" => \A p \in Page : pc[p] = "off"
    /\ stage # "crawling" => \A f \in Fetcher : pc[f] = "off"

Accounted ==
    /\ \A p \in Page : outcome[p] \in {"downloaded", "skipped"} => p \in present
    /\ \A p \in menu : outcome[p] = "none" => pc[p] # "off"
    /\ pc[Index] # "off" => menu = {}
    /\ had \subseteq present

IInv == TypeOK /\ InTurn /\ Accounted /\ (OneCrawler => LimiterHolds)

LEMMA InitIInv == Init => IInv
  <1> SUFFICES ASSUME Init PROVE IInv
    OBVIOUS
  <1> USE CrawlAssumption DEF Init
  <1>1. /\ attempt \in [Fetcher -> 0..(Retries - 1)] /\ sleep \in [Fetcher -> Nat]
        /\ cooldown \in 0..Interval /\ quiet \in 0..Interval /\ crawls \in 0..MaxCrawls
    OBVIOUS
  <1>2. /\ pc \in [Fetcher -> {"off", "queue", "limit", "paced", "sent", "backoff"}]
        /\ outcome \in [Page -> {"none", "downloaded", "skipped", "failed"}]
    OBVIOUS
  <1>3. \A f \in Fetcher : pc[f] = "paced" <=> holder = f
    OBVIOUS
  <1>4. TypeOK
    BY <1>1, <1>2, <1>3 DEF TypeOK
  <1>5. InTurn
    BY DEF InTurn, Fetcher
  <1>6. LimiterHolds
    BY DEF LimiterHolds
  <1>7. Accounted
    BY DEF Accounted
  <1>8. QED
    BY <1>4, <1>5, <1>6, <1>7 DEF IInv

-----------------------------------------------------------------------------
LEMMA NextTypeOK == TypeOK /\ InTurn /\ [Next]_vars => TypeOK'
  <1> SUFFICES ASSUME TypeOK, InTurn, [Next]_vars PROVE TypeOK'
    OBVIOUS
  <1> USE CrawlAssumption DEF TypeOK, localVars, limiterVars, crawlVars, Goto
  <1>1. CASE StartCrawl
    <2>1. \A f \in Fetcher : pc[f] # "paced" /\ holder # f
      BY <1>1 DEF StartCrawl, InTurn
    <2>2. \A f \in Fetcher : pc'[f] # "paced" /\ holder' # f
      BY <1>1, <2>1 DEF StartCrawl
    <2>3. crawls' \in 0..MaxCrawls /\ cooldown' \in 0..Interval /\ quiet' \in 0..Interval
      BY <1>1 DEF StartCrawl, InheritedCooldown
    <2>4. attempt' \in [Fetcher -> 0..(Retries - 1)]
      BY <1>1 DEF StartCrawl
    <2>5. QED
      BY <1>1, <2>2, <2>3, <2>4 DEF StartCrawl
  <1>2. ASSUME NEW p \in Page, Admit(p) PROVE TypeOK'
    BY <1>2 DEF Admit, Fetcher
  <1>3. ASSUME NEW f \in Fetcher, EnterLimiter(f) PROVE TypeOK'
    <2>1. \A g \in Fetcher : pc'[g] = "paced" <=> holder' = g
      BY <1>3 DEF EnterLimiter
    <2>2. sleep' \in [Fetcher -> Nat]
      BY <1>3 DEF EnterLimiter
    <2>3. QED
      BY <1>3, <2>1, <2>2 DEF EnterLimiter
  <1>4. ASSUME NEW f \in Fetcher, Send(f) PROVE TypeOK'
    <2>1. \A g \in Fetcher : pc'[g] = "paced" <=> holder' = g
      BY <1>4 DEF Send
    <2>2. cooldown' \in 0..Interval /\ quiet' \in 0..Interval
      BY <1>4 DEF Send
    <2>3. QED
      BY <1>4, <2>1, <2>2 DEF Send
  <1>5. ASSUME NEW f \in Fetcher, Retry(f) PROVE TypeOK'
    <2>1. attempt[f] \in 0..(Retries - 1) /\ attempt[f] + 1 \in 0..(Retries - 1)
      BY <1>5 DEF Retry
    <2>2. sleep' \in [Fetcher -> Nat]
      BY <1>5, <2>1 DEF Retry
    <2>3. attempt' \in [Fetcher -> 0..(Retries - 1)]
      BY <1>5, <2>1 DEF Retry
    <2>4. \A g \in Fetcher : pc'[g] = "paced" <=> holder' = g
      BY <1>5 DEF Retry
    <2>5. QED
      BY <1>5, <2>2, <2>3, <2>4 DEF Retry
  <1>6. ASSUME NEW f \in Fetcher, WakeUp(f) PROVE TypeOK'
    BY <1>6 DEF WakeUp
  <1>7. CASE IndexArrives
    <2>1. PICK listed \in SUBSET Page :
            LET Skipped(p) == p \in listed /\ p \in present /\ ~revalidate IN
            /\ menu' = listed
            /\ pc[Index] = "sent"
            /\ pc' = [f \in Fetcher |->
                        CASE f = Index -> "off"
                          [] f \in listed /\ ~Skipped(f) -> "queue"
                          [] OTHER -> "off"]
            /\ outcome' = [p \in Page |-> IF Skipped(p) THEN "skipped" ELSE "none"]
      BY <1>7 DEF IndexArrives
    <2>2. pc' \in [Fetcher -> {"off", "queue"}]
      BY <2>1
    <2>3. \A f \in Fetcher : pc[f] # "paced" /\ holder # f
      BY <2>1 DEF InTurn, Fetcher
    <2>4. \A f \in Fetcher : pc'[f] # "paced"
      BY <2>2
    <2>5. pc' \in [Fetcher -> {"off", "queue", "limit", "paced", "sent", "backoff"}]
      BY <2>2
    <2>6. QED
      BY <1>7, <2>1, <2>3, <2>4, <2>5 DEF IndexArrives
  <1>8. CASE IndexFails
    BY <1>8 DEF IndexFails, Fetcher
  <1>9. ASSUME NEW p \in Page, NEW r \in {"downloaded", "skipped", "failed"}, Conclude(p, r),
               present' \subseteq Page
        PROVE  TypeOK'
    BY <1>9 DEF Conclude, Fetcher
  <1>10. ASSUME NEW p \in Page, PageArrives(p) \/ PageNotModified(p) \/ PageFails(p)
         PROVE  TypeOK'
    BY <1>9, <1>10 DEF PageArrives, PageNotModified, PageFails
  <1>11. CASE EndCrawl \/ ManifestFails
    <2>1. recorded' \subseteq Page /\ stage' \in {"returned", "raised"}
      BY <1>11 DEF EndCrawl, ManifestFails
    <2>2. QED
      BY <1>11, <2>1 DEF EndCrawl, ManifestFails
  <1>12. CASE Tick
    <2>1. sleep' \in [Fetcher -> Nat]
      BY <1>12 DEF Tick, Less
    <2>2. cooldown' \in 0..Interval /\ quiet' \in 0..Interval
      BY <1>12 DEF Tick, Less
    <2>3. QED
      BY <1>12, <2>1, <2>2 DEF Tick
  <1>13. CASE UNCHANGED vars
    BY <1>13 DEF vars
  <1>14. QED
    BY <1>1, <1>2, <1>3, <1>4, <1>5, <1>6, <1>7, <1>8, <1>10, <1>11, <1>12, <1>13
       DEF Next, CrawlStep, FetchStep, PageStep

(* The steps of one coroutine change nobody else's place.                  *)
LEMMA NextInTurn == TypeOK /\ InTurn /\ [Next]_vars => InTurn'
  <1> SUFFICES ASSUME TypeOK, InTurn, [Next]_vars PROVE InTurn'
    OBVIOUS
  <1> USE CrawlAssumption DEF InTurn
  <1>1. CASE StartCrawl
    BY <1>1 DEF StartCrawl, Fetcher
  <1>2. ASSUME NEW f \in Fetcher, NEW place, pc[f] # "off",
               pc' = [pc EXCEPT ![f] = place], stage' = stage
        PROVE  InTurn'
    BY <1>2 DEF TypeOK, Fetcher
  <1>3. ASSUME NEW f \in Fetcher, FetchStep(f) PROVE InTurn'
    BY <1>2, <1>3 DEF FetchStep, EnterLimiter, Send, Retry, WakeUp, Goto
  <1>4. ASSUME NEW p \in Page, PageStep(p) PROVE InTurn'
    BY <1>2, <1>4 DEF PageStep, Admit, PageArrives, PageNotModified, PageFails, Conclude,
                      Goto, Fetcher
  <1>5. CASE IndexArrives
    <2>1. pc'[Index] = "off" /\ pc[Index] = "sent" /\ stage' = stage
      BY <1>5 DEF IndexArrives, Fetcher
    <2>2. QED
      BY <2>1 DEF Fetcher
  <1>6. CASE IndexFails
    BY <1>6 DEF IndexFails, Goto, TypeOK, Fetcher
  <1>7. CASE EndCrawl \/ ManifestFails \/ Tick \/ UNCHANGED vars
    BY <1>7 DEF EndCrawl, ManifestFails, Tick, vars, Fetcher
  <1>8. QED
    BY <1>1, <1>3, <1>4, <1>5, <1>6, <1>7 DEF Next, CrawlStep

LEMMA NextAccounted == TypeOK /\ Accounted /\ [Next]_vars => Accounted'
  <1> SUFFICES ASSUME TypeOK, Accounted, [Next]_vars PROVE Accounted'
    OBVIOUS
  <1> USE CrawlAssumption DEF Accounted, TypeOK, localVars, crawlVars, Goto
  <1>1. CASE StartCrawl
    BY <1>1 DEF StartCrawl
  <1>2. ASSUME NEW f \in Fetcher, FetchStep(f) PROVE Accounted'
    <2>1. UNCHANGED <<localVars, stage, menu, outcome, had>> /\ pc[f] # "off"
      BY <1>2 DEF FetchStep, EnterLimiter, Send, Retry, WakeUp
    <2>2. PICK place \in {"limit", "paced", "sent", "backoff"} :
            pc' = [pc EXCEPT ![f] = place]
      BY <1>2 DEF FetchStep, EnterLimiter, Send, Retry, WakeUp
    <2>3. /\ \A p \in Page : pc[p] # "off" => pc'[p] # "off"
          /\ pc'[Index] # "off" => pc[Index] # "off"
      BY <2>1, <2>2 DEF Fetcher
    <2>4. QED
      BY <2>1, <2>3
  <1>3. ASSUME NEW p \in Page, Admit(p) PROVE Accounted'
    BY <1>3 DEF Admit, Fetcher
  <1>4. ASSUME NEW p \in Page, PageArrives(p) PROVE Accounted'
    BY <1>4 DEF PageArrives, Conclude, Fetcher
  <1>5. ASSUME NEW p \in Page, PageNotModified(p) \/ PageFails(p) PROVE Accounted'
    <2>1. CASE PageNotModified(p)
      BY <2>1 DEF PageNotModified, Conclude, Conditional, Fetcher
    <2>2. CASE PageFails(p)
      BY <2>2 DEF PageFails, Conclude, Fetcher
    <2>3. QED
      BY <1>5, <2>1, <2>2
  <1>6. CASE IndexArrives
    <2>1. PICK listed \in SUBSET Page :
            LET Skipped(p) == p \in listed /\ p \in present /\ ~revalidate IN
            /\ menu' = listed
            /\ pc[Index] = "sent"
            /\ pc' = [f \in Fetcher |->
                        CASE f = Index -> "off"
                          [] f \in listed /\ ~Skipped(f) -> "queue"
                          [] OTHER -> "off"]
            /\ outcome' = [p \in Page |-> IF Skipped(p) THEN "skipped" ELSE "none"]
      BY <1>6 DEF IndexArrives
    <2>2. present' = present /\ had' = had
      BY <1>6 DEF IndexArrives
    <2>3. \A p \in Page : p # Index
      OBVIOUS
    <2>4. \A p \in listed : outcome'[p] = "none" => pc'[p] = "queue"
      BY <2>1, <2>3 DEF Fetcher
    <2>5. \A p \in Page : outcome'[p] \in {"downloaded", "skipped"} => p \in present
      BY <2>1
    <2>6. pc'[Index] = "off"
      BY <2>1 DEF Fetcher
    <2>7. QED
      BY <2>1, <2>2, <2>4, <2>5, <2>6
  <1>7. CASE IndexFails
    BY <1>7 DEF IndexFails
  <1>8. CASE EndCrawl \/ ManifestFails
    BY <1>8 DEF EndCrawl, ManifestFails, Fetcher
  <1>9. CASE Tick \/ UNCHANGED vars
    BY <1>9 DEF Tick, vars
  <1>10. QED
    BY <1>1, <1>2, <1>3, <1>4, <1>5, <1>6, <1>7, <1>8, <1>9 DEF Next, CrawlStep, PageStep

LEMMA NextLimiterHolds ==
    ASSUME TypeOK, InTurn, OneCrawler, LimiterHolds, [Next]_vars
    PROVE  LimiterHolds'
  <1> USE CrawlAssumption DEF TypeOK, LimiterHolds, localVars, limiterVars, crawlVars, Goto
  <1>1. CASE StartCrawl
    BY <1>1 DEF StartCrawl, InheritedCooldown
  <1>2. ASSUME NEW p \in Page, Admit(p) PROVE LimiterHolds'
    BY <1>2 DEF Admit, Fetcher
  <1>3. ASSUME NEW f \in Fetcher, EnterLimiter(f) PROVE LimiterHolds'
    BY <1>3 DEF EnterLimiter
  <1>4. ASSUME NEW f \in Fetcher, Send(f) PROVE LimiterHolds'
    BY <1>4 DEF Send
  <1>5. ASSUME NEW f \in Fetcher, Retry(f) \/ WakeUp(f) PROVE LimiterHolds'
    <2>1. CASE Retry(f)
      BY <2>1 DEF Retry
    <2>2. CASE WakeUp(f)
      BY <2>2 DEF WakeUp
    <2>3. QED
      BY <1>5, <2>1, <2>2
  <1>6. CASE IndexArrives
    <2>1. \A f \in Fetcher : pc'[f] # "paced"
      BY <1>6 DEF IndexArrives
    <2>2. QED
      BY <1>6, <2>1 DEF IndexArrives
  <1>7. CASE IndexFails
    BY <1>7 DEF IndexFails, Fetcher
  <1>8. ASSUME NEW p \in Page, PageArrives(p) \/ PageNotModified(p) \/ PageFails(p)
        PROVE  LimiterHolds'
    <2>1. \E result : Conclude(p, result)
      BY <1>8 DEF PageArrives, PageNotModified, PageFails
    <2>2. QED
      BY <2>1 DEF Conclude, Fetcher
  <1>9. CASE EndCrawl \/ ManifestFails
    BY <1>9 DEF EndCrawl, ManifestFails
  <1>10. CASE Tick
    <2>1. \A f \in Fetcher : pc'[f] = "paced" => sleep'[f] >= cooldown'
      BY <1>10 DEF Tick, Less
    <2>2. quiet' + cooldown' >= Interval
      BY <1>10 DEF Tick, Less
    <2>3. QED
      BY <2>1, <2>2
  <1>11. CASE UNCHANGED vars
    BY <1>11 DEF vars
  <1>12. QED
    BY <1>1, <1>2, <1>3, <1>4, <1>5, <1>6, <1>7, <1>8, <1>9, <1>10, <1>11
       DEF Next, CrawlStep, FetchStep, PageStep

LEMMA InductiveInvariant == Spec => []IInv
  <1>1. IInv /\ [Next]_vars => IInv'
    BY NextTypeOK, NextInTurn, NextAccounted, NextLimiterHolds DEF IInv
  <1>2. QED
    BY <1>1, InitIInv, PTL DEF Spec

-----------------------------------------------------------------------------
(* Every state of the crawler is well formed.                              *)
THEOREM CrawlTypeCorrect == Spec => []TypeOK
  <1>1. IInv => TypeOK
    BY DEF IInv
  <1>2. QED
    BY <1>1, InductiveInvariant, PTL

(* However a crawl ends, each listed page was dealt with and has a file    *)
(* unless it failed, and no file it found is gone (crawler.py).            *)
THEOREM EndedIsLocal == Spec => []EndedMeansLocal
  <1>1. IInv => EndedMeansLocal
    BY DEF IInv, InTurn, Accounted, TypeOK, EndedMeansLocal, Fetcher
  <1>2. QED
    BY <1>1, InductiveInvariant, PTL

(* One crawler keeps the interval between all requests of all its crawls.  *)
THEOREM OneCrawlerKeepsTheRate ==
    ASSUME OneCrawler
    PROVE  Spec => RequestsAreSpaced
  <1> DEFINE Spaced == \A f \in Fetcher :
                         pc[f] # "sent" /\ pc'[f] = "sent" => quiet = Interval
  <1>1. IInv /\ [Next]_vars => [Spaced]_vars
    <2> SUFFICES ASSUME TypeOK, LimiterHolds, [Next]_vars,
                        NEW f \in Fetcher, pc[f] # "sent", pc'[f] = "sent"
                 PROVE  quiet = Interval
      BY DEF IInv
    <2>1. Send(f)
      <3> USE DEF TypeOK, Goto, Fetcher
      <3>1. ASSUME NEW g \in Fetcher, FetchStep(g) PROVE Send(f)
        BY <3>1 DEF FetchStep, EnterLimiter, Send, Retry, WakeUp
      <3>2. ASSUME NEW p \in Page, PageStep(p) PROVE FALSE
        BY <3>2 DEF PageStep, Admit, PageArrives, PageNotModified, PageFails, Conclude
      <3>3. ASSUME StartCrawl \/ IndexArrives PROVE FALSE
        BY <3>3 DEF StartCrawl, IndexArrives
      <3>4. ASSUME IndexFails \/ EndCrawl \/ ManifestFails \/ Tick \/ UNCHANGED vars
            PROVE  FALSE
        BY <3>4 DEF IndexFails, EndCrawl, ManifestFails, Tick, vars
      <3>5. QED
        BY <3>1, <3>2, <3>3, <3>4 DEF Next, CrawlStep
    <2>2. sleep[f] = 0 /\ sleep[f] >= cooldown
      BY <2>1 DEF Send, Goto, LimiterHolds
    <2>3. QED
      BY <2>2, CrawlAssumption DEF LimiterHolds, TypeOK
  <1>2. QED
    BY <1>1, InductiveInvariant, PTL DEF Spec, RequestsAreSpaced
=============================================================================
