SPECIFICATION FirstCrawlSpec
CONSTANTS
    Page = {p1, p2, p3}
    Index = Index
    Free = Free
    Interval = 2
    Retries = 2
    Backoff <- MCBackoff
    Concurrency = 2
    OneCrawler = TRUE
    MaxCrawls = 2
INVARIANT EndedMeansLocal
PROPERTIES
    RequestsAreSpaced
    CrawlEnds
