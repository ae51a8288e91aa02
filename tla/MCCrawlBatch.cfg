SPECIFICATION Spec
CONSTANTS
    Page = {p1}
    Index = Index
    Free = Free
    Interval = 2
    Retries = 2
    Backoff <- MCBackoff
    Concurrency = 2
    OneCrawler = FALSE
    MaxCrawls = 2
PROPERTY RequestsAreSpaced
