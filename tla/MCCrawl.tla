------------------------------ MODULE MCCrawl ------------------------------
(* TLC instance of Crawl.  A tick is half a second: the code sleeps        *)
(* 0.5 * 2**attempt seconds, and Interval = 2 is one request per second.   *)
EXTENDS Crawl

MCBackoff == [n \in 0..(Retries - 1) |-> 2 ^ n]

(* The first crawl is one into an empty directory; a later one starts from *)
(* the files, the manifest and the limiter as the one before left them.    *)
FirstInit == Init /\ present = {} /\ recorded = {}

FirstCrawlSpec == FirstInit /\ [][Next]_vars /\ Fairness
=============================================================================
