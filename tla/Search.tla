------------------------------- MODULE Search -------------------------------
(***************************************************************************)
(* One retrieval (app/retrieval, app/rag/graph_rag.py) while an ingestion  *)
(* stores and deletes chunks: plan the queries, search each of them        *)
(* densely, by BM25 or both, fuse the rankings, rerank.  BM25 and the      *)
(* chunk graph read the collection page by page.                           *)
(*                                                                         *)
(* Each call of the store is atomic and each may raise.  A chunk is its    *)
(* point id, so scrolling meets the chunks in the order of the numbers.    *)
(* What the models find similar is open: a search may rank the chunks it   *)
(* can see in any order.  A ranking is a sequence, the rank its index.     *)
(***************************************************************************)
EXTENDS Naturals, Sequences, FiniteSets, SequencesExt

CONSTANTS
    Chunk,               \* the chunks there may be: point ids
    ManualOf,            \* manual and snapshot of each chunk
    TopicOf, SectionOf,  \* topic and section of each chunk, as numbers
    Text, Blank,         \* queries, and one with nothing but white space
    Processor,           \* query processors: "rule", "rewrite" or "multi"
    Retriever,           \* retrievers: "dense", "bm25", "hybrid" or "graph"
    Filter,              \* filters: the sets of manuals asked for, {} for all
    MaxQueries,          \* query_processor.max_queries
    MaxRaw,              \* bound: queries a planner returns
    TopK, CandidateTopK, \* retrieval.top_k and candidate_top_k
    RrfK,                \* retrieval.rrf_k
    Scale,               \* the unit of scores: Scale \div n stands for 1/n
    PageSize             \* points of one scroll, 256 in the code

CandidateK == IF TopK > CandidateTopK THEN TopK ELSE CandidateTopK

ASSUME SearchAssumption ==
    /\ Chunk \subseteq Nat /\ IsFiniteSet(Chunk) /\ Blank \notin Text
    /\ Processor \subseteq {"rule", "rewrite", "multi"}
    /\ Retriever \subseteq {"dense", "bm25", "hybrid", "graph"}
    /\ {MaxQueries, MaxRaw, TopK, CandidateTopK, PageSize} \subseteq Nat \ {0}
    /\ RrfK \in Nat /\ Scale \in Nat \ {0} /\ \A rank \in 1..CandidateK : Scale % (RrfK + rank) = 0

VARIABLES
    stored,     \* the chunks of the collection
    request,    \* retriever and filter of this retrieval
    pc,         \* what the retrieval does next
    strategy,   \* fusion_strategy of the query plan, "single_query" or "rrf"
    queries,    \* queries still to be searched
    lists,      \* rankings of the queries searched
    dense,      \* hybrid: the dense ranking of the current query
    offset,     \* scroll: the point id to go on from
    scanned,    \* scroll: the chunks read so far
    steady,     \* the chunks stored ever since the scroll began
    sources,    \* the rankings fused last; for a graph, its seeds
    ranking,    \* what became of them
    results     \* the outcome

planVars == <<strategy, queries>>
scrollVars == <<offset, scanned, steady>>
fusionVars == <<sources, ranking>>
vars == <<stored, request, pc, planVars, lists, dense, scrollVars, fusionVars, results>>

AllRankings == SetToAllKPermutations(Chunk)

(* The rankings of at most n chunks of S, and those of the best n of S.    *)
Rankings(S, n) == {s \in AllRankings : Len(s) <= n /\ ToSet(s) \subseteq S}
FullRankings(S, n) == {s \in Rankings(S, n) : Len(s) = n \/ ToSet(s) = S}
Cut(s, n) == SubSeq(s, 1, IF Len(s) < n THEN Len(s) ELSE n)
SmallestOf(S) == CHOOSE c \in S : \A d \in S : c <= d

(* S in the order the comparison gives: one sequence if it is strict and   *)
(* total.                                                                  *)
Sorted(S, _\prec_) ==
    {s \in SetToSeqs(S) : \A i, j \in DOMAIN s : i < j => s[i] \prec s[j]}

RankIn(c, list) == CHOOSE i \in DOMAIN list : list[i] = c

(* In this list c comes before d, which need not be there.                 *)
Ahead(c, d, list) ==
    c \in ToSet(list) /\ (d \in ToSet(list) => RankIn(c, list) < RankIn(d, list))

Matching(S, filter) == {c \in S : filter = {} \/ ManualOf[c] \in filter}

Request == [retriever : Retriever, filter : Filter]

Init ==
    /\ stored \in SUBSET Chunk
    /\ request \in Request
    /\ pc = IF request.retriever = "graph" THEN "load" ELSE "plan"
    /\ strategy = "single_query" /\ queries = <<>> /\ lists = <<>> /\ dense = <<>>
    /\ offset = 0 /\ scanned = <<>> /\ steady = {}
    /\ sources = <<>> /\ ranking = <<>> /\ results = <<>>

-----------------------------------------------------------------------------
(* Planning.  What a processor may produce before it is cleaned.           *)

(* Rule processors and rewrites give one query; normalisation may leave    *)
(* nothing of a question that is all punctuation.                          *)
RuleQueries == {<<t>> : t \in Text \union {Blank}}

(* A model asked for one query, whose answer must have a non-empty one.    *)
RewrittenQueries == {<<t>> : t \in Text}

(* A model asked for several returns a list, of which the first MaxQueries *)
(* are kept.                                                               *)
PlannedQueries == {Cut(raw, MaxQueries) : raw \in BoundedSeq(Text \union {Blank}, MaxRaw)}

RawQueries(processor) ==
    [rule |-> RuleQueries, rewrite |-> RewrittenQueries, multi |-> PlannedQueries][processor]

(* No query at all or a blank one is an error.                             *)
Usable(raw) == raw # <<>> /\ Blank \notin ToSet(raw)

(* Each query once, at its first place.                                    *)
Distinct(raw) ==
    LET FirstPlace(t) == SmallestOf({i \in DOMAIN raw : raw[i] = t})
    IN  Sorted(ToSet(raw), LAMBDA t, u : FirstPlace(t) < FirstPlace(u))

PlanQueries ==
    /\ pc = "plan"
    /\ \E processor \in Processor : \E raw \in RawQueries(processor) :
        IF Usable(raw)
        THEN /\ queries' \in Distinct(raw) /\ pc' = "next"
             /\ strategy' = IF processor = "multi" THEN "rrf" ELSE "single_query"
        ELSE UNCHANGED planVars /\ pc' = "failed"
    /\ UNCHANGED <<stored, request, lists, dense, scrollVars, fusionVars, results>>

-----------------------------------------------------------------------------
(* Searching.                                                              *)

BeginScroll ==
    /\ pc' = "scroll" /\ offset' = 0 /\ scanned' = <<>>
    /\ steady' = stored

(* The next query, if there is one, goes to the candidate retriever.       *)
NextQuery ==
    /\ pc = "next" /\ queries # <<>>
    /\ IF request.retriever = "bm25"
       THEN BeginScroll
       ELSE pc' = "dense" /\ UNCHANGED scrollVars
    /\ UNCHANGED <<stored, request, planVars, lists, dense, fusionVars, results>>

(* The graph is built from all chunks, for every question anew.            *)
LoadGraph ==
    /\ pc = "load"
    /\ BeginScroll
    /\ UNCHANGED <<stored, request, planVars, lists, dense, fusionVars, results>>

Found(list) ==
    /\ lists' = Append(lists, list)
    /\ queries' = Tail(queries)
    /\ pc' = "next"

(* search(): the store ranks the points that match the filter.             *)
DenseSearch ==
    /\ pc = "dense"
    /\ \E list \in FullRankings(Matching(stored, request.filter), CandidateK) :
        IF request.retriever = "hybrid"
        THEN dense' = list /\ BeginScroll /\ UNCHANGED <<lists, queries>>
        ELSE Found(list) /\ UNCHANGED <<dense, scrollVars>>
    /\ UNCHANGED <<stored, request, strategy, fusionVars, results>>

(* Faulty: the sparse half of a hybrid search is given the bare question.  *)
ScrollFilterOfDense == IF request.retriever = "hybrid" THEN {} ELSE request.filter

(* The sparse search takes its filter from the query the dense one used.   *)
ScrollFilter == request.filter

(* What is left of the collection for scroll(): it goes by point id.       *)
Unread == {c \in Matching(stored, ScrollFilter) : c >= offset}
Pages == {Cut(points, PageSize) : points \in Sorted(Unread, <)}

(* Faulty: the offset counts the points read.                              *)
OffsetCounted(rest, page) == Len(scanned) + Len(page) + 1

(* next_page_offset: the first point after the page.                       *)
NextOffset(rest, page) == SmallestOf(rest \ ToSet(page))

(* One turn of the loop of all_chunks.                                     *)
ScrollPage ==
    /\ pc = "scroll"
    /\ \E page \in Pages :
        /\ scanned' = scanned \o page
        /\ IF Unread = ToSet(page)
           THEN pc' = "score" /\ UNCHANGED offset
           ELSE offset' = NextOffset(Unread, page) /\ UNCHANGED pc
    /\ UNCHANGED <<stored, request, planVars, lists, dense, steady, fusionVars, results>>

EndScroll == offset' = 0 /\ scanned' = <<>> /\ steady' = {}

-----------------------------------------------------------------------------
(* Fusion by reciprocal ranks.                                             *)

Contribution(c, list) ==
    IF c \in ToSet(list) THEN Scale \div (RrfK + RankIn(c, list)) ELSE 0

FusedScore(c, from) == SumFunction([i \in DOMAIN from |-> Contribution(c, from[i])])

(* Going through the rankings one after another, c is met before d.        *)
MetBefore(c, d, from) ==
    \E i \in DOMAIN from :
        /\ Ahead(c, d, from[i])
        /\ \A k \in 1..(i - 1) : {c, d} \intersect ToSet(from[k]) = {}

(* Faulty: sorted without reversing.                                       *)
BeforeAscending(c, d, score, from) ==
    \/ score[c] < score[d]
    \/ score[c] = score[d] /\ MetBefore(c, d, from)

(* By score; chunks with equal scores stay in the order they were met.     *)
Before(c, d, score, from) ==
    \/ score[c] > score[d]
    \/ score[c] = score[d] /\ MetBefore(c, d, from)

Ranked(from) == UNION {ToSet(from[i]) : i \in DOMAIN from}

Fused(from) ==
    LET score == [c \in Ranked(from) |-> FusedScore(c, from)]
    IN  Sorted(Ranked(from), LAMBDA c, d : Before(c, d, score, from))

(* BM25 ranks the chunks read that share a token with the query; a hybrid  *)
(* search then fuses its two rankings.                                     *)
ScoreSparse ==
    /\ pc = "score" /\ request.retriever \in {"bm25", "hybrid"}
    /\ \E list \in Rankings(ToSet(scanned), CandidateK) :
        IF request.retriever = "hybrid"
        THEN /\ sources' = <<dense, list>>
             /\ \E fused \in Fused(sources') : ranking' = Cut(fused, CandidateK)
             /\ Found(ranking')
        ELSE Found(list) /\ UNCHANGED fusionVars
    /\ dense' = <<>>
    /\ EndScroll
    /\ UNCHANGED <<stored, request, strategy, results>>

(* All queries are searched.  A single ranking is taken as it is, several  *)
(* are fused.                                                              *)
FuseQueries ==
    /\ pc = "next" /\ queries = <<>>
    /\ sources' = lists
    /\ ranking' \in IF strategy = "rrf" THEN Fused(lists) ELSE {lists[1]}
    /\ pc' = "rerank"
    /\ UNCHANGED <<stored, request, planVars, lists, dense, scrollVars, results>>

(* What a retrieval has built is gone when it returns or raises.           *)
Drop ==
    /\ strategy' = "single_query" /\ queries' = <<>> /\ lists' = <<>> /\ dense' = <<>>
    /\ EndScroll

(* The reranker orders the candidates by its own scores; the no-op one     *)
(* leaves them, which is one of these orders.                              *)
Rerank ==
    /\ pc = "rerank"
    /\ results' \in FullRankings(ToSet(ranking), TopK)
    /\ sources' = <<>> /\ ranking' = <<>>
    /\ pc' = "done"
    /\ Drop
    /\ UNCHANGED <<stored, request>>

-----------------------------------------------------------------------------
(* The chunk graph.                                                        *)

(* Faulty: chunks of different manuals share a group.                      *)
GroupRegardless(c, S, keyOf) == {e \in S : keyOf[e] = keyOf[c]}

(* The chunks with c's topic or section, in c's manual and snapshot.       *)
Group(c, S, keyOf) == {e \in S : ManualOf[e] = ManualOf[c] /\ keyOf[e] = keyOf[c]}

(* By document, of which each topic has one, and then by id.               *)
Earlier(c, d) == TopicOf[c] < TopicOf[d] \/ (TopicOf[c] = TopicOf[d] /\ c < d)

(* Chunks that follow each other in a group are linked.                    *)
Linked(c, d, S) ==
    \E keyOf \in {TopicOf, SectionOf} :
        /\ d \in Group(c, S, keyOf) \ {c}
        /\ ~\E e \in Group(c, S, keyOf) :
            (Earlier(c, e) /\ Earlier(e, d)) \/ (Earlier(d, e) /\ Earlier(e, c))

(* The best n chunks by weight, without those of weight 0.  Equal weights  *)
(* keep the order of the dictionary: the chunks scored by their own words  *)
(* as they were read, then those added for a seed, in any order.           *)
BestBy(weight, own, n) ==
    LET Precedes(c, d) == \/ weight[c] > weight[d]
                          \/ weight[c] = weight[d] /\ c \in own /\ (d \in own => c < d)
                          \/ weight[c] = weight[d] /\ {c, d} \intersect own = {}
    IN  {Cut(s, n) : s \in Sorted({c \in DOMAIN weight : weight[c] > 0}, Precedes)}

(* Twice the share of the question's words a chunk has, and for chunks     *)
(* without any, half of the share of the best seed they are linked to.     *)
Weights(overlap, seeds) ==
    LET S == DOMAIN overlap
        Reached(c) == {overlap[d] : d \in {e \in ToSet(seeds) : Linked(c, e, S)}}
    IN  [c \in S |->
            IF overlap[c] > 0 THEN 2 * overlap[c]
            ELSE IF Reached(c) = {} THEN 0
            ELSE CHOOSE w \in Reached(c) : \A v \in Reached(c) : v <= w]

ExpandGraph ==
    /\ pc = "score" /\ request.retriever = "graph"
    /\ \E overlap \in [ToSet(scanned) -> 0..3] :
        LET own == {c \in DOMAIN overlap : overlap[c] > 0} IN
        \E seeds \in BestBy(overlap, own, TopK) :
            /\ sources' = <<seeds>>
            /\ ranking' \in BestBy(Weights(overlap, seeds), own, TopK)
    /\ results' = ranking'
    /\ pc' = "done"
    /\ Drop
    /\ UNCHANGED <<stored, request>>

-----------------------------------------------------------------------------
(* Faulty: a call that raised is tried again, without a limit.             *)
RaiseAndRetry ==
    /\ pc \in {"plan", "dense", "scroll", "rerank"}
    /\ pc' = "plan"
    /\ sources' = <<>> /\ ranking' = <<>>
    /\ Drop
    /\ UNCHANGED <<stored, request, results>>

(* Any call of a model or of the store may raise, and the request fails.   *)
Raise ==
    /\ pc \in {"plan", "dense", "scroll", "rerank"}
    /\ pc' = "failed"
    /\ sources' = <<>> /\ ranking' = <<>>
    /\ Drop
    /\ UNCHANGED <<stored, request, results>>

Watching == pc \in {"dense", "scroll"}
otherVars == <<request, pc, planVars, lists, dense, offset, scanned, fusionVars, results>>

(* An ingestion upserts or deletes a chunk.  It may at any time, but what  *)
(* happens while the retrieval does not look at the collection is the same *)
(* to it as if it happened just before it looks again.                     *)
Upserted(c) ==
    /\ Watching
    /\ stored' = stored \union {c}
    /\ UNCHANGED <<otherVars, steady>>

Deleted(c) ==
    /\ Watching
    /\ stored' = stored \ {c}
    /\ steady' = steady \ {c}
    /\ UNCHANGED otherVars

(* The request is over.                                                    *)
Rest == pc \in {"done", "failed"} /\ UNCHANGED vars

Step ==
    \/ PlanQueries \/ NextQuery \/ LoadGraph \/ DenseSearch \/ ScrollPage
    \/ ScoreSparse \/ FuseQueries \/ Rerank \/ ExpandGraph

Next == Step \/ Raise \/ Rest \/ \E c \in Chunk : Upserted(c) \/ Deleted(c)

Spec == Init /\ [][Next]_vars

(* The request goes on: its calls end in a result or an exception.         *)
FairSpec == Spec /\ WF_vars(Step)
-----------------------------------------------------------------------------
(* The types of the state; no more than MaxQueries queries are searched.   *)
TypeOK ==
    /\ stored \subseteq Chunk /\ request \in Request
    /\ pc \in {"load", "plan", "next", "dense", "scroll", "score", "rerank", "done", "failed"}
    /\ strategy \in {"single_query", "rrf"} /\ queries \in Seq(Text) /\ Len(queries) + Len(lists) <= MaxQueries
    /\ offset \in Chunk \union {0} /\ steady \subseteq stored
    /\ \A list \in ToSet(lists) \union ToSet(sources) \union {dense, scanned, ranking, results} :
        list \in Seq(Chunk) /\ IsInjective(list)
    /\ Len(results) <= TopK

(* Whatever the retriever, its two halves, the fusion and the reranking    *)
(* make of a question, no chunk from outside its filter comes back: the    *)
(* manuals of other vehicles or versions do not mix in.                    *)
FiltersHold ==
    \A list \in ToSet(lists) \union {ranking, results} :
        ToSet(list) = Matching(ToSet(list), request.filter)

(* Reading the collection page by page while it changes finds every chunk  *)
(* that matches and stays throughout, and none twice.                      *)
ScrollIsComplete ==
    pc = "score" =>
        /\ Matching(steady, request.filter) \subseteq ToSet(scanned)
        /\ IsInjective(scanned)

Dominates(c, d) ==
    /\ \E list \in ToSet(sources) : Ahead(c, d, list)
    /\ \A list \in ToSet(sources) : ~Ahead(d, c, list)

(* A chunk that no ranking puts behind another and some put before it is   *)
(* before it when they are fused, also across the cut.                     *)
FusionIsMonotone ==
    \A c \in Chunk, d \in ToSet(ranking) : Dominates(c, d) => Ahead(c, d, ranking)

(* A chunk the graph adds comes after a chunk of the same manual, and of   *)
(* the same topic or section, that was found by its words.                 *)
ExpansionIsAnchored ==
    \A c \in ToSet(ranking) \ Ranked(sources) :
        \E d \in Ranked(sources) :
            /\ Ahead(d, c, ranking) /\ ManualOf[c] = ManualOf[d]
            /\ TopicOf[c] = TopicOf[d] \/ SectionOf[c] = SectionOf[d]

(* Whatever order a retrieval returns follows from what it found: fused    *)
(* rankings keep what all of them agree on, and the graph adds chunks only *)
(* behind the one that leads to them.                                      *)
RankingIsJustified ==
    IF request.retriever = "graph" THEN ExpansionIsAnchored ELSE FusionIsMonotone

(* A retrieval ends, though an ingestion may go on storing and deleting    *)
(* chunks all the while it scrolls.                                        *)
SearchEnds == <>(pc \in {"done", "failed"})
=============================================================================
