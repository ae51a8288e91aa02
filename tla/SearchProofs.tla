---------------------------- MODULE SearchProofs ----------------------------
(***************************************************************************)
(* Proofs about one retrieval, for any finite set of chunks, any filter,   *)
(* limits and page size, and whatever an ingestion does meanwhile.         *)
(***************************************************************************)
EXTENDS Search, FiniteSetTheorems, SequenceTheorems, WellFoundedInduction, TLAPS

(* The lists of a retrieval have each chunk at most once and none from     *)
(* outside the filter; those that are fused are no longer than the rank    *)
(* constant allows for.                                                    *)
IsRanking(s) == s \in Seq(Chunk) /\ IsInjective(s)

Admitted(s) == IsRanking(s) /\ ToSet(s) = Matching(ToSet(s), request.filter)

ListsInv ==
    /\ lists \in Seq(Seq(Chunk)) /\ sources \in Seq(Seq(Chunk))
    /\ \A i \in DOMAIN lists : Admitted(lists[i]) /\ Len(lists[i]) <= CandidateK
    /\ \A i \in DOMAIN sources : IsRanking(sources[i])
    /\ Admitted(dense) /\ Len(dense) <= CandidateK
    /\ Admitted(scanned) /\ Admitted(ranking)
    /\ Admitted(results) /\ Len(results) <= TopK

Base ==
    /\ stored \subseteq Chunk /\ request \in Request
    /\ pc \in {"load", "plan", "next", "dense", "scroll", "score", "rerank", "done", "failed"}
    /\ strategy \in {"single_query", "rrf"} /\ queries \in Seq(Text)
    /\ Len(queries) + Len(lists) <= MaxQueries
    /\ offset \in Chunk \union {0} /\ steady \subseteq stored

(* Where a retrieval may be: a graph has no queries, and with a single     *)
(* query there is a single ranking in the end.                             *)
Searching ==
    pc = "dense" \/ (pc \in {"scroll", "score"} /\ request.retriever # "graph")

PathInv ==
    /\ IF request.retriever = "graph"
       THEN pc \in {"load", "scroll", "score", "done", "failed"}
       ELSE pc # "load"
    /\ pc = "plan" => queries = <<>> /\ lists = <<>>
    /\ Searching => queries # <<>>
    /\ strategy = "single_query" /\ (Searching \/ pc = "next") =>
            Len(queries) + Len(lists) = 1

(* The scroll has passed what is before the offset, and of that it has     *)
(* what was there all along.                                               *)
ScrollInv ==
    /\ pc = "scroll" =>
        /\ \A c \in ToSet(scanned) : c < offset
        /\ \A c \in Matching(steady, request.filter) : c < offset => c \in ToSet(scanned)
    /\ pc = "score" => Matching(steady, request.filter) \subseteq ToSet(scanned)

IInv == Base /\ ListsInv /\ PathInv /\ ScrollInv

-----------------------------------------------------------------------------
(* Numbers.                                                                *)

LEMMA LeastNumber ==
    ASSUME NEW T, T \subseteq Nat, T # {}
    PROVE  \E x \in T : \A y \in T : x <= y
  <1> DEFINE R == OpToRel(<, Nat)
  <1>1. IsWellFoundedOn(R, Nat)
    BY NatLessThanWellFounded
  <1>2. \A x, y \in Nat : y < x => <<y, x>> \in R
    BY DEF OpToRel
  <1> HIDE DEF R
  <1>3. PICK x \in T : \A y \in T : ~(<<y, x>> \in R)
    BY <1>1, WFMin
  <1>4. ASSUME NEW y \in T PROVE x <= y
    <2>1. x \in Nat /\ y \in Nat
      OBVIOUS
    <2>2. ~(y < x)
      BY <1>2, <1>3, <2>1
    <2>3. QED
      BY <2>1, <2>2
  <1>5. QED
    BY <1>4

(* Induction, with a set in the place of a predicate.                      *)
LEMMA SetInduction ==
    ASSUME NEW Good, 0 \in Good, \A n \in Nat : n \in Good => n + 1 \in Good
    PROVE  Nat \subseteq Good
  <1> SUFFICES ASSUME Nat \ Good # {} PROVE FALSE
    OBVIOUS
  <1>1. PICK x \in Nat \ Good : \A y \in Nat \ Good : x <= y
    BY LeastNumber
  <1>2. x # 0 /\ x - 1 \in Nat /\ ~(x <= x - 1) /\ (x - 1) + 1 = x
    BY <1>1
  <1>3. x - 1 \in Good
    BY <1>1, <1>2
  <1>4. QED
    BY <1>1, <1>2, <1>3

LEMMA SmallestIsOne ==
    ASSUME NEW S, S \subseteq Nat, S # {}
    PROVE  SmallestOf(S) \in S /\ \A d \in S : SmallestOf(S) <= d
  <1>1. \E c \in S : \A d \in S : c <= d
    BY LeastNumber
  <1>2. QED
    BY <1>1 DEF SmallestOf

-----------------------------------------------------------------------------
(* Rankings.                                                               *)

LEMMA MembersOf ==
    ASSUME NEW S, NEW s \in Seq(S)
    PROVE  ToSet(s) \subseteq S /\ \A x : x \in ToSet(s) <=> \E i \in DOMAIN s : s[i] = x
  BY DEF ToSet

(* A finite set as a sequence: each member once.                           *)
LEMMA SequencesOfSet ==
    ASSUME NEW S, IsFiniteSet(S), NEW s \in SetToSeqs(S)
    PROVE  /\ s \in Seq(S) /\ Len(s) = Cardinality(S)
           /\ IsInjective(s) /\ ToSet(s) = S
  <1> DEFINE n == Cardinality(S)
  <1>1. n \in Nat
    BY FS_CardinalityType
  <1>2. s \in [1..n -> S] /\ \A i, j \in 1..n : i # j => s[i] # s[j]
    BY DEF SetToSeqs
  <1> HIDE DEF n
  <1>3. s \in Seq(S) /\ Len(s) = n
    BY <1>1, <1>2
  <1>4. IsInjective(s)
    BY <1>2 DEF IsInjective
  <1>5. s \in Injection(1..n, S)
    BY <1>2, <1>4 DEF Injection
  <1>6. Cardinality(1..n) = n
    BY <1>1, FS_Interval
  <1>7. s \in Surjection(1..n, S)
    BY <1>5, <1>6, FS_Injection DEF n
  <1>8. ToSet(s) = S
    BY <1>2, <1>7 DEF Surjection, ToSet
  <1>9. QED
    BY <1>3, <1>4, <1>8 DEF n

(* What is left when only the first n are kept.                            *)
LEMMA CutIsPrefix ==
    ASSUME NEW S, NEW s \in Seq(S), NEW n \in Nat
    PROVE  /\ Cut(s, n) \in Seq(S)
           /\ Len(Cut(s, n)) = IF Len(s) < n THEN Len(s) ELSE n
           /\ DOMAIN Cut(s, n) = {i \in DOMAIN s : i <= n}
           /\ \A i \in DOMAIN Cut(s, n) : Cut(s, n)[i] = s[i]
           /\ ToSet(Cut(s, n)) \subseteq ToSet(s)
           /\ IsInjective(s) => IsInjective(Cut(s, n))
  <1> DEFINE m == IF Len(s) < n THEN Len(s) ELSE n
             t == Cut(s, n)
  <1>1. m \in Nat /\ m <= Len(s) /\ Len(s) \in Nat /\ m <= n /\ DOMAIN s = 1..Len(s)
    OBVIOUS
  <1>2. t = SubSeq(s, 1, m)
    BY DEF Cut
  <1> HIDE DEF t
  <1>3. \A i \in 1..m : s[i] \in S
    BY <1>1
  <1>4. t \in Seq(S) /\ Len(t) = m /\ \A i \in 1..m : t[i] = s[i]
    <2>1. /\ SubSeq(s, 1, m) \in Seq(S)
          /\ Len(SubSeq(s, 1, m)) = IF 1 <= m THEN m - 1 + 1 ELSE 0
          /\ \A i \in 1..(m - 1 + 1) : SubSeq(s, 1, m)[i] = s[1 + i - 1]
      BY <1>1, <1>3, SubSeqProperties
    <2>2. m - 1 + 1 = m /\ (~(1 <= m) => m = 0) /\ \A i \in 1..m : 1 + i - 1 = i
      BY <1>1
    <2>3. QED
      BY <1>2, <2>1, <2>2
  <1>5. DOMAIN t = 1..m
    BY <1>4
  <1>6. 1..m = {i \in DOMAIN s : i <= n}
    BY <1>1
  <1>7. ToSet(t) \subseteq ToSet(s)
    BY <1>4, <1>5, <1>6 DEF ToSet
  <1>8. IsInjective(s) => IsInjective(t)
    BY <1>4, <1>5, <1>6 DEF IsInjective
  <1>9. QED
    BY <1>4, <1>5, <1>6, <1>7, <1>8 DEF t

LEMMA RankingsAre ==
    ASSUME NEW S, NEW n \in Nat, NEW s \in Rankings(S, n)
    PROVE  IsRanking(s) /\ Len(s) <= n /\ ToSet(s) \subseteq S
  <1>1. PICK T \in SUBSET Chunk : s \in SetToSeqs(T)
    BY DEF Rankings, AllRankings, SetToAllKPermutations
  <1>2. IsFiniteSet(T)
    BY FS_Subset, SearchAssumption
  <1>3. s \in Seq(T) /\ IsInjective(s)
    BY <1>1, <1>2, SequencesOfSet
  <1>4. s \in Seq(Chunk)
    BY <1>3, SeqMonotonic
  <1>5. QED
    BY <1>3, <1>4 DEF Rankings, IsRanking

LEMMA EmptyRanking == IsRanking(<<>>) /\ ToSet(<<>>) = {} /\ Len(<<>>) = 0
  BY DEF IsRanking, IsInjective, ToSet

LEMMA LimitsAre ==
    /\ MaxQueries \in Nat /\ MaxQueries >= 1 /\ TopK \in Nat /\ CandidateK \in Nat
    /\ TopK <= CandidateK /\ PageSize \in Nat /\ PageSize >= 1 /\ MaxRaw \in Nat
  BY SearchAssumption DEF CandidateK

-----------------------------------------------------------------------------
(* Sums.  Of the numbers of a finite set, one after the other is added.    *)

Pick(s) == CHOOSE x \in s : TRUE

SumsUp(h, f, T) ==
    h = [s \in T |-> IF s = {} THEN 0 ELSE f[Pick(s)] + h[s \ {Pick(s)}]]

LEMMA PickTakes ==
    ASSUME NEW s, s # {}, IsFiniteSet(s)
    PROVE  /\ Pick(s) \in s /\ IsFiniteSet(s \ {Pick(s)})
           /\ Cardinality(s) \in Nat /\ Cardinality(s) # 0
           /\ Cardinality(s \ {Pick(s)}) = Cardinality(s) - 1
  <1>1. Pick(s) \in s
    BY DEF Pick
  <1>2. Cardinality(s) \in Nat /\ Cardinality(s) # 0
    BY FS_CardinalityType, FS_EmptySet
  <1>3. QED
    BY <1>1, <1>2, FS_RemoveElement

LEMMA SumExists ==
    ASSUME NEW D, IsFiniteSet(D), NEW f
    PROVE  \E h : SumsUp(h, f, SUBSET D)
  <1> DEFINE Few(n) == {s \in SUBSET D : Cardinality(s) <= n}
             Good == {n \in Nat : \E h : SumsUp(h, f, Few(n))}
             Value(h, s) == IF s = {} THEN 0 ELSE f[Pick(s)] + h[s \ {Pick(s)}]
  <1>0. \A s \in SUBSET D : IsFiniteSet(s) /\ Cardinality(s) \in Nat
    BY FS_Subset, FS_CardinalityType
  <1>1. 0 \in Good
    <2>1. \A s \in Few(0) : s = {}
      BY <1>0, FS_EmptySet
    <2> DEFINE h == [s \in Few(0) |-> 0]
    <2>2. h = [s \in Few(0) |-> Value(h, s)]
      BY <2>1
    <2>3. QED
      BY <2>2 DEF SumsUp
  <1>2. ASSUME NEW n \in Nat, n \in Good PROVE n + 1 \in Good
    <2>1. PICK h : h = [s \in Few(n) |-> Value(h, s)]
      BY <1>2 DEF SumsUp
    <2> DEFINE k == [s \in Few(n + 1) |-> IF s \in Few(n) THEN h[s] ELSE Value(h, s)]
    <2>2. Few(n) \subseteq Few(n + 1)
      BY <1>0
    <2>3. \A s \in Few(n) : k[s] = h[s] /\ h[s] = Value(h, s)
      <3>1. \A s \in Few(n) : k[s] = h[s]
        BY <2>2
      <3>2. \A s \in Few(n) : h[s] = Value(h, s)
        <4> HIDE DEF Few, Value
        <4>1. QED
          BY <2>1
      <3>3. QED
        BY <3>1, <3>2
    <2>4. \A s \in Few(n + 1) : s # {} => s \ {Pick(s)} \in Few(n)
      <3> TAKE s \in Few(n + 1)
      <3> HAVE s # {}
      <3>1. /\ Cardinality(s) <= n + 1 /\ Cardinality(s) \in Nat
            /\ Cardinality(s \ {Pick(s)}) = Cardinality(s) - 1
        BY <1>0, PickTakes
      <3>2. Cardinality(s \ {Pick(s)}) <= n
        BY <3>1
      <3>3. QED
        BY <3>2
    <2>5. \A s \in Few(n + 1) : k[s] = Value(h, s)
      <3>1. ASSUME NEW s \in Few(n + 1) PROVE k[s] = IF s \in Few(n) THEN h[s] ELSE Value(h, s)
        <4> HIDE DEF Few, Value
        <4>1. QED
          OBVIOUS
      <3> HIDE DEF k, Few, Value
      <3>2. QED
        BY <2>3, <3>1
    <2>6. \A s \in Few(n + 1) : Value(k, s) = Value(h, s)
      <3> TAKE s \in Few(n + 1)
      <3> HIDE DEF k
      <3>1. s # {} => k[s \ {Pick(s)}] = h[s \ {Pick(s)}]
        BY <2>3, <2>4
      <3>2. QED
        BY <3>1
    <2>7. k = [s \in Few(n + 1) |-> Value(k, s)]
      <3>1. k = [s \in Few(n + 1) |-> k[s]]
        <4> HIDE DEF Few, Value
        <4>1. QED
          OBVIOUS
      <3>2. \A s \in Few(n + 1) : k[s] = Value(k, s)
        BY <2>5, <2>6
      <3> HIDE DEF k, Few, Value
      <3>3. QED
        BY <3>1, <3>2
    <2>8. SumsUp(k, f, Few(n + 1))
      BY <2>7 DEF SumsUp
    <2> HIDE DEF k
    <2>9. \E h0 : SumsUp(h0, f, Few(n + 1))
      BY <2>8
    <2> HIDE DEF Few
    <2>10. QED
      BY <2>9
  <1> HIDE DEF Good
  <1>3. Cardinality(D) \in Nat
    BY FS_CardinalityType
  <1>4. Cardinality(D) \in Good
    BY <1>1, <1>2, <1>3, SetInduction
  <1>5. PICK h : SumsUp(h, f, Few(Cardinality(D)))
    BY <1>4 DEF Good
  <1>6. Few(Cardinality(D)) = SUBSET D
    BY FS_Subset
  <1>7. QED
    BY <1>5, <1>6

Adds(h, f, D) ==
    /\ SumFunctionOnSet(f, D) = h[D] /\ h[{}] = 0
    /\ \A s \in SUBSET D : s # {} => h[s] = f[Pick(s)] + h[s \ {Pick(s)}]

LEMMA SumIs ==
    ASSUME NEW D, IsFiniteSet(D), NEW f
    PROVE  \E h : Adds(h, f, D)
  <1> DEFINE h == CHOOSE h : SumsUp(h, f, SUBSET D)
  <1>1. SumFunctionOnSet(f, D) = h[D]
    BY DEF SumFunctionOnSet, FoldFunctionOnSet, MapThenFoldSet, SumsUp, Pick
  <1>2. SumsUp(h, f, SUBSET D)
    BY SumExists
  <1> HIDE DEF h
  <1>3. \A s \in SUBSET D : h[s] = IF s = {} THEN 0 ELSE f[Pick(s)] + h[s \ {Pick(s)}]
    <2> DEFINE v(s) == IF s = {} THEN 0 ELSE f[Pick(s)] + h[s \ {Pick(s)}]
    <2>1. h = [s \in SUBSET D |-> v(s)]
      BY <1>2 DEF SumsUp
    <2> HIDE DEF v
    <2>2. \A s \in SUBSET D : h[s] = v(s)
      BY <2>1
    <2>3. QED
      BY <2>2 DEF v
  <1>4. Adds(h, f, D)
    BY <1>1, <1>3 DEF Adds
  <1>5. QED
    BY <1>4

(* Of two families of numbers, one nowhere greater and somewhere less.     *)
LEMMA SumsCompare ==
    ASSUME NEW D, IsFiniteSet(D), NEW f \in [D -> Nat], NEW g \in [D -> Nat],
           \A x \in D : f[x] <= g[x], NEW y \in D, f[y] < g[y]
    PROVE  /\ SumFunction(f) \in Nat /\ SumFunction(g) \in Nat
           /\ SumFunction(f) < SumFunction(g)
  <1>1. PICK h : Adds(h, f, D)
    BY SumIs
  <1>2. PICK k : Adds(k, g, D)
    BY SumIs
  <1> DEFINE Less(s) == /\ h[s] \in Nat /\ k[s] \in Nat /\ h[s] <= k[s]
                        /\ y \in s => h[s] < k[s]
             Good == {n \in Nat : \A s \in SUBSET D : Cardinality(s) = n => Less(s)}
  <1>3. \A s \in SUBSET D : IsFiniteSet(s) /\ Cardinality(s) \in Nat
    BY FS_Subset, FS_CardinalityType
  <1>4. 0 \in Good
    <2>1. Less({})
      BY <1>1, <1>2 DEF Adds
    <2>2. \A s \in SUBSET D : Cardinality(s) = 0 => s = {}
      BY <1>3, FS_EmptySet
    <2>3. QED
      BY <2>1, <2>2
  <1>5. ASSUME NEW n \in Nat, n \in Good PROVE n + 1 \in Good
    <2>1. ASSUME NEW s \in SUBSET D, Cardinality(s) = n + 1 PROVE Less(s)
      <3> DEFINE x == Pick(s)
                 r == s \ {x}
      <3>1. s # {}
        BY <2>1, FS_EmptySet
      <3>2. x \in s /\ Cardinality(r) = Cardinality(s) - 1
        BY <1>3, <3>1, PickTakes
      <3>3. h[s] = f[x] + h[r] /\ k[s] = g[x] + k[r]
        BY <1>1, <1>2, <3>1 DEF Adds
      <3>4. Cardinality(r) = n /\ r \in SUBSET D
        BY <2>1, <3>2
      <3>5. Less(r)
        BY <1>5, <3>4
      <3>6. x \in D /\ f[x] \in Nat /\ g[x] \in Nat /\ f[x] <= g[x]
        BY <3>2
      <3>7. y \in s => y = x \/ y \in r
        OBVIOUS
      <3>8. y = x => f[x] < g[x]
        OBVIOUS
      <3> HIDE DEF x, r
      <3>9. QED
        BY <3>3, <3>5, <3>6, <3>7, <3>8
    <2>2. QED
      BY <2>1
  <1> HIDE DEF Good
  <1>6. Cardinality(D) \in Good
    BY <1>3, <1>4, <1>5, SetInduction
  <1>7. Less(D)
    BY <1>6 DEF Good
  <1>8. DOMAIN f = D /\ DOMAIN g = D
    OBVIOUS
  <1>9. QED
    BY <1>1, <1>2, <1>7, <1>8 DEF SumFunction, Adds

-----------------------------------------------------------------------------
(* The helpers of the retrieval.                                           *)

LEMMA MatchingMembers ==
    ASSUME NEW S, NEW filter, NEW T
    PROVE  /\ Matching(S, filter) \subseteq S
           /\ T \subseteq Matching(S, filter) => T = Matching(T, filter)
           /\ T = Matching(T, filter) => \A U \in SUBSET T : U = Matching(U, filter)
           /\ S = Matching(S, filter) /\ T = Matching(T, filter) =>
                S \union T = Matching(S \union T, filter)
  BY DEF Matching

LEMMA EmptyAdmitted == Admitted(<<>>)
  BY EmptyRanking DEF Admitted, Matching

(* A shorter list of the same chunks is as good.                           *)
LEMMA PartAdmitted ==
    ASSUME NEW s, IsRanking(s), NEW T, T = Matching(T, request.filter), ToSet(s) \subseteq T
    PROVE  Admitted(s)
  BY MatchingMembers DEF Admitted

LEMMA AdmittedStays ==
    ASSUME request' = request
    PROVE  \A s : Admitted(s)' <=> Admitted(s)
  BY DEF Admitted, IsRanking, Matching

LEMMA FullRankingsAre ==
    ASSUME NEW S, NEW n \in Nat, NEW s \in FullRankings(S, n)
    PROVE  IsRanking(s) /\ Len(s) <= n /\ ToSet(s) \subseteq S
  BY RankingsAre DEF FullRankings

LEMMA CutRanking ==
    ASSUME NEW s, IsRanking(s), NEW n \in Nat
    PROVE  IsRanking(Cut(s, n)) /\ Len(Cut(s, n)) <= n /\ ToSet(Cut(s, n)) \subseteq ToSet(s)
  <1>1. /\ Cut(s, n) \in Seq(Chunk) /\ ToSet(Cut(s, n)) \subseteq ToSet(s)
        /\ IsInjective(s) => IsInjective(Cut(s, n))
        /\ Len(Cut(s, n)) = IF Len(s) < n THEN Len(s) ELSE n
    BY CutIsPrefix DEF IsRanking
  <1>2. Len(s) \in Nat
    BY DEF IsRanking
  <1>3. Len(Cut(s, n)) <= n
    BY <1>1, <1>2
  <1>4. QED
    BY <1>1, <1>3 DEF IsRanking

(* A finite set of chunks as a sequence is a ranking of it.                *)
LEMMA ArrangedChunks ==
    ASSUME NEW S \in SUBSET Chunk, NEW s \in SetToSeqs(S)
    PROVE  IsRanking(s) /\ ToSet(s) = S /\ IsFiniteSet(S)
  <1>1. IsFiniteSet(S)
    BY FS_Subset, SearchAssumption
  <1>2. s \in Seq(S) /\ IsInjective(s) /\ ToSet(s) = S
    BY <1>1, SequencesOfSet
  <1>3. s \in Seq(Chunk)
    BY <1>2, SeqMonotonic
  <1>4. QED
    BY <1>1, <1>2, <1>3 DEF IsRanking

LEMMA RankedMembers ==
    ASSUME NEW from \in Seq(Seq(Chunk))
    PROVE  /\ Ranked(from) \subseteq Chunk
           /\ \A c : c \in Ranked(from) <=> \E i \in DOMAIN from : c \in ToSet(from[i])
  <1>1. \A i \in DOMAIN from : from[i] \in Seq(Chunk)
    OBVIOUS
  <1>2. \A i \in DOMAIN from : ToSet(from[i]) \subseteq Chunk
    BY <1>1, MembersOf
  <1>3. QED
    BY <1>2 DEF Ranked

LEMMA FusedIsRanking ==
    ASSUME NEW from \in Seq(Seq(Chunk)), NEW fused \in Fused(from)
    PROVE  IsRanking(fused) /\ ToSet(fused) = Ranked(from)
  <1>1. fused \in SetToSeqs(Ranked(from))
    BY DEF Fused, Sorted
  <1>2. QED
    BY <1>1, RankedMembers, ArrangedChunks

(* Cleaning queries leaves at most as many, and one of one.                *)
LEMMA DistinctQueries ==
    ASSUME NEW S, NEW raw \in Seq(S), NEW q \in Distinct(raw)
    PROVE  /\ q \in Seq(ToSet(raw)) /\ Len(q) <= Len(raw) /\ Len(q) \in Nat
           /\ raw # <<>> => Len(q) # 0
  <1>1. q \in SetToSeqs(ToSet(raw))
    BY DEF Distinct, Sorted
  <1>2. /\ Len(raw) \in Nat /\ DOMAIN raw = 1..Len(raw)
        /\ raw \in [1..Len(raw) -> ToSet(raw)] /\ \A x \in ToSet(raw) : \E i \in 1..Len(raw) : raw[i] = x
    BY DEF ToSet
  <1>3. IsFiniteSet(1..Len(raw)) /\ Cardinality(1..Len(raw)) = Len(raw)
    <2>1. PICK n \in Nat : n = Len(raw)
      BY <1>2
    <2>2. IsFiniteSet(1..n) /\ Cardinality(1..n) = n
      BY FS_Interval
    <2>3. QED
      BY <2>1, <2>2
  <1>4. raw \in Surjection(1..Len(raw), ToSet(raw))
    BY <1>2 DEF Surjection
  <1>5. IsFiniteSet(ToSet(raw)) /\ Cardinality(ToSet(raw)) <= Len(raw)
    BY <1>3, <1>4, FS_Surjection
  <1>6. q \in Seq(ToSet(raw)) /\ Len(q) = Cardinality(ToSet(raw))
    BY <1>1, <1>5, SequencesOfSet
  <1>7. raw # <<>> => ToSet(raw) # {}
    <2>1. raw # <<>> => 1 \in DOMAIN raw
      BY <1>2
    <2>2. QED
      BY <2>1 DEF ToSet
  <1>8. QED
    BY <1>5, <1>6, <1>7, FS_CardinalityType, FS_EmptySet

LEMMA TypesFollow == Base /\ ListsInv => TypeOK
  <1> SUFFICES ASSUME Base, ListsInv PROVE TypeOK
    OBVIOUS
  <1>1. \A i \in DOMAIN lists : IsRanking(lists[i])
    BY DEF ListsInv, Admitted
  <1>2. \A i \in DOMAIN sources : IsRanking(sources[i])
    BY DEF ListsInv
  <1>3. IsRanking(dense) /\ IsRanking(scanned) /\ IsRanking(ranking) /\ IsRanking(results)
    BY DEF ListsInv, Admitted
  <1>4. ASSUME NEW list \in ToSet(lists) \union ToSet(sources) \union {dense, scanned, ranking, results}
        PROVE  IsRanking(list)
    BY <1>1, <1>2, <1>3, <1>4 DEF ToSet
  <1>5. QED
    BY <1>4 DEF Base, TypeOK, IsRanking, ListsInv

LEMMA InitIInv == Init => IInv
  <1> SUFFICES ASSUME Init PROVE IInv
    OBVIOUS
  <1> USE DEF Init
  <1>1. Base
    <2>1. Len(queries) + Len(lists) <= MaxQueries
      BY LimitsAre
    <2>2. QED
      BY <2>1 DEF Base
  <1>2. ListsInv
    BY EmptyAdmitted, EmptyRanking, LimitsAre DEF ListsInv
  <1>3. PathInv
    BY DEF PathInv, Searching
  <1>4. ScrollInv
    BY DEF ScrollInv
  <1>5. QED
    BY <1>1, <1>2, <1>3, <1>4 DEF IInv

-----------------------------------------------------------------------------
(* Each step keeps the invariant.                                          *)

listVars == <<lists, sources, dense, scanned, ranking, results>>

LEMMA ListsStay ==
    ASSUME ListsInv, UNCHANGED <<request, listVars>>
    PROVE  ListsInv'
  BY AdmittedStays DEF ListsInv, listVars, IsRanking

LEMMA RawQueriesAre ==
    ASSUME NEW processor \in Processor, NEW raw \in RawQueries(processor)
    PROVE  /\ raw \in Seq(Text \union {Blank}) /\ Len(raw) <= MaxQueries
           /\ processor # "multi" => Len(raw) = 1
  <1>1. CASE processor = "multi"
    <2>1. raw \in PlannedQueries
      BY <1>1 DEF RawQueries
    <2>2. PICK all \in BoundedSeq(Text \union {Blank}, MaxRaw) : raw = Cut(all, MaxQueries)
      BY <2>1 DEF PlannedQueries
    <2>3. all \in Seq(Text \union {Blank})
      BY <2>2, LimitsAre DEF BoundedSeq, SeqOf
    <2>4. /\ raw \in Seq(Text \union {Blank})
          /\ Len(raw) = IF Len(all) < MaxQueries THEN Len(all) ELSE MaxQueries
      BY <2>2, <2>3, LimitsAre, CutIsPrefix
    <2>5. Len(all) \in Nat
      BY <2>3
    <2>6. Len(raw) <= MaxQueries
      BY <2>4, <2>5, LimitsAre
    <2>7. QED
      BY <1>1, <2>4, <2>6
  <1>2. CASE processor # "multi"
    <2>1. raw \in RuleQueries \/ raw \in RewrittenQueries
      BY <1>2, SearchAssumption DEF RawQueries
    <2>2. PICK t \in Text \union {Blank} : raw = <<t>>
      BY <2>1 DEF RuleQueries, RewrittenQueries
    <2>3. QED
      BY <2>2, LimitsAre
  <1>3. QED
    BY <1>1, <1>2

LEMMA PlanQueriesKeeps == IInv /\ PlanQueries => IInv'
  <1> SUFFICES ASSUME IInv, PlanQueries PROVE IInv'
    OBVIOUS
  <1> USE DEF IInv
  <1>0. PICK processor \in Processor : \E raw \in RawQueries(processor) :
            IF Usable(raw)
            THEN /\ queries' \in Distinct(raw) /\ pc' = "next"
                 /\ strategy' = IF processor = "multi" THEN "rrf" ELSE "single_query"
            ELSE UNCHANGED planVars /\ pc' = "failed"
    BY DEF PlanQueries
  <1>1. PICK raw \in RawQueries(processor) :
            IF Usable(raw)
            THEN /\ queries' \in Distinct(raw) /\ pc' = "next"
                 /\ strategy' = IF processor = "multi" THEN "rrf" ELSE "single_query"
            ELSE UNCHANGED planVars /\ pc' = "failed"
    BY <1>0
  <1>2. UNCHANGED <<stored, request, lists, dense, scrollVars, fusionVars, results>> /\ pc = "plan"
    BY DEF PlanQueries
  <1>3. ListsInv'
    BY <1>2, ListsStay DEF listVars, scrollVars, fusionVars
  <1>4. CASE Usable(raw)
    <2>1. queries' \in Distinct(raw) /\ pc' = "next"
          /\ strategy' = IF processor = "multi" THEN "rrf" ELSE "single_query"
      BY <1>1, <1>4
    <2>2. /\ raw \in Seq(Text \union {Blank}) /\ Len(raw) <= MaxQueries
          /\ processor # "multi" => Len(raw) = 1
      BY <1>1, RawQueriesAre
    <2>3. /\ queries' \in Seq(ToSet(raw)) /\ Len(queries') <= Len(raw) /\ Len(queries') \in Nat
          /\ Len(queries') # 0
      BY <1>4, <2>1, <2>2, DistinctQueries DEF Usable
    <2>4. ToSet(raw) \subseteq Text
      BY <1>4, <2>2, MembersOf DEF Usable
    <2>5. queries' \in Seq(Text)
      BY <2>3, <2>4, SeqMonotonic
    <2>6. lists' = <<>> /\ Len(lists') = 0 /\ Len(raw) \in Nat
      BY <1>2, <2>2 DEF PathInv
    <2>7. Base'
      BY <1>2, <2>1, <2>2, <2>3, <2>5, <2>6, LimitsAre DEF Base, scrollVars
    <2>8. PathInv'
      BY <1>2, <2>1, <2>2, <2>3, <2>6 DEF PathInv, Searching
    <2>9. ScrollInv'
      BY <2>1 DEF ScrollInv
    <2>10. QED
      BY <1>3, <2>7, <2>8, <2>9
  <1>5. CASE ~Usable(raw)
    <2>1. UNCHANGED planVars /\ pc' = "failed"
      BY <1>1, <1>5
    <2>2. QED
      BY <1>2, <1>3, <2>1 DEF Base, PathInv, ScrollInv, Searching, planVars, scrollVars
  <1>6. QED
    BY <1>4, <1>5

(* Nothing is read yet, and nothing lies before the beginning.             *)
LEMMA BeginScrollKeeps ==
    ASSUME IInv, BeginScroll, UNCHANGED <<stored, request>>
    PROVE  ScrollInv' /\ Admitted(<<>>)'
  <1>1. \A c \in Matching(steady', request'.filter) : c \in Nat /\ ~(c < 0)
    <2>1. steady' \subseteq Nat
      BY SearchAssumption DEF BeginScroll, IInv, Base
    <2>2. Matching(steady', request'.filter) \subseteq steady'
      BY DEF Matching
    <2>3. \A c \in Nat : ~(c < 0)
      OBVIOUS
    <2>4. QED
      BY <2>1, <2>2, <2>3
  <1>2. ToSet(scanned') = {}
    BY EmptyRanking DEF BeginScroll
  <1>3. Admitted(<<>>)'
    BY EmptyAdmitted, AdmittedStays
  <1>4. QED
    BY <1>1, <1>2, <1>3 DEF BeginScroll, ScrollInv

LEMMA NextQueryKeeps == IInv /\ NextQuery => IInv'
  <1> SUFFICES ASSUME IInv, NextQuery PROVE IInv'
    OBVIOUS
  <1> USE DEF IInv
  <1>1. /\ pc = "next" /\ queries # <<>>
        /\ UNCHANGED <<stored, request, planVars, lists, dense, fusionVars, results>>
    BY DEF NextQuery
  <1>2. CASE BeginScroll
    <2>1. ScrollInv' /\ Admitted(<<>>)'
      BY <1>1, <1>2, BeginScrollKeeps
    <2>2. ListsInv'
      BY <1>1, <1>2, <2>1, AdmittedStays DEF ListsInv, BeginScroll, fusionVars, IsRanking
    <2>3. Base'
      BY <1>1, <1>2 DEF Base, BeginScroll, planVars
    <2>4. PathInv'
      BY <1>1, <1>2 DEF PathInv, Searching, BeginScroll, planVars
    <2>5. QED
      BY <2>1, <2>2, <2>3, <2>4
  <1>3. CASE pc' = "dense" /\ UNCHANGED scrollVars
    <2>1. ListsInv'
      BY <1>1, <1>3, ListsStay DEF listVars, scrollVars, fusionVars
    <2>2. QED
      BY <1>1, <1>3, <2>1 DEF Base, PathInv, Searching, ScrollInv, planVars, scrollVars
  <1>4. QED
    BY <1>2, <1>3 DEF NextQuery

LEMMA LoadGraphKeeps == IInv /\ LoadGraph => IInv'
  <1> SUFFICES ASSUME IInv, LoadGraph PROVE IInv'
    OBVIOUS
  <1> USE DEF IInv
  <1>1. /\ pc = "load" /\ BeginScroll
        /\ UNCHANGED <<stored, request, planVars, lists, dense, fusionVars, results>>
    BY DEF LoadGraph
  <1>2. ScrollInv' /\ Admitted(<<>>)'
    BY <1>1, BeginScrollKeeps
  <1>3. ListsInv'
    BY <1>1, <1>2, AdmittedStays DEF ListsInv, BeginScroll, fusionVars, IsRanking
  <1>4. Base'
    BY <1>1 DEF Base, BeginScroll, planVars
  <1>5. PathInv'
    BY <1>1 DEF PathInv, Searching, BeginScroll, planVars
  <1>6. QED
    BY <1>2, <1>3, <1>4, <1>5

(* A list is found for one of the queries: it joins the others.            *)
LEMMA FoundKeeps ==
    ASSUME NEW list, IInv, Found(list), Searching, Admitted(list), Len(list) <= CandidateK,
           UNCHANGED <<stored, request, strategy, results>>
    PROVE  /\ lists' \in Seq(Seq(Chunk)) /\ queries' \in Seq(Text)
           /\ \A i \in DOMAIN lists' : Admitted(lists'[i]) /\ Len(lists'[i]) <= CandidateK
           /\ Len(queries') + Len(lists') <= MaxQueries
           /\ PathInv' /\ ScrollInv'
  <1> USE DEF IInv
  <1>1. lists' = Append(lists, list) /\ queries' = Tail(queries) /\ pc' = "next"
    BY DEF Found
  <1>2. queries # <<>> /\ queries \in Seq(Text) /\ lists \in Seq(Seq(Chunk)) /\ list \in Seq(Chunk)
    BY DEF PathInv, Base, ListsInv, Admitted, IsRanking
  <1>3. /\ lists' \in Seq(Seq(Chunk)) /\ Len(lists') = Len(lists) + 1
        /\ queries' \in Seq(Text) /\ Len(queries') = Len(queries) - 1
        /\ \A i \in DOMAIN lists' : i = Len(lists) + 1 \/ i \in DOMAIN lists
        /\ \A i \in DOMAIN lists : lists'[i] = lists[i]
        /\ lists'[Len(lists) + 1] = list
        /\ Len(lists) \in Nat /\ Len(queries) \in Nat
    BY <1>1, <1>2
  <1>4. \A i \in DOMAIN lists' : Admitted(lists'[i]) /\ Len(lists'[i]) <= CandidateK
    BY <1>3 DEF ListsInv
  <1>5. Len(queries') + Len(lists') = Len(queries) + Len(lists)
    BY <1>3
  <1>6. PathInv'
    BY <1>1, <1>5 DEF PathInv, Searching
  <1>7. QED
    BY <1>1, <1>3, <1>4, <1>5, <1>6 DEF Base, ScrollInv

LEMMA DenseSearchKeeps == IInv /\ DenseSearch => IInv'
  <1> SUFFICES ASSUME IInv, DenseSearch PROVE IInv'
    OBVIOUS
  <1> USE DEF IInv
  <1>1. pc = "dense" /\ UNCHANGED <<stored, request, strategy, fusionVars, results>>
    BY DEF DenseSearch
  <1>2. PICK list \in FullRankings(Matching(stored, request.filter), CandidateK) :
            IF request.retriever = "hybrid"
            THEN dense' = list /\ BeginScroll /\ UNCHANGED <<lists, queries>>
            ELSE Found(list) /\ UNCHANGED <<dense, scrollVars>>
    BY DEF DenseSearch
  <1>3. /\ IsRanking(list) /\ Len(list) <= CandidateK
        /\ ToSet(list) \subseteq Matching(stored, request.filter)
    BY <1>2, FullRankingsAre, LimitsAre
  <1>4. Admitted(list)
    BY <1>3, MatchingMembers DEF Admitted
  <1>5. Searching /\ request.retriever # "graph"
    BY <1>1 DEF Searching, PathInv
  <1>6. CASE request.retriever = "hybrid"
    <2>1. dense' = list /\ BeginScroll /\ UNCHANGED <<lists, queries>>
      BY <1>2, <1>6
    <2>2. ScrollInv' /\ Admitted(<<>>)'
      BY <1>1, <2>1, BeginScrollKeeps
    <2>3. ListsInv'
      BY <1>1, <1>3, <1>4, <2>1, <2>2, AdmittedStays
      DEF ListsInv, BeginScroll, fusionVars, IsRanking
    <2>4. Base'
      BY <1>1, <2>1 DEF Base, BeginScroll
    <2>5. PathInv'
      BY <1>1, <1>5, <2>1 DEF PathInv, Searching, BeginScroll
    <2>6. QED
      BY <2>2, <2>3, <2>4, <2>5
  <1>7. CASE request.retriever # "hybrid"
    <2>1. Found(list) /\ UNCHANGED <<dense, scrollVars>>
      BY <1>2, <1>7
    <2>2. /\ lists' \in Seq(Seq(Chunk)) /\ queries' \in Seq(Text)
          /\ \A i \in DOMAIN lists' : Admitted(lists'[i]) /\ Len(lists'[i]) <= CandidateK
          /\ Len(queries') + Len(lists') <= MaxQueries
          /\ PathInv' /\ ScrollInv'
      BY <1>1, <1>3, <1>4, <1>5, <2>1, FoundKeeps
    <2>3. ListsInv'
      BY <1>1, <2>1, <2>2, AdmittedStays DEF ListsInv, scrollVars, fusionVars, IsRanking
    <2>4. Base'
      BY <1>1, <2>1, <2>2 DEF Base, Found, scrollVars
    <2>5. QED
      BY <2>2, <2>3, <2>4
  <1>8. QED
    BY <1>6, <1>7

(* A page takes the smallest of what is unread.                            *)
LEMMA PagesAre ==
    ASSUME Unread \subseteq Chunk, NEW page \in Pages
    PROVE  /\ IsRanking(page) /\ ToSet(page) \subseteq Unread
           /\ \A c \in ToSet(page), d \in Unread \ ToSet(page) : c < d
  <1>1. PICK points \in SetToSeqs(Unread) :
            /\ page = Cut(points, PageSize)
            /\ \A i, j \in DOMAIN points : i < j => points[i] < points[j]
    BY DEF Pages, Sorted
  <1>2. IsRanking(points) /\ ToSet(points) = Unread
    BY <1>1, ArrangedChunks
  <1>3. IsRanking(page) /\ ToSet(page) \subseteq Unread
    BY <1>1, <1>2, LimitsAre, CutRanking
  <1>4. /\ DOMAIN page = {i \in DOMAIN points : i <= PageSize}
        /\ \A i \in DOMAIN page : page[i] = points[i]
    <2>1. points \in Seq(Chunk) /\ PageSize \in Nat
      BY <1>2, LimitsAre DEF IsRanking
    <2>2. /\ DOMAIN Cut(points, PageSize) = {i \in DOMAIN points : i <= PageSize}
          /\ \A i \in DOMAIN Cut(points, PageSize) : Cut(points, PageSize)[i] = points[i]
      BY <2>1, CutIsPrefix, Zenon
    <2>3. QED
      BY <1>1, <2>2, Zenon
  <1>5. ASSUME NEW c \in ToSet(page), NEW d \in Unread \ ToSet(page) PROVE c < d
    <2>1. PICK i \in DOMAIN page : page[i] = c
      BY DEF ToSet
    <2>2. PICK j \in DOMAIN points : points[j] = d
      BY <1>2 DEF ToSet
    <2>3. j \notin DOMAIN page
      BY <1>4, <2>2 DEF ToSet
    <2>4. i \in DOMAIN points /\ i <= PageSize /\ ~(j <= PageSize)
      BY <1>4, <2>1, <2>2, <2>3
    <2>5. i \in Nat /\ j \in Nat
      BY <1>2, <2>4, <2>2 DEF IsRanking
    <2>6. i < j
      BY <2>4, <2>5, LimitsAre
    <2>7. QED
      BY <1>1, <1>4, <2>1, <2>2, <2>4, <2>6
  <1>6. QED
    BY <1>3, <1>5

LEMMA JoinedRankings ==
    ASSUME NEW s, NEW t, Admitted(s), Admitted(t), ToSet(s) \intersect ToSet(t) = {}
    PROVE  Admitted(s \o t) /\ ToSet(s \o t) = ToSet(s) \union ToSet(t)
  <1>1. s \in Seq(Chunk) /\ t \in Seq(Chunk) /\ IsInjective(s) /\ IsInjective(t)
    BY DEF Admitted, IsRanking
  <1>2. PICK m \in Nat, n \in Nat : m = Len(s) /\ n = Len(t)
    BY <1>1
  <1>3. /\ s \o t \in Seq(Chunk) /\ DOMAIN (s \o t) = 1..(m + n)
        /\ DOMAIN s = 1..m /\ DOMAIN t = 1..n
        /\ \A i \in 1..m : (s \o t)[i] = s[i]
        /\ \A i \in 1..(m + n) : i > m => (s \o t)[i] = t[i - m]
    BY <1>1, <1>2
  <1> DEFINE u == s \o t
  <1> HIDE DEF u
  <1>4. \A i \in 1..(m + n) : (i \in 1..m /\ u[i] = s[i]) \/ (i - m \in 1..n /\ u[i] = t[i - m])
    BY <1>2, <1>3 DEF u
  <1>5. ToSet(u) = ToSet(s) \union ToSet(t)
    <2>1. ASSUME NEW i \in 1..m PROVE s[i] \in ToSet(u)
      <3>1. i \in DOMAIN u /\ u[i] = s[i]
        BY <1>2, <1>3 DEF u
      <3>2. QED
        BY <3>1 DEF ToSet
    <2>2. ASSUME NEW i \in 1..n PROVE t[i] \in ToSet(u)
      <3>1. i + m \in 1..(m + n) /\ i + m > m /\ (i + m) - m = i
        BY <1>2
      <3>2. i + m \in DOMAIN u /\ u[i + m] = t[i]
        BY <1>3, <3>1 DEF u
      <3>3. QED
        BY <3>2 DEF ToSet
    <2>3. \A i \in DOMAIN u : u[i] \in ToSet(s) \union ToSet(t)
      <3>1. DOMAIN u = 1..(m + n)
        BY <1>3 DEF u
      <3>2. QED
        BY <1>3, <1>4, <3>1 DEF ToSet
    <2>4. QED
      BY <1>3, <2>1, <2>2, <2>3 DEF ToSet
  <1>6. IsInjective(u)
    <2>1. ASSUME NEW i \in 1..(m + n), NEW j \in 1..(m + n), u[i] = u[j] PROVE i = j
      <3>1. CASE i \in 1..m /\ j \in 1..m /\ u[i] = s[i] /\ u[j] = s[j]
        BY <1>1, <1>3, <2>1, <3>1 DEF IsInjective
      <3>2. CASE i - m \in 1..n /\ j - m \in 1..n /\ u[i] = t[i - m] /\ u[j] = t[j - m]
        <4>1. i - m = j - m
          BY <1>1, <1>3, <2>1, <3>2 DEF IsInjective
        <4>2. QED
          BY <1>2, <4>1
      <3>3. ASSUME NEW k \in DOMAIN s, NEW l \in DOMAIN t PROVE s[k] # t[l]
        BY DEF ToSet
      <3>4. ~(i \in 1..m /\ u[i] = s[i] /\ j - m \in 1..n /\ u[j] = t[j - m])
        BY <1>3, <2>1, <3>3
      <3>5. ~(j \in 1..m /\ u[j] = s[j] /\ i - m \in 1..n /\ u[i] = t[i - m])
        BY <1>3, <2>1, <3>3
      <3>6. /\ (i \in 1..m /\ u[i] = s[i]) \/ (i - m \in 1..n /\ u[i] = t[i - m])
            /\ (j \in 1..m /\ u[j] = s[j]) \/ (j - m \in 1..n /\ u[j] = t[j - m])
        BY <1>4
      <3>7. QED
        BY <3>1, <3>2, <3>4, <3>5, <3>6
    <2>2. DOMAIN u = 1..(m + n)
      BY <1>3 DEF u
    <2>3. QED
      BY <2>1, <2>2 DEF IsInjective
  <1>7. ToSet(u) = Matching(ToSet(u), request.filter)
    BY <1>5, MatchingMembers DEF Admitted
  <1>8. QED
    BY <1>3, <1>5, <1>6, <1>7 DEF u, Admitted, IsRanking

LEMMA ScrollPageKeeps == IInv /\ ScrollPage => IInv'
  <1> SUFFICES ASSUME IInv, ScrollPage PROVE IInv'
    OBVIOUS
  <1> USE DEF IInv
  <1>1. /\ pc = "scroll"
        /\ UNCHANGED <<stored, request, planVars, lists, dense, steady, fusionVars, results>>
    BY DEF ScrollPage
  <1>2. PICK page \in Pages :
        /\ scanned' = scanned \o page
        /\ IF Unread = ToSet(page)
           THEN pc' = "score" /\ UNCHANGED offset
           ELSE offset' = NextOffset(Unread, page) /\ UNCHANGED pc
    BY DEF ScrollPage
  <1>3. /\ stored \subseteq Chunk /\ steady \subseteq stored /\ Chunk \subseteq Nat /\ offset \in Nat
        /\ offset \in Chunk \union {0}
    BY SearchAssumption DEF Base
  <1>4. Unread \subseteq Chunk /\ Unread = Matching(Unread, request.filter)
    BY <1>3 DEF Unread, ScrollFilter, Matching
  <1>5. /\ IsRanking(page) /\ ToSet(page) \subseteq Unread
        /\ \A c \in ToSet(page), d \in Unread \ ToSet(page) : c < d
    BY <1>2, <1>4, PagesAre
  <1>6. Admitted(page)
    BY <1>4, <1>5, PartAdmitted
  <1>7. /\ Admitted(scanned) /\ \A c \in ToSet(scanned) : c < offset
        /\ \A c \in Matching(steady, request.filter) : c < offset => c \in ToSet(scanned)
    BY <1>1 DEF ListsInv, ScrollInv
  <1>8. \A c \in Unread : c \in Nat /\ ~(c < offset)
    <2>1. \A c \in Unread : c \in Nat /\ c >= offset
      BY <1>3, <1>4 DEF Unread
    <2>2. QED
      BY <1>3, <2>1
  <1>9. ToSet(scanned) \intersect ToSet(page) = {}
    BY <1>5, <1>7, <1>8
  <1>10. Admitted(scanned') /\ ToSet(scanned') = ToSet(scanned) \union ToSet(page)
    BY <1>2, <1>6, <1>7, <1>9, JoinedRankings
  <1>11. ListsInv'
    BY <1>1, <1>10, AdmittedStays DEF ListsInv, fusionVars, IsRanking
  <1>12. \A c \in Matching(steady, request.filter) : c \in Nat /\ (c < offset \/ c \in Unread)
    BY <1>3 DEF Unread, ScrollFilter, Matching
  <1>13. CASE Unread = ToSet(page)
    <2>1. pc' = "score" /\ UNCHANGED offset
      BY <1>2, <1>13
    <2>2. Matching(steady', request'.filter) \subseteq ToSet(scanned')
      BY <1>1, <1>7, <1>10, <1>12, <1>13
    <2>3. ScrollInv'
      BY <2>1, <2>2 DEF ScrollInv
    <2>4. QED
      BY <1>1, <1>11, <2>1, <2>3 DEF Base, PathInv, Searching, planVars
  <1>14. CASE Unread # ToSet(page)
    <2>1. offset' = NextOffset(Unread, page) /\ UNCHANGED pc
      BY <1>2, <1>14
    <2>2. Unread \ ToSet(page) # {} /\ Unread \ ToSet(page) \subseteq Nat
      BY <1>5, <1>8, <1>14
    <2>3. offset' \in Unread \ ToSet(page) /\ \A d \in Unread \ ToSet(page) : offset' <= d
      BY <2>1, <2>2, SmallestIsOne DEF NextOffset
    <2>4. offset' \in Nat /\ offset' \in Chunk /\ offset <= offset'
      BY <1>3, <1>4, <1>8, <2>3
    <2>5. \A c \in ToSet(scanned) : c \in Nat /\ c < offset'
      <3>1. ToSet(scanned) \subseteq Nat
        BY <1>3, <1>7, MembersOf DEF Admitted, IsRanking
      <3>2. QED
        BY <1>3, <1>7, <2>4, <3>1
    <2>6. \A c \in ToSet(scanned') : c < offset'
      BY <1>5, <1>10, <2>3, <2>5
    <2>7. \A c \in Matching(steady, request.filter) : c < offset' => c \in ToSet(scanned')
      <3> TAKE c \in Matching(steady, request.filter)
      <3> HAVE c < offset'
      <3>1. CASE c < offset
        BY <1>7, <1>10, <3>1
      <3>2. CASE c \in Unread
        <4>1. ~(offset' <= c)
          BY <1>12, <2>4
        <4>2. QED
          BY <1>10, <2>3, <3>2, <4>1
      <3>3. QED
        BY <1>12, <3>1, <3>2
    <2>8. ScrollInv'
      BY <1>1, <2>1, <2>6, <2>7 DEF ScrollInv
    <2>9. QED
      BY <1>1, <1>11, <2>1, <2>4, <2>8 DEF Base, PathInv, Searching, planVars
  <1>15. QED
    BY <1>13, <1>14

LEMMA PairsAre ==
    ASSUME NEW s, NEW t, IsRanking(s), IsRanking(t)
    PROVE  /\ <<s, t>> \in Seq(Seq(Chunk))
           /\ \A i \in DOMAIN <<s, t>> : IsRanking(<<s, t>>[i])
           /\ Ranked(<<s, t>>) = ToSet(s) \union ToSet(t)
  <1>1. DOMAIN <<s, t>> = {1, 2} /\ <<s, t>>[1] = s /\ <<s, t>>[2] = t
    OBVIOUS
  <1>2. <<s, t>> \in Seq(Seq(Chunk))
    BY DEF IsRanking
  <1>3. QED
    BY <1>1, <1>2 DEF Ranked

LEMMA ScoreSparseKeeps == IInv /\ ScoreSparse => IInv'
  <1> SUFFICES ASSUME IInv, ScoreSparse PROVE IInv'
    OBVIOUS
  <1> USE DEF IInv
  <1>1. /\ pc = "score" /\ request.retriever \in {"bm25", "hybrid"}
        /\ dense' = <<>> /\ EndScroll
        /\ UNCHANGED <<stored, request, strategy, results>>
    BY DEF ScoreSparse
  <1>2. PICK list \in Rankings(ToSet(scanned), CandidateK) :
        IF request.retriever = "hybrid"
        THEN /\ sources' = <<dense, list>>
             /\ \E fused \in Fused(sources') : ranking' = Cut(fused, CandidateK)
             /\ Found(ranking')
        ELSE Found(list) /\ UNCHANGED fusionVars
    BY DEF ScoreSparse
  <1>3. IsRanking(list) /\ Len(list) <= CandidateK /\ ToSet(list) \subseteq ToSet(scanned)
    BY <1>2, LimitsAre, RankingsAre
  <1>4. ToSet(scanned) = Matching(ToSet(scanned), request.filter) /\ Admitted(dense)
    BY DEF ListsInv, Admitted
  <1>5. Admitted(list)
    BY <1>3, <1>4, PartAdmitted
  <1>6. Searching
    BY <1>1 DEF Searching
  <1>7. Admitted(<<>>)' /\ Len(<<>>) = 0
    BY <1>1, EmptyAdmitted, AdmittedStays
  <1>8. CASE request.retriever = "hybrid"
    <2>1. PICK fused \in Fused(sources') :
            sources' = <<dense, list>> /\ ranking' = Cut(fused, CandidateK) /\ Found(ranking')
      BY <1>2, <1>8
    <2>2. /\ sources' \in Seq(Seq(Chunk)) /\ \A i \in DOMAIN sources' : IsRanking(sources'[i])
          /\ Ranked(sources') = ToSet(dense) \union ToSet(list)
      BY <1>3, <1>4, <2>1, PairsAre DEF Admitted
    <2>3. IsRanking(fused) /\ ToSet(fused) = Ranked(sources')
      BY <2>2, FusedIsRanking
    <2>4. /\ IsRanking(ranking') /\ Len(ranking') <= CandidateK
          /\ ToSet(ranking') \subseteq ToSet(fused)
      BY <2>1, <2>3, LimitsAre, CutRanking
    <2>5. ToSet(fused) = Matching(ToSet(fused), request.filter)
      BY <1>4, <1>5, <2>2, <2>3, MatchingMembers DEF Admitted
    <2>6. Admitted(ranking')
      BY <2>4, <2>5, PartAdmitted
    <2>7. /\ lists' \in Seq(Seq(Chunk)) /\ queries' \in Seq(Text)
          /\ \A i \in DOMAIN lists' : Admitted(lists'[i]) /\ Len(lists'[i]) <= CandidateK
          /\ Len(queries') + Len(lists') <= MaxQueries
          /\ PathInv' /\ ScrollInv'
      BY <1>1, <1>6, <2>1, <2>4, <2>6, FoundKeeps
    <2>8. ListsInv'
      BY <1>1, <1>7, <2>2, <2>6, <2>7, AdmittedStays, LimitsAre
      DEF ListsInv, EndScroll, IsRanking
    <2>9. Base'
      BY <1>1, <2>1, <2>7 DEF Base, Found, EndScroll
    <2>10. QED
      BY <2>7, <2>8, <2>9
  <1>9. CASE request.retriever # "hybrid"
    <2>1. Found(list) /\ UNCHANGED fusionVars
      BY <1>2, <1>9
    <2>2. /\ lists' \in Seq(Seq(Chunk)) /\ queries' \in Seq(Text)
          /\ \A i \in DOMAIN lists' : Admitted(lists'[i]) /\ Len(lists'[i]) <= CandidateK
          /\ Len(queries') + Len(lists') <= MaxQueries
          /\ PathInv' /\ ScrollInv'
      BY <1>1, <1>3, <1>5, <1>6, <2>1, FoundKeeps
    <2>3. ListsInv'
      BY <1>1, <1>7, <2>1, <2>2, AdmittedStays, LimitsAre
      DEF ListsInv, EndScroll, fusionVars, IsRanking
    <2>4. Base'
      BY <1>1, <2>1, <2>2 DEF Base, Found, EndScroll
    <2>5. QED
      BY <2>2, <2>3, <2>4
  <1>10. QED
    BY <1>8, <1>9

LEMMA FuseQueriesKeeps == IInv /\ FuseQueries => IInv'
  <1> SUFFICES ASSUME IInv, FuseQueries PROVE IInv'
    OBVIOUS
  <1> USE DEF IInv
  <1>1. /\ pc = "next" /\ queries = <<>> /\ sources' = lists /\ pc' = "rerank"
        /\ ranking' \in IF strategy = "rrf" THEN Fused(lists) ELSE {lists[1]}
        /\ UNCHANGED <<stored, request, planVars, lists, dense, scrollVars, results>>
    BY DEF FuseQueries
  <1>2. lists \in Seq(Seq(Chunk)) /\ \A i \in DOMAIN lists : Admitted(lists[i])
    BY DEF ListsInv
  <1>3. Admitted(ranking')
    <2>1. CASE strategy = "rrf"
      <3>1. IsRanking(ranking') /\ ToSet(ranking') = Ranked(lists)
        BY <1>1, <1>2, <2>1, FusedIsRanking
      <3>2. \A c \in Ranked(lists) : \E i \in DOMAIN lists : c \in ToSet(lists[i])
        BY <1>2, RankedMembers
      <3>3. Ranked(lists) = Matching(Ranked(lists), request.filter)
        BY <1>2, <3>2 DEF Admitted, Matching
      <3>4. QED
        BY <3>1, <3>3 DEF Admitted
    <2>2. CASE strategy # "rrf"
      <3>1. strategy = "single_query" /\ Len(queries) = 0
        BY <1>1, <2>2 DEF Base
      <3>2. Len(lists) \in Nat /\ Len(lists) = 1
        BY <1>1, <1>2, <3>1 DEF PathInv
      <3>3. 1 \in DOMAIN lists
        BY <1>2, <3>2
      <3>4. QED
        BY <1>1, <1>2, <2>2, <3>3
    <2>3. QED
      BY <2>1, <2>2
  <1>4. \A i \in DOMAIN sources' : IsRanking(sources'[i])
    BY <1>1, <1>2 DEF Admitted
  <1>5. ListsInv'
    BY <1>1, <1>2, <1>3, <1>4, AdmittedStays DEF ListsInv, scrollVars, IsRanking
  <1>6. QED
    BY <1>1, <1>5 DEF Base, PathInv, Searching, ScrollInv, planVars, scrollVars

(* What ends a retrieval drops all its lists.                              *)
LEMMA DropKeeps ==
    ASSUME IInv, Drop, pc' \in {"done", "failed"}, UNCHANGED <<stored, request>>,
           sources' \in Seq(Seq(Chunk)), \A i \in DOMAIN sources' : IsRanking(sources'[i]),
           Admitted(ranking'), Admitted(results'), Len(results') <= TopK
    PROVE  IInv'
  <1>1. /\ strategy' = "single_query" /\ queries' = <<>> /\ lists' = <<>> /\ dense' = <<>>
        /\ offset' = 0 /\ scanned' = <<>> /\ steady' = {}
    BY DEF Drop, EndScroll
  <1>2. Len(queries') + Len(lists') <= MaxQueries
    BY <1>1, LimitsAre
  <1>3. Base'
    BY <1>1, <1>2 DEF IInv, Base
  <1>4. ListsInv'
    BY <1>1, EmptyAdmitted, EmptyRanking, LimitsAre, AdmittedStays DEF ListsInv, IsRanking
  <1>5. PathInv' /\ ScrollInv'
    BY <1>1 DEF IInv, PathInv, Searching, ScrollInv
  <1>6. QED
    BY <1>3, <1>4, <1>5 DEF IInv

LEMMA RerankKeeps == IInv /\ Rerank => IInv'
  <1> SUFFICES ASSUME IInv, Rerank PROVE IInv'
    OBVIOUS
  <1>1. /\ results' \in FullRankings(ToSet(ranking), TopK) /\ sources' = <<>> /\ ranking' = <<>>
        /\ pc' = "done" /\ Drop /\ UNCHANGED <<stored, request>>
    BY DEF Rerank
  <1>2. IsRanking(results') /\ Len(results') <= TopK /\ ToSet(results') \subseteq ToSet(ranking)
    BY <1>1, FullRankingsAre, LimitsAre
  <1>3. Admitted(results')
    BY <1>2, PartAdmitted DEF IInv, ListsInv, Admitted
  <1>4. QED
    BY <1>1, <1>2, <1>3, EmptyAdmitted, DropKeeps

LEMMA BestByIsRanking ==
    ASSUME NEW weight, NEW own, NEW n \in Nat, DOMAIN weight \subseteq Chunk,
           NEW s \in BestBy(weight, own, n)
    PROVE  IsRanking(s) /\ Len(s) <= n /\ ToSet(s) \subseteq DOMAIN weight
  <1> DEFINE S == {c \in DOMAIN weight : weight[c] > 0}
  <1>1. PICK all \in SetToSeqs(S) : s = Cut(all, n)
    BY DEF BestBy, Sorted
  <1>2. S \subseteq Chunk /\ S \subseteq DOMAIN weight
    OBVIOUS
  <1> HIDE DEF S
  <1>3. IsRanking(all) /\ ToSet(all) = S
    BY <1>1, <1>2, ArrangedChunks
  <1>4. QED
    BY <1>1, <1>2, <1>3, CutRanking

LEMMA ExpandGraphKeeps == IInv /\ ExpandGraph => IInv'
  <1> SUFFICES ASSUME IInv, ExpandGraph PROVE IInv'
    OBVIOUS
  <1>1. /\ results' = ranking' /\ pc' = "done" /\ Drop /\ UNCHANGED <<stored, request>>
    BY DEF ExpandGraph
  <1>2. PICK overlap \in [ToSet(scanned) -> 0..3] :
            \E seeds \in BestBy(overlap, {c \in DOMAIN overlap : overlap[c] > 0}, TopK) :
                /\ sources' = <<seeds>>
                /\ ranking' \in BestBy(Weights(overlap, seeds),
                                       {c \in DOMAIN overlap : overlap[c] > 0}, TopK)
    BY DEF ExpandGraph
  <1> DEFINE own == {c \in DOMAIN overlap : overlap[c] > 0}
  <1> HIDE DEF own
  <1>3. PICK seeds \in BestBy(overlap, own, TopK) :
            sources' = <<seeds>> /\ ranking' \in BestBy(Weights(overlap, seeds), own, TopK)
    BY <1>2 DEF own
  <1>4. Admitted(scanned)
    BY DEF IInv, ListsInv
  <1>5. DOMAIN overlap = ToSet(scanned) /\ ToSet(scanned) \subseteq Chunk
    BY <1>4, MembersOf DEF Admitted, IsRanking
  <1>6. DOMAIN Weights(overlap, seeds) = DOMAIN overlap
    BY DEF Weights
  <1>7. IsRanking(seeds)
    BY <1>3, <1>5, LimitsAre, BestByIsRanking
  <1>8. IsRanking(ranking') /\ Len(ranking') <= TopK /\ ToSet(ranking') \subseteq ToSet(scanned)
    BY <1>3, <1>5, <1>6, LimitsAre, BestByIsRanking
  <1>9. Admitted(ranking')
    BY <1>4, <1>8, PartAdmitted DEF Admitted
  <1>10. sources' \in Seq(Seq(Chunk)) /\ \A i \in DOMAIN sources' : IsRanking(sources'[i])
    BY <1>3, <1>7 DEF IsRanking
  <1>11. QED
    BY <1>1, <1>8, <1>9, <1>10, DropKeeps

LEMMA RaiseKeeps == IInv /\ Raise => IInv'
  <1> SUFFICES ASSUME IInv, Raise PROVE IInv'
    OBVIOUS
  <1>1. /\ sources' = <<>> /\ ranking' = <<>> /\ pc' = "failed" /\ Drop
        /\ UNCHANGED <<stored, request, results>>
    BY DEF Raise
  <1>2. Admitted(results) /\ Len(results) <= TopK
    BY DEF IInv, ListsInv
  <1>3. QED
    BY <1>1, <1>2, EmptyAdmitted, DropKeeps

(* An ingestion may add to the collection; what it deletes is not steady.  *)
LEMMA IngestionKeeps ==
    ASSUME NEW c \in Chunk, IInv, Upserted(c) \/ Deleted(c)
    PROVE  IInv'
  <1>1. UNCHANGED otherVars
    BY DEF Upserted, Deleted
  <1>2. stored' \subseteq Chunk /\ steady' \subseteq stored' /\ steady' \subseteq steady
    BY DEF Upserted, Deleted, IInv, Base
  <1>3. ListsInv'
    BY <1>1, ListsStay DEF otherVars, listVars, fusionVars, IInv
  <1>4. Base' /\ PathInv'
    BY <1>1, <1>2 DEF IInv, Base, PathInv, Searching, otherVars, planVars
  <1>5. Matching(steady', request'.filter) \subseteq Matching(steady, request.filter)
    BY <1>1, <1>2 DEF otherVars, Matching
  <1>6. pc' = pc /\ scanned' = scanned /\ offset' = offset
    BY <1>1 DEF otherVars
  <1>7. ScrollInv'
    BY <1>5, <1>6 DEF IInv, ScrollInv
  <1>8. QED
    BY <1>3, <1>4, <1>7 DEF IInv

LEMMA StutterKeeps == IInv /\ UNCHANGED vars => IInv'
  <1> SUFFICES ASSUME IInv, UNCHANGED vars PROVE IInv'
    OBVIOUS
  <1>1. /\ UNCHANGED <<stored, request, pc, planVars, lists, dense, offset, scanned, steady>>
        /\ UNCHANGED <<sources, ranking, results>>
    BY DEF vars, scrollVars, fusionVars
  <1>2. ListsInv'
    BY <1>1, ListsStay DEF listVars, IInv
  <1>3. QED
    BY <1>1, <1>2 DEF IInv, Base, PathInv, Searching, ScrollInv, Matching, planVars

LEMMA StepKeeps == IInv /\ [Next]_vars => IInv'
  <1> SUFFICES ASSUME IInv, [Next]_vars PROVE IInv'
    OBVIOUS
  <1>1. CASE Step
    BY <1>1, PlanQueriesKeeps, NextQueryKeeps, LoadGraphKeeps, DenseSearchKeeps, ScrollPageKeeps,
       ScoreSparseKeeps, FuseQueriesKeeps, RerankKeeps, ExpandGraphKeeps DEF Step
  <1>2. CASE Raise
    BY <1>2, RaiseKeeps
  <1>3. ASSUME NEW c \in Chunk, Upserted(c) \/ Deleted(c) PROVE IInv'
    BY <1>3, IngestionKeeps
  <1>4. CASE UNCHANGED vars \/ Rest
    BY <1>4, StutterKeeps DEF Rest
  <1>5. QED
    BY <1>1, <1>2, <1>3, <1>4 DEF Next

LEMMA Invariance == Spec => []IInv
  BY InitIInv, StepKeeps, PTL DEF Spec

(* The types of the state hold throughout, and no more queries are         *)
(* searched than the settings allow (plan_queries, retrieve).              *)
THEOREM TypeCorrect == Spec => []TypeOK
  <1>1. IInv => TypeOK
    BY TypesFollow DEF IInv
  <1>2. QED
    BY <1>1, Invariance, PTL

(* Nothing from outside the filter reaches a ranking or a result, whatever *)
(* is stored or deleted meanwhile (HybridRetriever, BM25Retriever, rrf).   *)
THEOREM OnlyWhatWasAskedFor == Spec => []FiltersHold
  <1>1. ASSUME IInv PROVE FiltersHold
    <2>1. \A i \in DOMAIN lists : Admitted(lists[i])
      BY <1>1 DEF IInv, ListsInv
    <2>2. Admitted(ranking) /\ Admitted(results)
      BY <1>1 DEF IInv, ListsInv
    <2>3. QED
      BY <2>1, <2>2 DEF FiltersHold, Admitted, ToSet
  <1>2. QED
    BY <1>1, Invariance, PTL

(* A scroll over a collection that changes finds each chunk that matches   *)
(* and stays, and no chunk twice, for any page size (all_chunks).          *)
THEOREM ScrollFindsAllThatStays == Spec => []ScrollIsComplete
  <1>1. IInv => ScrollIsComplete
    BY DEF IInv, ScrollInv, ListsInv, Admitted, IsRanking, ScrollIsComplete
  <1>2. QED
    BY <1>1, Invariance, PTL

-----------------------------------------------------------------------------
(* What comes before what.                                                 *)

LEMMA RanksAre ==
    ASSUME NEW list, IsRanking(list), NEW c \in ToSet(list)
    PROVE  /\ RankIn(c, list) \in 1..Len(list) /\ list[RankIn(c, list)] = c
           /\ \A i \in 1..Len(list) : list[i] = c => i = RankIn(c, list)
  <1>1. DOMAIN list = 1..Len(list) /\ IsInjective(list)
    BY DEF IsRanking
  <1>2. \E i \in DOMAIN list : list[i] = c
    BY DEF ToSet
  <1>3. RankIn(c, list) \in DOMAIN list /\ list[RankIn(c, list)] = c
    BY <1>2 DEF RankIn
  <1>4. QED
    BY <1>1, <1>3 DEF IsInjective

(* The list begins like this one.                                          *)
Begins(list, all) ==
    /\ IsRanking(list) /\ IsRanking(all) /\ Len(list) <= Len(all)
    /\ \A i \in 1..Len(list) : list[i] = all[i]

LEMMA CutBegins ==
    ASSUME NEW all, IsRanking(all), NEW n \in Nat
    PROVE  Begins(Cut(all, n), all) /\ (Len(Cut(all, n)) # n => Cut(all, n) = all)
  <1>1. all \in Seq(Chunk) /\ Len(all) \in Nat /\ DOMAIN all = 1..Len(all)
    BY DEF IsRanking
  <1>2. /\ Cut(all, n) \in Seq(Chunk)
        /\ Len(Cut(all, n)) = IF Len(all) < n THEN Len(all) ELSE n
        /\ \A i \in DOMAIN Cut(all, n) : Cut(all, n)[i] = all[i]
    BY <1>1, CutIsPrefix
  <1>3. DOMAIN Cut(all, n) = 1..Len(Cut(all, n))
    BY <1>2
  <1>4. Len(Cut(all, n)) <= Len(all)
    BY <1>1, <1>2
  <1>5. IsRanking(Cut(all, n))
    BY CutRanking
  <1>6. ASSUME Len(Cut(all, n)) # n PROVE Cut(all, n) = all
    <2>1. Len(Cut(all, n)) = Len(all)
      BY <1>2, <1>6
    <2> DEFINE t == Cut(all, n)
    <2> HIDE DEF t
    <2>2. t \in Seq(Chunk) /\ Len(t) = Len(all) /\ \A i \in 1..Len(all) : t[i] = all[i]
      BY <1>2, <1>3, <2>1 DEF t
    <2>3. t = all
      BY <1>1, <2>2, SeqEqual
    <2>4. QED
      BY <2>3 DEF t
  <1>7. QED
    BY <1>2, <1>3, <1>4, <1>5, <1>6 DEF Begins

(* In a list sorted by a relation, and in what it begins with, a member    *)
(* that another one may not precede is ahead of it.                        *)
LEMMA AheadWhenSorted ==
    ASSUME NEW R, NEW all, NEW list, Begins(list, all),
           \A i, j \in 1..Len(all) : i < j => <<all[i], all[j]>> \in R,
           NEW c \in ToSet(all), NEW d \in ToSet(list), c # d, <<d, c>> \notin R
    PROVE  Ahead(c, d, list)
  <1>1. /\ IsRanking(list) /\ IsRanking(all) /\ Len(list) \in Nat /\ Len(all) \in Nat
        /\ Len(list) <= Len(all) /\ \A i \in 1..Len(list) : list[i] = all[i]
        /\ DOMAIN list = 1..Len(list)
    BY DEF Begins, IsRanking
  <1>2. RankIn(c, all) \in 1..Len(all) /\ all[RankIn(c, all)] = c
    BY <1>1, RanksAre
  <1>3. RankIn(d, list) \in 1..Len(list) /\ list[RankIn(d, list)] = d
    BY <1>1, RanksAre
  <1> DEFINE i == RankIn(c, all)
             j == RankIn(d, list)
  <1> HIDE DEF i, j
  <1>4. i \in 1..Len(all) /\ all[i] = c /\ j \in 1..Len(list) /\ all[j] = d /\ j \in 1..Len(all)
    BY <1>1, <1>2, <1>3 DEF i, j
  <1>5. i < j
    <2>1. i # j /\ ~(j < i)
      BY <1>4
    <2>2. QED
      BY <1>4, <2>1
  <1>6. i \in 1..Len(list) /\ list[i] = c
    BY <1>1, <1>4, <1>5
  <1>7. c \in ToSet(list)
    BY <1>1, <1>6 DEF ToSet
  <1>8. RankIn(c, list) = i
    BY <1>1, <1>6, <1>7, RanksAre
  <1>9. QED
    BY <1>5, <1>7, <1>8 DEF Ahead, j

(* An earlier rank contributes more, since Scale is a multiple of all.     *)
LEMMA EarlierRankIsWorthMore ==
    ASSUME NEW m \in 1..CandidateK, NEW n \in 1..CandidateK
    PROVE  /\ Scale \div (RrfK + n) \in Nat /\ Scale \div (RrfK + n) > 0
           /\ m < n => Scale \div (RrfK + n) < Scale \div (RrfK + m)
  <1> DEFINE x == RrfK + m
             y == RrfK + n
             a == Scale \div x
             b == Scale \div y
  <1>1. /\ x \in Nat /\ x > 0 /\ y \in Nat /\ y > 0 /\ Scale \in Nat /\ Scale > 0
        /\ Scale % x = 0 /\ Scale % y = 0 /\ (m < n => x < y)
    <2>1. RrfK \in Nat /\ Scale \in Nat /\ Scale > 0
      BY SearchAssumption
    <2>2. m \in Nat /\ m > 0 /\ n \in Nat /\ n > 0
      BY LimitsAre
    <2>3. Scale % (RrfK + m) = 0 /\ Scale % (RrfK + n) = 0
      BY SearchAssumption
    <2>4. /\ RrfK + m \in Nat /\ RrfK + m > 0 /\ RrfK + n \in Nat /\ RrfK + n > 0
          /\ m < n => RrfK + m < RrfK + n
      BY <2>1, <2>2
    <2>5. QED
      BY <2>1, <2>3, <2>4
  <1> HIDE DEF x, y
  <1>2. a \in Int /\ b \in Int /\ Scale = x * a /\ Scale = y * b
    BY <1>1
  <1> HIDE DEF a, b
  <1>3. a > 0 /\ b > 0
    <2>1. \A u, v \in Int : u > 0 /\ u * v > 0 => v > 0
      OBVIOUS
    <2>2. QED
      BY <1>1, <1>2, <2>1
  <1>4. x < y => b < a
    <2>1. \A u, v, p, q \in Int : u > 0 /\ p > 0 /\ q > 0 /\ u < v /\ u * p = v * q => q < p
      <3> SUFFICES ASSUME NEW u \in Int, NEW v \in Int, NEW p \in Int, NEW q \in Int,
                          u > 0, p > 0, q > 0, u < v, u * p = v * q, p <= q
                   PROVE  FALSE
        OBVIOUS
      <3>1. u * p <= u * q
        OBVIOUS
      <3>2. u * q < v * q
        OBVIOUS
      <3>3. QED
        BY <3>1, <3>2
    <2>2. QED
      BY <1>1, <1>2, <1>3, <2>1
  <1>5. QED
    BY <1>1, <1>2, <1>3, <1>4 DEF a, b, x, y

Rankable(from) ==
    /\ from \in Seq(Seq(Chunk))
    /\ \A i \in DOMAIN from : IsRanking(from[i]) /\ Len(from[i]) <= CandidateK

LEMMA ContributionsAre ==
    ASSUME NEW list, IsRanking(list), Len(list) <= CandidateK, NEW c, NEW d
    PROVE  /\ Contribution(c, list) \in Nat /\ Contribution(d, list) \in Nat
           /\ ~Ahead(d, c, list) => Contribution(d, list) <= Contribution(c, list)
           /\ Ahead(c, d, list) => Contribution(d, list) < Contribution(c, list)
  <1>1. Len(list) \in Nat /\ CandidateK \in Nat /\ 1..Len(list) \subseteq 1..CandidateK
    BY LimitsAre DEF IsRanking
  <1>2. \A e \in {c, d} : e \in ToSet(list) =>
            /\ RankIn(e, list) \in 1..CandidateK
            /\ Contribution(e, list) = Scale \div (RrfK + RankIn(e, list))
    BY <1>1, RanksAre DEF Contribution
  <1>3. \A e \in {c, d} : e \notin ToSet(list) => Contribution(e, list) = 0
    BY DEF Contribution
  <1>4. \A e \in {c, d} : e \in ToSet(list) => Contribution(e, list) \in Nat /\ Contribution(e, list) > 0
    BY <1>2, EarlierRankIsWorthMore
  <1>5. ASSUME c \in ToSet(list), d \in ToSet(list), RankIn(c, list) < RankIn(d, list)
        PROVE  Contribution(d, list) < Contribution(c, list)
    BY <1>2, <1>5, EarlierRankIsWorthMore
  <1>6. ASSUME c \in ToSet(list), d \in ToSet(list), RankIn(c, list) = RankIn(d, list)
        PROVE  Contribution(d, list) = Contribution(c, list)
    BY <1>2, <1>6
  <1>7. Contribution(c, list) \in Nat /\ Contribution(d, list) \in Nat
    BY <1>3, <1>4
  <1>8. ASSUME c \in ToSet(list), d \in ToSet(list)
        PROVE  RankIn(c, list) \in Nat /\ RankIn(d, list) \in Nat
    BY <1>2, <1>8
  <1>9. ASSUME Ahead(c, d, list) PROVE Contribution(d, list) < Contribution(c, list)
    <2>1. c \in ToSet(list) /\ (d \in ToSet(list) => RankIn(c, list) < RankIn(d, list))
      BY <1>9 DEF Ahead
    <2>2. QED
      BY <1>3, <1>4, <1>5, <2>1
  <1>10. ASSUME ~Ahead(d, c, list) PROVE Contribution(d, list) <= Contribution(c, list)
    <2>1. d \notin ToSet(list) \/ (c \in ToSet(list) /\ ~(RankIn(d, list) < RankIn(c, list)))
      BY <1>10 DEF Ahead
    <2>2. CASE d \notin ToSet(list)
      BY <1>3, <1>7, <2>2
    <2>3. CASE d \in ToSet(list)
      <3>1. RankIn(c, list) < RankIn(d, list) \/ RankIn(c, list) = RankIn(d, list)
        BY <1>8, <2>1, <2>3
      <3>2. QED
        BY <1>5, <1>6, <1>7, <2>1, <2>3, <3>1
    <2>4. QED
      BY <2>2, <2>3
  <1>11. QED
    BY <1>7, <1>9, <1>10

LEMMA DominanceScores ==
    ASSUME NEW from, Rankable(from), NEW c, NEW d,
           NEW k \in DOMAIN from, Ahead(c, d, from[k]), \A i \in DOMAIN from : ~Ahead(d, c, from[i])
    PROVE  /\ FusedScore(c, from) \in Nat /\ FusedScore(d, from) \in Nat
           /\ FusedScore(d, from) < FusedScore(c, from)
  <1> DEFINE D == DOMAIN from
             f == [i \in DOMAIN from |-> Contribution(d, from[i])]
             g == [i \in DOMAIN from |-> Contribution(c, from[i])]
  <1>1. IsFiniteSet(D)
    <2>1. PICK n \in Nat : n = Len(from)
      BY DEF Rankable
    <2>2. D = 1..n
      BY <2>1 DEF Rankable
    <2>3. QED
      BY <2>2, FS_Interval
  <1>2. \A i \in D : IsRanking(from[i]) /\ Len(from[i]) <= CandidateK
    BY DEF Rankable
  <1>3. \A i \in D : Contribution(c, from[i]) \in Nat /\ Contribution(d, from[i]) \in Nat
                     /\ Contribution(d, from[i]) <= Contribution(c, from[i])
    BY <1>2, ContributionsAre
  <1>4. Contribution(d, from[k]) < Contribution(c, from[k])
    BY <1>2, ContributionsAre
  <1>5. f \in [D -> Nat] /\ g \in [D -> Nat] /\ \A i \in D : f[i] <= g[i]
    BY <1>3
  <1>6. k \in D /\ f[k] < g[k]
    BY <1>4
  <1>7. FusedScore(c, from) = SumFunction(g) /\ FusedScore(d, from) = SumFunction(f)
    BY DEF FusedScore
  <1> HIDE DEF D, f, g
  <1>8. SumFunction(f) \in Nat /\ SumFunction(g) \in Nat /\ SumFunction(f) < SumFunction(g)
    BY <1>1, <1>5, <1>6, SumsCompare
  <1>9. QED
    BY <1>7, <1>8

(* What all rankings agree on survives their fusion, and a cut of it.      *)
LEMMA FusionAgrees ==
    ASSUME NEW from, Rankable(from), NEW fused \in Fused(from), NEW list, Begins(list, fused),
           NEW c, NEW d \in ToSet(list),
           NEW k \in DOMAIN from, Ahead(c, d, from[k]), \A i \in DOMAIN from : ~Ahead(d, c, from[i])
    PROVE  Ahead(c, d, list)
  <1> DEFINE score == [e \in Ranked(from) |-> FusedScore(e, from)]
             R == {p \in Ranked(from) \X Ranked(from) : Before(p[1], p[2], score, from)}
  <1>1. /\ FusedScore(c, from) \in Nat /\ FusedScore(d, from) \in Nat
        /\ FusedScore(d, from) < FusedScore(c, from)
    BY DominanceScores
  <1>2. IsRanking(fused) /\ ToSet(fused) = Ranked(from) /\ from \in Seq(Seq(Chunk))
    BY FusedIsRanking DEF Rankable
  <1>3. c \in Ranked(from)
    BY <1>2, RankedMembers DEF Ahead
  <1>4. d \in Ranked(from)
    <2>1. PICK i \in DOMAIN list : list[i] = d
      BY DEF ToSet
    <2>2. i \in DOMAIN fused /\ fused[i] = d
      BY <2>1 DEF Begins, IsRanking
    <2>3. QED
      BY <1>2, <2>2 DEF ToSet
  <1>5. \A i, j \in 1..Len(fused) : i < j => <<fused[i], fused[j]>> \in R
    <2>1. \A i, j \in DOMAIN fused : i < j => Before(fused[i], fused[j], score, from)
      BY DEF Fused, Sorted
    <2>2. DOMAIN fused = 1..Len(fused) /\ \A i \in DOMAIN fused : fused[i] \in Ranked(from)
      BY <1>2 DEF ToSet, IsRanking
    <2> HIDE DEF score
    <2>3. QED
      BY <2>1, <2>2
  <1>6. c # d /\ <<d, c>> \notin R
    <2>1. score[c] = FusedScore(c, from) /\ score[d] = FusedScore(d, from)
      BY <1>3, <1>4
    <2> HIDE DEF score
    <2>2. ~Before(d, c, score, from)
      BY <1>1, <2>1 DEF Before
    <2>3. QED
      BY <1>1, <2>2
  <1>7. c \in ToSet(fused)
    BY <1>2, <1>3
  <1> HIDE DEF R
  <1>8. QED
    BY <1>5, <1>6, <1>7, AheadWhenSorted

LEMMA HybridIsMonotone ==
    ASSUME NEW from, Rankable(from), NEW fused \in Fused(from), NEW list, Begins(list, fused),
           sources' = from, ranking' = list
    PROVE  FusionIsMonotone'
  <1> SUFFICES ASSUME NEW c \in Chunk, NEW d \in ToSet(list),
                      \E s \in ToSet(from) : Ahead(c, d, s), \A s \in ToSet(from) : ~Ahead(d, c, s)
               PROVE  Ahead(c, d, list)
    BY DEF FusionIsMonotone, Dominates
  <1>1. PICK k \in DOMAIN from : Ahead(c, d, from[k])
    BY DEF ToSet
  <1>2. \A i \in DOMAIN from : ~Ahead(d, c, from[i])
    BY DEF ToSet
  <1>3. QED
    BY <1>1, <1>2, FusionAgrees

LEMMA ScoreSparseIsMonotone ==
    ASSUME IInv, ScoreSparse, FusionIsMonotone
    PROVE  FusionIsMonotone'
  <1>1. PICK list \in Rankings(ToSet(scanned), CandidateK) :
        IF request.retriever = "hybrid"
        THEN /\ sources' = <<dense, list>>
             /\ \E fused \in Fused(sources') : ranking' = Cut(fused, CandidateK)
             /\ Found(ranking')
        ELSE Found(list) /\ UNCHANGED fusionVars
    BY DEF ScoreSparse
  <1>2. CASE request.retriever = "hybrid"
    <2>1. PICK fused \in Fused(sources') :
            sources' = <<dense, list>> /\ ranking' = Cut(fused, CandidateK)
      BY <1>1, <1>2
    <2>2. IsRanking(list) /\ Len(list) <= CandidateK
      BY <1>1, LimitsAre, RankingsAre
    <2>3. IsRanking(dense) /\ Len(dense) <= CandidateK
      BY DEF IInv, ListsInv, Admitted
    <2>4. Rankable(sources')
      <3>1. <<dense, list>> \in Seq(Seq(Chunk))
        BY <2>2, <2>3, PairsAre
      <3>2. DOMAIN <<dense, list>> = {1, 2} /\ <<dense, list>>[1] = dense /\ <<dense, list>>[2] = list
        OBVIOUS
      <3>3. QED
        BY <2>1, <2>2, <2>3, <3>1, <3>2 DEF Rankable
    <2>5. IsRanking(fused)
      BY <2>4, FusedIsRanking DEF Rankable
    <2>6. Begins(ranking', fused)
      BY <2>1, <2>5, LimitsAre, CutBegins
    <2>7. QED
      BY <2>4, <2>6, HybridIsMonotone
  <1>3. CASE request.retriever # "hybrid"
    BY <1>1, <1>3 DEF fusionVars, FusionIsMonotone, Dominates
  <1>4. QED
    BY <1>2, <1>3

LEMMA FuseQueriesIsMonotone ==
    ASSUME IInv, FuseQueries
    PROVE  FusionIsMonotone'
  <1>1. /\ pc = "next" /\ queries = <<>> /\ sources' = lists
        /\ ranking' \in IF strategy = "rrf" THEN Fused(lists) ELSE {lists[1]}
    BY DEF FuseQueries
  <1>2. Rankable(lists)
    BY DEF IInv, ListsInv, Admitted, Rankable
  <1>3. CASE strategy = "rrf"
    <2>1. ranking' \in Fused(lists)
      BY <1>1, <1>3
    <2>2. IsRanking(ranking')
      BY <1>2, <2>1, FusedIsRanking DEF Rankable
    <2>3. Begins(ranking', ranking')
      BY <2>2 DEF Begins, IsRanking
    <2>4. QED
      BY <1>1, <1>2, <2>1, <2>3, HybridIsMonotone
  <1>4. CASE strategy # "rrf"
    <2>1. strategy = "single_query" /\ Len(queries) = 0
      BY <1>1, <1>4 DEF IInv, Base
    <2>2. Len(lists) \in Nat /\ Len(lists) = 1
      BY <1>1, <2>1 DEF IInv, PathInv, ListsInv
    <2>3. DOMAIN lists = {1}
      BY <1>2, <2>2 DEF Rankable
    <2>4. ToSet(lists) = {lists[1]} /\ ranking' = lists[1]
      BY <1>1, <1>4, <2>3 DEF ToSet
    <2>5. QED
      BY <1>1, <2>4 DEF FusionIsMonotone, Dominates
  <1>5. QED
    BY <1>3, <1>4

-----------------------------------------------------------------------------
(* The chunks a graph adds.                                                *)

Words(overlap) == {c \in DOMAIN overlap : overlap[c] > 0}

(* The order of BestBy, as a set of pairs.                                 *)
Precede(weight, own) ==
    {p \in (DOMAIN weight) \X (DOMAIN weight) :
        \/ weight[p[1]] > weight[p[2]]
        \/ weight[p[1]] = weight[p[2]] /\ p[1] \in own /\ (p[2] \in own => p[1] < p[2])
        \/ weight[p[1]] = weight[p[2]] /\ {p[1], p[2]} \intersect own = {}}

LEMMA BestByIsSorted ==
    ASSUME NEW weight, NEW own, NEW n \in Nat, DOMAIN weight \subseteq Chunk,
           NEW list \in BestBy(weight, own, n)
    PROVE  \E all : /\ Begins(list, all) /\ ToSet(all) = Words(weight)
                    /\ Len(list) # n => list = all
                    /\ \A i, j \in 1..Len(all) : i < j => <<all[i], all[j]>> \in Precede(weight, own)
  <1> DEFINE S == {c \in DOMAIN weight : weight[c] > 0}
  <1>1. PICK all \in SetToSeqs(S) :
            /\ list = Cut(all, n)
            /\ \A i, j \in DOMAIN all : i < j =>
                \/ weight[all[i]] > weight[all[j]]
                \/ weight[all[i]] = weight[all[j]] /\ all[i] \in own /\ (all[j] \in own => all[i] < all[j])
                \/ weight[all[i]] = weight[all[j]] /\ {all[i], all[j]} \intersect own = {}
    BY DEF BestBy, Sorted
  <1>2. S \subseteq Chunk /\ S \subseteq DOMAIN weight /\ S = Words(weight)
    BY DEF Words
  <1> HIDE DEF S
  <1>3. IsRanking(all) /\ ToSet(all) = S
    BY <1>1, <1>2, ArrangedChunks
  <1>4. Begins(list, all) /\ (Len(list) # n => list = all)
    BY <1>1, <1>3, CutBegins
  <1>5. DOMAIN all = 1..Len(all) /\ \A i \in DOMAIN all : all[i] \in DOMAIN weight
    BY <1>2, <1>3 DEF ToSet, IsRanking
  <1>6. ASSUME NEW i \in 1..Len(all), NEW j \in 1..Len(all), i < j
        PROVE  <<all[i], all[j]>> \in Precede(weight, own)
    <2>1. PICK c \in DOMAIN weight, d \in DOMAIN weight : c = all[i] /\ d = all[j]
      BY <1>5
    <2>2. \/ weight[c] > weight[d]
          \/ weight[c] = weight[d] /\ c \in own /\ (d \in own => c < d)
          \/ weight[c] = weight[d] /\ {c, d} \intersect own = {}
      BY <1>1, <1>5, <1>6, <2>1
    <2>3. <<c, d>> \in Precede(weight, own)
      BY <2>2 DEF Precede
    <2>4. QED
      BY <2>1, <2>3
  <1>7. QED
    BY <1>1, <1>2, <1>3, <1>4, <1>6

LEMMA GreatestOne ==
    ASSUME NEW W, W \subseteq 0..3, W # {}
    PROVE  (CHOOSE w \in W : \A v \in W : v <= w) \in W
  <1>1. \A v \in W : v \in {0, 1, 2, 3}
    OBVIOUS
  <1>2. \A v \in W : v <= 3 /\ (v # 3 => v <= 2) /\ (v # 3 /\ v # 2 => v <= 1)
                     /\ (v # 3 /\ v # 2 /\ v # 1 => v <= 0)
    BY <1>1
  <1>3. 3 \in W \/ (3 \notin W /\ 2 \in W) \/ (3 \notin W /\ 2 \notin W /\ 1 \in W)
        \/ (3 \notin W /\ 2 \notin W /\ 1 \notin W /\ 0 \in W)
    BY <1>1
  <1>4. \E w \in W : \A v \in W : v <= w
    BY <1>2, <1>3
  <1>5. QED
    BY <1>4

(* The weights of the chunks with words of the question, and of those      *)
(* without, which have the half of a linked seed's.                        *)
LEMMA WeightsAre ==
    ASSUME NEW S, NEW overlap \in [S -> 0..3], NEW seeds, ToSet(seeds) \subseteq S
    PROVE  /\ DOMAIN Weights(overlap, seeds) = S
           /\ \A c \in S : overlap[c] > 0 => Weights(overlap, seeds)[c] = 2 * overlap[c]
           /\ \A c \in S : ~(overlap[c] > 0) =>
                \/ Weights(overlap, seeds)[c] = 0
                \/ \E d \in ToSet(seeds) :
                        Linked(c, d, S) /\ Weights(overlap, seeds)[c] = overlap[d]
  <1> DEFINE Reached(c) == {overlap[d] : d \in {e \in ToSet(seeds) : Linked(c, e, S)}}
  <1>1. DOMAIN overlap = S
    OBVIOUS
  <1>2. Weights(overlap, seeds) =
            [c \in S |-> IF overlap[c] > 0 THEN 2 * overlap[c]
                         ELSE IF Reached(c) = {} THEN 0
                         ELSE CHOOSE w \in Reached(c) : \A v \in Reached(c) : v <= w]
    BY <1>1 DEF Weights
  <1>3. ASSUME NEW c \in S, ~(overlap[c] > 0), Reached(c) # {}
        PROVE  \E d \in ToSet(seeds) : Linked(c, d, S) /\ Weights(overlap, seeds)[c] = overlap[d]
    <2>1. Reached(c) \subseteq 0..3
      OBVIOUS
    <2>2. Weights(overlap, seeds)[c] = CHOOSE w \in Reached(c) : \A v \in Reached(c) : v <= w
      BY <1>2, <1>3
    <2>3. Weights(overlap, seeds)[c] \in Reached(c)
      <3> DEFINE W == Reached(c)
      <3>1. W \subseteq 0..3 /\ W # {}
        BY <1>3, <2>1
      <3> HIDE DEF W
      <3>2. (CHOOSE w \in W : \A v \in W : v <= w) \in W
        BY <3>1, GreatestOne
      <3>3. QED
        BY <2>2, <3>2 DEF W
    <2>4. QED
      BY <2>3
  <1>4. \A c \in S : overlap[c] > 0 => Weights(overlap, seeds)[c] = 2 * overlap[c]
    BY <1>2
  <1>5. \A c \in S : ~(overlap[c] > 0) /\ Reached(c) = {} => Weights(overlap, seeds)[c] = 0
    BY <1>2
  <1>6. DOMAIN Weights(overlap, seeds) = S
    BY <1>2
  <1> HIDE DEF Reached
  <1>7. QED
    BY <1>3, <1>4, <1>5, <1>6

(* A list has no room for n others ahead of its member at rank n or less.  *)
LEMMA NoRoom ==
    ASSUME NEW first, NEW list, IsRanking(first), IsRanking(list),
           Len(list) <= Len(first), NEW c \in ToSet(list),
           \A d \in ToSet(first) : Ahead(d, c, list)
    PROVE  FALSE
  <1>1. PICK m \in Nat, n \in Nat : m = Len(first) /\ n = Len(list)
    BY DEF IsRanking
  <1>2. RankIn(c, list) \in 1..n /\ list[RankIn(c, list)] = c
    BY <1>1, RanksAre
  <1>3. PICK r \in 1..n : r = RankIn(c, list)
    BY <1>2
  <1>4. DOMAIN first = 1..m /\ \A i \in 1..m : first[i] \in ToSet(first)
    BY <1>1 DEF IsRanking, ToSet
  <1>5. \A d \in ToSet(first) : RankIn(d, list) \in 1..n /\ RankIn(d, list) < r /\ list[RankIn(d, list)] = d
    BY <1>1, <1>3, RanksAre DEF Ahead
  <1> DEFINE f == [i \in 1..m |-> RankIn(first[i], list)]
  <1>6. f \in [1..m -> 1..(r - 1)]
    <2>1. \A k \in 1..n : k < r => k \in 1..(r - 1)
      BY <1>3
    <2>2. QED
      BY <1>4, <1>5, <2>1
  <1>7. \A i, j \in 1..m : f[i] = f[j] => i = j
    <2>1. \A i \in 1..m : f[i] = RankIn(first[i], list) /\ list[f[i]] = first[i]
      BY <1>4, <1>5
    <2> HIDE DEF f
    <2>2. \A i, j \in 1..m : f[i] = f[j] => first[i] = first[j]
      BY <2>1
    <2>3. QED
      BY <1>4, <2>2 DEF IsRanking, IsInjective
  <1> HIDE DEF f
  <1>8. f \in Injection(1..m, 1..(r - 1))
    BY <1>6, <1>7 DEF Injection, IsInjective
  <1>9. r - 1 \in Nat /\ r - 1 < m
    BY <1>1, <1>3
  <1>10. IsFiniteSet(1..(r - 1)) /\ Cardinality(1..(r - 1)) = r - 1
    <2>1. PICK k \in Nat : k = r - 1
      BY <1>9
    <2>2. IsFiniteSet(1..k) /\ Cardinality(1..k) = k
      BY FS_Interval
    <2>3. QED
      BY <2>1, <2>2
  <1>11. Cardinality(1..m) = m
    BY FS_Interval
  <1>12. Cardinality(1..m) <= Cardinality(1..(r - 1))
    BY <1>8, <1>10, FS_Injection
  <1>13. QED
    BY <1>9, <1>10, <1>11, <1>12

LEMMA ExpandGraphIsAnchored ==
    ASSUME IInv, ExpandGraph
    PROVE  ExpansionIsAnchored'
  <1>1. PICK overlap \in [ToSet(scanned) -> 0..3] :
            \E seeds \in BestBy(overlap, Words(overlap), TopK) :
                /\ sources' = <<seeds>>
                /\ ranking' \in BestBy(Weights(overlap, seeds), Words(overlap), TopK)
    BY DEF ExpandGraph, Words
  <1> DEFINE own == Words(overlap)
             S == ToSet(scanned)
  <1> HIDE DEF own
  <1>2. PICK seeds \in BestBy(overlap, own, TopK) :
            sources' = <<seeds>> /\ ranking' \in BestBy(Weights(overlap, seeds), own, TopK)
    BY <1>1 DEF own
  <1> DEFINE weight == Weights(overlap, seeds)
             list == ranking'
  <1>3. S \subseteq Chunk /\ DOMAIN overlap = S /\ S \subseteq Nat
    <2>1. scanned \in Seq(Chunk)
      BY DEF IInv, ListsInv, Admitted, IsRanking
    <2>2. QED
      BY <2>1, MembersOf, SearchAssumption
  <1>4. PICK first : /\ Begins(seeds, first) /\ ToSet(first) = own
                     /\ Len(seeds) # TopK => seeds = first
                     /\ \A i, j \in 1..Len(first) : i < j =>
                            <<first[i], first[j]>> \in Precede(overlap, own)
    BY <1>2, <1>3, LimitsAre, BestByIsSorted DEF own
  <1>5. own \subseteq S /\ \A c \in S : overlap[c] \in 0..3 /\ (c \in own <=> overlap[c] > 0)
    BY <1>3 DEF own, Words
  <1>6. ToSet(seeds) \subseteq own
    BY <1>4 DEF Begins, IsRanking, ToSet
  <1>7. /\ DOMAIN weight = S
        /\ \A c \in S : overlap[c] > 0 => weight[c] = 2 * overlap[c]
        /\ \A c \in S : ~(overlap[c] > 0) =>
            \/ weight[c] = 0
            \/ \E d \in ToSet(seeds) : Linked(c, d, S) /\ weight[c] = overlap[d]
    BY <1>5, <1>6, WeightsAre
  <1> HIDE DEF weight
  <1>8. PICK all : /\ Begins(list, all) /\ ToSet(all) = Words(weight)
                   /\ \A i, j \in 1..Len(all) : i < j =>
                        <<all[i], all[j]>> \in Precede(weight, own)
    BY <1>2, <1>3, <1>7, LimitsAre, BestByIsSorted DEF weight
  <1>9. Len(list) <= TopK
    BY <1>2, <1>3, <1>7, LimitsAre, BestByIsRanking DEF weight
  <1>10. Words(weight) \subseteq S /\ ToSet(list) \subseteq Words(weight)
    <2>1. Words(weight) \subseteq S
      BY <1>7 DEF Words
    <2>2. /\ DOMAIN list = 1..Len(list) /\ DOMAIN all = 1..Len(all) /\ Len(list) <= Len(all)
          /\ Len(list) \in Nat /\ Len(all) \in Nat /\ \A i \in 1..Len(list) : list[i] = all[i]
      BY <1>8 DEF Begins, IsRanking
    <2>3. ToSet(list) \subseteq ToSet(all)
      BY <2>2 DEF ToSet
    <2>4. QED
      BY <1>8, <2>1, <2>3
  <1>11. ASSUME NEW c \in ToSet(list), NEW d \in ToSet(seeds), c # d,
                <<c, d>> \notin Precede(weight, own)
         PROVE  Ahead(d, c, list)
    <2>1. d \in S /\ overlap[d] \in 0..3 /\ overlap[d] > 0
      BY <1>5, <1>6
    <2>2. d \in ToSet(all)
      BY <1>7, <1>8, <2>1 DEF Words
    <2>3. QED
      BY <1>8, <1>11, <2>2, AheadWhenSorted
  <1>12. Ranked(<<seeds>>) = ToSet(seeds)
    BY DEF Ranked
  <1>13. ASSUME NEW c \in ToSet(list) \ ToSet(seeds)
         PROVE  \E d \in ToSet(seeds) :
                    /\ Ahead(d, c, list) /\ ManualOf[c] = ManualOf[d]
                    /\ TopicOf[c] = TopicOf[d] \/ SectionOf[c] = SectionOf[d]
    <2>1. c \in S /\ c \in Words(weight) /\ c \in Nat
      BY <1>3, <1>10
    <2>2. CASE c \in own
      <3>1. Len(seeds) = TopK
        BY <1>4, <2>2
      <3>2. ASSUME NEW d \in ToSet(seeds) PROVE Ahead(d, c, list)
        <4>1. d \in S /\ d \in own /\ d # c /\ d \in Nat
          BY <1>3, <1>5, <1>6
        <4>2. <<c, d>> \notin Precede(overlap, own)
          <5>1. PICK i \in 1..Len(first) : first[i] = d /\ i <= Len(seeds)
            <6>1. PICK i \in DOMAIN seeds : seeds[i] = d
              BY DEF ToSet
            <6>2. i \in 1..Len(seeds) /\ Len(seeds) \in Nat /\ Len(first) \in Nat
              BY <1>4, <6>1 DEF Begins, IsRanking
            <6>3. QED
              BY <1>4, <6>1, <6>2 DEF Begins
          <5>2. PICK j \in 1..Len(first) : first[j] = c
            BY <1>4, <2>2 DEF ToSet, Begins, IsRanking
          <5>3. ~(j <= Len(seeds))
            <6>1. j <= Len(seeds) => j \in DOMAIN seeds /\ seeds[j] = c
              BY <1>4, <5>2 DEF Begins, IsRanking
            <6>2. QED
              BY <6>1 DEF ToSet
          <5>4. i < j
            BY <1>4, <5>1, <5>2, <5>3 DEF Begins, IsRanking
          <5>5. <<d, c>> \in Precede(overlap, own)
            BY <1>4, <5>1, <5>2, <5>4
          <5>6. /\ overlap[d] \in Int /\ overlap[c] \in Int
                /\ overlap[d] > overlap[c] \/ (overlap[d] = overlap[c] /\ d < c)
            BY <1>5, <2>1, <2>2, <4>1, <5>5 DEF Precede
          <5>7. QED
            BY <2>1, <2>2, <4>1, <5>6 DEF Precede
        <4>3. <<c, d>> \notin Precede(weight, own)
          <5>1. /\ overlap[c] \in Int /\ overlap[d] \in Int /\ overlap[c] > 0 /\ overlap[d] > 0
                /\ weight[c] = 2 * overlap[c] /\ weight[d] = 2 * overlap[d]
            BY <1>5, <1>7, <2>1, <2>2, <4>1
          <5>2. ~(overlap[c] > overlap[d]) /\ ~(overlap[c] = overlap[d] /\ c < d)
            BY <1>3, <2>1, <2>2, <4>1, <4>2 DEF Precede
          <5>3. ~(weight[c] > weight[d]) /\ ~(weight[c] = weight[d] /\ c < d)
            BY <5>1, <5>2
          <5>4. QED
            BY <2>2, <4>1, <5>3 DEF Precede
        <4>4. QED
          BY <1>11, <4>1, <4>3
      <3>3. IsRanking(seeds) /\ IsRanking(list) /\ Len(list) <= Len(seeds)
        BY <1>4, <1>8, <1>9, <3>1 DEF Begins
      <3>4. QED
        BY <3>2, <3>3, NoRoom
    <2>3. CASE c \notin own
      <3>1. ~(overlap[c] > 0) /\ weight[c] # 0
        BY <1>5, <2>1, <2>3 DEF Words
      <3>2. PICK d \in ToSet(seeds) : Linked(c, d, S) /\ weight[c] = overlap[d]
        BY <1>7, <2>1, <3>1
      <3>3. d \in S /\ d \in own /\ overlap[d] \in Int /\ overlap[d] > 0 /\ weight[d] = 2 * overlap[d]
        BY <1>5, <1>6, <1>7
      <3>4. ~(weight[c] > weight[d]) /\ weight[c] # weight[d]
        BY <3>2, <3>3
      <3>5. <<c, d>> \notin Precede(weight, own)
        BY <3>4 DEF Precede
      <3>6. Ahead(d, c, list)
        BY <1>11, <2>3, <3>3, <3>5
      <3>7. PICK keyOf \in {TopicOf, SectionOf} : d \in Group(c, S, keyOf)
        BY <3>2 DEF Linked
      <3>8. ManualOf[c] = ManualOf[d] /\ (TopicOf[c] = TopicOf[d] \/ SectionOf[c] = SectionOf[d])
        BY <3>7 DEF Group
      <3>9. QED
        BY <3>6, <3>8
    <2>4. QED
      BY <2>2, <2>3
  <1>14. QED
    BY <1>2, <1>12, <1>13 DEF ExpansionIsAnchored

LEMMA NothingToJustify ==
    ASSUME sources' = <<>>, ranking' = <<>>
    PROVE  RankingIsJustified'
  <1>1. ToSet(ranking') = {}
    BY EmptyRanking
  <1>2. QED
    BY <1>1 DEF RankingIsJustified, ExpansionIsAnchored, FusionIsMonotone

LEMMA RankingStaysJustified == IInv /\ RankingIsJustified /\ [Next]_vars => RankingIsJustified'
  <1> SUFFICES ASSUME IInv, RankingIsJustified, [Next]_vars PROVE RankingIsJustified'
    OBVIOUS
  <1>1. CASE UNCHANGED <<request, fusionVars>>
    BY <1>1 DEF fusionVars, RankingIsJustified, ExpansionIsAnchored, FusionIsMonotone, Dominates
  <1>2. CASE PlanQueries \/ NextQuery \/ LoadGraph \/ DenseSearch \/ ScrollPage
    BY <1>1, <1>2 DEF PlanQueries, NextQuery, LoadGraph, DenseSearch, ScrollPage
  <1>3. CASE ScoreSparse
    <2>1. request' = request /\ request.retriever # "graph"
      BY <1>3 DEF ScoreSparse
    <2>2. QED
      BY <1>3, <2>1, ScoreSparseIsMonotone DEF RankingIsJustified
  <1>4. CASE FuseQueries
    <2>1. request' = request /\ request.retriever # "graph"
      BY <1>4 DEF FuseQueries, IInv, PathInv
    <2>2. QED
      BY <1>4, <2>1, FuseQueriesIsMonotone DEF RankingIsJustified
  <1>5. CASE ExpandGraph
    <2>1. request' = request /\ request.retriever = "graph"
      BY <1>5 DEF ExpandGraph
    <2>2. QED
      BY <1>5, <2>1, ExpandGraphIsAnchored DEF RankingIsJustified
  <1>6. CASE Rerank \/ Raise
    BY <1>6, NothingToJustify DEF Rerank, Raise
  <1>7. ASSUME NEW c \in Chunk, Upserted(c) \/ Deleted(c) PROVE RankingIsJustified'
    BY <1>1, <1>7 DEF Upserted, Deleted, otherVars
  <1>8. CASE UNCHANGED vars \/ Rest
    BY <1>1, <1>8 DEF Rest, vars
  <1>9. QED
    BY <1>2, <1>3, <1>4, <1>5, <1>6, <1>7, <1>8 DEF Next, Step

(* Fused rankings keep what all of them agree on, for any number of        *)
(* queries, rank constant and cut (rrf); the graph adds chunks only behind *)
(* the seed that leads to them (graph_rag.py).                             *)
THEOREM OrderFollowsFromWhatWasFound == Spec => []RankingIsJustified
  <1>1. Init => RankingIsJustified
    <2>1. ToSet(<<>>) = {}
      BY EmptyRanking
    <2>2. QED
      BY <2>1 DEF Init, RankingIsJustified, ExpansionIsAnchored, FusionIsMonotone
  <1>2. QED
    BY <1>1, RankingStaysJustified, Invariance, PTL DEF Spec
=============================================================================
