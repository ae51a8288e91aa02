-------------------------- MODULE IngestionProofs --------------------------
(***************************************************************************)
(* Proofs about the ingestion of manuals, for any manuals, any finite set  *)
(* of pages, any texts and any batch size, whatever the web site does and  *)
(* wherever a run breaks.                                                  *)
(***************************************************************************)
EXTENDS Ingestion, FiniteSetTheorems, SequenceTheorems, TLAPS

Busy == pc \in {"embed", "upsert"}

(* What runs leave behind: only a finite part of all chunks is ever        *)
(* stored, with vectors of their own texts, for pages that have a file.    *)
StoreInv == VectorsMatch /\ IndexIsBacked /\ IsFiniteSet(Indexed)

(* What the run has parsed, and what it will delete.                       *)
ScopeInv ==
    /\ \A c \in wanted : c.manual = manual
    /\ wanted \intersect stale = {}
    /\ \A c \in stale : SnapshotOf[c.manual] = SnapshotOf[manual]
    /\ IsFiniteSet(wanted) /\ IsFiniteSet(stale)

(* What is still to be done: of the chunks the run parsed, those not in    *)
(* the index are pending, once each; of the indexed ones of its manual,    *)
(* those it did not parse are to be deleted.                               *)
PlanInv ==
    Busy =>
        /\ \A c \in wanted : raw[c.manual][c.page] # NoFile
        /\ \A i \in DOMAIN pending : pending[i] \in wanted
        /\ \A i, j \in DOMAIN pending : pending[i] = pending[j] => i = j
        /\ \A c \in wanted : c \in Indexed \/ \E i \in DOMAIN pending : pending[i] = c
        /\ incremental =>
            /\ \A i \in DOMAIN pending : pending[i] \notin Indexed
            /\ \A c \in Indexed : c.manual = manual => c \in wanted \/ c \in stale
            /\ stale \subseteq Indexed

(* Each vector of the batch is that of the chunk in its place.             *)
BatchInv ==
    pc = "upsert" =>
        /\ Len(Batch) > 0
        /\ \A i \in DOMAIN Batch : vectors[i] = Batch[i].text

ReportInv ==
    Busy =>
        /\ report.embedded + report.hits =
               report.upserted + (IF pc = "upsert" THEN Len(Batch) ELSE 0)
        /\ report.reused + report.upserted + Len(pending) = Cardinality(wanted)
        /\ incremental => Cardinality(Indexed) = report.before + report.upserted

(* A run that has met no fault, change or unrecorded file so far has the   *)
(* published text of every page it has fetched.                            *)
Published == {[page |-> p, text |-> site[manual][p]] :
                p \in {q \in Page : site[manual][q] # Unlisted}}

CleanInv ==
    clean =>
        /\ pc = "crawl" =>
            /\ revalidate
            /\ menu = {p \in Page : site[manual][p] # Unlisted}
            /\ \A p \in menu \ tofetch : raw[manual][p] = site[manual][p]
            /\ \A p \in tofetch : raw[manual][p] \in {NoFile, recorded[manual][p]}
        /\ Busy => {[page |-> c.page, text |-> c.text] : c \in wanted} = Published

IInv == /\ TypeOK /\ StoreInv /\ ScopeInv /\ PlanInv /\ BatchInv /\ ReportInv
        /\ CleanInv /\ SyncedWhenDone

-----------------------------------------------------------------------------
(* The operators a run is built from.                                      *)

(* A finite set as a sequence: each element once.                          *)
LEMMA SetToSeqLists ==
    ASSUME NEW S, IsFiniteSet(S)
    PROVE  /\ SetToSeq(S) \in Seq(S) /\ Len(SetToSeq(S)) = Cardinality(S)
           /\ \A i, j \in DOMAIN SetToSeq(S) :
                SetToSeq(S)[i] = SetToSeq(S)[j] => i = j
           /\ \A x \in S : \E i \in DOMAIN SetToSeq(S) : SetToSeq(S)[i] = x
  <1> DEFINE n == Cardinality(S)
  <1>1. n \in Nat /\ ExistsBijection(1..n, S)
    BY FS_CardinalityType
  <1>2. PICK g \in [1..n -> S] : IsInjective(g)
    BY <1>1 DEF ExistsBijection, Bijection, Injection
  <1>3. SetToSeq(S) \in [1..n -> S] /\ IsInjective(SetToSeq(S))
    BY <1>2, Zenon DEF SetToSeq
  <1>4. PICK f : f = SetToSeq(S) /\ f \in [1..n -> S] /\ IsInjective(f)
    BY <1>3
  <1>5. Cardinality(1..n) = n
    BY <1>1, FS_Interval
  <1>6. f \in Surjection(1..n, S)
    <2>1. f \in Injection(1..n, S)
      BY <1>4 DEF Injection
    <2>2. QED
      BY <1>5, <2>1, FS_Injection
  <1>7. f \in Seq(S) /\ Len(f) = n /\ DOMAIN f = 1..n
    BY <1>1, <1>4
  <1>8. \A i, j \in DOMAIN f : f[i] = f[j] => i = j
    BY <1>4 DEF IsInjective
  <1>9. \A x \in S : \E i \in DOMAIN f : f[i] = x
    BY <1>6, <1>7 DEF Surjection
  <1>10. QED
    BY <1>4, <1>7, <1>8, <1>9

(* A sequence without repetitions lists as many elements as it is long.    *)
LEMMA DistinctCount ==
    ASSUME NEW S, NEW s \in Seq(S), \A i, j \in DOMAIN s : s[i] = s[j] => i = j
    PROVE  /\ IsFiniteSet({s[i] : i \in DOMAIN s})
           /\ Cardinality({s[i] : i \in DOMAIN s}) = Len(s)
  <1> DEFINE R == {s[i] : i \in DOMAIN s}
  <1>1. Len(s) \in Nat /\ DOMAIN s = 1..Len(s)
    OBVIOUS
  <1>2. IsFiniteSet(1..Len(s)) /\ Cardinality(1..Len(s)) = Len(s)
    BY <1>1, FS_Interval
  <1>3. s \in [1..Len(s) -> R]
    BY <1>1
  <1>4. s \in Bijection(1..Len(s), R)
    BY <1>1, <1>3 DEF Bijection, Injection, Surjection, IsInjective
  <1> HIDE DEF R
  <1> DEFINE D == 1..Len(s)
  <1> HIDE DEF D
  <1>5. IsFiniteSet(R) /\ Cardinality(R) = Cardinality(D)
    <2>1. IsFiniteSet(D) /\ ExistsBijection(D, R)
      BY <1>2, <1>4 DEF D, ExistsBijection
    <2>2. QED
      BY <2>1, FS_Bijection
  <1>6. IsFiniteSet(R) /\ Cardinality(R) = Len(s)
    BY <1>2, <1>5 DEF D
  <1>7. QED
    BY <1>6 DEF R

Rest == SubSeq(pending, Len(Batch) + 1, Len(pending))

(* The batch is a prefix of what is pending, and not empty when that is    *)
(* not; the rest follows it.                                               *)
LEMMA BatchIsPrefix ==
    ASSUME pending \in Seq(Chunk)
    PROVE  /\ Batch \in Seq(Chunk) /\ Len(Batch) \in Nat /\ Len(Batch) <= Len(pending)
           /\ DOMAIN Batch = 1..Len(Batch) /\ Len(pending) \in Nat
           /\ DOMAIN pending = 1..Len(pending)
           /\ \A i \in 1..Len(Batch) : Batch[i] = pending[i]
           /\ pending # <<>> => Len(Batch) > 0
           /\ Rest \in Seq(Chunk) /\ Len(Rest) = Len(pending) - Len(Batch)
           /\ DOMAIN Rest = 1..(Len(pending) - Len(Batch))
           /\ \A i \in DOMAIN Rest :
                Rest[i] = pending[Len(Batch) + i] /\ Len(Batch) + i \in DOMAIN pending
  <1> DEFINE n == IF Len(pending) < BatchSize THEN Len(pending) ELSE BatchSize
  <1>1. Len(pending) \in Nat /\ BatchSize \in Nat \ {0} /\ DOMAIN pending = 1..Len(pending)
    BY IngestionAssumption
  <1>2. n \in Nat /\ n <= Len(pending) /\ (pending # <<>> => n > 0)
    BY <1>1
  <1>3. Batch = SubSeq(pending, 1, n)
    BY DEF Batch
  <1> HIDE DEF n
  <1>4. \A i \in 1..n : pending[i] \in Chunk
    BY <1>1, <1>2
  <1>5. Batch \in Seq(Chunk) /\ Len(Batch) = n /\ \A i \in 1..n : Batch[i] = pending[i]
    <2>1. /\ SubSeq(pending, 1, n) \in Seq(Chunk)
          /\ Len(SubSeq(pending, 1, n)) = IF 1 <= n THEN n - 1 + 1 ELSE 0
          /\ \A i \in 1..(n - 1 + 1) : SubSeq(pending, 1, n)[i] = pending[1 + i - 1]
      BY <1>2, <1>4, SubSeqProperties
    <2>2. \A i \in 1..n : 1 + i - 1 = i /\ i \in 1..(n - 1 + 1)
      BY <1>2
    <2>3. QED
      BY <1>2, <1>3, <2>1, <2>2
  <1> DEFINE m == Len(pending)
  <1>6. \A i \in (n + 1)..m : pending[i] \in Chunk
    BY <1>1, <1>2
  <1>7. /\ SubSeq(pending, n + 1, m) \in Seq(Chunk)
        /\ Len(SubSeq(pending, n + 1, m)) = IF n + 1 <= m THEN m - (n + 1) + 1 ELSE 0
        /\ \A i \in 1..(m - (n + 1) + 1) :
             SubSeq(pending, n + 1, m)[i] = pending[(n + 1) + i - 1]
    BY <1>1, <1>2, <1>6, SubSeqProperties
  <1>8. Rest = SubSeq(pending, n + 1, m)
    BY <1>5 DEF Rest
  <1>9. Rest \in Seq(Chunk) /\ Len(Rest) = m - n /\ DOMAIN Rest = 1..(m - n)
    <2>0. m \in Nat /\ n \in Nat /\ n <= m
      BY <1>1, <1>2
    <2>1. (IF n + 1 <= m THEN m - (n + 1) + 1 ELSE 0) = m - n /\ m - n \in Nat
      <3> HIDE DEF m
      <3>1. CASE n = m
        BY <2>0, <3>1
      <3>2. CASE n + 1 <= m
        BY <2>0, <3>2
      <3>3. QED
        BY <2>0, <3>1, <3>2
    <2>2. Rest \in Seq(Chunk) /\ Len(Rest) = m - n
      BY <1>7, <1>8, <2>1
    <2>3. QED
      BY <2>1, <2>2
  <1>10. ASSUME NEW i \in DOMAIN Rest
         PROVE  Rest[i] = pending[n + i] /\ n + i \in DOMAIN pending
    <2>1. i \in 1..(m - (n + 1) + 1) /\ (n + 1) + i - 1 = n + i /\ n + i \in 1..m
      BY <1>1, <1>2, <1>9
    <2>2. QED
      BY <1>1, <1>7, <1>8, <2>1
  <1>11. QED
    BY <1>1, <1>2, <1>5, <1>9, <1>10

(* The parsed chunks are those of pages of the manual that have a file.    *)
LEMMA ParsedIsBacked ==
    ASSUME TypeOK
    PROVE  /\ Parsed \subseteq Chunk /\ IsFiniteSet(Parsed)
           /\ \A c \in Parsed : /\ c.manual = manual /\ c.page \in menu
                                /\ c.text = raw[manual][c.page]
                                /\ raw[c.manual][c.page] # NoFile
  <1>1. Parsed \subseteq Chunk /\ NoFile \notin Text
    BY IngestionAssumption DEF Parsed
  <1>2. \A c \in Parsed : c.manual = manual /\ c.page \in menu /\ c.text = raw[manual][c.page]
    BY DEF Parsed
  <1>3. \A c \in Parsed : c.page \in Page /\ c.text \in Text
    BY <1>1 DEF Chunk
  <1>4. IsFiniteSet(Parsed)
    <2> DEFINE f == [c \in Parsed |-> c.page]
    <2>1. f \in [Parsed -> Page]
      BY <1>3
    <2>2. ASSUME NEW c \in Parsed, NEW d \in Parsed, c.page = d.page
          PROVE  c = d
      <3>1. c.manual = d.manual /\ c.text = d.text
        BY <1>2, <2>2
      <3>2. QED
        BY <1>1, <2>2, <3>1 DEF Chunk
    <2>3. f \in Injection(Parsed, Page)
      BY <2>1, <2>2 DEF Injection, IsInjective
    <2>4. QED
      BY <2>3, FS_Injection, IngestionAssumption
  <1>5. QED
    BY <1>1, <1>2, <1>3, <1>4

(* What a batch puts into the index.                                       *)
BatchSet == {Batch[i] : i \in DOMAIN Batch}

LEMMA UpsertedIndex ==
    ASSUME TypeOK, BatchInv, pc = "upsert"
    PROVE  /\ WithBatch \in [Chunk -> Text \union {NoVector}]
           /\ BatchSet \subseteq Chunk /\ BatchSet \subseteq {pending[i] : i \in DOMAIN pending}
           /\ \A c \in BatchSet : WithBatch[c] = c.text
           /\ \A c \in Chunk \ BatchSet : WithBatch[c] = index[c]
           /\ {c \in Chunk : WithBatch[c] # NoVector} = Indexed \union BatchSet
  <1>1. /\ Batch \in Seq(Chunk) /\ DOMAIN Batch = 1..Len(Batch)
        /\ \A i \in 1..Len(Batch) : Batch[i] = pending[i]
        /\ DOMAIN pending = 1..Len(pending) /\ Len(Batch) \in Nat /\ Len(pending) \in Nat
        /\ Len(Batch) <= Len(pending)
    BY BatchIsPrefix DEF TypeOK
  <1>2. BatchSet \subseteq Chunk
    BY <1>1 DEF BatchSet
  <1>3. BatchSet \subseteq {pending[i] : i \in DOMAIN pending}
    <2>1. ASSUME NEW i \in DOMAIN Batch
          PROVE  Batch[i] \in {pending[j] : j \in DOMAIN pending}
      <3>1. i \in DOMAIN pending /\ Batch[i] = pending[i]
        BY <1>1
      <3>2. QED
        BY <3>1
    <2>2. QED
      BY <2>1 DEF BatchSet
  <1>4. ASSUME NEW c \in BatchSet PROVE WithBatch[c] = c.text
    <2>1. \E i \in DOMAIN Batch : Batch[i] = c
      BY DEF BatchSet
    <2>2. PICK j \in DOMAIN Batch : j = CHOOSE i \in DOMAIN Batch : Batch[i] = c
      BY <2>1
    <2>3. Batch[j] = c
      BY <2>1, <2>2
    <2>4. WithBatch[c] = vectors[j]
      BY <1>2, <2>1, <2>2 DEF WithBatch
    <2>5. QED
      BY <2>3, <2>4 DEF BatchInv
  <1>5. \A c \in Chunk \ BatchSet : WithBatch[c] = index[c]
    BY DEF WithBatch, BatchSet
  <1>6. \A c \in Chunk : c.text \in Text /\ c.text # NoVector
    BY IngestionAssumption DEF Chunk
  <1>7. WithBatch \in [Chunk -> Text \union {NoVector}]
    <2>1. WithBatch = [c \in Chunk |-> WithBatch[c]]
      BY DEF WithBatch
    <2>2. \A c \in Chunk : WithBatch[c] \in Text \union {NoVector}
      BY <1>4, <1>5, <1>6 DEF TypeOK
    <2> HIDE DEF WithBatch
    <2>3. QED
      BY <2>1, <2>2
  <1>8. {c \in Chunk : WithBatch[c] # NoVector} = Indexed \union BatchSet
    BY <1>2, <1>4, <1>5, <1>6 DEF Indexed
  <1>9. QED
    BY <1>2, <1>3, <1>4, <1>5, <1>7, <1>8

(* What the deletion leaves of the index.                                  *)
LEMMA PrunedIndex ==
    ASSUME TypeOK
    PROVE  /\ WithoutStale \in [Chunk -> Text \union {NoVector}]
           /\ \A c \in stale : WithoutStale[c] = NoVector
           /\ \A c \in Chunk \ stale : WithoutStale[c] = index[c]
           /\ {c \in Chunk : WithoutStale[c] # NoVector} = Indexed \ stale
  BY DEF TypeOK, WithoutStale, Indexed

(* Upserts and deletions keep what the store promises.                     *)
LEMMA StoreStaysGood ==
    ASSUME TypeOK, StoreInv, PlanInv, BatchInv, UNCHANGED <<raw, cache>>,
           \/ index' = index
           \/ pc = "upsert" /\ index' = WithBatch
           \/ pc = "embed" /\ index' = WithoutStale
    PROVE  StoreInv' /\ index' \in [Chunk -> Text \union {NoVector}]
  <1>1. CASE index' = index
    BY <1>1 DEF StoreInv, VectorsMatch, IndexIsBacked, Indexed, TypeOK
  <1>2. CASE pc = "upsert" /\ index' = WithBatch
    <2>1. /\ index' \in [Chunk -> Text \union {NoVector}]
          /\ BatchSet \subseteq {pending[i] : i \in DOMAIN pending}
          /\ \A c \in BatchSet : index'[c] = c.text
          /\ \A c \in Chunk \ BatchSet : index'[c] = index[c]
          /\ Indexed' = Indexed \union BatchSet
      BY <1>2, UpsertedIndex DEF Indexed
    <2>2. \A c \in BatchSet : raw[c.manual][c.page] # NoFile
      BY <1>2, <2>1 DEF PlanInv, Busy
    <2>3. IsFiniteSet(BatchSet)
      <3>1. /\ Batch \in Seq(Chunk) /\ DOMAIN Batch = 1..Len(Batch)
            /\ \A i \in 1..Len(Batch) : Batch[i] = pending[i] /\ i \in DOMAIN pending
        BY BatchIsPrefix DEF TypeOK
      <3>2. \A i, j \in DOMAIN Batch : Batch[i] = Batch[j] => i = j
        BY <1>2, <3>1 DEF PlanInv, Busy
      <3>3. QED
        BY <3>1, <3>2, DistinctCount DEF BatchSet
    <2>4. IsFiniteSet(Indexed')
      BY <2>1, <2>3, FS_Union DEF StoreInv
    <2>5. VectorsMatch'
      BY <2>1 DEF StoreInv, VectorsMatch, Indexed
    <2>6. IndexIsBacked'
      BY <2>1, <2>2 DEF StoreInv, IndexIsBacked
    <2>7. QED
      BY <2>1, <2>4, <2>5, <2>6 DEF StoreInv
  <1>3. CASE pc = "embed" /\ index' = WithoutStale
    <2>1. /\ index' \in [Chunk -> Text \union {NoVector}]
          /\ \A c \in Chunk \ stale : index'[c] = index[c]
          /\ Indexed' = Indexed \ stale
      BY <1>3, PrunedIndex DEF Indexed
    <2>2. IsFiniteSet(Indexed')
      BY <2>1, FS_Subset DEF StoreInv
    <2>3. VectorsMatch' /\ IndexIsBacked'
      BY <2>1 DEF StoreInv, VectorsMatch, IndexIsBacked, Indexed
    <2>4. QED
      BY <2>1, <2>2, <2>3 DEF StoreInv
  <1>4. QED
    BY <1>1, <1>2, <1>3

-----------------------------------------------------------------------------
(* Every step preserves the invariant.                                     *)

LEMMA InitIInv == Init => IInv
  <1> SUFFICES ASSUME Init PROVE IInv
    OBVIOUS
  <1>1. Indexed = {}
    BY DEF Init, Indexed
  <1>2. TypeOK
    <2>1. EmptyReport \in Count
      BY DEF EmptyReport, Count
    <2>2. <<>> \in Seq(Chunk) /\ <<>> \in Seq(Text)
      OBVIOUS
    <2>3. QED
      BY <2>1, <2>2 DEF Init, TypeOK
  <1>3. StoreInv
    BY <1>1, FS_EmptySet DEF Init, StoreInv, VectorsMatch, IndexIsBacked
  <1>4. ScopeInv
    BY FS_EmptySet DEF Init, ScopeInv
  <1>5. PlanInv /\ BatchInv /\ ReportInv /\ CleanInv /\ SyncedWhenDone
    BY DEF Init, PlanInv, BatchInv, ReportInv, CleanInv, SyncedWhenDone, Busy
  <1>6. QED
    BY <1>2, <1>3, <1>4, <1>5 DEF IInv

(* What is outside the plan of the run may change without touching it.     *)
LEMMA PlanUntouched ==
    ASSUME IInv, UNCHANGED <<index, pc, manual, incremental, wanted, pending, vectors,
                             stale, report>>,
           raw' = raw \/ pc = "crawl"
    PROVE  ScopeInv' /\ PlanInv' /\ BatchInv' /\ ReportInv'
  <1>0. ScopeInv /\ PlanInv /\ BatchInv /\ ReportInv
    BY DEF IInv
  <1>1. Batch' = Batch /\ Indexed' = Indexed /\ Busy' = Busy
    BY DEF Batch, Indexed, Busy
  <1>2. ScopeInv'
    BY <1>0 DEF ScopeInv
  <1>3. PlanInv'
    BY <1>0, <1>1 DEF PlanInv, Busy
  <1>4. BatchInv'
    BY <1>0, <1>1 DEF BatchInv
  <1>5. ReportInv'
    BY <1>0, <1>1 DEF ReportInv
  <1>6. QED
    BY <1>2, <1>3, <1>4, <1>5

LEMMA SiteChangesKeeps ==
    ASSUME IInv, NEW m \in Manual, NEW p \in Page, SiteChanges(m, p)
    PROVE  IInv'
  <1>0. TypeOK /\ StoreInv /\ CleanInv /\ SyncedWhenDone
    BY DEF IInv
  <1>1. /\ UNCHANGED <<raw, recorded, cache, index, pc, manual, incremental, revalidate,
                       menu, tofetch, records, wanted, pending, vectors, stale, report>>
        /\ clean' = (clean /\ m # manual)
    BY DEF SiteChanges, fileVars, storeVars, scopeVars, crawlVars, planVars
  <1>2. PICK body \in Text \union {Unlisted} :
          site' = [site EXCEPT ![m] = [site[m] EXCEPT ![p] = body]]
    BY DEF SiteChanges
  <1>3. site' \in [Manual -> [Page -> Text \union {Unlisted}]]
    BY <1>0, <1>2 DEF TypeOK
  <1>4. m # manual => site'[manual] = site[manual]
    BY <1>0, <1>2 DEF TypeOK
  <1>5. Batch' = Batch /\ Indexed' = Indexed
    BY <1>1 DEF Batch, Indexed
  <1>6. TypeOK'
    BY <1>0, <1>1, <1>3, <1>5 DEF TypeOK
  <1>7. StoreInv'
    BY <1>0, <1>1, <1>5 DEF StoreInv, VectorsMatch, IndexIsBacked
  <1>8. CleanInv'
    BY <1>0, <1>1, <1>4 DEF CleanInv, Busy, Published
  <1>9. SyncedWhenDone'
    BY <1>0, <1>1, <1>4, <1>5 DEF SyncedWhenDone
  <1>10. QED
    BY <1>1, <1>6, <1>7, <1>8, <1>9, PlanUntouched DEF IInv

LEMMA StartRunKeeps == IInv /\ StartRun => IInv'
  <1> SUFFICES ASSUME IInv, StartRun PROVE IInv'
    OBVIOUS
  <1>0. TypeOK /\ StoreInv
    BY DEF IInv
  <1>1. /\ UNCHANGED <<site, raw, recorded, cache, index>>
        /\ manual' \in Manual /\ incremental' \in BOOLEAN /\ revalidate' \in BOOLEAN
        /\ menu' = {p \in Page : site[manual'][p] # Unlisted}
        /\ tofetch' = menu' /\ records' = {}
        /\ clean' = (revalidate' /\ \A p \in Page :
                        raw[manual'][p] \in {NoFile, recorded[manual'][p]})
        /\ pc' = "crawl" /\ wanted' = {} /\ pending' = <<>> /\ vectors' = <<>>
        /\ stale' = {} /\ report' = EmptyReport
    BY DEF StartRun, webVars, fileVars, storeVars
  <1>2. Indexed' = Indexed
    BY <1>1 DEF Indexed
  <1>3. TypeOK'
    <2>1. report' \in Count
      BY <1>1 DEF EmptyReport, Count
    <2>2. pending' \in Seq(Chunk) /\ vectors' \in Seq(Text)
      BY <1>1
    <2>3. clean' \in BOOLEAN
      BY <1>1
    <2>4. QED
      BY <1>0, <1>1, <2>1, <2>2, <2>3 DEF TypeOK
  <1>4. StoreInv'
    BY <1>0, <1>1, <1>2 DEF StoreInv, VectorsMatch, IndexIsBacked
  <1>5. ScopeInv'
    BY <1>1, FS_EmptySet DEF ScopeInv
  <1>6. PlanInv' /\ BatchInv' /\ ReportInv' /\ SyncedWhenDone'
    BY <1>1 DEF PlanInv, BatchInv, ReportInv, SyncedWhenDone, Busy
  <1>7. CleanInv'
    BY <1>1 DEF CleanInv, Busy
  <1>8. QED
    BY <1>3, <1>4, <1>5, <1>6, <1>7 DEF IInv

LEMMA FetchKeeps ==
    ASSUME IInv, NEW p \in Page, Fetch(p) \/ FailFetch(p)
    PROVE  IInv'
  <1>0. TypeOK /\ StoreInv /\ CleanInv
    BY DEF IInv
  <1>1. /\ pc = "crawl" /\ p \in tofetch /\ tofetch' = tofetch \ {p}
        /\ UNCHANGED <<site, recorded, cache, index, pc, manual, incremental, revalidate,
                       menu, wanted, pending, vectors, stale, report>>
    BY DEF Fetch, FailFetch, webVars, fileVars, storeVars, scopeVars, planVars
  <1>2. \/ /\ raw' = raw /\ records' = records
           /\ clean' = FALSE \/ (clean' = clean /\ Skipped(p))
        \/ /\ ~Skipped(p) /\ site[manual][p] # Unlisted /\ clean' = clean
           /\ raw' = [raw EXCEPT ![manual] = [raw[manual] EXCEPT ![p] =
                         IF NotModified(p) THEN raw[manual][p] ELSE site[manual][p]]]
           /\ records' \in {records, records \union {p}}
    <2>1. CASE FailFetch(p)
      BY <2>1 DEF FailFetch, fileVars
    <2>2. CASE Fetch(p)
      <3>1. CASE Skipped(p)
        BY <2>2, <3>1 DEF Fetch
      <3>2. CASE ~Skipped(p)
        BY <2>2, <3>2 DEF Fetch
      <3>3. QED
        BY <3>1, <3>2
    <2>3. QED
      BY <2>1, <2>2
  <1>3. /\ raw' \in [Manual -> [Page -> Text \union {NoFile}]]
        /\ \A m \in Manual, q \in Page : raw[m][q] # NoFile => raw'[m][q] # NoFile
        /\ \A q \in Page \ {p} : raw'[manual][q] = raw[manual][q]
    <2>1. CASE raw' = raw
      BY <1>0, <2>1 DEF TypeOK
    <2>2. CASE raw' # raw
      <3> DEFINE v == IF NotModified(p) THEN raw[manual][p] ELSE site[manual][p]
      <3>0. raw' = [raw EXCEPT ![manual] = [raw[manual] EXCEPT ![p] = v]]
        BY <1>2, <2>2
      <3>1. v \in Text
        <4>1. raw[manual][p] \in Text \union {NoFile} /\ site[manual][p] \in Text \union {Unlisted}
          BY <1>0 DEF TypeOK
        <4>2. NotModified(p) => raw[manual][p] # NoFile
          BY DEF NotModified
        <4>3. site[manual][p] # Unlisted
          BY <1>2, <2>2
        <4>4. QED
          BY <4>1, <4>2, <4>3
      <3> HIDE DEF v
      <3>2. v # NoFile
        BY <3>1, IngestionAssumption
      <3>3. QED
        BY <1>0, <3>0, <3>1, <3>2 DEF TypeOK
    <2>3. QED
      BY <2>1, <2>2
  <1>4. Batch' = Batch /\ Indexed' = Indexed
    BY <1>1 DEF Batch, Indexed
  <1>5. TypeOK'
    <2>1. records' \subseteq menu' /\ tofetch' \subseteq menu' /\ clean' \in BOOLEAN
      BY <1>0, <1>1, <1>2 DEF TypeOK
    <2>2. QED
      BY <1>0, <1>1, <1>3, <1>4, <2>1 DEF TypeOK
  <1>6. StoreInv'
    <2>1. VectorsMatch' /\ IsFiniteSet(Indexed')
      BY <1>0, <1>1, <1>4 DEF StoreInv, VectorsMatch
    <2>2. \A c \in Indexed : c.manual \in Manual /\ c.page \in Page
      BY DEF Indexed, Chunk
    <2>3. IndexIsBacked'
      BY <1>0, <1>3, <1>4, <2>2 DEF StoreInv, IndexIsBacked
    <2>4. QED
      BY <2>1, <2>3 DEF StoreInv
  <1>7. CleanInv'
    <2>1. CASE ~clean'
      BY <2>1 DEF CleanInv
    <2>2. CASE clean'
      <3>1. /\ clean /\ revalidate
            /\ menu = {q \in Page : site[manual][q] # Unlisted}
            /\ \A q \in menu \ tofetch : raw[manual][q] = site[manual][q]
            /\ \A q \in tofetch : raw[manual][q] \in {NoFile, recorded[manual][q]}
        BY <1>0, <1>1, <1>2, <2>2 DEF CleanInv
      <3>2. raw' = [raw EXCEPT ![manual] = [raw[manual] EXCEPT ![p] =
                       IF NotModified(p) THEN raw[manual][p] ELSE site[manual][p]]]
        BY <1>2, <2>2, <3>1 DEF Skipped
      <3>3. raw'[manual][p] = IF NotModified(p) THEN raw[manual][p] ELSE site[manual][p]
        BY <1>0, <3>2 DEF TypeOK
      <3>4. raw'[manual][p] = site[manual][p]
        BY <1>1, <3>1, <3>3 DEF NotModified
      <3>5. menu \subseteq Page /\ tofetch \subseteq menu
        BY <1>0 DEF TypeOK
      <3>6. QED
        BY <1>1, <1>3, <3>1, <3>4, <3>5 DEF CleanInv, Busy
    <2>3. QED
      BY <2>1, <2>2
  <1>8. SyncedWhenDone'
    BY <1>1 DEF SyncedWhenDone
  <1>9. QED
    BY <1>1, <1>5, <1>6, <1>7, <1>8, PlanUntouched DEF IInv

(* The manifest gets the text of every page the run has fetched.           *)
LEMMA RecordedTypes ==
    ASSUME TypeOK,
           recorded' = [recorded EXCEPT ![manual] =
              [p \in Page |-> IF p \in records THEN raw[manual][p] ELSE @[p]]]
    PROVE  recorded' \in [Manual -> [Page -> Text \union {NoFile}]]
  <1> DEFINE line == [p \in Page |-> IF p \in records THEN raw[manual][p]
                                     ELSE recorded[manual][p]]
  <1>1. line \in [Page -> Text \union {NoFile}]
    BY DEF TypeOK
  <1>2. recorded' = [recorded EXCEPT ![manual] = line]
    OBVIOUS
  <1> HIDE DEF line
  <1>3. QED
    BY <1>1, <1>2 DEF TypeOK

LEMMA PlanRunKeeps == IInv /\ PlanRun => IInv'
  <1> SUFFICES ASSUME IInv, PlanRun PROVE IInv'
    OBVIOUS
  <1>0. TypeOK /\ StoreInv /\ ScopeInv /\ CleanInv
    BY DEF IInv
  <1>1. /\ pc = "crawl" /\ tofetch = {} /\ records' = {}
        /\ UNCHANGED <<site, raw, cache, index, manual, incremental, revalidate,
                       menu, tofetch, clean>>
        /\ recorded' \in [Manual -> [Page -> Text \union {NoFile}]]
    BY <1>0, RecordedTypes DEF PlanRun, webVars, storeVars, scopeVars
  <1>2. Indexed' = Indexed
    BY <1>1 DEF Indexed
  <1>3. StoreInv'
    BY <1>0, <1>1, <1>2 DEF StoreInv, VectorsMatch, IndexIsBacked
  <1>4. CASE Parsed = {}
    <2>1. pc' = "idle" /\ UNCHANGED <<wanted, pending, vectors, stale, report>>
      BY <1>4 DEF PlanRun, planVars
    <2>2. Batch' = Batch
      BY <2>1 DEF Batch
    <2>3. TypeOK'
      BY <1>0, <1>1, <2>1, <2>2 DEF TypeOK
    <2>4. ScopeInv'
      BY <1>0, <1>1, <2>1 DEF ScopeInv
    <2>5. PlanInv' /\ BatchInv' /\ ReportInv' /\ CleanInv' /\ SyncedWhenDone'
      BY <2>1 DEF PlanInv, BatchInv, ReportInv, CleanInv, SyncedWhenDone, Busy
    <2>6. QED
      BY <1>3, <2>3, <2>4, <2>5 DEF IInv
  <1>5. CASE Parsed # {}
    <2> DEFINE U == IF incremental THEN Parsed \ Indexed ELSE Parsed
    <2>1. /\ pc' = "embed" /\ wanted' = Parsed /\ pending' = SetToSeq(U)
          /\ vectors' = <<>>
          /\ stale' = IF incremental THEN Stale(Parsed) ELSE {}
          /\ report' = [EmptyReport EXCEPT !.before = Cardinality(Indexed),
                                           !.reused = Cardinality(Parsed \ U)]
      BY <1>5, Zenon DEF PlanRun
    <2>2. /\ Parsed \subseteq Chunk /\ IsFiniteSet(Parsed)
          /\ \A c \in Parsed : c.manual = manual /\ raw[c.manual][c.page] # NoFile
      BY <1>0, ParsedIsBacked
    <2>3. /\ U \subseteq Parsed /\ IsFiniteSet(U)
          /\ incremental => U = Parsed \ Indexed
          /\ ~incremental => U = Parsed
      BY <2>2, FS_Subset
    <2> HIDE DEF U
    <2>4. /\ pending' \in Seq(U) /\ Len(pending') = Cardinality(U)
          /\ \A i, j \in DOMAIN pending' : pending'[i] = pending'[j] => i = j
          /\ \A x \in U : \E i \in DOMAIN pending' : pending'[i] = x
      BY <2>1, <2>3, SetToSeqLists
    <2>5. \A i \in DOMAIN pending' : pending'[i] \in U
      BY <2>4
    <2>6. /\ stale' \subseteq Indexed /\ stale' \intersect Parsed = {}
          /\ \A c \in stale' : SnapshotOf[c.manual] = SnapshotOf[manual]
          /\ incremental => \A c \in Indexed : c.manual = manual => c \in Parsed \/ c \in stale'
      BY <2>1 DEF Stale
    <2>7. /\ Cardinality(Indexed) \in Nat /\ Cardinality(Parsed) \in Nat
          /\ Cardinality(U) \in Nat /\ Cardinality(Parsed \ U) \in Nat
          /\ Cardinality(Parsed \ U) + Cardinality(U) = Cardinality(Parsed)
          /\ IsFiniteSet(stale')
      <3>1. /\ IsFiniteSet(Parsed \ U)
            /\ Cardinality(Parsed \ U) = Cardinality(Parsed) - Cardinality(Parsed \cap U)
        BY <2>2, FS_Difference
      <3>2. Parsed \cap U = U
        BY <2>3
      <3>3. IsFiniteSet(stale') /\ IsFiniteSet(Indexed)
        BY <1>0, <2>6, FS_Subset DEF StoreInv
      <3>4. /\ Cardinality(Indexed) \in Nat /\ Cardinality(Parsed) \in Nat
            /\ Cardinality(U) \in Nat /\ Cardinality(Parsed \ U) \in Nat
        BY <2>2, <2>3, <3>1, <3>3, FS_CardinalityType
      <3>5. Cardinality(Parsed \ U) = Cardinality(Parsed) - Cardinality(U)
        BY <3>1, <3>2, Zenon
      <3>6. Cardinality(Parsed \ U) + Cardinality(U) = Cardinality(Parsed)
        BY <3>4, <3>5
      <3>7. QED
        BY <3>3, <3>4, <3>6
    <2>8. /\ report' \in Count /\ report'.before = Cardinality(Indexed)
          /\ report'.reused = Cardinality(Parsed \ U)
          /\ report'.embedded = 0 /\ report'.hits = 0 /\ report'.upserted = 0
      BY <2>1, <2>7 DEF EmptyReport, Count
    <2>9. TypeOK'
      <3>1. pending' \in Seq(Chunk)
        BY <2>2, <2>3, <2>4
      <3>2. stale' \subseteq Chunk
        BY <2>6 DEF Indexed
      <3>3. vectors' \in Seq(Text)
        BY <2>1
      <3>4. QED
        BY <1>0, <1>1, <2>1, <2>2, <2>8, <3>1, <3>2, <3>3 DEF TypeOK
    <2>10. ScopeInv'
      <3>1. wanted' \intersect stale' = {}
        BY <2>1, <2>6
      <3>2. \A c \in wanted' : c.manual = manual'
        BY <1>1, <2>1, <2>2
      <3>3. \A c \in stale' : SnapshotOf[c.manual] = SnapshotOf[manual']
        BY <1>1, <2>6
      <3>4. IsFiniteSet(wanted') /\ IsFiniteSet(stale')
        BY <2>1, <2>2, <2>7
      <3>5. QED
        BY <3>1, <3>2, <3>3, <3>4, Zenon DEF ScopeInv
    <2>11. PlanInv'
      <3>1. \A c \in wanted' : raw'[c.manual][c.page] # NoFile
        BY <1>1, <2>1, <2>2
      <3>2. \A i \in DOMAIN pending' : pending'[i] \in wanted'
        BY <2>1, <2>3, <2>5
      <3>3. \A c \in wanted' : c \in Indexed' \/ \E i \in DOMAIN pending' : pending'[i] = c
        BY <1>2, <2>1, <2>3, <2>4
      <3>4. incremental' =>
              /\ \A i \in DOMAIN pending' : pending'[i] \notin Indexed'
              /\ \A c \in Indexed' : c.manual = manual' => c \in wanted' \/ c \in stale'
              /\ stale' \subseteq Indexed'
        <4> SUFFICES ASSUME incremental'
                     PROVE  /\ \A i \in DOMAIN pending' : pending'[i] \notin Indexed'
                            /\ \A c \in Indexed' :
                                 c.manual = manual' => c \in wanted' \/ c \in stale'
                            /\ stale' \subseteq Indexed'
          OBVIOUS
        <4>1. incremental /\ manual' = manual
          BY <1>1
        <4>2. \A i \in DOMAIN pending' : pending'[i] \notin Indexed'
          BY <1>2, <2>3, <2>5, <4>1
        <4>3. QED
          BY <1>2, <2>1, <2>6, <4>1, <4>2
      <3>5. QED
        BY <2>4, <3>1, <3>2, <3>3, <3>4, Zenon DEF PlanInv
    <2>12. BatchInv' /\ SyncedWhenDone'
      BY <2>1 DEF BatchInv, SyncedWhenDone
    <2>13. ReportInv'
      BY <1>1, <1>2, <2>1, <2>4, <2>7, <2>8 DEF ReportInv
    <2>14. CleanInv'
      <3> SUFFICES ASSUME clean
                   PROVE  {[page |-> c.page, text |-> c.text] : c \in Parsed} = Published
        BY <1>1, <2>1 DEF CleanInv, Published
      <3>1. /\ menu = {p \in Page : site[manual][p] # Unlisted}
            /\ \A p \in menu : raw[manual][p] = site[manual][p]
        BY <1>0, <1>1 DEF CleanInv
      <3>2. ASSUME NEW c \in Parsed
            PROVE  [page |-> c.page, text |-> c.text] \in Published
        <4>1. c.page \in menu /\ c.text = site[manual][c.page]
          BY <1>0, <3>1, ParsedIsBacked
        <4>2. QED
          BY <3>1, <4>1 DEF Published
      <3>3. ASSUME NEW p \in Page, site[manual][p] # Unlisted
            PROVE  [page |-> p, text |-> site[manual][p]]
                     \in {[page |-> c.page, text |-> c.text] : c \in Parsed}
        <4> DEFINE c == [manual |-> manual, page |-> p, text |-> site[manual][p]]
        <4>1. c \in Parsed
          BY <1>0, <3>1, <3>3 DEF Parsed, Chunk, TypeOK
        <4>2. c.page = p /\ c.text = site[manual][p]
          OBVIOUS
        <4> HIDE DEF c
        <4>3. QED
          BY <4>1, <4>2
      <3>4. QED
        BY <3>2, <3>3 DEF Published
    <2>15. QED
      BY <1>3, <2>9, <2>10, <2>11, <2>12, <2>13, <2>14 DEF IInv
  <1>6. QED
    BY <1>4, <1>5

(* The texts that are embedded are at most as many as the batch is long.   *)
LEMMA MissingIsFew ==
    ASSUME TypeOK
    PROVE  /\ Missing(Batch) \subseteq Text /\ Cardinality(Missing(Batch)) \in Nat
           /\ Cardinality(Missing(Batch)) <= Len(Batch) /\ Len(Batch) \in Nat
  <1> DEFINE T == {Batch[i].text : i \in DOMAIN Batch}
  <1> DEFINE f == [i \in 1..Len(Batch) |-> Batch[i].text]
  <1>1. DOMAIN Batch = 1..Len(Batch) /\ Len(Batch) \in Nat
    BY BatchIsPrefix DEF TypeOK
  <1>2. f \in Surjection(1..Len(Batch), T)
    BY <1>1 DEF Surjection
  <1>3. IsFiniteSet(1..Len(Batch)) /\ Cardinality(1..Len(Batch)) = Len(Batch)
    <2>1. PICK n \in Nat : n = Len(Batch)
      BY <1>1
    <2>2. IsFiniteSet(1..n) /\ Cardinality(1..n) = n
      BY FS_Interval
    <2>3. QED
      BY <2>1, <2>2
  <1>4. Missing(Batch) \subseteq T /\ Missing(Batch) \subseteq Text
    BY DEF Missing
  <1> HIDE DEF T, f
  <1>5. IsFiniteSet(T) /\ Cardinality(T) <= Len(Batch)
    BY <1>2, <1>3, FS_Surjection
  <1>6. Cardinality(T) \in Nat
    BY <1>5, FS_CardinalityType
  <1>7. IsFiniteSet(Missing(Batch)) /\ Cardinality(Missing(Batch)) <= Cardinality(T)
    BY <1>4, <1>5, FS_Subset
  <1>8. Cardinality(Missing(Batch)) \in Nat
    BY <1>7, FS_CardinalityType
  <1>9. QED
    BY <1>1, <1>4, <1>5, <1>6, <1>7, <1>8

LEMMA EmbedKeeps == IInv /\ Embed => IInv'
  <1> SUFFICES ASSUME IInv, Embed PROVE IInv'
    OBVIOUS
  <1>0. TypeOK /\ StoreInv /\ ScopeInv /\ PlanInv /\ ReportInv /\ CleanInv
    BY DEF IInv
  <1> DEFINE n == Cardinality(Missing(Batch))
  <1>1. /\ pc = "embed" /\ pending # <<>> /\ pc' = "upsert"
        /\ cache' = [t \in Text |-> IF t \in Missing(Batch) THEN t ELSE cache[t]]
        /\ vectors' = [i \in DOMAIN Batch |-> cache'[Batch[i].text]]
        /\ report' = [report EXCEPT !.embedded = @ + n, !.hits = @ + Len(Batch) - n]
        /\ UNCHANGED <<site, raw, recorded, index, manual, incremental, revalidate,
                       menu, tofetch, records, wanted, pending, stale, clean>>
    BY DEF Embed, Resolved, webVars, fileVars, scopeVars, crawlVars
  <1>2. Batch' = Batch /\ Indexed' = Indexed
    BY <1>1 DEF Batch, Indexed
  <1>3. /\ Batch \in Seq(Chunk) /\ DOMAIN Batch = 1..Len(Batch) /\ Len(Batch) \in Nat
        /\ Len(Batch) > 0
    BY <1>0, <1>1, BatchIsPrefix DEF TypeOK
  <1>4. /\ NoVector \notin Text
        /\ \A i \in DOMAIN Batch : Batch[i] \in Chunk /\ Batch[i].text \in Text
    <2>1. \A i \in DOMAIN Batch : Batch[i] \in Chunk
      BY <1>3
    <2>2. \A c \in Chunk : c.text \in Text
      BY DEF Chunk
    <2>3. QED
      BY <2>1, <2>2, IngestionAssumption
  <1>5. \A i \in DOMAIN Batch : cache'[Batch[i].text] = Batch[i].text
    <2>1. \A i \in DOMAIN Batch : cache[Batch[i].text] \in {NoVector, Batch[i].text}
      BY <1>0, <1>4 DEF StoreInv, VectorsMatch
    <2>2. \A i \in DOMAIN Batch :
            cache[Batch[i].text] = NoVector => Batch[i].text \in Missing(Batch)
      BY <1>4 DEF Missing
    <2>3. QED
      BY <1>1, <1>4, <2>1, <2>2
  <1>6. /\ vectors' \in Seq(Text) /\ Len(vectors') = Len(Batch)
        /\ \A i \in DOMAIN Batch : vectors'[i] = Batch[i].text
    BY <1>1, <1>3, <1>4, <1>5
  <1>7. n \in Nat /\ n <= Len(Batch) /\ Missing(Batch) \subseteq Text
    BY <1>0, MissingIsFew
  <1> HIDE DEF n
  <1>8. /\ report' \in Count
        /\ report'.embedded + report'.hits = report.embedded + report.hits + Len(Batch)
        /\ report'.upserted = report.upserted /\ report'.reused = report.reused
        /\ report'.before = report.before
    <2>1. report \in Count
      BY <1>0 DEF TypeOK
    <2>2. /\ report.embedded \in Nat /\ report.hits \in Nat
          /\ report'.embedded = report.embedded + n
          /\ report'.hits = report.hits + Len(Batch) - n
      BY <1>1, <2>1 DEF Count
    <2>3. report.hits + Len(Batch) - n \in Nat /\ report.embedded + n \in Nat
      BY <1>3, <1>7, <2>2
    <2>4. report' \in Count /\ report'.upserted = report.upserted
          /\ report'.reused = report.reused /\ report'.before = report.before
      BY <1>1, <2>1, <2>3 DEF Count
    <2>5. QED
      BY <1>3, <1>7, <2>2, <2>4
  <1>9. TypeOK'
    <2>1. cache' \in [Text -> Text \union {NoVector}]
      BY <1>0, <1>1, <1>7 DEF TypeOK
    <2>2. QED
      BY <1>0, <1>1, <1>2, <1>6, <1>8, <2>1 DEF TypeOK
  <1>10. StoreInv'
    <2>1. VectorsMatch'
      BY <1>0, <1>1, <1>2 DEF StoreInv, VectorsMatch
    <2>2. QED
      BY <1>0, <1>1, <1>2, <2>1 DEF StoreInv, IndexIsBacked
  <1>11. ScopeInv'
    BY <1>0, <1>1 DEF ScopeInv
  <1>12. PlanInv'
    BY <1>0, <1>1, <1>2 DEF PlanInv, Busy
  <1>13. BatchInv'
    BY <1>2, <1>3, <1>6 DEF BatchInv
  <1>14. ReportInv'
    <2>1. /\ report.embedded + report.hits = report.upserted
          /\ report.reused + report.upserted + Len(pending) = Cardinality(wanted)
          /\ incremental => Cardinality(Indexed) = report.before + report.upserted
      BY <1>0, <1>1 DEF ReportInv, Busy, TypeOK, Count
    <2>2. QED
      BY <1>1, <1>2, <1>8, <2>1 DEF ReportInv
  <1>15. CleanInv' /\ SyncedWhenDone'
    BY <1>0, <1>1 DEF CleanInv, Busy, Published, SyncedWhenDone
  <1>16. QED
    BY <1>9, <1>10, <1>11, <1>12, <1>13, <1>14, <1>15 DEF IInv

LEMMA UpsertKeeps == IInv /\ Upsert => IInv'
  <1> SUFFICES ASSUME IInv, Upsert PROVE IInv'
    OBVIOUS
  <1>0. /\ TypeOK /\ StoreInv /\ ScopeInv /\ PlanInv /\ BatchInv /\ ReportInv
        /\ CleanInv
    BY DEF IInv
  <1>1. /\ pc = "upsert" /\ pc' = "embed" /\ index' = WithBatch
        /\ pending' = Rest /\ vectors' = <<>>
        /\ report' = [report EXCEPT !.upserted = @ + Len(Batch)]
        /\ UNCHANGED <<site, raw, recorded, cache, manual, incremental, revalidate,
                       menu, tofetch, records, wanted, stale, clean>>
    BY DEF Upsert, Rest, webVars, fileVars, scopeVars, crawlVars
  <1>2. StoreInv' /\ index' \in [Chunk -> Text \union {NoVector}]
    BY <1>0, <1>1, StoreStaysGood
  <1>3. /\ BatchSet \subseteq {pending[i] : i \in DOMAIN pending}
        /\ Indexed' = Indexed \union BatchSet
    BY <1>0, <1>1, UpsertedIndex DEF Indexed
  <1>4. /\ Batch \in Seq(Chunk) /\ Len(Batch) \in Nat /\ Len(Batch) <= Len(pending)
        /\ DOMAIN Batch = 1..Len(Batch) /\ Len(pending) \in Nat
        /\ DOMAIN pending = 1..Len(pending)
        /\ \A i \in 1..Len(Batch) : Batch[i] = pending[i]
        /\ pending' \in Seq(Chunk) /\ Len(pending') = Len(pending) - Len(Batch)
        /\ DOMAIN pending' = 1..(Len(pending) - Len(Batch))
        /\ \A i \in DOMAIN pending' :
             pending'[i] = pending[Len(Batch) + i] /\ Len(Batch) + i \in DOMAIN pending
    BY <1>0, <1>1, BatchIsPrefix DEF TypeOK
  <1>5. /\ \A c \in wanted : raw[c.manual][c.page] # NoFile
        /\ \A i \in DOMAIN pending : pending[i] \in wanted
        /\ \A i, j \in DOMAIN pending : pending[i] = pending[j] => i = j
        /\ \A c \in wanted : c \in Indexed \/ \E i \in DOMAIN pending : pending[i] = c
        /\ incremental =>
            /\ \A i \in DOMAIN pending : pending[i] \notin Indexed
            /\ \A c \in Indexed : c.manual = manual => c \in wanted \/ c \in stale
            /\ stale \subseteq Indexed
    BY <1>0, <1>1 DEF PlanInv, Busy
  <1>6. /\ report' \in Count /\ report'.upserted = report.upserted + Len(Batch)
        /\ report'.embedded = report.embedded /\ report'.hits = report.hits
        /\ report'.reused = report.reused /\ report'.before = report.before
    <2>1. report \in Count /\ report.upserted + Len(Batch) \in Nat
      BY <1>0, <1>4 DEF TypeOK, Count
    <2>2. report' = [report EXCEPT !.upserted = report.upserted + Len(Batch)]
      BY <1>1
    <2>3. QED
      BY <2>1, <2>2 DEF Count
  <1>7. TypeOK'
    <2>1. vectors' \in Seq(Text)
      BY <1>1
    <2>2. QED
      BY <1>0, <1>1, <1>2, <1>4, <1>6, <2>1 DEF TypeOK
  <1>8. ScopeInv'
    BY <1>0, <1>1 DEF ScopeInv
  <1>9. PlanInv'
    <2>1. \A i \in DOMAIN pending' : pending'[i] \in wanted
      BY <1>4, <1>5
    <2>2. \A i, j \in DOMAIN pending' : pending'[i] = pending'[j] => i = j
      BY <1>4, <1>5
    <2>3. ASSUME NEW c \in wanted
          PROVE  c \in Indexed' \/ \E i \in DOMAIN pending' : pending'[i] = c
      <3>1. CASE c \in Indexed
        BY <1>3, <3>1
      <3>2. CASE \E i \in DOMAIN pending : pending[i] = c
        <4>1. PICK i \in DOMAIN pending : pending[i] = c
          BY <3>2
        <4>2. CASE i <= Len(Batch)
          <5>1. i \in DOMAIN Batch /\ Batch[i] = c
            BY <1>4, <4>1, <4>2
          <5>2. QED
            BY <1>3, <5>1 DEF BatchSet
        <4>3. CASE i > Len(Batch)
          <5>1. /\ i - Len(Batch) \in DOMAIN pending'
                /\ Len(Batch) + (i - Len(Batch)) = i
            BY <1>4, <4>3
          <5>2. pending'[i - Len(Batch)] = c
            BY <1>4, <4>1, <5>1
          <5>3. QED
            BY <5>1, <5>2
        <4>4. QED
          BY <1>4, <4>2, <4>3
      <3>3. QED
        BY <1>5, <3>1, <3>2
    <2>4. ASSUME incremental
          PROVE  /\ \A i \in DOMAIN pending' : pending'[i] \notin Indexed'
                 /\ \A c \in Indexed' : c.manual = manual => c \in wanted \/ c \in stale
                 /\ stale \subseteq Indexed'
      <3>1. ASSUME NEW i \in DOMAIN pending' PROVE pending'[i] \notin BatchSet
        <4> SUFFICES ASSUME NEW j \in DOMAIN Batch, Batch[j] = pending'[i] PROVE FALSE
          BY DEF BatchSet
        <4>1. /\ j \in DOMAIN pending /\ pending[j] = pending[Len(Batch) + i]
              /\ Len(Batch) + i \in DOMAIN pending
          BY <1>4
        <4>2. j = Len(Batch) + i
          BY <1>5, <4>1
        <4>3. QED
          BY <1>4, <4>2
      <3>2. BatchSet \subseteq wanted
        BY <1>3, <1>5
      <3>3. QED
        BY <1>3, <1>4, <1>5, <2>4, <3>1, <3>2
    <2>5. QED
      BY <1>1, <1>5, <2>1, <2>2, <2>3, <2>4 DEF PlanInv
  <1>10. BatchInv' /\ SyncedWhenDone'
    BY <1>1 DEF BatchInv, SyncedWhenDone
  <1>11. ReportInv'
    <2>1. /\ report.embedded + report.hits = report.upserted + Len(Batch)
          /\ report.reused + report.upserted + Len(pending) = Cardinality(wanted)
          /\ incremental => Cardinality(Indexed) = report.before + report.upserted
      BY <1>0, <1>1 DEF ReportInv, Busy
    <2>2. /\ report.reused \in Nat /\ report.upserted \in Nat /\ report.before \in Nat
      BY <1>0 DEF TypeOK, Count
    <2>3. ASSUME incremental
          PROVE  Cardinality(Indexed') = report'.before + report'.upserted
      <3>1. IsFiniteSet(BatchSet) /\ Cardinality(BatchSet) = Len(Batch)
        <4>1. \A i, j \in DOMAIN Batch : Batch[i] = Batch[j] => i = j
          BY <1>4, <1>5
        <4>2. QED
          BY <1>4, <4>1, DistinctCount DEF BatchSet
      <3>2. Indexed \intersect BatchSet = {}
        BY <1>3, <1>5, <2>3
      <3>3. /\ IsFiniteSet(Indexed)
            /\ Cardinality(Indexed \union BatchSet) =
                 Cardinality(Indexed) + Cardinality(BatchSet)
                 - Cardinality(Indexed \intersect BatchSet)
        BY <1>0, <3>1, FS_Union DEF StoreInv
      <3>4. Cardinality(Indexed \intersect BatchSet) = 0
        BY <3>2, FS_EmptySet
      <3>5. Cardinality(Indexed) \in Nat
        BY <3>3, FS_CardinalityType
      <3>6. Cardinality(Indexed') = Cardinality(Indexed) + Len(Batch)
        BY <1>3, <1>4, <3>1, <3>3, <3>4, <3>5
      <3>7. QED
        BY <1>4, <1>6, <2>1, <2>2, <2>3, <3>6
    <2>4. report'.embedded + report'.hits = report'.upserted
      BY <1>6, <2>1
    <2>5. report'.reused + report'.upserted + Len(pending') = Cardinality(wanted')
      BY <1>1, <1>4, <1>6, <2>1, <2>2
    <2>6. report'.upserted + 0 = report'.upserted
      BY <1>4, <1>6, <2>2
    <2>7. QED
      BY <1>1, <2>3, <2>4, <2>5, <2>6 DEF ReportInv
  <1>12. CleanInv'
    BY <1>0, <1>1 DEF CleanInv, Busy, Published
  <1>13. QED
    BY <1>2, <1>7, <1>8, <1>9, <1>10, <1>11, <1>12 DEF IInv

LEMMA FinishKeeps == IInv /\ Finish => IInv'
  <1> SUFFICES ASSUME IInv, Finish PROVE IInv'
    OBVIOUS
  <1>0. /\ TypeOK /\ StoreInv /\ ScopeInv /\ PlanInv /\ BatchInv /\ ReportInv
        /\ CleanInv
    BY DEF IInv
  <1>1. /\ pc = "embed" /\ pc' = "done" /\ pending = <<>> /\ index' = WithoutStale
        /\ report' = [report EXCEPT !.deleted = Cardinality(stale)]
        /\ UNCHANGED <<site, raw, recorded, cache, manual, incremental, revalidate,
                       menu, tofetch, records, wanted, pending, vectors, stale, clean>>
    BY DEF Finish, webVars, fileVars, scopeVars, crawlVars
  <1>2. StoreInv' /\ index' \in [Chunk -> Text \union {NoVector}]
    BY <1>0, <1>1, StoreStaysGood
  <1>3. Indexed' = Indexed \ stale
    BY <1>0, <1>1, PrunedIndex DEF Indexed
  <1>4. /\ DOMAIN pending = {} /\ Len(pending) = 0
    BY <1>1
  <1>5. /\ wanted \subseteq Indexed /\ wanted \intersect stale = {}
        /\ \A c \in wanted : c.manual = manual
        /\ IsFiniteSet(stale) /\ Cardinality(stale) \in Nat
        /\ incremental => /\ \A c \in Indexed : c.manual = manual => c \in wanted \/ c \in stale
                          /\ stale \subseteq Indexed
    BY <1>0, <1>1, <1>4, FS_CardinalityType DEF ScopeInv, PlanInv, Busy
  <1>6. /\ report' \in Count /\ report'.deleted = Cardinality(stale)
        /\ report'.upserted = report.upserted /\ report'.embedded = report.embedded
        /\ report'.hits = report.hits /\ report'.reused = report.reused
        /\ report'.before = report.before
    <2>1. report \in Count
      BY <1>0 DEF TypeOK
    <2>2. QED
      BY <1>1, <1>5, <2>1 DEF Count
  <1>7. TypeOK'
    BY <1>0, <1>1, <1>2, <1>6 DEF TypeOK
  <1>8. ScopeInv'
    BY <1>0, <1>1 DEF ScopeInv
  <1>9. PlanInv' /\ BatchInv' /\ ReportInv'
    BY <1>1 DEF PlanInv, BatchInv, ReportInv, Busy
  <1>10. CleanInv'
    BY <1>1 DEF CleanInv, Busy
  <1>11. SyncedWhenDone'
    <2>1. /\ report.embedded + report.hits = report.upserted
          /\ report.reused + report.upserted + Len(pending) = Cardinality(wanted)
          /\ incremental => Cardinality(Indexed) = report.before + report.upserted
      BY <1>0, <1>1 DEF ReportInv, Busy, TypeOK, Count
    <2>2. /\ report.reused \in Nat /\ report.upserted \in Nat /\ report.before \in Nat
      BY <1>0 DEF TypeOK, Count
    <2>3. wanted' \subseteq Indexed'
      BY <1>1, <1>3, <1>5
    <2>4. incremental' => {c \in Indexed' : c.manual = manual'} = wanted'
      BY <1>1, <1>3, <1>5
    <2>5. clean' => {[page |-> c.page, text |-> c.text] : c \in wanted'} = Published'
      BY <1>0, <1>1 DEF CleanInv, Busy, Published
    <2>6. report'.embedded + report'.hits = report'.upserted
      BY <1>6, <2>1
    <2>7. report'.reused + report'.upserted = Cardinality(wanted')
      BY <1>1, <1>4, <1>6, <2>1, <2>2
    <2>8. ASSUME incremental
          PROVE  Cardinality(Indexed') = report'.before + report'.upserted - report'.deleted
      <3>1. Indexed \intersect stale = stale
        BY <1>5, <2>8
      <3>2. Cardinality(Indexed \ stale)
              = Cardinality(Indexed) - Cardinality(Indexed \intersect stale)
        BY <1>0, FS_Difference DEF StoreInv
      <3>3. Cardinality(Indexed') = Cardinality(Indexed) - Cardinality(stale)
        BY <1>3, <3>1, <3>2, Zenon
      <3>4. Cardinality(Indexed) = report.before + report.upserted
        BY <2>1, <2>8
      <3>5. PICK b \in Nat, u \in Nat, d \in Nat :
              b = report.before /\ u = report.upserted /\ d = Cardinality(stale)
        BY <1>5, <2>2
      <3>6. Cardinality(Indexed') = b + u - d
        BY <3>3, <3>4, <3>5
      <3>7. report'.before = b /\ report'.upserted = u /\ report'.deleted = d
        BY <1>6, <3>5
      <3>8. QED
        BY <3>6, <3>7
    <2>9. QED
      BY <1>1, <2>3, <2>4, <2>5, <2>6, <2>7, <2>8 DEF SyncedWhenDone, Published
  <1>12. QED
    BY <1>2, <1>7, <1>8, <1>9, <1>10, <1>11 DEF IInv

LEMMA BreakKeeps == IInv /\ Break => IInv'
  <1> SUFFICES ASSUME IInv, Break PROVE IInv'
    OBVIOUS
  <1>0. /\ TypeOK /\ StoreInv /\ ScopeInv /\ PlanInv /\ BatchInv
    BY DEF IInv
  <1>1. /\ \/ index' = index
           \/ pc = "upsert" /\ index' = WithBatch
           \/ pc = "embed" /\ index' = WithoutStale
        /\ pc' = "idle" /\ clean' = FALSE
        /\ UNCHANGED <<site, raw, recorded, cache, manual, incremental, revalidate,
                       menu, tofetch, records, wanted, pending, vectors, stale, report>>
    BY DEF Break, webVars, fileVars, scopeVars, crawlVars, planVars
  <1>2. StoreInv' /\ index' \in [Chunk -> Text \union {NoVector}]
    BY <1>0, <1>1, StoreStaysGood
  <1>3. TypeOK'
    BY <1>0, <1>1, <1>2 DEF TypeOK
  <1>4. ScopeInv'
    BY <1>0, <1>1 DEF ScopeInv
  <1>5. PlanInv' /\ BatchInv' /\ ReportInv' /\ CleanInv' /\ SyncedWhenDone'
    BY <1>1 DEF PlanInv, BatchInv, ReportInv, CleanInv, SyncedWhenDone, Busy
  <1>6. QED
    BY <1>2, <1>3, <1>4, <1>5 DEF IInv

LEMMA IdleKeeps == IInv /\ UNCHANGED vars => IInv'
  <1> SUFFICES ASSUME IInv, UNCHANGED vars PROVE IInv'
    OBVIOUS
  <1>0. /\ TypeOK /\ StoreInv /\ ScopeInv /\ PlanInv /\ BatchInv /\ ReportInv
        /\ CleanInv /\ SyncedWhenDone
    BY DEF IInv
  <1>1. UNCHANGED <<site, raw, recorded, cache, index, pc, manual, incremental, revalidate,
                    menu, tofetch, records, wanted, pending, vectors, stale, report, clean>>
    BY DEF vars, webVars, fileVars, storeVars, scopeVars, crawlVars, planVars
  <1>2. Batch' = Batch /\ Indexed' = Indexed
    BY <1>1 DEF Batch, Indexed
  <1>3. TypeOK'
    BY <1>0, <1>1, <1>2 DEF TypeOK
  <1>4. StoreInv'
    BY <1>0, <1>1, <1>2 DEF StoreInv, VectorsMatch, IndexIsBacked
  <1>5. CleanInv' /\ SyncedWhenDone'
    BY <1>0, <1>1, <1>2 DEF CleanInv, SyncedWhenDone, Busy, Published
  <1>6. QED
    BY <1>1, <1>3, <1>4, <1>5, PlanUntouched DEF IInv

LEMMA Invariance == Spec => []IInv
  <1>1. IInv /\ [Next]_vars => IInv'
    <2> SUFFICES ASSUME IInv, [Next]_vars PROVE IInv'
      OBVIOUS
    <2>1. CASE \E m \in Manual, p \in Page : SiteChanges(m, p)
      BY <2>1, SiteChangesKeeps
    <2>2. CASE StartRun
      BY <2>2, StartRunKeeps
    <2>3. CASE \E p \in Page : Fetch(p) \/ FailFetch(p)
      BY <2>3, FetchKeeps
    <2>4. CASE PlanRun
      BY <2>4, PlanRunKeeps
    <2>5. CASE Embed
      BY <2>5, EmbedKeeps
    <2>6. CASE Upsert
      BY <2>6, UpsertKeeps
    <2>7. CASE Finish
      BY <2>7, FinishKeeps
    <2>8. CASE Break
      BY <2>8, BreakKeeps
    <2>9. CASE UNCHANGED vars
      BY <2>9, IdleKeeps
    <2>10. QED
      BY <2>1, <2>2, <2>3, <2>4, <2>5, <2>6, <2>7, <2>8, <2>9 DEF Next, RunStep
  <1>2. QED
    BY <1>1, InitIInv, PTL DEF Spec

-----------------------------------------------------------------------------
(* Type correctness.                                                       *)
THEOREM TypeCorrect == Spec => []TypeOK
  <1>1. IInv => TypeOK
    BY DEF IInv
  <1>2. QED
    BY <1>1, Invariance, PTL

(* Whatever is cached, embedded and retried, every chunk is stored with    *)
(* the vector of its own text (_embed_batch, upsert).                      *)
THEOREM VectorsAreTheirOwn == Spec => []VectorsMatch
  <1>1. IInv => VectorsMatch
    BY DEF IInv, StoreInv
  <1>2. QED
    BY <1>1, Invariance, PTL

(* No failed fetch or broken run takes the file from under an indexed      *)
(* chunk (crawler.py, service.py).                                         *)
THEOREM NothingIndexedIsUnbacked == Spec => []IndexIsBacked
  <1>1. IInv => IndexIsBacked
    BY DEF IInv, StoreInv
  <1>2. QED
    BY <1>1, Invariance, PTL

(* Whatever earlier runs left behind, a run that ended by itself leaves    *)
(* its manual as parsed, an undisturbed one as published, and a report     *)
(* whose figures agree (service.py).                                       *)
THEOREM DoneIsSynced == Spec => []SyncedWhenDone
  <1>1. IInv => SyncedWhenDone
    BY DEF IInv
  <1>2. QED
    BY <1>1, Invariance, PTL

(* The index changes by a batch, or by the deletion that ends a run.       *)
LEMMA StepLeavesIndex ==
    ASSUME IInv, Next
    PROVE  \/ index' = index
           \/ pc = "upsert" /\ index' = WithBatch
           \/ /\ pc = "embed" /\ pending = <<>> /\ index' = WithoutStale
              /\ UNCHANGED <<pending, wanted>>
  <1>1. CASE \E m \in Manual, p \in Page : SiteChanges(m, p)
    BY <1>1 DEF SiteChanges, storeVars
  <1>2. CASE StartRun
    BY <1>2 DEF StartRun, storeVars
  <1>3. CASE \E p \in Page : Fetch(p) \/ FailFetch(p)
    BY <1>3 DEF Fetch, FailFetch, storeVars
  <1>4. CASE PlanRun
    BY <1>4 DEF PlanRun, storeVars
  <1>5. CASE Embed \/ Upsert \/ Finish \/ Break
    BY <1>5 DEF Embed, Upsert, Finish, Break, planVars
  <1>6. QED
    BY <1>1, <1>2, <1>3, <1>4, <1>5 DEF Next, RunStep

(* What a step takes out of the index is stale, and the deletion that ends *)
(* a run takes it.                                                         *)
LEMMA OnlyStaleLeaves ==
    ASSUME IInv, Next, NEW c \in Indexed, index'[c] = NoVector
    PROVE  /\ c \in stale
           /\ pc = "embed" /\ pending = <<>> /\ index' = WithoutStale
           /\ UNCHANGED <<pending, wanted>>
  <1>0. TypeOK /\ BatchInv
    BY DEF IInv
  <1>1. c \in Chunk /\ index[c] # NoVector
    BY DEF Indexed
  <1>2. ~(pc = "upsert" /\ index' = WithBatch)
    <2> SUFFICES ASSUME pc = "upsert", index' = WithBatch PROVE FALSE
      OBVIOUS
    <2>1. WithBatch[c] = NoVector /\ c \notin {d \in Chunk : WithBatch[d] # NoVector}
      OBVIOUS
    <2>2. {d \in Chunk : WithBatch[d] # NoVector} = Indexed \union BatchSet
      BY <1>0, UpsertedIndex
    <2>3. QED
      BY <2>1, <2>2
  <1>3. /\ pc = "embed" /\ pending = <<>> /\ index' = WithoutStale
        /\ UNCHANGED <<pending, wanted>>
    BY <1>1, <1>2, StepLeavesIndex
  <1>4. c \in stale
    BY <1>0, <1>1, <1>3, PrunedIndex
  <1>5. QED
    BY <1>3, <1>4

(* Nothing leaves the index before all that the run wants is in it         *)
(* (service.py).                                                           *)
THEOREM NewComesBeforeOldGoes == Spec => StoredBeforeDeleted
  <1>1. IInv /\ [Next]_vars =>
          [(\E c \in Indexed : index'[c] = NoVector)
              => pending' = <<>> /\ wanted' \subseteq Indexed']_vars
    <2> SUFFICES ASSUME IInv, Next, NEW c \in Indexed, index'[c] = NoVector
                 PROVE  pending' = <<>> /\ wanted' \subseteq Indexed'
      BY Zenon
    <2>1. /\ pc = "embed" /\ pending = <<>> /\ index' = WithoutStale
          /\ pending' = pending /\ wanted' = wanted
      BY OnlyStaleLeaves
    <2>2. Indexed' = Indexed \ stale
      BY <2>1, PrunedIndex DEF IInv, Indexed
    <2>3. wanted \subseteq Indexed
      BY <2>1 DEF IInv, PlanInv, Busy
    <2>4. wanted \intersect stale = {}
      BY DEF IInv, ScopeInv
    <2>5. QED
      BY <2>1, <2>2, <2>3, <2>4
  <1>2. QED
    BY <1>1, Invariance, PTL DEF Spec, StoredBeforeDeleted

(* Where no two manuals share a snapshot, a run deletes chunks of its own  *)
(* manual only (service.py, vector_store.py).  The code does not require   *)
(* it: two manuals with the same snapshot_id lose each other's chunks.     *)
THEOREM PrivateSnapshotsIsolate ==
    ASSUME \A m, n \in Manual : SnapshotOf[m] = SnapshotOf[n] => m = n
    PROVE  Spec => OtherManualsUntouched
  <1>1. IInv /\ [Next]_vars =>
          [\A c \in Indexed : index'[c] = NoVector => c.manual = manual]_vars
    <2> SUFFICES ASSUME IInv, Next, NEW c \in Indexed, index'[c] = NoVector
                 PROVE  c.manual = manual
      BY Zenon
    <2>1. c \in stale
      BY OnlyStaleLeaves
    <2>2. SnapshotOf[c.manual] = SnapshotOf[manual] /\ manual \in Manual
      BY <2>1 DEF IInv, TypeOK, ScopeInv
    <2>3. c.manual \in Manual
      BY DEF Indexed, Chunk
    <2>4. QED
      BY <2>2, <2>3
  <1>2. QED
    BY <1>1, Invariance, PTL DEF Spec, OtherManualsUntouched

=============================================================================
