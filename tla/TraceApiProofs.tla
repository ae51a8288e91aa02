--------------------------- MODULE TraceApiProofs ---------------------------
(***************************************************************************)
(* Proofs about the trace store by itself, its methods being called in any *)
(* order, and about traced requests and their event streams: for any       *)
(* number of requests and clients and any limits of the store.             *)
(*                                                                         *)
(* The inductive invariant adds two facts to the types.  TasksOpen: the    *)
(* task of a request is the only one to close its trace and ends in the    *)
(* same segment, so a trace whose task is under way is running.            *)
(* StreamsFollow: what a client has received and what is on its way are    *)
(* consecutive numbers from 1 up to the stream's cursor, within the log.   *)
(***************************************************************************)
EXTENDS TraceApi, FiniteSetTheorems, TLAPS

-----------------------------------------------------------------------------
(* The store by itself.                                                    *)

LEMMA LiveIsFinite ==
    /\ IsFiniteSet(TraceId)
    /\ \A S \in SUBSET TraceId :
        IsFiniteSet(S) /\ Cardinality(S) \in Nat
  <1>1. IsFiniteSet(TraceId)
    BY FS_Interval, StoreAssumption DEF TraceId
  <1>2. ASSUME NEW S \in SUBSET TraceId
        PROVE  IsFiniteSet(S) /\ Cardinality(S) \in Nat
    BY <1>1, FS_Subset, FS_CardinalityType
  <1>3. QED
    BY <1>1, <1>2

LEMMA InitStoreTypeOK == StoreInit => StoreTypeOK
  <1> SUFFICES ASSUME StoreInit PROVE StoreTypeOK
    OBVIOUS
  <1> USE StoreAssumption DEF StoreInit
  <1>1. created \in 0..MaxRequests /\ status \in [TraceId -> TraceStatus]
    BY DEF TraceStatus
  <1>2. log \in [TraceId -> Seq(EventKind)] /\ age \in [TraceId -> 0..(TTL + 1)]
    OBVIOUS
  <1>3. QED
    BY <1>1, <1>2 DEF StoreTypeOK

(* What every survivor of an eviction has in common.                       *)
LEMMA SurvivorsFit ==
    ASSUME NEW L \in SUBSET TraceId, NEW K \in Survivors(L)
    PROVE  /\ K \subseteq L
           /\ Cardinality(K) + 1 <= MaxTraces
           /\ K # L => Cardinality(L) >= MaxTraces
           /\ \A k \in K, d \in L \ K : d < k
  <1>1. /\ K \subseteq L
        /\ \A k \in K, d \in L \ K : d < k
        /\ IF Cardinality(L) < MaxTraces
              THEN K = L ELSE Cardinality(K) = MaxTraces - 1
    BY DEF Survivors
  <1>2. Cardinality(K) \in Nat /\ Cardinality(L) \in Nat
    BY <1>1, LiveIsFinite
  <1>3. QED
    BY <1>1, <1>2, StoreAssumption

(* The state after create(): the survivors and the new trace are stored.   *)
LEMMA CreateEffect ==
    ASSUME StoreTypeOK, Create
    PROVE  /\ created + 1 \in TraceId
           /\ \E K \in Survivors(Unexpired) : Live' = K \cup {created + 1}
  <1>1. created + 1 \in TraceId
    BY StoreAssumption DEF StoreTypeOK, Create, TraceId
  <1>2. PICK K \in Survivors(Unexpired) :
          status' = [t \in TraceId |->
                       IF t = created + 1 THEN "running"
                       ELSE IF t \in K THEN status[t] ELSE "absent"]
    BY DEF Create
  <1>3. K \subseteq Live /\ K \subseteq TraceId
    BY DEF Survivors, Unexpired, Live
  <1>4. Live' = K \cup {created + 1}
    BY <1>1, <1>2, <1>3 DEF Live
  <1>5. QED
    BY <1>1, <1>4

LEMMA NextStoreTypeOK == StoreTypeOK /\ [StoreNext]_storeVars => StoreTypeOK'
  <1> SUFFICES ASSUME StoreTypeOK, [StoreNext]_storeVars PROVE StoreTypeOK'
    OBVIOUS
  <1> USE StoreAssumption DEF StoreTypeOK
  <1>1. CASE Create
    <2> USE DEF TraceStatus
    <2>1. created + 1 \in TraceId /\ created' = created + 1
      BY <1>1, CreateEffect DEF Create
    <2>2. PICK K \in Survivors(Unexpired) :
            /\ status' = [t \in TraceId |->
                            IF t = created + 1 THEN "running"
                            ELSE IF t \in K THEN status[t] ELSE "absent"]
            /\ log' = [t \in TraceId |-> IF t \in K THEN log[t] ELSE <<>>]
            /\ age' = [t \in TraceId |-> IF t \in K THEN age[t] ELSE 0]
      BY <1>1 DEF Create
    <2>3. /\ status' \in [TraceId -> TraceStatus]
          /\ \A t \in TraceId : t > created' => status'[t] = "absent"
      <3>1. \A t \in TraceId : t > created => t \notin K
        BY DEF Survivors, Unexpired, Live
      <3>2. QED
        BY <2>1, <2>2, <3>1 DEF TraceId
    <2>4. /\ log' \in [TraceId -> Seq(EventKind)]
          /\ \A t \in TraceId : Len(log'[t]) <= MaxEvents
      BY <2>2
    <2>5. age' \in [TraceId -> 0..(TTL + 1)]
      BY <2>2
    <2>6. \A t \in TraceId : status'[t] = "absent" => log'[t] = <<>> /\ age'[t] = 0
      BY <2>2
    <2>7. created' \in 0..MaxRequests
      BY <2>1 DEF TraceId
    <2>8. QED
      BY <2>3, <2>4, <2>5, <2>6, <2>7
  <1>2. ASSUME NEW t \in TraceId, NEW k \in EventKind, AppendEvent(t, k)
        PROVE  StoreTypeOK'
    <2>1. /\ log' = [log EXCEPT ![t] = Append(@, k)]
          /\ age' = [age EXCEPT ![t] = 0]
          /\ UNCHANGED <<created, status>>
          /\ status[t] # "absent" /\ Len(log[t]) < MaxEvents
      BY <1>2 DEF AppendEvent, AppendRaises, Live
    <2>2. Append(log[t], k) \in Seq(EventKind) /\ Len(Append(log[t], k)) = Len(log[t]) + 1
      OBVIOUS
    <2>3. QED
      BY <2>1, <2>2
  <1>3. ASSUME NEW t \in TraceId, NEW s \in {"completed", "failed"}, Close(t, s)
        PROVE  StoreTypeOK'
    <2>1. t <= created
      BY <1>3 DEF Close, Live, TraceId
    <2>2. QED
      BY <1>3, <2>1 DEF Close, Live, TraceStatus, TraceId
  <1>4. CASE Get
    <2>1. UNCHANGED created
      BY <1>4 DEF Get
    <2>2. /\ status' \in [TraceId -> TraceStatus]
          /\ \A t \in TraceId : t > created => status'[t] = "absent"
      BY <1>4 DEF Get, KeepOnly, TraceStatus
    <2>3. /\ log' \in [TraceId -> Seq(EventKind)]
          /\ \A t \in TraceId : Len(log'[t]) <= MaxEvents
      BY <1>4 DEF Get, KeepOnly
    <2>4. age' \in [TraceId -> 0..(TTL + 1)]
      BY <1>4 DEF Get, KeepOnly
    <2>5. \A t \in TraceId : status'[t] = "absent" => log'[t] = <<>> /\ age'[t] = 0
      BY <1>4 DEF Get, KeepOnly
    <2>6. QED
      BY <2>1, <2>2, <2>3, <2>4, <2>5
  <1>5. CASE Tick
    BY <1>5 DEF Tick, Live
  <1>6. CASE UNCHANGED storeVars
    BY <1>6 DEF storeVars
  <1>7. QED
    BY <1>1, <1>2, <1>3, <1>4, <1>5, <1>6 DEF StoreNext

(* Every state of the store is well formed.                                *)
THEOREM StoreTypeCorrect == StoreSpec => []StoreTypeOK
  <1>1. QED
    BY InitStoreTypeOK, NextStoreTypeOK, PTL DEF StoreSpec

(* How the set of stored traces changes in a step that is not create().    *)
LEMMA OnlyCreateAdds ==
    ASSUME StoreTypeOK, [StoreNext]_storeVars
    PROVE  Create \/ Live' = Live \/ Live' = Unexpired
  <1>1. ASSUME NEW t \in TraceId, NEW k \in EventKind, AppendEvent(t, k)
        PROVE  Live' = Live
    BY <1>1 DEF AppendEvent, Live
  <1>2. ASSUME NEW t \in TraceId, NEW s \in {"completed", "failed"}, Close(t, s)
        PROVE  Live' = Live
    BY <1>2 DEF Close, Live, StoreTypeOK
  <1>3. ASSUME Get PROVE Live' = Unexpired
    BY <1>3 DEF Get, KeepOnly, Live, Unexpired
  <1>4. ASSUME Tick \/ UNCHANGED storeVars PROVE Live' = Live
    BY <1>4 DEF Tick, Live, storeVars
  <1>5. QED
    BY <1>1, <1>2, <1>3, <1>4 DEF StoreNext

(* The store never exceeds its capacity.                                   *)
THEOREM StoreStaysBounded == StoreSpec => []StoreBounded
  <1>1. StoreInit => StoreBounded
    <2> SUFFICES ASSUME StoreInit PROVE StoreBounded
      OBVIOUS
    <2>1. Live = {}
      BY DEF StoreInit, Live
    <2>2. QED
      BY <2>1, FS_EmptySet, StoreAssumption DEF StoreBounded
  <1>2. StoreTypeOK /\ StoreBounded /\ [StoreNext]_storeVars => StoreBounded'
    <2> SUFFICES ASSUME StoreTypeOK, StoreBounded, [StoreNext]_storeVars
                 PROVE  Cardinality(Live') <= MaxTraces
      BY DEF StoreBounded
    <2>1. CASE Create
      <3>1. PICK K \in Survivors(Unexpired) : Live' = K \cup {created + 1}
        BY <2>1, CreateEffect
      <3>2. Unexpired \in SUBSET TraceId
        BY DEF Unexpired, Live
      <3>3. K \subseteq TraceId /\ Cardinality(K) + 1 <= MaxTraces
        BY <3>2, SurvivorsFit
      <3>4. IsFiniteSet(K) /\ Cardinality(K) \in Nat
        BY <3>3, LiveIsFinite
      <3>5. Cardinality(K \cup {created + 1}) \in {Cardinality(K), Cardinality(K) + 1}
        BY <3>4, FS_AddElement
      <3>6. QED
        BY <3>1, <3>3, <3>4, <3>5, StoreAssumption
    <2>2. CASE Live' = Live
      BY <2>2 DEF StoreBounded
    <2>3. CASE Live' = Unexpired
      <3>1. Live \subseteq TraceId /\ Unexpired \subseteq Live
        BY DEF Live, Unexpired
      <3>2. IsFiniteSet(Live) /\ Cardinality(Live) \in Nat
        BY <3>1, LiveIsFinite
      <3>3. Cardinality(Unexpired) \in Nat /\ Cardinality(Unexpired) <= Cardinality(Live)
        BY <3>1, <3>2, FS_Subset, FS_CardinalityType
      <3>4. QED
        BY <2>3, <3>2, <3>3, StoreAssumption DEF StoreBounded
    <2>4. QED
      BY <2>1, <2>2, <2>3, OnlyCreateAdds
  <1>3. QED
    BY <1>1, <1>2, StoreTypeCorrect, PTL DEF StoreSpec

(* Traces are dropped only when expired, or when the store is full and     *)
(* they are older than all that stay; and ids are never reused.            *)
THEOREM StoreEvictsJustly == StoreSpec => EvictionIsJustified
  <1> DEFINE Justified ==
        /\ \A t \in Live \ Live' :
             \/ age[t] > TTL
             \/ /\ Cardinality(Unexpired) >= MaxTraces
                /\ \A u \in Live' : u > t
        /\ \A t \in Live' \ Live : t > created
  <1>1. StoreTypeOK /\ [StoreNext]_storeVars => [Justified]_storeVars
    <2> SUFFICES ASSUME StoreTypeOK, [StoreNext]_storeVars
                 PROVE  Justified
      OBVIOUS
    <2>1. ASSUME NEW t \in Live, t \notin Unexpired PROVE age[t] > TTL
      BY <2>1, StoreAssumption DEF StoreTypeOK, Live, Unexpired
    <2>2. CASE Create
      <3>1. PICK K \in Survivors(Unexpired) : Live' = K \cup {created + 1}
        BY <2>2, CreateEffect
      <3>2. Unexpired \in SUBSET TraceId
        BY DEF Unexpired, Live
      <3>3. /\ K \subseteq Unexpired
            /\ K # Unexpired => Cardinality(Unexpired) >= MaxTraces
            /\ \A k \in K, d \in Unexpired \ K : d < k
        BY <3>2, SurvivorsFit
      <3>4. \A t \in Live : t \in Nat /\ created \in Nat /\ t < created + 1
        BY StoreAssumption DEF StoreTypeOK, Live, TraceId
      <3>5. ASSUME NEW t \in Live \ Live', t \in Unexpired
            PROVE  /\ Cardinality(Unexpired) >= MaxTraces
                   /\ \A u \in Live' : u > t
        <4>1. t \in Unexpired \ K
          BY <3>1, <3>5
        <4>2. \A u \in K : u \in Nat /\ t < u
          BY <3>3, <4>1, <3>2 DEF TraceId
        <4>3. QED
          BY <3>1, <3>3, <3>4, <4>1, <4>2
      <3>6. \A t \in Live' \ Live : t > created
        <4>1. K \subseteq Live
          BY <3>3 DEF Unexpired
        <4>2. created + 1 > created
          BY StoreAssumption DEF StoreTypeOK
        <4>3. QED
          BY <3>1, <4>1, <4>2
      <3>7. QED
        BY <2>1, <3>5, <3>6
    <2>3. CASE Live' = Live
      BY <2>3
    <2>4. CASE Live' = Unexpired
      BY <2>1, <2>4 DEF Unexpired
    <2>5. QED
      BY <2>2, <2>3, <2>4, OnlyCreateAdds
  <1>2. QED
    BY <1>1, StoreTypeCorrect, PTL DEF StoreSpec, EvictionIsJustified

-----------------------------------------------------------------------------
(* Traced requests and their event streams.                                *)

TasksOpen ==
    \A t \in TraceId :
        task[t] \in {"answering", "raised"} => status[t] \in {"absent", "running"}

(* The numbers from 1 on, and the numbers that follow them.                *)
Counts(s) == \A i \in DOMAIN s : s[i] = i
Continues(s, w) == \A i \in DOMAIN w : w[i] = Len(s) + i

Following(c) ==
    /\ Counts(seen[c])
    /\ Continues(seen[c], wire[c])
    /\ conn[c] = "off" => wire[c] = <<>>
    /\ conn[c] # "off" => cursor[c] = Len(seen[c]) + Len(wire[c])
    /\ conn[c] = "send" => cursor[c] < batch[c]
    /\ watched[c] <= created
    /\ watched[c] \in Live =>
        /\ Len(seen[c]) + Len(wire[c]) <= LastSeq(watched[c])
        /\ conn[c] = "send" => batch[c] <= LastSeq(watched[c])
        /\ conn[c] = "ended" =>
            /\ Terminal(watched[c])
            /\ Len(seen[c]) + Len(wire[c]) = LastSeq(watched[c])

StreamsFollow == \A c \in Client : Following(c)

IInv == TypeOK /\ TasksOpen /\ StreamsFollow

-----------------------------------------------------------------------------
LEMMA SeqFacts ==
    ASSUME NEW S, NEW s \in Seq(S)
    PROVE  /\ s # <<>> => Head(s) \in S /\ Tail(s) \in Seq(S)
           /\ \A n \in S : Append(s, n) \in Seq(S)
           /\ \A T : S \subseteq T => s \in Seq(T)
  <1>1. s # <<>> => Head(s) = s[1] /\ 1 \in DOMAIN s
    OBVIOUS
  <1>2. \A i \in DOMAIN s : s[i] \in S
    OBVIOUS
  <1>3. s # <<>> => Head(s) \in S
    BY <1>1, <1>2
  <1>4. s # <<>> => Tail(s) \in Seq(S)
    OBVIOUS
  <1>5. \A n \in S : Append(s, n) \in Seq(S)
    OBVIOUS
  <1>6. ASSUME NEW T, S \subseteq T PROVE s \in Seq(T)
    <2>1. Len(s) \in Nat /\ DOMAIN s = 1..Len(s) /\ s = [i \in 1..Len(s) |-> s[i]]
      OBVIOUS
    <2>2. \A i \in 1..Len(s) : s[i] \in T
      BY <1>2, <1>6, <2>1
    <2>3. QED
      BY <2>1, <2>2
  <1>7. QED
    BY <1>3, <1>4, <1>5, <1>6

(* Numbers continuing a run: sending appends the next one to the wire.     *)
LEMMA SendContinues ==
    ASSUME NEW s \in Seq(Nat), NEW w \in Seq(Nat),
           Continues(s, w),
           NEW x, x = Append(w, Len(s) + Len(w) + 1)
    PROVE  /\ Len(s) + Len(x) = Len(s) + Len(w) + 1
           /\ Continues(s, x)
  <1> USE DEF Continues
  <1> DEFINE n == Len(s) + Len(w) + 1
  <1>1. n \in Nat /\ Len(s) \in Nat /\ Len(w) \in Nat
    OBVIOUS
  <1>2. Len(x) = Len(w) + 1 /\ DOMAIN x = 1..(Len(w) + 1) /\ x[Len(w) + 1] = n
        /\ \A i \in 1..Len(w) : x[i] = w[i]
    BY <1>1
  <1>3. Len(s) + Len(x) = n /\ n = Len(s) + (Len(w) + 1)
    BY <1>1, <1>2
  <1>4. \A i \in DOMAIN x : i = Len(w) + 1 \/ i \in 1..Len(w)
    BY <1>1, <1>2
  <1>5. DOMAIN w = 1..Len(w)
    OBVIOUS
  <1>6. \A i \in DOMAIN x : x[i] = Len(s) + i
    BY <1>2, <1>3, <1>4, <1>5
  <1>7. QED
    BY <1>3, <1>6

LEMMA ReceiveContinues ==
    ASSUME NEW s \in Seq(Nat), NEW w \in Seq(Nat), w # <<>>,
           Counts(s),
           Continues(s, w),
           NEW x, x = Append(s, Head(w)), NEW y, y = Tail(w)
    PROVE  /\ Len(x) + Len(y) = Len(s) + Len(w)
           /\ Counts(x)
           /\ Continues(x, y)
  <1> USE DEF Counts, Continues
  <1>1. /\ Head(w) = w[1] /\ Head(w) \in Nat /\ 1 \in DOMAIN w
        /\ y \in Seq(Nat) /\ Len(y) = Len(w) - 1 /\ Len(w) \in Nat /\ Len(s) \in Nat
        /\ \A i \in DOMAIN y : i \in Nat /\ i + 1 \in DOMAIN w /\ y[i] = w[i + 1]
    OBVIOUS
  <1>2. x \in Seq(Nat) /\ Len(x) = Len(s) + 1
    BY <1>1
  <1>3. Head(w) = Len(s) + 1
    BY <1>1
  <1>4. \A i \in DOMAIN x : x[i] = i
    BY <1>1, <1>3
  <1>5. Len(x) + Len(y) = Len(s) + Len(w)
    BY <1>1, <1>2
  <1>6. \A i \in DOMAIN y : y[i] = Len(x) + i
    <2>1. \A i \in DOMAIN y : y[i] = Len(s) + (i + 1) /\ i \in Nat
      BY <1>1
    <2>2. \A i \in Nat : Len(s) + (i + 1) = Len(x) + i
      BY <1>1, <1>2
    <2>3. QED
      BY <2>1, <2>2
  <1>7. QED
    BY <1>4, <1>5, <1>6

LEMMA InitIInv == Init => IInv
  <1> SUFFICES ASSUME Init PROVE IInv
    OBVIOUS
  <1> USE StoreAssumption DEF Init
  <1>1. StoreTypeOK
    BY InitStoreTypeOK
  <1>2. /\ task \in [TraceId -> TaskState]
        /\ conn \in [Client -> ConnState]
        /\ watched \in [Client -> 0..MaxRequests]
    BY DEF TaskState, ConnState
  <1>3. cursor \in [Client -> 0..MaxEvents] /\ batch \in [Client -> 0..MaxEvents]
    OBVIOUS
  <1>4. wire \in [Client -> Seq(1..MaxEvents)] /\ seen \in [Client -> Seq(1..MaxEvents)]
    OBVIOUS
  <1>5. \A t \in TraceId : task[t] = "none" <=> t > created
    BY DEF StoreInit, TraceId
  <1>6. TasksOpen
    BY DEF TasksOpen
  <1>7. StreamsFollow
    <2>1. Live = {}
      BY DEF StoreInit, Live
    <2>2. QED
      BY <2>1 DEF StreamsFollow, Following, Counts, Continues, StoreInit
  <1>8. QED
    BY <1>1, <1>2, <1>3, <1>4, <1>5, <1>6, <1>7 DEF IInv, TypeOK

(* An event and the closing of its trace in one segment.                   *)
LEMMA AppendAndClose ==
    ASSUME StoreTypeOK, NEW t \in TraceId, NEW k \in EventKind,
           NEW s \in {"completed", "failed"}, ~AppendRaises(t),
           log' = [log EXCEPT ![t] = Append(@, k)],
           status' = [status EXCEPT ![t] = s],
           age' = [age EXCEPT ![t] = 0], created' = created
    PROVE  StoreTypeOK'
  <1> USE StoreAssumption DEF StoreTypeOK
  <1>1. t <= created /\ Len(log[t]) < MaxEvents
    BY DEF AppendRaises, Live, TraceId
  <1>2. Append(log[t], k) \in Seq(EventKind) /\ Len(Append(log[t], k)) = Len(log[t]) + 1
    OBVIOUS
  <1>3. status' \in [TraceId -> TraceStatus]
    BY DEF TraceStatus
  <1>4. \A u \in TraceId : u > created => u # t
    BY <1>1 DEF TraceId
  <1>5. QED
    BY <1>1, <1>2, <1>3, <1>4

LEMMA NextStoreType == TypeOK /\ [Next]_vars => StoreTypeOK'
  <1> SUFFICES ASSUME TypeOK, [Next]_vars PROVE StoreTypeOK'
    OBVIOUS
  <1>1. StoreTypeOK
    BY DEF TypeOK
  <1>2. ASSUME NEW t \in TraceId, Answered(t) PROVE StoreTypeOK'
    <2>1. PICK k \in {"stage", "response"} : log' = [log EXCEPT ![t] = Append(@, k)]
      BY <1>2 DEF Answered
    <2>2. QED
      BY <1>1, <1>2, <2>1, AppendAndClose DEF Answered, EventKind
  <1>3. ASSUME NEW t \in TraceId, HandleFailure(t) PROVE StoreTypeOK'
    <2>1. CASE AppendRaises(t)
      BY <1>1, <1>3, <2>1, NextStoreTypeOK DEF HandleFailure
    <2>2. CASE ~AppendRaises(t)
      BY <1>1, <1>3, <2>2, AppendAndClose DEF HandleFailure, FailureLog, EventKind
    <2>3. QED
      BY <2>1, <2>2
  <1>4. ASSUME NEW t \in TraceId, Emit(t) PROVE StoreTypeOK'
    BY <1>1, <1>4, NextStoreTypeOK DEF Emit, StoreNext, EventKind
  <1>5. ASSUME CreateTrace \/ Snapshot \/ TimePasses PROVE StoreTypeOK'
    BY <1>1, <1>5, NextStoreTypeOK DEF CreateTrace, Snapshot, TimePasses, StoreNext
  <1>6. ASSUME NEW c \in Client, NEW t \in TraceId, OpenStream(c, t) PROVE StoreTypeOK'
    BY <1>1, <1>6, NextStoreTypeOK DEF OpenStream, StoreNext
  <1>7. ASSUME UNCHANGED storeVars PROVE StoreTypeOK'
    BY <1>1, <1>7, NextStoreTypeOK
  <1>8. QED
    BY <1>2, <1>3, <1>4, <1>5, <1>6, <1>7
       DEF Next, TaskStep, StreamStep, PipelineRaises, Poll, PollGone, Yield, Receive,
           Disconnect, vars
-----------------------------------------------------------------------------
(* What one step does to one trace.                                        *)
Kept(t) == status'[t] = status[t] /\ log'[t] = log[t]
Grown(t) ==
    /\ status[t] = "running" /\ status'[t] # "absent"
    /\ Len(log'[t]) = Len(log[t]) + 1
Gone(t) == status'[t] = "absent"
Born(t) == t = created + 1 /\ created' = created + 1

LEMMA TraceChange ==
    ASSUME TypeOK, TasksOpen, [Next]_vars, NEW t \in TraceId
    PROVE  /\ created' \in {created, created + 1}
           /\ Kept(t) \/ Grown(t) \/ Gone(t) \/ Born(t)
  <1>1. ASSUME CreateTrace PROVE created' = created + 1 /\ (Kept(t) \/ Gone(t) \/ Born(t))
    BY <1>1 DEF CreateTrace, Create, Kept, Gone, Born
  <1>2. ASSUME NEW u \in TraceId, NEW k \in EventKind, task[u] \in {"answering", "raised"},
               ~AppendRaises(u), log' = [log EXCEPT ![u] = Append(@, k)],
               status'[u] # "absent", \A v \in TraceId \ {u} : status'[v] = status[v]
        PROVE  Kept(t) \/ Grown(t)
    <2>1. CASE t = u
      <3>1. status[t] = "running"
        BY <1>2, <2>1 DEF TasksOpen, AppendRaises, Live
      <3>2. log[t] \in Seq(EventKind) /\ log'[t] = Append(log[t], k)
        BY <1>2, <2>1 DEF TypeOK, StoreTypeOK
      <3>3. QED
        BY <1>2, <2>1, <3>1, <3>2 DEF Grown
    <2>2. CASE t # u
      BY <1>2, <2>2 DEF TypeOK, StoreTypeOK, Kept
    <2>3. QED
      BY <2>1, <2>2
  <1>3. ASSUME NEW u \in TraceId, TaskStep(u)
        PROVE  created' = created /\ (Kept(t) \/ Grown(t))
    <2> USE DEF TypeOK, StoreTypeOK, EventKind
    <2>1. CASE Emit(u)
      BY <1>2, <2>1 DEF Emit, AppendEvent, AppendRaises, Live
    <2>2. CASE PipelineRaises(u)
      BY <2>2 DEF PipelineRaises, storeVars, Kept
    <2>3. CASE Answered(u)
      <3>1. PICK k \in {"stage", "response"} : log' = [log EXCEPT ![u] = Append(@, k)]
        BY <2>3 DEF Answered
      <3>2. QED
        BY <1>2, <2>3, <3>1 DEF Answered
    <2>4. CASE HandleFailure(u)
      <3>1. CASE AppendRaises(u)
        BY <2>4, <3>1 DEF HandleFailure, storeVars, Kept
      <3>2. CASE ~AppendRaises(u)
        BY <1>2, <2>4, <3>2 DEF HandleFailure, FailureLog
      <3>3. QED
        BY <3>1, <3>2
    <2>5. QED
      BY <1>3, <2>1, <2>2, <2>3, <2>4 DEF TaskStep
  <1>4. ASSUME Get PROVE created' = created /\ (Kept(t) \/ Gone(t))
    BY <1>4 DEF Get, KeepOnly, Kept, Gone
  <1>5. ASSUME UNCHANGED <<created, status, log>> PROVE created' = created /\ Kept(t)
    BY <1>5 DEF Kept
  <1>6. QED
    BY <1>1, <1>3, <1>4, <1>5
       DEF Next, StreamStep, Snapshot, OpenStream, TimePasses, Tick, Poll, PollGone,
           Yield, Receive, Disconnect, vars, storeVars

LEMMA CreatedGrows ==
    ASSUME TypeOK, [Next]_vars
    PROVE  created' \in {created, created + 1}
  <1> QED
    BY DEF Next, CreateTrace, Create, TaskStep, Emit, AppendEvent, PipelineRaises, Answered,
           HandleFailure, StreamStep, Snapshot, OpenStream, Get, TimePasses, Tick, Poll,
           PollGone, Yield, Receive, Disconnect, vars, storeVars

(* What one step does to the tasks.                                        *)
LEMMA TasksChange ==
    ASSUME TypeOK, [Next]_vars
    PROVE  \/ CreateTrace
           \/ created' = created /\ task' = task
           \/ \E t \in TraceId :
                /\ created' = created
                /\ task[t] = "answering" /\ task' = [task EXCEPT ![t] = "raised"]
           \/ \E t \in TraceId :
                /\ created' = created
                /\ task[t] \in {"answering", "raised"} /\ task' = [task EXCEPT ![t] = "done"]
  <1>1. ASSUME NEW t \in TraceId, Answered(t) \/ HandleFailure(t)
        PROVE  /\ created' = created
               /\ task[t] \in {"answering", "raised"} /\ task' = [task EXCEPT ![t] = "done"]
    BY <1>1 DEF Answered, HandleFailure, AppendEvent, storeVars
  <1>2. ASSUME NEW t \in TraceId, PipelineRaises(t)
        PROVE  /\ created' = created
               /\ task[t] = "answering" /\ task' = [task EXCEPT ![t] = "raised"]
    BY <1>2 DEF PipelineRaises, storeVars
  <1>3. ASSUME NEW t \in TraceId, Emit(t) PROVE created' = created /\ task' = task
    BY <1>3 DEF Emit, AppendEvent
  <1>4. ASSUME Snapshot \/ TimePasses \/ \E c \in Client, t \in TraceId : OpenStream(c, t)
        PROVE  created' = created /\ task' = task
    BY <1>4 DEF Snapshot, TimePasses, OpenStream, Get, Tick, taskVars
  <1>5. ASSUME UNCHANGED <<storeVars, taskVars>> PROVE created' = created /\ task' = task
    BY <1>5 DEF storeVars, taskVars
  <1>6. QED
    BY <1>1, <1>2, <1>3, <1>4, <1>5
       DEF Next, TaskStep, StreamStep, Poll, PollGone, Yield, Receive, Disconnect, vars

(* A task closes its trace only in its last segment.                       *)
LEMMA OpenTaskOpenTrace ==
    ASSUME TypeOK, [Next]_vars, ~CreateTrace,
           NEW t \in TraceId, task'[t] \in {"answering", "raised"}
    PROVE  status'[t] \in {status[t], "absent"}
  <1> USE DEF TypeOK, StoreTypeOK
  <1>1. ASSUME NEW u \in TraceId, Answered(u) \/ HandleFailure(u)
        PROVE  status'[t] = status[t]
    <2>1. t # u
      BY <1>1 DEF Answered, HandleFailure
    <2>2. QED
      BY <1>1, <2>1 DEF Answered, HandleFailure, storeVars
  <1>2. ASSUME NEW u \in TraceId, Emit(u) \/ PipelineRaises(u)
        PROVE  status'[t] = status[t]
    BY <1>2 DEF Emit, AppendEvent, PipelineRaises, storeVars
  <1>3. ASSUME Get PROVE status'[t] \in {status[t], "absent"}
    BY <1>3 DEF Get, KeepOnly
  <1>4. ASSUME status' = status PROVE status'[t] = status[t]
    BY <1>4
  <1>5. QED
    BY <1>1, <1>2, <1>3, <1>4
       DEF Next, TaskStep, StreamStep, Snapshot, OpenStream, TimePasses, Tick, Poll,
           PollGone, Yield, Receive, Disconnect, vars, storeVars

LEMMA NextTasks ==
    ASSUME TypeOK, TasksOpen, [Next]_vars
    PROVE  /\ task' \in [TraceId -> TaskState]
           /\ \A t \in TraceId : task'[t] = "none" <=> t > created'
           /\ TasksOpen'
  <1> USE DEF TypeOK, TaskState
  <1>1. CASE CreateTrace
    <2>1. created + 1 \in TraceId /\ created' = created + 1
      BY <1>1, StoreAssumption DEF CreateTrace, Create, StoreTypeOK, TraceId
    <2>2. task' = [task EXCEPT ![created + 1] = "answering"]
      BY <1>1 DEF CreateTrace
    <2>3. /\ status'[created + 1] = "running"
          /\ \A t \in TraceId \ {created + 1} : status'[t] \in {status[t], "absent"}
      BY <1>1, <2>1 DEF CreateTrace, Create
    <2>4. \A t \in TraceId : t > created' <=> t > created /\ t # created + 1
      BY <2>1 DEF TraceId, StoreTypeOK
    <2>5. task' \in [TraceId -> TaskState]
      BY <2>2
    <2>6. \A t \in TraceId : task'[t] = "none" <=> t > created'
      BY <2>1, <2>2, <2>4
    <2>7. TasksOpen'
      BY <2>2, <2>3 DEF TasksOpen
    <2>8. QED
      BY <2>5, <2>6, <2>7
  <1>2. CASE ~CreateTrace
    <2>1. created' = created
      BY <1>2, TasksChange
    <2>2. task' \in [TraceId -> TaskState]
      BY <1>2, TasksChange
    <2>3. \A t \in TraceId : task'[t] = "none" <=> task[t] = "none"
      BY <1>2, TasksChange
    <2>4. \A t \in TraceId : task'[t] \in {"answering", "raised"} =>
                task[t] \in {"answering", "raised"}
      BY <1>2, TasksChange
    <2>5. ASSUME NEW t \in TraceId, task'[t] \in {"answering", "raised"}
          PROVE  status'[t] \in {"absent", "running"}
      <3>1. status[t] \in {"absent", "running"}
        BY <2>4, <2>5 DEF TasksOpen
      <3>2. status'[t] \in {status[t], "absent"}
        BY <1>2, <2>5, OpenTaskOpenTrace
      <3>3. QED
        BY <3>1, <3>2
    <2>6. QED
      BY <2>1, <2>2, <2>3, <2>5 DEF TasksOpen
  <1>3. QED
    BY <1>1, <1>2
-----------------------------------------------------------------------------
(* A stream that does nothing is not left behind by what the others do.    *)
LEMMA IdleStreamFollows ==
    ASSUME TypeOK, TasksOpen, [Next]_vars, NEW c \in Client, Following(c),
           conn'[c] = conn[c], watched'[c] = watched[c], cursor'[c] = cursor[c],
           batch'[c] = batch[c], wire'[c] = wire[c], seen'[c] = seen[c]
    PROVE  Following(c)'
  <1> DEFINE w == watched[c]
  <1>1. w \in 0..MaxRequests /\ created \in Nat
    BY StoreAssumption DEF TypeOK, StoreTypeOK
  <1>2. w <= created /\ created <= created'
    BY <1>1, CreatedGrows DEF Following
  <1>3. ASSUME w \in Live'
        PROVE  /\ w \in Live
               /\ LastSeq(w)' = LastSeq(w) \/ (LastSeq(w)' = LastSeq(w) + 1 /\ ~Terminal(w))
               /\ Terminal(w) => LastSeq(w)' = LastSeq(w) /\ Terminal(w)'
    <2>1. w \in TraceId /\ ~Gone(w)
      BY <1>3 DEF Live, Gone
    <2>2. ~Born(w)
      BY <1>1, <1>2 DEF Born
    <2>3. Kept(w) \/ Grown(w)
      BY <2>1, <2>2, TraceChange
    <2>4. QED
      BY <1>3, <2>1, <2>3 DEF Kept, Grown, Live, LastSeq, Terminal
  <1>4. /\ Counts(seen'[c])
        /\ Continues(seen'[c], wire'[c])
        /\ conn'[c] = "off" => wire'[c] = <<>>
        /\ conn'[c] # "off" => cursor'[c] = Len(seen'[c]) + Len(wire'[c])
        /\ conn'[c] = "send" => cursor'[c] < batch'[c]
    BY DEF Following
  <1>5. watched'[c] <= created'
    <2>1. created' \in Nat /\ w \in Nat
      BY <1>1, CreatedGrows
    <2>2. QED
      BY <1>1, <1>2, <2>1
  <1>6. ASSUME watched'[c] \in Live'
        PROVE  /\ Len(seen'[c]) + Len(wire'[c]) <= LastSeq(watched[c])'
               /\ conn'[c] = "send" => batch'[c] <= LastSeq(watched[c])'
               /\ conn'[c] = "ended" =>
                     /\ Terminal(watched[c])'
                     /\ Len(seen'[c]) + Len(wire'[c]) = LastSeq(watched[c])'
    <2>1. w \in Live' /\ w \in TraceId
      BY <1>6 DEF Live
    <2>2. LastSeq(w) \in Nat /\ batch[c] \in Nat
      BY <2>1 DEF TypeOK, StoreTypeOK, LastSeq
    <2>3. Len(seen[c]) \in Nat /\ Len(wire[c]) \in Nat
      BY DEF TypeOK
    <2>4. /\ Len(seen[c]) + Len(wire[c]) <= LastSeq(w)
          /\ conn[c] = "send" => batch[c] <= LastSeq(w)
          /\ conn[c] = "ended" =>
                Terminal(w) /\ Len(seen[c]) + Len(wire[c]) = LastSeq(w)
      BY <1>3, <2>1 DEF Following
    <2>5. /\ LastSeq(w) <= LastSeq(w)'
          /\ Terminal(w) => LastSeq(w)' = LastSeq(w) /\ Terminal(w)'
          /\ LastSeq(w)' \in Nat
      BY <1>3, <2>1, <2>2
    <2>6. Len(seen[c]) + Len(wire[c]) <= LastSeq(w)'
      <3>1. \A n, l, m \in Nat : n <= l /\ l <= m => n <= m
        OBVIOUS
      <3>2. Len(seen[c]) + Len(wire[c]) \in Nat
        BY DEF TypeOK
      <3>3. QED
        BY <2>2, <2>4, <2>5, <3>1, <3>2
    <2>7. conn[c] = "send" => batch[c] <= LastSeq(w)'
      BY <2>2, <2>4, <2>5
    <2>8. QED
      BY <2>4, <2>5, <2>6, <2>7
  <1>7. QED
    BY <1>4, <1>5, <1>6 DEF Following

(* The types of what a client's stream consists of.                        *)
StreamType(c) ==
    /\ conn[c] \in ConnState
    /\ watched[c] \in 0..MaxRequests
    /\ cursor[c] \in 0..MaxEvents
    /\ batch[c] \in 0..MaxEvents
    /\ wire[c] \in Seq(1..MaxEvents)
    /\ seen[c] \in Seq(1..MaxEvents)

Idle(c) ==
    /\ conn'[c] = conn[c] /\ watched'[c] = watched[c] /\ cursor'[c] = cursor[c]
    /\ batch'[c] = batch[c] /\ wire'[c] = wire[c] /\ seen'[c] = seen[c]

LEMMA StreamNumbers ==
    ASSUME NEW c, StreamType(c)
    PROVE  seen[c] \in Seq(Nat) /\ wire[c] \in Seq(Nat)
  <1>1. 1..MaxEvents \subseteq Nat
    OBVIOUS
  <1>2. QED
    BY <1>1, SeqFacts DEF StreamType

LEMMA LogLength ==
    ASSUME TypeOK, NEW t \in TraceId
    PROVE  LastSeq(t) \in Nat /\ LastSeq(t) <= MaxEvents
  BY DEF TypeOK, StoreTypeOK, LastSeq

(* The stream of c takes a turn.                                           *)
LEMMA PollFollows ==
    ASSUME TypeOK, StreamsFollow, NEW c \in Client, Poll(c)
    PROVE  StreamType(c)' /\ Following(c)'
  <1> USE StoreAssumption
  <1>1. /\ Following(c) /\ watched[c] \in Live /\ watched[c] \in TraceId
        /\ Live' = Live /\ LastSeq(watched[c])' = LastSeq(watched[c])
        /\ Terminal(watched[c])' = Terminal(watched[c]) /\ created' = created
        /\ watched' = watched /\ cursor' = cursor /\ wire' = wire /\ seen' = seen
    BY DEF StreamsFollow, Poll, Live, LastSeq, Terminal, storeVars
  <1>2. StreamType(c)
    BY DEF StreamType, TypeOK
  <1>3. LastSeq(watched[c]) \in Nat /\ LastSeq(watched[c]) <= MaxEvents
    BY <1>1, LogLength
  <1>4. cursor[c] = Len(seen[c]) + Len(wire[c])
    BY <1>1 DEF Following, Poll
  <1>5. cursor[c] \in Nat /\ cursor[c] <= LastSeq(watched[c])
    <2>1. cursor[c] \in Nat
      BY <1>2 DEF StreamType
    <2>2. Len(seen[c]) + Len(wire[c]) <= LastSeq(watched[c])
      BY <1>1 DEF Following
    <2>3. QED
      BY <1>4, <2>1, <2>2
  <1>6. CASE /\ LastSeq(watched[c]) > cursor[c]
             /\ conn' = [conn EXCEPT ![c] = "send"]
             /\ batch' = [batch EXCEPT ![c] = LastSeq(watched[c])]
    <2>1. conn'[c] = "send" /\ batch'[c] = LastSeq(watched[c])
      BY <1>6 DEF TypeOK
    <2>2. StreamType(c)'
      BY <1>1, <1>2, <1>3, <2>1 DEF StreamType, ConnState
    <2>3. cursor[c] < LastSeq(watched[c]) /\ LastSeq(watched[c]) <= LastSeq(watched[c])
      BY <1>3, <1>6, <1>5
    <2>4. Len(seen[c]) + Len(wire[c]) <= LastSeq(watched[c])
      BY <1>4, <1>5
    <2>5. Following(c)'
      BY <1>1, <1>4, <2>1, <2>3, <2>4 DEF Following
    <2>6. QED
      BY <2>2, <2>5
  <1>7. CASE /\ LastSeq(watched[c]) <= cursor[c]
             /\ Terminal(watched[c])
             /\ conn' = [conn EXCEPT ![c] = "ended"]
             /\ batch' = batch
    <2>1. conn'[c] = "ended" /\ batch'[c] = batch[c]
      BY <1>7 DEF TypeOK
    <2>2. StreamType(c)'
      BY <1>1, <1>2, <2>1 DEF StreamType, ConnState
    <2>3. cursor[c] = LastSeq(watched[c])
      BY <1>3, <1>7, <1>5
    <2>4. Following(c)'
      BY <1>1, <1>4, <1>7, <2>1, <2>3 DEF Following
    <2>5. QED
      BY <2>2, <2>4
  <1>8. QED
    BY <1>6, <1>7 DEF Poll, Drained

LEMMA PollGoneFollows ==
    ASSUME TypeOK, StreamsFollow, NEW c \in Client, PollGone(c)
    PROVE  StreamType(c)' /\ Following(c)'
  <1>1. /\ Following(c) /\ conn[c] = "poll" /\ conn'[c] = "lost" /\ watched[c] \notin Live
        /\ Live' = Live /\ created' = created /\ batch' = batch
        /\ watched' = watched /\ cursor' = cursor /\ wire' = wire /\ seen' = seen
    BY DEF StreamsFollow, PollGone, Live, storeVars, TypeOK
  <1>2. StreamType(c)'
    BY <1>1 DEF StreamType, TypeOK, ConnState
  <1>3. Following(c)'
    BY <1>1 DEF Following
  <1>4. QED
    BY <1>2, <1>3

(* The connection of c breaks.                                             *)
LEMMA DisconnectFollows ==
    ASSUME TypeOK, StreamsFollow, NEW c \in Client, Disconnect(c)
    PROVE  StreamType(c)' /\ Following(c)'
  <1>1. /\ Following(c) /\ conn'[c] = "off" /\ wire'[c] = <<>>
        /\ created' = created /\ batch' = batch
        /\ watched' = watched /\ cursor' = cursor /\ seen' = seen
        /\ Live' = Live /\ log' = log
    BY DEF StreamsFollow, Disconnect, storeVars, Live, TypeOK
  <1>2. StreamType(c)'
    BY <1>1 DEF StreamType, TypeOK, ConnState
  <1>3. ASSUME watched[c] \in Live PROVE Len(seen[c]) <= LastSeq(watched[c])
    <2>1. Len(seen[c]) + Len(wire[c]) <= LastSeq(watched[c])
      BY <1>1, <1>3 DEF Following
    <2>2. LastSeq(watched[c]) \in Nat
      BY <1>3, LogLength DEF Live
    <2>3. QED
      BY <2>1, <2>2 DEF TypeOK
  <1>4. Len(seen[c]) \in Nat /\ Len(wire'[c]) = 0
    BY <1>1 DEF TypeOK
  <1>5. LastSeq(watched[c])' = LastSeq(watched[c])
    BY <1>1 DEF LastSeq
  <1>6. watched[c] \in Live => Len(seen[c]) + Len(wire'[c]) <= LastSeq(watched[c])
    BY <1>3, <1>4
  <1>7. Continues(seen[c], wire'[c])
    BY <1>1 DEF Continues
  <1>8. Following(c)'
    BY <1>1, <1>5, <1>6, <1>7 DEF Following
  <1>9. QED
    BY <1>2, <1>8

(* The stream of c yields an event.                                        *)
LEMMA YieldFollows ==
    ASSUME TypeOK, StreamsFollow, NEW c \in Client, Yield(c)
    PROVE  StreamType(c)' /\ Following(c)'
  <1> USE StoreAssumption
  <1>1. /\ Following(c) /\ conn[c] = "send" /\ cursor'[c] = cursor[c] + 1
        /\ wire'[c] = Append(wire[c], cursor[c] + 1)
        /\ conn'[c] = IF cursor[c] + 1 = batch[c] THEN "poll" ELSE "send"
        /\ created' = created /\ batch' = batch /\ watched' = watched /\ seen' = seen
        /\ Live' = Live /\ log' = log
    BY DEF StreamsFollow, Yield, storeVars, Live, TypeOK
  <1>2. StreamType(c)
    BY DEF StreamType, TypeOK
  <1>3. cursor[c] \in Nat /\ batch[c] \in Nat /\ cursor[c] + 1 <= batch[c] /\ batch[c] <= MaxEvents
    <2>1. cursor[c] < batch[c]
      BY <1>1 DEF Following
    <2>2. QED
      BY <1>2, <2>1 DEF StreamType
  <1>4. cursor[c] + 1 \in 1..MaxEvents
    BY <1>3
  <1>5. StreamType(c)'
    BY <1>1, <1>2, <1>4 DEF StreamType, ConnState
  <1>6. seen[c] \in Seq(Nat) /\ wire[c] \in Seq(Nat)
    BY <1>2, StreamNumbers
  <1>7. cursor[c] = Len(seen[c]) + Len(wire[c])
    BY <1>1 DEF Following
  <1>8. wire'[c] = Append(wire[c], Len(seen[c]) + Len(wire[c]) + 1)
    BY <1>1, <1>7
  <1>9. /\ Continues(seen'[c], wire'[c])
        /\ cursor'[c] = Len(seen'[c]) + Len(wire'[c])
    <2>1. Continues(seen[c], wire[c])
      BY <1>1 DEF Following
    <2>2. /\ Continues(seen[c], wire'[c])
          /\ Len(seen[c]) + Len(wire'[c]) = Len(seen[c]) + Len(wire[c]) + 1
      BY <1>6, <1>8, <2>1, SendContinues
    <2>3. QED
      BY <1>1, <1>7, <2>2
  <1>10. LastSeq(watched[c])' = LastSeq(watched[c])
    BY <1>1 DEF LastSeq
  <1>11. ASSUME watched[c] \in Live
         PROVE  /\ batch[c] <= LastSeq(watched[c])
                /\ Len(seen'[c]) + Len(wire'[c]) <= LastSeq(watched[c])
    <2>1. batch[c] <= LastSeq(watched[c])
      BY <1>1, <1>11 DEF Following
    <2>2. LastSeq(watched[c]) \in Nat
      BY <1>11, LogLength DEF Live
    <2>3. cursor'[c] <= LastSeq(watched[c])
      BY <1>1, <1>3, <2>1, <2>2
    <2>4. QED
      BY <1>9, <2>1, <2>3
  <1>12. conn'[c] \in {"poll", "send"} /\ (conn'[c] = "send" => cursor'[c] < batch'[c])
    BY <1>1, <1>3
  <1>13. Following(c)'
    BY <1>1, <1>9, <1>10, <1>11, <1>12 DEF Following
  <1>14. QED
    BY <1>5, <1>13

(* Client c receives an event.                                             *)
LEMMA ReceiveFollows ==
    ASSUME TypeOK, StreamsFollow, NEW c \in Client, Receive(c)
    PROVE  StreamType(c)' /\ Following(c)'
  <1>1. /\ Following(c) /\ wire[c] # <<>>
        /\ seen'[c] = Append(seen[c], Head(wire[c])) /\ wire'[c] = Tail(wire[c])
        /\ conn' = conn /\ watched' = watched /\ cursor' = cursor /\ batch' = batch
        /\ created' = created /\ Live' = Live /\ log' = log /\ status' = status
    BY DEF StreamsFollow, Receive, storeVars, Live, TypeOK
  <1>2. StreamType(c)
    BY DEF StreamType, TypeOK
  <1>3. seen[c] \in Seq(Nat) /\ wire[c] \in Seq(Nat)
    BY <1>2, StreamNumbers
  <1>4. StreamType(c)'
    <2>1. Head(wire[c]) \in 1..MaxEvents /\ Tail(wire[c]) \in Seq(1..MaxEvents)
      BY <1>1, <1>2, SeqFacts DEF StreamType
    <2>2. seen'[c] \in Seq(1..MaxEvents) /\ wire'[c] \in Seq(1..MaxEvents)
      BY <1>1, <1>2, <2>1, SeqFacts DEF StreamType
    <2>3. QED
      BY <1>1, <1>2, <2>2 DEF StreamType
  <1>5. Counts(seen[c]) /\ Continues(seen[c], wire[c])
    BY <1>1 DEF Following
  <1>6. /\ Len(seen'[c]) + Len(wire'[c]) = Len(seen[c]) + Len(wire[c])
        /\ Counts(seen'[c])
        /\ Continues(seen'[c], wire'[c])
    BY <1>1, <1>3, <1>5, ReceiveContinues
  <1>10. LastSeq(watched[c])' = LastSeq(watched[c]) /\ Terminal(watched[c])' = Terminal(watched[c])
    BY <1>1 DEF LastSeq, Terminal
  <1>11. conn[c] # "off"
    BY <1>1 DEF Following
  <1>12. Following(c)'
    BY <1>1, <1>6, <1>10, <1>11 DEF Following
  <1>13. QED
    BY <1>4, <1>12

(* Client c opens a stream, resuming one or from the start.                *)
LEMMA OpenFollows ==
    ASSUME TypeOK, StreamsFollow, NEW c \in Client, NEW t \in TraceId, OpenStream(c, t)
    PROVE  StreamType(c)' /\ Following(c)'
  <1> USE StoreAssumption
  <1>1. PICK resume \in {r \in BOOLEAN : r => watched[c] = t} :
          /\ seen'[c] = IF resume THEN seen[c] ELSE <<>>
          /\ cursor'[c] = IF resume THEN LastEventId(c) ELSE 0
    BY DEF OpenStream, TypeOK
  <1>2. /\ Following(c) /\ conn'[c] = "poll" /\ watched'[c] = t /\ batch'[c] = 0
        /\ wire' = wire /\ wire[c] = <<>> /\ t \in Unexpired
        /\ created' = created /\ Get
    BY DEF StreamsFollow, OpenStream, TypeOK, Get
  <1>3. t \in Live /\ status'[t] = status[t] /\ log'[t] = log[t] /\ t <= created
    <2>1. t \in Live
      BY <1>2 DEF Unexpired
    <2>2. ~(t > created) /\ created \in Nat /\ t \in Nat
      BY <2>1 DEF TypeOK, StoreTypeOK, Live, TraceId
    <2>3. QED
      BY <1>2, <2>1, <2>2 DEF Get, KeepOnly
  <1>4. StreamType(c)
    BY DEF StreamType, TypeOK
  <1>5. Len(seen'[c]) \in Nat /\ cursor'[c] = Len(seen'[c])
    <2>1. Counts(seen[c])
      BY <1>2 DEF Following
    <2>2. LastEventId(c) = Len(seen[c])
      BY <1>4, <2>1 DEF LastEventId, StreamType, Counts
    <2>3. QED
      BY <1>1, <1>4, <2>2 DEF StreamType
  <1>6. LastSeq(t) \in Nat /\ LastSeq(t) <= MaxEvents /\ Len(seen'[c]) <= LastSeq(t)
    <2>1. LastSeq(t) \in Nat /\ LastSeq(t) <= MaxEvents
      BY LogLength
    <2>2. CASE resume
      <3>1. Len(seen[c]) + Len(wire[c]) <= LastSeq(t)
        BY <1>1, <1>2, <1>3, <2>2 DEF Following
      <3>2. Len(seen[c]) \in Nat /\ Len(wire[c]) = 0
        BY <1>2, <1>4 DEF StreamType
      <3>3. Len(seen[c]) <= LastSeq(t)
        BY <3>1, <3>2, <2>1
      <3>4. QED
        BY <1>1, <2>1, <2>2, <3>3
    <2>3. CASE ~resume
      BY <1>1, <2>1, <2>3
    <2>4. QED
      BY <2>1, <2>2, <2>3
  <1>7. cursor'[c] \in 0..MaxEvents
    BY <1>5, <1>6
  <1>8. seen'[c] \in Seq(1..MaxEvents) /\ t \in 0..MaxRequests
    <2>1. resume => seen'[c] \in Seq(1..MaxEvents)
      BY <1>1, <1>4 DEF StreamType
    <2>2. ~resume => seen'[c] \in Seq(1..MaxEvents)
      BY <1>1
    <2>3. t \in 0..MaxRequests
      BY DEF TraceId
    <2>4. QED
      BY <2>1, <2>2, <2>3
  <1>9. StreamType(c)'
    BY <1>2, <1>4, <1>7, <1>8 DEF StreamType, ConnState
  <1>10. Counts(seen'[c])
    BY <1>1, <1>2 DEF Following, Counts
  <1>11. wire'[c] = <<>> /\ Len(wire'[c]) = 0 /\ Continues(seen'[c], wire'[c])
    BY <1>2 DEF Continues
  <1>12. Len(seen'[c]) + Len(wire'[c]) = Len(seen'[c])
    BY <1>5, <1>11
  <1>13. LastSeq(watched[c])' = LastSeq(t)
    BY <1>2, <1>3 DEF LastSeq
  <1>14. Following(c)'
    BY <1>2, <1>3, <1>5, <1>6, <1>10, <1>11, <1>12, <1>13 DEF Following
  <1>15. QED
    BY <1>9, <1>14

-----------------------------------------------------------------------------
(* Whose stream a step concerns.                                           *)
LEMMA StreamsChange ==
    ASSUME TypeOK, [Next]_vars, NEW c \in Client
    PROVE  \/ Idle(c)
           \/ Poll(c) \/ PollGone(c) \/ Yield(c) \/ Receive(c) \/ Disconnect(c)
           \/ \E t \in TraceId : OpenStream(c, t)
  <1>1. ASSUME UNCHANGED streamVars PROVE Idle(c)
    BY <1>1 DEF streamVars, Idle
  <1>2. ASSUME NEW d \in Client \ {c},
               \/ Poll(d) \/ PollGone(d) \/ Yield(d) \/ Receive(d) \/ Disconnect(d)
               \/ \E t \in TraceId : OpenStream(d, t)
        PROVE  Idle(c)
    <2> USE DEF Idle, TypeOK
    <2>1. ASSUME NEW t \in TraceId, OpenStream(d, t) PROVE Idle(c)
      BY <2>1 DEF OpenStream
    <2>2. ASSUME Poll(d) \/ PollGone(d) \/ Yield(d) PROVE Idle(c)
      BY <2>2 DEF Poll, PollGone, Yield
    <2>3. ASSUME Receive(d) \/ Disconnect(d) PROVE Idle(c)
      BY <2>3 DEF Receive, Disconnect
    <2>4. QED
      BY <1>2, <2>1, <2>2, <2>3
  <1>3. ASSUME \/ CreateTrace \/ Snapshot \/ TimePasses \/ UNCHANGED vars
               \/ \E t \in TraceId : TaskStep(t)
        PROVE  UNCHANGED streamVars
    BY <1>3 DEF CreateTrace, Snapshot, TimePasses, vars, TaskStep, Emit, PipelineRaises,
                Answered, HandleFailure
  <1>4. QED
    BY <1>1, <1>2, <1>3 DEF Next, StreamStep

(* The variables of the streams are functions on the clients.              *)
StreamFunctions ==
    /\ conn = [c \in Client |-> conn[c]] /\ watched = [c \in Client |-> watched[c]]
    /\ cursor = [c \in Client |-> cursor[c]] /\ batch = [c \in Client |-> batch[c]]
    /\ wire = [c \in Client |-> wire[c]] /\ seen = [c \in Client |-> seen[c]]

LEMMA StreamsStayFunctions ==
    ASSUME TypeOK, [Next]_vars
    PROVE  StreamFunctions'
  <1> USE DEF StreamFunctions
  <1>1. StreamFunctions
    BY DEF TypeOK
  <1>2. CASE UNCHANGED streamVars
    BY <1>1, <1>2 DEF streamVars
  <1>3. ASSUME NEW c \in Client, NEW t \in TraceId, OpenStream(c, t)
        PROVE  StreamFunctions'
    BY <1>1, <1>3 DEF OpenStream
  <1>4. ASSUME NEW c \in Client, Poll(c) \/ PollGone(c) PROVE StreamFunctions'
    BY <1>1, <1>4 DEF Poll, PollGone
  <1>5. ASSUME NEW c \in Client, Yield(c) PROVE StreamFunctions'
    BY <1>1, <1>5 DEF Yield
  <1>6. ASSUME NEW c \in Client, Receive(c) PROVE StreamFunctions'
    BY <1>1, <1>6 DEF Receive
  <1>7. ASSUME NEW c \in Client, Disconnect(c) PROVE StreamFunctions'
    BY <1>1, <1>7 DEF Disconnect
  <1>8. ASSUME \/ CreateTrace \/ Snapshot \/ TimePasses \/ UNCHANGED vars
               \/ \E t \in TraceId : TaskStep(t)
        PROVE  UNCHANGED streamVars
    BY <1>8 DEF CreateTrace, Snapshot, TimePasses, vars, TaskStep, Emit, PipelineRaises,
                Answered, HandleFailure
  <1>9. QED
    BY <1>2, <1>3, <1>4, <1>5, <1>6, <1>7, <1>8 DEF Next, StreamStep

LEMMA NextStreams ==
    ASSUME TypeOK, TasksOpen, StreamsFollow, [Next]_vars, NEW c \in Client
    PROVE  StreamType(c)' /\ Following(c)'
  <1>1. CASE Idle(c)
    <2>1. StreamType(c)'
      BY <1>1 DEF Idle, StreamType, TypeOK
    <2>2. Following(c)
      BY DEF StreamsFollow
    <2>3. QED
      BY <1>1, <2>1, <2>2, IdleStreamFollows DEF Idle
  <1>2. CASE Poll(c) \/ PollGone(c) \/ Yield(c)
    BY <1>2, PollFollows, PollGoneFollows, YieldFollows
  <1>3. CASE Receive(c) \/ Disconnect(c)
    BY <1>3, ReceiveFollows, DisconnectFollows
  <1>4. CASE \E t \in TraceId : OpenStream(c, t)
    BY <1>4, OpenFollows
  <1>5. QED
    BY <1>1, <1>2, <1>3, <1>4, StreamsChange

LEMMA NextIInv == IInv /\ [Next]_vars => IInv'
  <1> SUFFICES ASSUME TypeOK, TasksOpen, StreamsFollow, [Next]_vars PROVE IInv'
    BY DEF IInv
  <1>1. StoreTypeOK'
    BY NextStoreType
  <1>2. /\ task' \in [TraceId -> TaskState]
        /\ \A t \in TraceId : task'[t] = "none" <=> t > created'
        /\ TasksOpen'
    BY NextTasks
  <1>3. \A c \in Client : StreamType(c)' /\ Following(c)'
    BY NextStreams
  <1>4. StreamFunctions'
    BY StreamsStayFunctions
  <1>5. conn' \in [Client -> ConnState]
    BY <1>3, <1>4 DEF StreamType, StreamFunctions
  <1>6. watched' \in [Client -> 0..MaxRequests]
    BY <1>3, <1>4 DEF StreamType, StreamFunctions
  <1>7. cursor' \in [Client -> 0..MaxEvents] /\ batch' \in [Client -> 0..MaxEvents]
    BY <1>3, <1>4 DEF StreamType, StreamFunctions
  <1>8. wire' \in [Client -> Seq(1..MaxEvents)]
    BY <1>3, <1>4 DEF StreamType, StreamFunctions
  <1>9. seen' \in [Client -> Seq(1..MaxEvents)]
    BY <1>3, <1>4 DEF StreamType, StreamFunctions
  <1>10. TypeOK'
    BY <1>1, <1>2, <1>5, <1>6, <1>7, <1>8, <1>9 DEF TypeOK
  <1>11. StreamsFollow'
    BY <1>3 DEF StreamsFollow
  <1>12. QED
    BY <1>2, <1>10, <1>11 DEF IInv

LEMMA InductiveInvariant == Spec => []IInv
  <1>1. QED
    BY InitIInv, NextIInv, PTL DEF Spec

-----------------------------------------------------------------------------
(* Every state of the service is well formed.                              *)
THEOREM TraceApiTypeCorrect == Spec => []TypeOK
  <1>1. IInv => TypeOK
    BY DEF IInv
  <1>2. QED
    BY <1>1, InductiveInvariant, PTL

(* Whatever breaks, is lost or resumed, a client receives 1, 2, 3, ...     *)
THEOREM DeliveredInOrder == Spec => []InOrderOnce
  <1>1. IInv => InOrderOnce
    BY DEF IInv, StreamsFollow, Following, Counts, InOrderOnce
  <1>2. QED
    BY <1>1, InductiveInvariant, PTL

(* A stream that ended has sent every event of a closed trace.             *)
THEOREM EndedIsComplete == Spec => []EndedStreamIsComplete
  <1>1. IInv => EndedStreamIsComplete
    BY DEF IInv, StreamsFollow, Following, EndedStreamIsComplete
  <1>2. QED
    BY <1>1, InductiveInvariant, PTL

(* A closed trace does not change while it is stored.                      *)
THEOREM ClosedStaysClosed == Spec => ClosedIsFinal
  <1> DEFINE Final == \A t \in Live \cap Live' :
                        Terminal(t) => status'[t] = status[t] /\ log'[t] = log[t]
  <1>1. IInv /\ [Next]_vars => [Final]_vars
    <2> SUFFICES ASSUME TypeOK, TasksOpen, [Next]_vars,
                        NEW t \in Live \cap Live', Terminal(t)
                 PROVE  Kept(t)
      BY DEF IInv, Kept
    <2>1. t \in TraceId /\ ~Gone(t) /\ ~Grown(t)
      BY DEF Live, Gone, Grown, Terminal
    <2>2. ~Born(t)
      BY DEF Born, Live, TypeOK, StoreTypeOK
    <2>3. QED
      BY <2>1, <2>2, TraceChange
  <1>2. QED
    BY <1>1, InductiveInvariant, PTL DEF Spec, ClosedIsFinal

-----------------------------------------------------------------------------
(* The tale of one trace: what a step does to its status, its events and   *)
(* its task, as long as it is stored afterwards.                           *)
Opened(t) ==
    /\ t \notin Live /\ status'[t] = "running"
    /\ log'[t] = <<>> /\ task'[t] = "answering"

Untouched(t) ==
    /\ t \in Live /\ Kept(t)
    /\ task'[t] = "done" => task[t] = "done" \/ LastSeq(t) >= MaxEvents

Extended(t, k) ==
    /\ t \in Live /\ status[t] = "running" /\ log'[t] = Append(log[t], k)

Worked(t) ==
    \E k \in {"stage", "response"} :
        /\ Extended(t, k)
        /\ \/ status'[t] = "running" /\ task'[t] = "answering"
           \/ status'[t] = "completed" /\ \E i \in DOMAIN log'[t] : log'[t][i] = "response"

Collapsed(t) == Extended(t, "failed") /\ status'[t] = "failed"

Tale(t) == Opened(t) \/ Untouched(t) \/ Worked(t) \/ Collapsed(t)

(* A trace that is not the one the task of u works on.                     *)
LEMMA OthersUntouched ==
    ASSUME TypeOK, NEW u \in TraceId, TaskStep(u), NEW t \in TraceId, t # u, t \in Live'
    PROVE  Untouched(t)
  <1> USE DEF TypeOK, StoreTypeOK
  <1>1. status'[t] = status[t] /\ log'[t] = log[t] /\ task'[t] = task[t]
    <2>1. CASE Emit(u) \/ PipelineRaises(u)
      BY <2>1 DEF Emit, AppendEvent, PipelineRaises, storeVars
    <2>2. CASE Answered(u)
      BY <2>2 DEF Answered
    <2>3. CASE HandleFailure(u)
      BY <2>3 DEF HandleFailure, storeVars
    <2>4. QED
      BY <2>1, <2>2, <2>3 DEF TaskStep
  <1>2. QED
    BY <1>1 DEF Untouched, Kept, Live

LEMMA TaskTellsTale ==
    ASSUME TypeOK, TasksOpen, NEW t \in TraceId, TaskStep(t), t \in Live'
    PROVE  Tale(t)
  <1> USE DEF TypeOK, StoreTypeOK
  <1>1. CASE Emit(t)
    <2>1. PICK k \in {"stage", "response"} : AppendEvent(t, k)
      BY <1>1 DEF Emit
    <2>2. t \in Live /\ status[t] = "running" /\ status'[t] = "running"
      BY <1>1, <2>1 DEF Emit, AppendEvent, AppendRaises, TasksOpen, Live
    <2>3. log'[t] = Append(log[t], k) /\ task'[t] = "answering"
      BY <1>1, <2>1 DEF Emit, AppendEvent
    <2>4. QED
      BY <2>2, <2>3 DEF Tale, Worked, Extended
  <1>2. CASE PipelineRaises(t)
    BY <1>2 DEF PipelineRaises, storeVars, Tale, Untouched, Kept, Live
  <1>3. CASE Answered(t)
    <2>1. PICK k \in {"stage", "response"} :
            /\ log' = [log EXCEPT ![t] = Append(@, k)]
            /\ \E i \in DOMAIN log'[t] : log'[t][i] = "response"
      BY <1>3 DEF Answered
    <2>2. t \in Live /\ status[t] = "running" /\ status'[t] = "completed"
      BY <1>3 DEF Answered, AppendRaises, TasksOpen, Live
    <2>3. log'[t] = Append(log[t], k)
      BY <2>1
    <2>4. QED
      BY <2>1, <2>2, <2>3 DEF Tale, Worked, Extended
  <1>4. CASE HandleFailure(t)
    <2>1. CASE AppendRaises(t)
      <3>1. Kept(t) /\ t \in Live
        BY <1>4, <2>1 DEF HandleFailure, storeVars, Kept, Live
      <3>2. LastSeq(t) >= MaxEvents
        BY <2>1, <3>1 DEF AppendRaises, LastSeq
      <3>3. QED
        BY <3>1, <3>2 DEF Tale, Untouched
    <2>2. CASE ~AppendRaises(t)
      <3>1. t \in Live /\ status[t] = "running"
        BY <1>4, <2>2 DEF HandleFailure, AppendRaises, TasksOpen, Live
      <3>2. log'[t] = Append(log[t], "failed") /\ status'[t] = "failed"
        BY <1>4, <2>2 DEF HandleFailure, FailureLog
      <3>3. QED
        BY <3>1, <3>2 DEF Tale, Collapsed, Extended
    <2>3. QED
      BY <2>1, <2>2
  <1>5. QED
    BY <1>1, <1>2, <1>3, <1>4 DEF TaskStep

LEMMA CreateTellsTale ==
    ASSUME TypeOK, CreateTrace, NEW t \in TraceId, t \in Live'
    PROVE  Tale(t)
  <1> USE StoreAssumption DEF TypeOK, StoreTypeOK
  <1>1. PICK K \in Survivors(Unexpired) :
          /\ status' = [u \in TraceId |->
                          IF u = created + 1 THEN "running"
                          ELSE IF u \in K THEN status[u] ELSE "absent"]
          /\ log' = [u \in TraceId |-> IF u \in K THEN log[u] ELSE <<>>]
    BY DEF CreateTrace, Create
  <1>2. K \subseteq Live
    BY <1>1 DEF Survivors, Unexpired
  <1>3. CASE t = created + 1
    <2>1. t \notin Live
      BY <1>3 DEF Live, TraceId
    <2>2. status'[t] = "running" /\ log'[t] = <<>>
      BY <1>1, <1>2, <1>3, <2>1
    <2>3. task'[t] = "answering"
      BY <1>3 DEF CreateTrace
    <2>4. QED
      BY <2>1, <2>2, <2>3 DEF Tale, Opened
  <1>4. CASE t # created + 1
    <2>1. t \in K
      BY <1>1, <1>4 DEF Live
    <2>2. t \in Live /\ Kept(t)
      BY <1>1, <1>2, <1>4, <2>1 DEF Kept
    <2>3. task'[t] = task[t]
      BY <1>4 DEF CreateTrace
    <2>4. QED
      BY <2>2, <2>3 DEF Tale, Untouched
  <1>5. QED
    BY <1>3, <1>4

LEMMA StoredTracesTale ==
    ASSUME TypeOK, TasksOpen, [Next]_vars, NEW t \in Live'
    PROVE  t \in TraceId /\ Tale(t)
  <1>1. t \in TraceId /\ t \in Live'
    BY DEF Live
  <1>2. ASSUME NEW u \in TraceId, TaskStep(u) PROVE Tale(t)
    BY <1>1, <1>2, OthersUntouched, TaskTellsTale DEF Tale
  <1>3. CASE CreateTrace
    BY <1>1, <1>3, CreateTellsTale
  <1>4. ASSUME Get, task' = task PROVE Untouched(t)
    BY <1>1, <1>4 DEF Get, KeepOnly, Unexpired, Untouched, Kept, Live
  <1>5. ASSUME task' = task, status' = status, log' = log PROVE Untouched(t)
    BY <1>1, <1>5 DEF Untouched, Kept, Live
  <1>6. QED
    BY <1>1, <1>2, <1>3, <1>4, <1>5
       DEF Next, StreamStep, Snapshot, OpenStream, TimePasses, Tick, Poll, PollGone,
           Yield, Receive, Disconnect, vars, storeVars, taskVars, Tale

-----------------------------------------------------------------------------
(* That a status and a list of events tell the same story.                 *)
Has(events, kind) == \E i \in DOMAIN events : events[i] = kind

Consistent(state, events) ==
    /\ state = "completed" => Has(events, "response") /\ ~Has(events, "failed")
    /\ state = "failed" => events # <<>> /\ events[Len(events)] = "failed"
    /\ state = "running" => ~Has(events, "failed")

LEMMA ConsistentTraces ==
    StatusMatchesLog <=> \A t \in Live : Consistent(status[t], log[t])
  <1>1. QED
    BY DEF StatusMatchesLog, Consistent, Has, LastSeq

(* Appending an event adds its kind to the list and no other.              *)
LEMMA AppendHas ==
    ASSUME NEW events \in Seq(EventKind), NEW kind \in EventKind, NEW more,
           more = Append(events, kind)
    PROVE  /\ more # <<>> /\ more[Len(more)] = kind
           /\ \A k \in EventKind : Has(more, k) <=> Has(events, k) \/ k = kind
  <1>1. /\ Len(events) \in Nat /\ DOMAIN events = 1..Len(events)
        /\ Len(more) = Len(events) + 1 /\ DOMAIN more = 1..(Len(events) + 1)
        /\ more[Len(events) + 1] = kind
        /\ \A i \in 1..Len(events) : more[i] = events[i]
    OBVIOUS
  <1>2. more # <<>>
    OBVIOUS
  <1>3. Len(events) + 1 \in DOMAIN more
    BY <1>1
  <1>4. \A i \in DOMAIN more : i = Len(events) + 1 \/ i \in DOMAIN events
    BY <1>1
  <1>5. \A i \in DOMAIN events : i \in DOMAIN more /\ more[i] = events[i]
    BY <1>1
  <1>6. QED
    BY <1>1, <1>2, <1>3, <1>4, <1>5 DEF Has

LEMMA StoryGoesOn ==
    ASSUME TypeOK, TasksOpen, StatusMatchesLog, [Next]_vars, NEW t \in Live'
    PROVE  Consistent(status'[t], log'[t])
  <1> USE DEF EventKind
  <1>1. t \in TraceId /\ Tale(t)
    BY StoredTracesTale
  <1>2. log[t] \in Seq(EventKind)
    BY <1>1 DEF TypeOK, StoreTypeOK
  <1>3. CASE Opened(t)
    BY <1>3 DEF Opened, Consistent, Has
  <1>4. CASE Untouched(t)
    BY <1>4, ConsistentTraces DEF Untouched, Kept
  <1>5. CASE Worked(t)
    <2>1. PICK k \in {"stage", "response"} :
            /\ Extended(t, k)
            /\ \/ status'[t] = "running"
               \/ status'[t] = "completed" /\ Has(log'[t], "response")
      BY <1>5 DEF Worked, Has
    <2>2. ~Has(log[t], "failed")
      BY <2>1, ConsistentTraces DEF Extended, Consistent
    <2>3. ~Has(log'[t], "failed")
      <3>1. log'[t] = Append(log[t], k) /\ k \in EventKind /\ k # "failed"
        BY <2>1 DEF Extended
      <3>2. Has(Append(log[t], k), "failed") <=> Has(log[t], "failed") \/ "failed" = k
        BY <1>2, <3>1, AppendHas
      <3>3. QED
        BY <2>2, <3>1, <3>2
    <2>4. QED
      BY <2>1, <2>3 DEF Consistent
  <1>6. CASE Collapsed(t)
    BY <1>2, <1>6, AppendHas DEF Collapsed, Extended, Consistent
  <1>7. QED
    BY <1>1, <1>3, <1>4, <1>5, <1>6 DEF Tale

(* The status of a stored trace and its events tell the same story: a      *)
(* failure is recorded as the last event, an answer before completing.     *)
THEOREM StatusTellsTheLog == Spec => []StatusMatchesLog
  <1>1. Init => StatusMatchesLog
    BY DEF Init, StoreInit, StatusMatchesLog, Live
  <1>2. IInv /\ StatusMatchesLog /\ [Next]_vars => StatusMatchesLog'
    <2> SUFFICES ASSUME TypeOK, TasksOpen, StatusMatchesLog, [Next]_vars
                 PROVE  StatusMatchesLog'
      BY DEF IInv
    <2>1. \A t \in Live' : Consistent(status'[t], log'[t])
      BY StoryGoesOn
    <2>2. QED
      BY <2>1 DEF StatusMatchesLog, Consistent, Has, LastSeq
  <1>3. QED
    BY <1>1, <1>2, InductiveInvariant, PTL DEF Spec

(* A request that is over leaves a stored trace running only when the      *)
(* failure event found the trace full.                                     *)
THEOREM OnlyFullTracesAreStuck == Spec => []OnlyFullTracesStick
  <1>1. Init => OnlyFullTracesStick
    BY DEF Init, StoreInit, OnlyFullTracesStick, Live
  <1>2. IInv /\ OnlyFullTracesStick /\ [Next]_vars => OnlyFullTracesStick'
    <2> SUFFICES ASSUME TypeOK, TasksOpen, OnlyFullTracesStick, [Next]_vars,
                        NEW t \in Live', task'[t] = "done", status'[t] = "running"
                 PROVE  Len(log'[t]) >= MaxEvents
      BY DEF IInv, OnlyFullTracesStick, LastSeq
    <2>1. Tale(t) /\ ~Opened(t) /\ ~Worked(t) /\ ~Collapsed(t)
      BY StoredTracesTale DEF Opened, Worked, Collapsed
    <2>2. Untouched(t)
      BY <2>1 DEF Tale
    <2>3. t \in Live /\ status[t] = "running" /\ log'[t] = log[t]
          /\ (task[t] = "done" \/ LastSeq(t) >= MaxEvents)
      BY <2>2 DEF Untouched, Kept
    <2>4. QED
      BY <2>3 DEF OnlyFullTracesStick, LastSeq
  <1>3. QED
    BY <1>1, <1>2, InductiveInvariant, PTL DEF Spec
=============================================================================
