----------------------------- MODULE TraceStore -----------------------------
(***************************************************************************)
(* The in-memory trace store of the RAG service                            *)
(* (app/tracing/store.py): a dictionary of traces, each an append-only     *)
(* list of events with a status, behind one threading.Lock.  Every method  *)
(* runs wholly under the lock, so every method is one action here.         *)
(*                                                                         *)
(* Trace ids are random in the code and never reused; here they are the    *)
(* numbers 1, 2, ... in order of creation, so that the trace with the      *)
(* smallest created_at is the smallest id.  Time is the age of a trace:    *)
(* the whole time units since its updated_at, counted up to TTL + 1, the   *)
(* first age at which it is expired.                                       *)
(***************************************************************************)
EXTENDS Naturals, Sequences, FiniteSets

CONSTANTS
    MaxRequests,   \* bound of the model: how many traces are ever created
    MaxTraces,     \* max_traces: capacity of the store
    MaxEvents,     \* max_events_per_trace: capacity of one trace
    TTL            \* ttl_seconds, in ticks of the model's clock

ASSUME StoreAssumption ==
    /\ MaxRequests \in Nat
    /\ MaxTraces \in Nat \ {0}
    /\ MaxEvents \in Nat \ {0}
    /\ TTL \in Nat

VARIABLES
    created,   \* how many traces were created so far
    status,    \* status[t]: the status of trace t, "absent" when not stored
    log,       \* log[t]: the kinds of t's events; event seq n is log[t][n]
    age        \* age[t]: time since t was last updated

storeVars == <<created, status, log, age>>

TraceId == 1..MaxRequests

(* What an event tells the reader of a trace: a pipeline stage was done,   *)
(* an answer was produced, or the request failed.                          *)
EventKind == {"stage", "response", "failed"}

TraceStatus == {"absent", "running", "completed", "failed"}

Live == {t \in TraceId : status[t] # "absent"}

(* Faulty: a trace expires one tick early.                                 *)
UnexpiredShort == {t \in Live : age[t] < TTL}

(* The traces _cleanup_locked spares.  It looks at updated_at only: a      *)
(* trace whose request still runs expires like any other.                  *)
Unexpired == {t \in Live : age[t] <= TTL}

(* Faulty: nothing is evicted.                                             *)
SurvivorsAll(L) == {L}

(* Faulty: the youngest go first.                                          *)
SurvivorsOldest(L) ==
    {K \in SUBSET L :
        /\ IF Cardinality(L) < MaxTraces
              THEN K = L
              ELSE Cardinality(K) = MaxTraces - 1
        /\ \A k \in K, d \in L \ K : k < d}

(* What the eviction loop of create leaves of the stored traces L: it      *)
(* deletes the oldest until fewer than MaxTraces are left.                 *)
Survivors(L) ==
    {K \in SUBSET L :
        /\ IF Cardinality(L) < MaxTraces
              THEN K = L
              ELSE Cardinality(K) = MaxTraces - 1
        /\ \A k \in K, d \in L \ K : d < k}

StoreInit ==
    /\ created = 0
    /\ status = [t \in TraceId |-> "absent"]
    /\ log = [t \in TraceId |-> <<>>]
    /\ age = [t \in TraceId |-> 0]

(* Delete every trace outside K from the dictionary.                       *)
KeepOnly(K) ==
    /\ status' = [t \in TraceId |-> IF t \in K THEN status[t] ELSE "absent"]
    /\ log' = [t \in TraceId |-> IF t \in K THEN log[t] ELSE <<>>]
    /\ age' = [t \in TraceId |-> IF t \in K THEN age[t] ELSE 0]

(* create(): expire, evict the oldest traces, insert a running one.        *)
Create ==
    /\ created < MaxRequests
    /\ created' = created + 1
    /\ \E K \in Survivors(Unexpired) :
        /\ status' = [t \in TraceId |->
                        IF t = created + 1 THEN "running"
                        ELSE IF t \in K THEN status[t] ELSE "absent"]
        /\ log' = [t \in TraceId |-> IF t \in K THEN log[t] ELSE <<>>]
        /\ age' = [t \in TraceId |-> IF t \in K THEN age[t] ELSE 0]

(* append() raises: KeyError for a trace that is gone, RuntimeError at the *)
(* event limit.  Neither changes the store.                                *)
AppendRaises(t) == t \notin Live \/ Len(log[t]) >= MaxEvents

(* append(): seq is the new length of the list.                            *)
AppendEvent(t, kind) ==
    /\ ~AppendRaises(t)
    /\ log' = [log EXCEPT ![t] = Append(@, kind)]
    /\ age' = [age EXCEPT ![t] = 0]
    /\ UNCHANGED <<created, status>>

(* complete() and fail(): whatever the status was before.                  *)
Close(t, final) ==
    /\ t \in Live
    /\ status' = [status EXCEPT ![t] = final]
    /\ age' = [age EXCEPT ![t] = 0]
    /\ UNCHANGED <<created, log>>

(* get(): expire, then look the trace up.  What it returns is a copy.      *)
Get ==
    /\ KeepOnly(Unexpired)
    /\ UNCHANGED created

(* Time passes for every stored trace.                                     *)
Tick ==
    /\ age' = [t \in TraceId |->
                 IF t \in Live /\ age[t] <= TTL THEN age[t] + 1 ELSE age[t]]
    /\ UNCHANGED <<created, status, log>>

(* events_after(t, n) returns the events n+1 .. LastSeq(t) and the status. *)
LastSeq(t) == Len(log[t])

StoreNext ==
    \/ Create
    \/ \E t \in TraceId, k \in EventKind : AppendEvent(t, k)
    \/ \E t \in TraceId, s \in {"completed", "failed"} : Close(t, s)
    \/ Get
    \/ Tick

StoreSpec == StoreInit /\ [][StoreNext]_storeVars

-----------------------------------------------------------------------------
(* The state of the store is well formed: ids are given out in order and a *)
(* trace that is not stored has no events and no age.                      *)
StoreTypeOK ==
    /\ created \in 0..MaxRequests
    /\ status \in [TraceId -> TraceStatus]
    /\ log \in [TraceId -> Seq(EventKind)]
    /\ age \in [TraceId -> 0..(TTL + 1)]
    /\ \A t \in TraceId : t > created => status[t] = "absent"
    /\ \A t \in TraceId : Len(log[t]) <= MaxEvents
    /\ \A t \in TraceId : status[t] = "absent" => log[t] = <<>> /\ age[t] = 0

(* The store never holds more than max_traces traces, however creations,   *)
(* expiries and lookups follow one another: this bounds its memory.        *)
StoreBounded == Cardinality(Live) <= MaxTraces

(* A trace disappears only for one of the two reasons the store has: it    *)
(* had expired, or the store was full and every trace kept is younger.     *)
(* And a trace that is gone never comes back under the same id.            *)
EvictionIsJustified ==
    [][/\ \A t \in Live \ Live' :
            \/ age[t] > TTL
            \/ /\ Cardinality(Unexpired) >= MaxTraces
               /\ \A u \in Live' : u > t
       /\ \A t \in Live' \ Live : t > created]_storeVars
=============================================================================
