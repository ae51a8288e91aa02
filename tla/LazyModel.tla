----------------------------- MODULE LazyModel -----------------------------
(***************************************************************************)
(* The lazily loaded local models of the service: BgeM3Embedder            *)
(* (app/retrieval/embedder.py) and BgeReranker (app/retrieval/reranker.py) *)
(* share one scheme.  Retrieval runs in worker threads; each inference     *)
(* first gets the model with a double-checked load and then runs it, both  *)
(* under one non-reentrant threading.Lock.                                 *)
(***************************************************************************)
EXTENDS Naturals

CONSTANTS
    Thread,      \* the worker threads
    Free,        \* the value of the lock when no thread holds it
    MaxCalls     \* bound of the model: inferences per thread

ASSUME LazyAssumption ==
    /\ Free \notin Thread
    /\ MaxCalls \in Nat

VARIABLES
    pc,       \* pc[t]: where thread t is in an inference
    lock,     \* the holder of _lock, or Free
    loaded,   \* _model is not None
    loads,    \* how many times a model was constructed
    calls     \* calls[t]: inferences thread t has begun

vars == <<pc, lock, loaded, loads, calls>>

(* "check": first test, without the lock; "lock": waits to load;           *)
(* "recheck": second test, under the lock; "loading": constructs the       *)
(* model; "have": _load_model has returned; "infer": inference under the   *)
(* lock.                                                                   *)
Location == {"idle", "check", "lock", "recheck", "loading", "have", "infer"}

Init ==
    /\ pc = [t \in Thread |-> "idle"]
    /\ lock = Free
    /\ loaded = FALSE
    /\ loads = 0
    /\ calls = [t \in Thread |-> 0]

Goto(t, from, to) == pc[t] = from /\ pc' = [pc EXCEPT ![t] = to]

(* _encode or rerank is called with something to do.                       *)
Call(t) ==
    /\ Goto(t, "idle", "check")
    /\ calls[t] < MaxCalls
    /\ calls' = [calls EXCEPT ![t] = @ + 1]
    /\ UNCHANGED <<lock, loaded, loads>>

(* if self._model is not None: return self._model                          *)
Check(t) ==
    /\ Goto(t, "check", IF loaded THEN "have" ELSE "lock")
    /\ UNCHANGED <<lock, loaded, loads, calls>>

(* Faulty: the lock is taken although another thread holds it.             *)
AcquireAlways(t) == lock' = t

(* with self._lock: the lock is granted to any of the waiting threads.     *)
Acquire(t) == lock = Free /\ lock' = t

(* Leaving the with block, by its end or by an exception.                  *)
Release(t) == lock' = Free

EnterLoad(t) ==
    /\ Goto(t, "lock", "recheck")
    /\ Acquire(t)
    /\ UNCHANGED <<loaded, loads, calls>>

(* Faulty: no second test under the lock.                                  *)
RecheckNothing(t) ==
    /\ Goto(t, "recheck", "loading")
    /\ UNCHANGED <<lock, loaded, loads, calls>>

(* The second test: another thread may have loaded the model meanwhile.    *)
Recheck(t) ==
    /\ IF loaded
          THEN Goto(t, "recheck", "have") /\ Release(t)
          ELSE Goto(t, "recheck", "loading") /\ UNCHANGED lock
    /\ UNCHANGED <<loaded, loads, calls>>

(* The model is constructed and assigned.                                  *)
Load(t) ==
    /\ Goto(t, "loading", "have")
    /\ loaded' = TRUE
    /\ loads' = loads + 1
    /\ Release(t)
    /\ UNCHANGED calls

(* Faulty: the exception is swallowed.                                     *)
LoadFailsSilently(t) ==
    /\ Goto(t, "loading", "have")
    /\ Release(t)
    /\ UNCHANGED <<loaded, loads, calls>>

(* Faulty: the exception starts the load again.                            *)
LoadFailsAndRetries(t) ==
    /\ Goto(t, "loading", "lock")
    /\ Release(t)
    /\ UNCHANGED <<loaded, loads, calls>>

(* The library is missing or the construction fails: the exception ends    *)
(* the inference, the next one tries again.                                *)
LoadFails(t) ==
    /\ Goto(t, "loading", "idle")
    /\ Release(t)
    /\ UNCHANGED <<loaded, loads, calls>>

EnterInfer(t) ==
    /\ Goto(t, "have", "infer")
    /\ Acquire(t)
    /\ UNCHANGED <<loaded, loads, calls>>

(* encode or compute_score returns or raises.                              *)
Infer(t) ==
    /\ Goto(t, "infer", "idle")
    /\ Release(t)
    /\ UNCHANGED <<loaded, loads, calls>>

Step(t) ==
    \/ Check(t) \/ EnterLoad(t) \/ Recheck(t) \/ Load(t) \/ LoadFails(t)
    \/ EnterInfer(t) \/ Infer(t)

(* All inferences are over: the only state without a next step.            *)
Finished ==
    /\ \A t \in Thread : pc[t] = "idle" /\ calls[t] = MaxCalls
    /\ UNCHANGED vars

Next ==
    \/ \E t \in Thread : Call(t) \/ Step(t)
    \/ Finished

Spec == Init /\ [][Next]_vars

(* A running thread goes on and a construction or an inference ends.  The  *)
(* lock promises no order among the waiting, so only weak fairness.        *)
FairSpec == Spec /\ \A t \in Thread : WF_vars(Step(t))

-----------------------------------------------------------------------------
Inside(t) == pc[t] \in {"recheck", "loading", "infer"}

(* The state is well formed, and the lock is held only from within: no     *)
(* exit from a with block forgets it.                                      *)
TypeOK ==
    /\ pc \in [Thread -> Location]
    /\ lock \in Thread \cup {Free}
    /\ loaded \in BOOLEAN
    /\ loads \in Nat
    /\ calls \in [Thread -> 0..MaxCalls]
    /\ lock # Free => Inside(lock)

(* The models are not thread-safe: no two threads are ever inside the      *)
(* construction or an inference together (embedder.py:41, 59).             *)
MutualExclusion ==
    \A s, t \in Thread : Inside(s) /\ Inside(t) => s = t

(* The model, gigabytes of memory, is constructed at most once, however    *)
(* many threads find it missing at the same time (embedder.py:39-42).      *)
LoadedOnce == loads <= 1

(* Nobody gets a model that was not constructed, although the first test   *)
(* reads _model without the lock.                                          *)
HaveMeansLoaded ==
    \A t \in Thread : pc[t] \in {"have", "infer"} => loaded

(* Every inference ends, also when constructions fail while others wait.   *)
CallsEnd == \A t \in Thread : pc[t] # "idle" ~> pc[t] = "idle"
=============================================================================
