-------------------------- MODULE LazyModelProofs --------------------------
(***************************************************************************)
(* Proofs about LazyModel for any set of threads and any number of         *)
(* inferences.                                                             *)
(***************************************************************************)
EXTENDS LazyModel, TLAPS

(* The lock is held by the thread that is inside, and the model is         *)
(* constructed by a thread that is inside and found it missing.            *)
LockInv ==
    /\ \A t \in Thread : Inside(t) => lock = t
    /\ \A t \in Thread : pc[t] = "loading" => ~loaded
    /\ loads = IF loaded THEN 1 ELSE 0
    /\ \A t \in Thread : pc[t] \in {"have", "infer"} => loaded

IInv == TypeOK /\ LockInv

LEMMA InitIInv == Init => IInv
  <1> SUFFICES ASSUME Init PROVE IInv
    OBVIOUS
  <1> USE LazyAssumption DEF Init
  <1>1. loaded \in BOOLEAN /\ lock = Free
    BY Zenon
  <1>2. TypeOK
    <2>1. pc \in [Thread -> Location] /\ lock \in Thread \cup {Free}
      BY DEF Location
    <2>2. loads \in Nat /\ calls \in [Thread -> 0..MaxCalls]
      OBVIOUS
    <2>3. QED
      BY <1>1, <2>1, <2>2, Zenon DEF TypeOK
  <1>3. LockInv
    BY <1>1 DEF LockInv, Inside
  <1>4. QED
    BY <1>2, <1>3 DEF IInv

(* Each step of an inference preserves the invariant.                      *)
LEMMA NextIInv == IInv /\ [Next]_vars => IInv'
  <1> SUFFICES ASSUME IInv, [Next]_vars PROVE IInv'
    OBVIOUS
  <1> USE LazyAssumption
      DEF IInv, TypeOK, LockInv, Location, Inside, Goto, Acquire, Release
  <1>1. ASSUME NEW t \in Thread, Call(t) PROVE IInv'
    BY <1>1 DEF Call
  <1>2. ASSUME NEW t \in Thread, Check(t) PROVE IInv'
    BY <1>2 DEF Check
  <1>3. ASSUME NEW t \in Thread, EnterLoad(t) PROVE IInv'
    BY <1>3 DEF EnterLoad
  <1>4. ASSUME NEW t \in Thread, Recheck(t) PROVE IInv'
    BY <1>4 DEF Recheck
  <1>5. ASSUME NEW t \in Thread, Load(t) PROVE IInv'
    BY <1>5 DEF Load
  <1>6. ASSUME NEW t \in Thread, LoadFails(t) PROVE IInv'
    BY <1>6 DEF LoadFails
  <1>7. ASSUME NEW t \in Thread, EnterInfer(t) PROVE IInv'
    BY <1>7 DEF EnterInfer
  <1>8. ASSUME NEW t \in Thread, Infer(t) PROVE IInv'
    BY <1>8 DEF Infer
  <1>9. CASE UNCHANGED vars
    BY <1>9 DEF vars
  <1>10. QED
    BY <1>1, <1>2, <1>3, <1>4, <1>5, <1>6, <1>7, <1>8, <1>9
    DEF Next, Step, Finished

LEMMA Invariance == Spec => []IInv
  <1>1. QED
    BY InitIInv, NextIInv, PTL DEF Spec

(* The state is well formed and the lock is never held from outside.       *)
THEOREM TypeCorrect == Spec => []TypeOK
  <1>1. IInv => TypeOK
    BY DEF IInv
  <1>2. QED
    BY <1>1, Invariance, PTL

(* At most one thread at a time constructs or uses a model.                *)
THEOREM InferenceIsExclusive == Spec => []MutualExclusion
  <1>1. IInv => MutualExclusion
    BY DEF IInv, LockInv, MutualExclusion
  <1>2. QED
    BY <1>1, Invariance, PTL

(* The double-checked load constructs the model at most once.              *)
THEOREM ConstructedOnce == Spec => []LoadedOnce
  <1>1. IInv => LoadedOnce
    BY DEF IInv, TypeOK, LockInv, LoadedOnce
  <1>2. QED
    BY <1>1, Invariance, PTL

(* The unlocked first test never lets an unconstructed model through.      *)
THEOREM NoModelNoInference == Spec => []HaveMeansLoaded
  <1>1. IInv => HaveMeansLoaded
    BY DEF IInv, LockInv, HaveMeansLoaded
  <1>2. QED
    BY <1>1, Invariance, PTL
=============================================================================
