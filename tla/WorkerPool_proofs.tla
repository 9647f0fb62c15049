-------------------------- MODULE WorkerPool_proofs --------------------------
(***************************************************************************)
(* Theorems about WorkerPool, for every number of paths, threads and       *)
(* window.  IInv is inductive; the safety properties follow from it.       *)
(***************************************************************************)
EXTENDS WorkerPool, FiniteSetTheorems, TLAPS

(* Sets of paths are finite: their cardinalities are natural numbers, and  *)
(* that of a subset is no larger.                                          *)
LEMMA PathSetsFinite ==
  ASSUME NEW S \in SUBSET Paths
  PROVE  IsFiniteSet(S) /\ Cardinality(S) \in Nat
<1>1. IsFiniteSet(Paths)
  BY PoolAssumption, FS_Interval DEF Paths
<1> QED
  BY <1>1, FS_Subset, FS_CardinalityType

(* Adding a path to a set without it, and removing one from a set with it, *)
(* change its cardinality by one.                                          *)
LEMMA AddPath ==
  ASSUME NEW S \in SUBSET Paths, NEW i \in Paths, i \notin S
  PROVE  Cardinality(S \cup {i}) = Cardinality(S) + 1
BY PathSetsFinite, FS_AddElement

LEMMA RemovePath ==
  ASSUME NEW S \in SUBSET Paths, NEW i \in S
  PROVE  Cardinality(S \ {i}) = Cardinality(S) - 1
BY PathSetsFinite, FS_RemoveElement

-----------------------------------------------------------------------------

LEMMA InitIInv == Init => IInv
<1> SUFFICES ASSUME Init PROVE IInv
  OBVIOUS
<1> USE PoolAssumption DEF Init
<1>1. TypeOK
  BY DEF TypeOK, Paths
<1>2. Cardinality(inFlight) = 0
  BY FS_EmptySet
<1>3. InFlightSubmitted /\ NothingBeyondIndex /\ PoppedIsStored /\ AtTheEnd
  BY DEF InFlightSubmitted, NothingBeyondIndex, PoppedIsStored, AtTheEnd
<1>4. Counted
  BY <1>2 DEF Counted, Pooled
<1> QED
  BY <1>1, <1>2, <1>3, <1>4 DEF IInv

(* What every step's proof needs of the state it starts from.              *)
LEMMA InFlightFinite ==
  ASSUME IInv
  PROVE  /\ inFlight \in SUBSET Paths
         /\ Cardinality(inFlight) \in Nat
         /\ inFlight = {} => Cardinality(inFlight) = 0
BY PathSetsFinite, FS_EmptySet DEF IInv, TypeOK

(* Steps that leave the counters, the results and the tasks alone: the     *)
(* caller only moves on.                                                   *)
LEMMA MovingKeepsIInv ==
  ASSUME IInv,
         \/ CreatePool \/ CreateFails \/ FillDone \/ Wait
         \/ SyncReturn \/ Join \/ Interrupt \/ UNCHANGED vars
  PROVE  IInv'
<1> USE InFlightFinite, PoolAssumption
<1>1. CASE CreatePool
  BY <1>1 DEF CreatePool, IInv, TypeOK, InFlightSubmitted, NothingBeyondIndex,
              PoppedIsStored, Counted, AtTheEnd, Pooled, Finished, pool
<1>2. CASE CreateFails
  BY <1>2 DEF CreateFails, IInv, TypeOK, InFlightSubmitted, NothingBeyondIndex,
              PoppedIsStored, Counted, AtTheEnd, Pooled, Finished, pool
<1>3. CASE FillDone
  BY <1>3 DEF FillDone, CanSubmit, IInv, TypeOK, InFlightSubmitted, NothingBeyondIndex,
              PoppedIsStored, Counted, AtTheEnd, Pooled, Finished, pool
<1>4. CASE Wait
  BY <1>4 DEF Wait, IInv, TypeOK, InFlightSubmitted, NothingBeyondIndex,
              PoppedIsStored, Counted, AtTheEnd, Pooled, Finished, pool
<1>5. CASE SyncReturn
  BY <1>5 DEF SyncReturn, IInv, TypeOK, InFlightSubmitted, NothingBeyondIndex,
              PoppedIsStored, Counted, AtTheEnd, Pooled, Finished, pool
<1>6. CASE Join
  BY <1>6 DEF Join, IInv, TypeOK, InFlightSubmitted, NothingBeyondIndex,
              PoppedIsStored, Counted, AtTheEnd, Pooled, Finished, pool
<1>7. CASE Interrupt
  BY <1>7 DEF Interrupt, IInv, TypeOK, InFlightSubmitted, NothingBeyondIndex,
              PoppedIsStored, Counted, AtTheEnd, Pooled, Finished, pool
<1>8. CASE UNCHANGED vars
  BY <1>8 DEF vars, call, pool, IInv, TypeOK, InFlightSubmitted, NothingBeyondIndex,
              PoppedIsStored, Counted, AtTheEnd, Pooled, Finished
<1> QED
  BY <1>1, <1>2, <1>3, <1>4, <1>5, <1>6, <1>7, <1>8

(* Submit puts the next path, and only it, in flight.                      *)
LEMMA SubmitKeepsIInv ==
  ASSUME IInv, Submit
  PROVE  IInv'
<1> USE InFlightFinite, PoolAssumption DEF Submit, CanSubmit, IInv
<1>1. index + 1 \in Paths /\ index + 1 \notin inFlight
  BY DEF TypeOK, InFlightSubmitted, Paths
<1>2. Cardinality(inFlight') = Cardinality(inFlight) + 1
  BY <1>1, AddPath
<1>3. future' = [future EXCEPT ![index + 1] = "queued"]
  OBVIOUS
<1>4. TypeOK'
  BY <1>1 DEF TypeOK, Waiting, Paths
<1>5. InFlightSubmitted'
  BY <1>1 DEF InFlightSubmitted, TypeOK, Finished, Paths
<1>6. NothingBeyondIndex'
  BY <1>1 DEF NothingBeyondIndex, TypeOK, Paths
<1>7. PoppedIsStored'
  BY <1>1 DEF PoppedIsStored, TypeOK, Finished, Paths
<1>8. Cardinality(inFlight)' <= Window
  BY <1>2
<1>9. Counted'
  BY <1>2 DEF Counted, Pooled, TypeOK
<1>10. AtTheEnd'
  BY DEF AtTheEnd
<1> QED
  BY <1>4, <1>5, <1>6, <1>7, <1>8, <1>9, <1>10

(* A refused submit leaves one queued task outside in_flight.              *)
LEMMA SubmitRefusedKeepsIInv ==
  ASSUME IInv, SubmitRefused
  PROVE  IInv'
<1> USE InFlightFinite, PoolAssumption DEF SubmitRefused, CanSubmit, IInv
<1>1. index + 1 \in Paths
  BY DEF TypeOK, Paths
<1>2. TypeOK'
  BY <1>1 DEF TypeOK, Waiting
<1>3. InFlightSubmitted'
  BY <1>1 DEF InFlightSubmitted, TypeOK, Finished, Paths
<1>4. NothingBeyondIndex'
  BY <1>1 DEF NothingBeyondIndex, TypeOK, Paths
<1>5. PoppedIsStored'
  BY <1>1 DEF PoppedIsStored, TypeOK, Finished, Paths
<1>6. Counted' /\ AtTheEnd' /\ Cardinality(inFlight)' <= Window
  BY DEF Counted, AtTheEnd, Pooled, TypeOK
<1> QED
  BY <1>2, <1>3, <1>4, <1>5, <1>6

(* Collect moves one finished future from in_flight to the results.        *)
LEMMA CollectKeepsIInv ==
  ASSUME IInv, NEW i \in Paths, Collect(i)
  PROVE  IInv'
<1> USE InFlightFinite, PoolAssumption DEF Collect, IInv, pool
<1>1. i \in inFlight /\ Finished(i)
  BY DEF InFlightSubmitted
<1>2. Cardinality(inFlight') = Cardinality(inFlight) - 1
  BY <1>1, RemovePath
<1>3. Cardinality(inFlight') \in Nat
  BY PathSetsFinite DEF TypeOK
<1>4. StoredFor(future[i]) \in Answers \cup {Default}
  BY <1>1 DEF StoredFor, Finished, Outcomes
<1>5. done + 1 <= index - Cardinality(inFlight')
  BY <1>2, <1>3 DEF Counted, Pooled, TypeOK
<1>6. done + 1 \in 0..N
  BY <1>3, <1>5 DEF TypeOK
<1>7. TypeOK'
  BY <1>4, <1>6 DEF TypeOK
<1>8. InFlightSubmitted'
  BY DEF InFlightSubmitted, TypeOK, Finished
<1>9. NothingBeyondIndex'
  BY <1>2 DEF NothingBeyondIndex, TypeOK
<1>10. PoppedIsStored'
  BY <1>1 DEF PoppedIsStored, TypeOK, Finished, Paths
<1>11. Counted'
  BY <1>2, <1>3, <1>5 DEF Counted, Pooled, TypeOK
<1>12. AtTheEnd' /\ Cardinality(inFlight)' <= Window
  BY <1>2, <1>3 DEF AtTheEnd
<1> QED
  BY <1>7, <1>8, <1>9, <1>10, <1>11, <1>12

(* The synchronous loop evaluates and stores in one step.                  *)
LEMMA SyncStepKeepsIInv ==
  ASSUME IInv, SyncStep
  PROVE  IInv'
<1> USE InFlightFinite, PoolAssumption DEF SyncStep, IInv
<1>1. index + 1 \in Paths /\ inFlight = {}
  BY DEF TypeOK, AtTheEnd, Paths
<1>2. PICK o \in Outcomes :
        /\ future' = [future EXCEPT ![index + 1] = o]
        /\ results' = [results EXCEPT ![index + 1] = StoredFor(o)]
  OBVIOUS
<1>3. StoredFor(o) \in Answers \cup {Default}
  BY DEF StoredFor, Outcomes
<1>4. TypeOK'
  BY <1>1, <1>2, <1>3 DEF TypeOK, Paths
<1>5. InFlightSubmitted'
  BY <1>1 DEF InFlightSubmitted
<1>6. NothingBeyondIndex'
  BY <1>1, <1>2 DEF NothingBeyondIndex, TypeOK, Paths
<1>7. PoppedIsStored'
  BY <1>1, <1>2 DEF PoppedIsStored, TypeOK, Finished, Paths
<1>8. Counted' /\ AtTheEnd' /\ Cardinality(inFlight)' <= Window
  BY <1>1 DEF Counted, AtTheEnd, Pooled, TypeOK
<1> QED
  BY <1>4, <1>5, <1>6, <1>7, <1>8

(* The threads only move a task that is waiting towards its outcome.       *)
LEMMA ThreadKeepsIInv ==
  ASSUME IInv, NEW i \in Paths, Start(i) \/ Finish(i)
  PROVE  IInv'
<1> USE InFlightFinite, PoolAssumption DEF Start, Finish, IInv, call
<1>1. PICK f \in {"running"} \cup Outcomes : future' = [future EXCEPT ![i] = f]
  OBVIOUS
<1>2. future[i] \in Waiting
  BY DEF Waiting
<1>3. future[i] # "new" /\ ~Finished(i)
  BY <1>2 DEF Finished, Waiting
<1>4. TypeOK'
  BY <1>1 DEF TypeOK, Waiting
<1>5. InFlightSubmitted'
  BY <1>1, <1>3 DEF InFlightSubmitted, TypeOK, Finished
<1>6. NothingBeyondIndex'
  BY <1>1, <1>3 DEF NothingBeyondIndex, TypeOK
<1>7. PoppedIsStored'
  BY <1>1, <1>3 DEF PoppedIsStored, TypeOK, Finished, Paths
<1>8. Counted' /\ AtTheEnd' /\ Cardinality(inFlight)' <= Window
  BY DEF Counted, AtTheEnd, Pooled
<1> QED
  BY <1>4, <1>5, <1>6, <1>7, <1>8

LEMMA NextKeepsIInv == IInv /\ [Next]_vars => IInv'
<1> SUFFICES ASSUME IInv, [Next]_vars PROVE IInv'
  OBVIOUS
<1>1. CASE CallerStep
  BY <1>1, MovingKeepsIInv, SubmitKeepsIInv, SubmitRefusedKeepsIInv,
     CollectKeepsIInv, SyncStepKeepsIInv DEF CallerStep
<1>2. CASE Interrupt \/ Terminated \/ UNCHANGED vars
  BY <1>2, MovingKeepsIInv DEF Terminated
<1>3. CASE \E i \in Paths : Start(i) \/ Finish(i)
  BY <1>3, ThreadKeepsIInv
<1> QED
  BY <1>1, <1>2, <1>3 DEF Next

(* The locals of _run_workers stay consistent with each other and with the *)
(* executor, in every reachable state.                                     *)
THEOREM Inductive == Spec => []IInv
BY InitIInv, NextKeepsIInv, PTL DEF Spec

-----------------------------------------------------------------------------
(* What follows from it.                                                   *)

(* Every local of _run_workers keeps its type.                             *)
THEOREM TypeCorrect == Spec => []TypeOK
<1>1. IInv => TypeOK
  BY DEF IInv
<1> QED
  BY <1>1, Inductive, PTL

(* "Only a bounded window of tasks is in flight at once", refused threads  *)
(* and interrupts included.                                                *)
THEOREM WindowRespected == Spec => []WindowBound
<1>1. ASSUME IInv PROVE WindowBound
  <2> USE <1>1, InFlightFinite, PoolAssumption
  <2>1. Unfinished \subseteq 1..(index + 1) /\ Unfinished \in SUBSET Paths
    BY DEF IInv, TypeOK, NothingBeyondIndex, Unfinished, Waiting, Paths
  <2>2. \A i \in 1..index : i \in Unfinished => i \in inFlight
    BY DEF IInv, PoppedIsStored, Unfinished, Finished
  <2>3. CASE index + 1 \in Unfinished
    <3>1. Cardinality(inFlight) < Window
      BY <2>1, <2>3 DEF IInv, TypeOK, NothingBeyondIndex, Unfinished, Waiting
    <3>2. Unfinished \subseteq inFlight \cup {index + 1}
      BY <2>1, <2>2 DEF IInv, TypeOK
    <3>3. index + 1 \in Paths /\ index + 1 \notin inFlight
      BY <2>1, <2>3 DEF IInv, TypeOK, InFlightSubmitted
    <3>4. Cardinality(inFlight \cup {index + 1}) = Cardinality(inFlight) + 1
      BY <3>3, AddPath
    <3>5. inFlight \cup {index + 1} \in SUBSET Paths
      BY <3>3
    <3>6. Cardinality(Unfinished) <= Cardinality(inFlight \cup {index + 1})
      BY <3>2, <3>5, PathSetsFinite, FS_Subset
    <3> QED
      BY <3>1, <3>4, <3>6, <2>1, PathSetsFinite DEF WindowBound
  <2>4. CASE index + 1 \notin Unfinished
    <3>1. Unfinished \subseteq inFlight
      BY <2>1, <2>2, <2>4 DEF IInv, TypeOK
    <3>2. Cardinality(Unfinished) <= Cardinality(inFlight)
      BY <3>1, PathSetsFinite, FS_Subset
    <3> QED
      BY <3>2, <2>1, PathSetsFinite DEF WindowBound, IInv
  <2> QED
    BY <2>3, <2>4
<1> QED
  BY <1>1, Inductive, PTL

(* The window verify computes: at least 64 and at most 256 evaluations are *)
(* what an interrupted verification can still have to wait for.            *)
THEOREM WindowInRange ==
  ASSUME NEW workers \in Nat
  PROVE  WindowFor(workers) \in 64..256
BY DEF WindowFor

(* A verification that returns gives every path the status its own         *)
(* evaluation produced, at its own position.                               *)
THEOREM OrderPreserved == Spec => []ReturnsEveryResult
<1>1. ASSUME IInv PROVE ReturnsEveryResult
  <2> SUFFICES ASSUME pc = "returned", NEW i \in Paths
               PROVE  /\ Finished(i)
                      /\ Reported(results[i]) =
                           IF future[i] = Raised THEN OnFailure ELSE future[i]
    BY DEF ReturnsEveryResult
  <2>1. Finished(i) /\ results[i] = StoredFor(future[i])
    BY <1>1 DEF IInv, AtTheEnd, PoppedIsStored, Paths
  <2> QED
    BY <2>1, PoolAssumption DEF Finished, Outcomes, StoredFor, Reported
<1> QED
  BY <1>1, Inductive, PTL

(* The progress bar counts evaluated paths only, and ends full.            *)
THEOREM ProgressIsHonest == Spec => []ProgressHonest
<1>1. ASSUME IInv PROVE ProgressHonest
  <2> USE <1>1, InFlightFinite, PoolAssumption
  <2> DEFINE Popped == 1..index \ inFlight
             Evaluated == {i \in Paths : Finished(i)}
  <2>1. IsFiniteSet(Popped) /\ Popped \in SUBSET Paths
    BY PathSetsFinite DEF IInv, TypeOK, Paths
  <2>2. Popped \cup inFlight = 1..index /\ Popped \cap inFlight = {}
    BY DEF IInv, InFlightSubmitted
  <2>3. Cardinality(1..index) = index
    BY FS_Interval DEF IInv, TypeOK
  <2>4. Cardinality(Popped) + Cardinality(inFlight) = index
    <3>1. IsFiniteSet(inFlight) /\ Cardinality(Popped) \in Nat
      BY <2>1, PathSetsFinite
    <3> HIDE DEF Popped
    <3>2. Cardinality(Popped \cup inFlight) =
            Cardinality(Popped) + Cardinality(inFlight) - Cardinality(Popped \cap inFlight)
      BY <2>1, <3>1, FS_Union
    <3>3. Cardinality(Popped \cap inFlight) = 0
      BY <2>2, FS_EmptySet
    <3>4. Cardinality(Popped \cup inFlight) = index
      BY <2>2, <2>3
    <3> QED
      BY <3>1, <3>2, <3>3, <3>4
  <2>5. Cardinality(Popped) <= Cardinality(Evaluated)
    <3>1. Popped \subseteq Evaluated /\ Evaluated \in SUBSET Paths
      BY <2>1 DEF IInv, PoppedIsStored
    <3> QED
      BY <3>1, PathSetsFinite, FS_Subset
  <2>6. Cardinality(Evaluated) \in Nat /\ Cardinality(Popped) \in Nat
    BY <2>1, PathSetsFinite
  <2>7. progress <= Cardinality(Evaluated)
    <3> HIDE DEF Popped, Evaluated
    <3> QED
      BY <2>4, <2>5, <2>6 DEF IInv, Counted, TypeOK
  <2> QED
    BY <2>7 DEF ProgressHonest, IInv, AtTheEnd
<1> QED
  BY <1>1, Inductive, PTL

(* The progress bar never goes back.                                       *)
THEOREM ProgressMonotone == Spec => ProgressNeverRetreats
<1>1. ASSUME IInv, [Next]_vars PROVE progress' >= progress
  <2> USE <1>1, InFlightFinite, PoolAssumption
  <2>1. progress \in Nat
    BY DEF IInv, TypeOK
  <2>2. CASE SyncStep
    BY <2>1, <2>2 DEF SyncStep, IInv, Counted, TypeOK
  <2>3. ASSUME NEW i \in Paths, Collect(i) PROVE progress' >= progress
    BY <2>1, <2>3 DEF Collect, IInv, Counted, Pooled, TypeOK
  <2>4. CASE UNCHANGED progress
    BY <2>1, <2>4
  <2> QED
    BY <2>2, <2>3, <2>4 DEF Next, CallerStep, CreatePool, CreateFails, Submit,
       SubmitRefused, FillDone, Wait, SyncReturn, Join, Interrupt, Start, Finish,
       Terminated, vars, call
<1> QED
  BY <1>1, Inductive, PTL DEF Spec, ProgressNeverRetreats

-----------------------------------------------------------------------------
(* The refinement: the only steps a caller can see are the end of an       *)
(* evaluation (by a thread or by the synchronous loop) and the end of the  *)
(* call; everything else is a stutter of OrderedMap.                       *)

LEMMA InitRefines == Init => Map!Init
BY PoolAssumption DEF Init, Map!Init, Finished, Paths

InCall(p) == p \notin {"returned", "raised"}

(* A path that gets its outcome is OrderedMap's Evaluate of that path.     *)
LEMMA EvaluationRefines ==
  ASSUME IInv, NEW i \in Paths, NEW o \in Outcomes, ~Finished(i),
         future' = [future EXCEPT ![i] = o], pc' = pc,
         results' = results \/ pc # "returned"
  PROVE  Map!Next
<1>1. future \in [Paths -> Outcomes \cup {"new"} \cup Waiting]
  BY DEF IInv, TypeOK
<1>2. [j \in Paths |-> IF Finished(j) THEN future[j] ELSE "new"]' =
        [[j \in Paths |-> IF Finished(j) THEN future[j] ELSE "new"] EXCEPT ![i] = o]
  BY <1>1 DEF Finished
<1>3. Map!Evaluate(i)
  BY <1>2 DEF Map!Evaluate
<1> QED
  BY <1>3 DEF Map!Next, Paths

(* A step that gives no path its outcome and stays inside the call.        *)
LEMMA InvisibleRefines ==
  ASSUME IInv, InCall(pc), InCall(pc'),
         \A j \in Paths : Finished(j)' = Finished(j) /\ (Finished(j) => future'[j] = future[j])
  PROVE  UNCHANGED Map!vars
BY DEF InCall, Map!vars

(* A step that leaves the call by an exception.                            *)
LEMMA RaiseRefines ==
  ASSUME InCall(pc), pc' = "raised", UNCHANGED <<future, results>>
  PROVE  Map!Next
BY DEF InCall, Map!Next, Map!Raise, Finished

(* A step that returns: by IInv' every path is finished and stored.        *)
LEMMA ReturnRefines ==
  ASSUME IInv, IInv', InCall(pc), pc' = "returned", UNCHANGED <<future, results>>
  PROVE  Map!Next
<1>1. \A i \in Paths : Finished(i) /\ results[i] = StoredFor(future[i])
  BY PoolAssumption DEF IInv, AtTheEnd, PoppedIsStored, TypeOK, Finished, Paths
<1>2. Map!Return
  BY <1>1, PoolAssumption DEF InCall, Map!Return, Finished, Paths, Outcomes
<1> QED
  BY <1>2 DEF Map!Next

LEMMA StepRefines == IInv /\ IInv' /\ [Next]_vars => [Map!Next]_(Map!vars)
<1> SUFFICES ASSUME IInv, IInv', [Next]_vars PROVE Map!Next \/ UNCHANGED Map!vars
  OBVIOUS
<1> USE PoolAssumption
<1>1. future \in [Paths -> Outcomes \cup {"new"} \cup Waiting]
  BY DEF IInv, TypeOK
<1>2. CASE CreatePool \/ FillDone \/ Wait \/ (\E i \in Paths : Collect(i))
  BY <1>2, InvisibleRefines DEF InCall, CreatePool, FillDone, Wait, Collect, pool, Finished
<1>3. CASE CreateFails
  BY <1>3, InvisibleRefines, RaiseRefines DEF InCall, CreateFails, pool, Finished
<1>4. CASE Submit \/ SubmitRefused
  <2>1. index + 1 \in Paths /\ future[index + 1] = "new"
    BY <1>4 DEF Submit, SubmitRefused, CanSubmit, IInv, TypeOK, NothingBeyondIndex, Paths
  <2> QED
    BY <1>1, <1>4, <2>1, InvisibleRefines
    DEF InCall, Submit, SubmitRefused, CanSubmit, Finished, Waiting
<1>5. CASE SyncStep
  <2>1. index + 1 \in Paths /\ future[index + 1] = "new" /\ pc' = pc /\ pc # "returned"
    BY <1>5 DEF SyncStep, IInv, TypeOK, NothingBeyondIndex, Paths
  <2>2. ~Finished(index + 1)
    BY <2>1 DEF Finished
  <2>3. PICK o \in Outcomes : future' = [future EXCEPT ![index + 1] = o]
    BY <1>5 DEF SyncStep
  <2> QED
    BY <2>1, <2>2, <2>3, EvaluationRefines
<1>6. CASE SyncReturn
  BY <1>6, ReturnRefines DEF InCall, SyncReturn, pool
<1>7. CASE Join
  BY <1>7, ReturnRefines, RaiseRefines DEF InCall, Join, pool
<1>8. CASE Interrupt
  BY <1>8, InvisibleRefines, RaiseRefines DEF InCall, Interrupt, pool, Finished
<1>9. ASSUME NEW i \in Paths, Start(i) PROVE UNCHANGED Map!vars
  BY <1>1, <1>9 DEF Start, call, Map!vars, Finished, Waiting
<1>10. ASSUME NEW i \in Paths, Finish(i) PROVE Map!Next
  <2>1. ~Finished(i)
    BY <1>10 DEF Finish, Finished, Waiting
  <2>2. PICK o \in Outcomes : future' = [future EXCEPT ![i] = o]
    BY <1>10 DEF Finish
  <2> QED
    BY <1>10, <2>1, <2>2, EvaluationRefines DEF Finish, call
<1>11. CASE Terminated \/ UNCHANGED vars
  BY <1>11 DEF Terminated, vars, call, pool, Map!vars, Finished
<1> QED
  BY <1>2, <1>3, <1>4, <1>5, <1>6, <1>7, <1>8, <1>9, <1>10, <1>11 DEF Next, CallerStep

(* Whatever the threads, the window, the fallback and the interrupts do, a *)
(* call of verify_paths is an ordered map: each path evaluated at most     *)
(* once, and the output the outcomes in the order of the input.            *)
THEOREM PoolImplementsOrderedMap == Spec => ImplementsOrderedMap
BY InitRefines, StepRefines, Inductive, PTL DEF Spec, ImplementsOrderedMap, Map!Spec
=============================================================================
