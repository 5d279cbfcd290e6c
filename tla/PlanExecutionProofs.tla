------------------------ MODULE PlanExecutionProofs ------------------------
(***************************************************************************)
(* Proofs about PlanExecution, for any number of tasks and drivers and any *)
(* plan.                                                                   *)
(***************************************************************************)
EXTENDS PlanExecution, FiniteSetTheorems, TLAPS

\* The tasks that were ever started, and whether a driver was rejected.
Started  == {t \in Tasks : started[t] > 0}
Rejected == \E d \in Drivers : driver[d] = "rejected"

\* The counter tells which states a task has been through.
StartsCounted ==
  \A t \in Tasks :
    started[t] = IF state[t] \in {"running", "succeeded", "failed"} THEN 1 ELSE 0

\* A running task is awaited by a driver, unless one was rejected.
RunningIsAwaited ==
  \A t \in Tasks :
    state[t] = "running" => Rejected \/ \E d \in Drivers : t \in awaits[d]

\* Tasks are cancelled only by cancel(), which leaves none pending.
CancelledAll ==
  \A t \in Tasks :
    /\ state[t] = "cancelled" => cancelled
    /\ state[t] = "pending" => ~cancelled

\* Every iteration of a driver that goes on has started a task.
IterationsPaid ==
  \A d \in Drivers :
    driver[d] \in {"idle", "driving"} => iterations[d] <= Cardinality(Started)

\* When every driver that was called has returned, nothing could be started.
Exhausted ==
  /\ MaxIterations >= Cardinality(Tasks)
  /\ \E d \in Drivers : driver[d] = "returned"
  /\ \A d \in Drivers : driver[d] \in {"idle", "returned"}
  => Candidates = {}

IInv ==
  /\ TypeOK
  /\ StartsCounted
  /\ DependenciesFirst
  /\ RunningIsAwaited
  /\ CancelledAll
  /\ IterationsPaid
  /\ Exhausted

-----------------------------------------------------------------------------
(* Lemmas.                                                                 *)

\* What dequeueReady() takes from the pending tasks, and what it leaves.
LEMMA Dequeued ==
  /\ Candidates \subseteq {t \in Tasks : state[t] = "pending"}
  /\ \A t \in Candidates : \A u \in plan.dependsOn[t] : state[u] = "succeeded"
  /\ Ready \cup Skipped \subseteq Candidates
  /\ Ready \cap Skipped = {}
  /\ ~cancelled => Candidates = Ready \cup Skipped
  /\ cancelled => Ready = {} /\ Skipped = {}
<1>1. Candidates \subseteq {t \in Tasks : state[t] = "pending"}
  BY DEF Candidates
<1>2. \A t \in Candidates : \A u \in plan.dependsOn[t] : state[u] = "succeeded"
  BY DEF Candidates, DependenciesSatisfied
<1>3. Ready \cup Skipped \subseteq Candidates
  BY DEF Ready, Skipped
<1>4. Ready \cap Skipped = {}
  BY DEF Ready, Skipped
<1>5. /\ ~cancelled => Candidates = Ready \cup Skipped
      /\ cancelled => Ready = {} /\ Skipped = {}
  BY DEF Ready, Skipped
<1> QED
  BY <1>1, <1>2, <1>3, <1>4, <1>5

\* The number of started tasks is a natural number, bounded by the plan's size.
LEMMA StartedSize ==
  /\ IsFiniteSet(Started)
  /\ Cardinality(Started) \in Nat
  /\ Cardinality(Started) <= Cardinality(Tasks)
  /\ Cardinality(Started) = Cardinality(Tasks) => Started = Tasks
<1>1. Started \subseteq Tasks
  BY DEF Started
<1>2. IsFiniteSet(Tasks)
  BY ConstantsAssumption
<1> QED
  BY <1>1, <1>2, FS_Subset, FS_CardinalityType

\* Starting another task makes that number grow, and nothing makes it shrink.
LEMMA StartedGrows ==
  ASSUME NEW S \in SUBSET Tasks, Started' = Started \cup S
  PROVE  /\ Cardinality(Started) <= Cardinality(Started')
         /\ S \cap Started = {} /\ S # {} =>
              Cardinality(Started) + 1 <= Cardinality(Started')
<1>1. Started' \subseteq Tasks
  BY DEF Started
<1>2. IsFiniteSet(Tasks)
  BY ConstantsAssumption
<1>3. IsFiniteSet(Started') /\ Cardinality(Started') \in Nat
  BY <1>1, <1>2, FS_Subset, FS_CardinalityType
<1>4. IsFiniteSet(Started) /\ Cardinality(Started) \in Nat
  BY StartedSize
<1>5. Cardinality(Started) <= Cardinality(Started')
  BY <1>3, FS_Subset
<1>6. ASSUME S \cap Started = {}, S # {}, Cardinality(Started) = Cardinality(Started')
      PROVE  FALSE
  BY <1>3, <1>6, FS_Subset
<1> QED
  BY <1>3, <1>4, <1>5, <1>6

-----------------------------------------------------------------------------
(* The inductive invariant.                                                *)

LEMMA InitInv == Init => IInv
<1> SUFFICES ASSUME Init PROVE IInv
  OBVIOUS
<1>1. TypeOK
  <2>1. plan \in PlanType
    BY ConstantsAssumption DEF Init, ConstantsAssumption
  <2>2. /\ state \in [Tasks -> States \ {"ready"}]
        /\ started \in [Tasks -> Nat]
        /\ inFlight \subseteq {t \in Tasks : state[t] = "running"}
    BY DEF Init, States
  <2>3. /\ cancelled \in BOOLEAN
        /\ driver \in [Drivers -> {"idle", "driving", "returned", "rejected"}]
        /\ awaits \in [Drivers -> SUBSET inFlight]
        /\ \A d \in Drivers : driver[d] # "driving" => awaits[d] = {}
    BY DEF Init
  <2>4. iterations \in [Drivers -> 0..MaxIterations]
    BY ConstantsAssumption DEF Init, ConstantsAssumption
  <2> QED
    BY <2>1, <2>2, <2>3, <2>4 DEF TypeOK
<1>2. StartsCounted /\ DependenciesFirst /\ RunningIsAwaited /\ CancelledAll
  BY DEF Init, StartsCounted, DependenciesFirst, RunningIsAwaited, CancelledAll
<1>3. IterationsPaid
  BY StartedSize DEF Init, IterationsPaid
<1>4. Exhausted
  BY DEF Init, Exhausted
<1> QED
  BY <1>1, <1>2, <1>3, <1>4 DEF IInv

\* A turn of a driver's loop, whether it is its first or follows a batch.
LEMMA TurnInv ==
  ASSUME IInv, NEW d \in Drivers, driver[d] \in {"idle", "driving"},
         awaits[d] = {}, Turn(d), plan' = plan, cancelled' = cancelled
  PROVE  IInv'
<1>t. TypeOK
  BY DEF IInv
<1>1. CASE IsComplete \/ iterations[d] >= MaxIterations
  <2>1. /\ driver' = [driver EXCEPT ![d] = "returned"]
        /\ UNCHANGED <<state, started, awaits, iterations, inFlight>>
    BY <1>1 DEF Turn
  <2>2. TypeOK'
    BY <1>t, <2>1 DEF TypeOK
  <2>3. (StartsCounted /\ DependenciesFirst /\ CancelledAll)'
    BY <2>1 DEF IInv, StartsCounted, DependenciesFirst, CancelledAll
  <2>4. RunningIsAwaited'
    <3>1. Rejected => Rejected'
      BY <1>t, <2>1 DEF Rejected, TypeOK
    <3> QED
      BY <2>1, <3>1 DEF IInv, RunningIsAwaited
  <2>5. IterationsPaid'
    BY <1>t, <2>1 DEF IInv, IterationsPaid, Started, TypeOK
  <2>6. Exhausted'
    <3>1. Candidates' = Candidates
      BY <2>1 DEF Candidates, DependenciesSatisfied
    <3>2. ASSUME MaxIterations >= Cardinality(Tasks) PROVE Candidates = {}
      <4>1. CASE IsComplete
        BY <4>1, Dequeued DEF IsComplete, Finished
      <4>2. CASE iterations[d] >= MaxIterations
        <5>1. iterations[d] <= Cardinality(Started)
          BY DEF IInv, IterationsPaid
        <5>2. iterations[d] \in Nat /\ MaxIterations \in Nat
          BY <1>t, ConstantsAssumption DEF TypeOK, ConstantsAssumption
        <5>3. Cardinality(Tasks) \in Nat
          BY ConstantsAssumption, FS_CardinalityType DEF ConstantsAssumption
        <5>4. Started = Tasks
          BY <3>2, <4>2, <5>1, <5>2, <5>3, StartedSize
        <5>5. \A t \in Tasks : state[t] # "pending"
          BY <5>4 DEF Started, IInv, StartsCounted
        <5> QED
          BY <5>5, Dequeued
      <4> QED
        BY <1>1, <4>1, <4>2
    <3> QED
      BY <3>1, <3>2 DEF Exhausted
  <2> QED
    BY <2>2, <2>3, <2>4, <2>5, <2>6 DEF IInv
<1>2. CASE ~(IsComplete \/ iterations[d] >= MaxIterations)
  <2> DEFINE Batch == Ready \cap plan.routed
  <2>1. /\ iterations' = [iterations EXCEPT ![d] = @ + 1]
        /\ inFlight' = inFlight \cup Batch
        /\ awaits' = [awaits EXCEPT ![d] = Batch]
        /\ driver' = [driver EXCEPT ![d] = IF Ready = {} THEN "returned" ELSE "driving"]
    BY <1>2 DEF Turn
  <2>2. state' = [t \in Tasks |->
                    IF t \in Skipped THEN "skipped"
                    ELSE IF t \notin Ready THEN state[t]
                    ELSE IF t \in plan.routed THEN "running" ELSE "failed"]
    BY <1>2 DEF Turn
  <2>3. started' = [t \in Tasks |->
                      IF t \in Ready THEN started[t] + 1 ELSE started[t]]
    BY <1>2 DEF Turn
  <2>4. \A t \in Ready \cup Skipped : t \in Tasks /\ state[t] = "pending"
    BY Dequeued
  <2>5. TypeOK'
    <3>1. state' \in [Tasks -> States \ {"ready"}]
      BY <1>t, <2>2 DEF TypeOK, States
    <3>2. started' \in [Tasks -> Nat]
      BY <1>t, <2>3 DEF TypeOK
    <3>3. iterations' \in [Drivers -> 0..MaxIterations]
      BY <1>t, <1>2, <2>1, ConstantsAssumption DEF TypeOK, ConstantsAssumption
    <3>4. inFlight' \subseteq {t \in Tasks : state'[t] = "running"}
      BY <1>t, <2>1, <2>2, <2>4, Dequeued DEF TypeOK
    <3>5. driver' \in [Drivers -> {"idle", "driving", "returned", "rejected"}]
      BY <1>t, <2>1 DEF TypeOK
    <3>6. awaits' \in [Drivers -> SUBSET inFlight']
      BY <1>t, <2>1 DEF TypeOK
    <3>7. \A e \in Drivers : driver'[e] # "driving" => awaits'[e] = {}
      BY <1>t, <2>1 DEF TypeOK
    <3>8. plan' \in PlanType /\ cancelled' \in BOOLEAN
      BY <1>t DEF TypeOK
    <3> QED
      BY <3>1, <3>2, <3>3, <3>4, <3>5, <3>6, <3>7, <3>8 DEF TypeOK
  <2>6. StartsCounted'
    BY <1>t, <2>2, <2>3, <2>4, Dequeued DEF IInv, StartsCounted, TypeOK
  <2>7. DependenciesFirst'
    <3>1. \A t \in Tasks : state[t] = "succeeded" => state'[t] = "succeeded"
      BY <2>2, <2>4
    <3>2. plan.dependsOn \in [Tasks -> SUBSET Tasks]
      BY <1>t DEF TypeOK, PlanType
    <3>3. SUFFICES ASSUME NEW t \in Tasks, started'[t] > 0,
                          NEW u \in plan.dependsOn[t]
                   PROVE  state[u] = "succeeded"
      BY <3>1, <3>2 DEF DependenciesFirst
    <3>4. CASE t \in Ready
      BY <3>4, Dequeued
    <3>5. CASE t \notin Ready
      BY <2>3, <3>3, <3>5 DEF IInv, DependenciesFirst
    <3> QED
      BY <3>4, <3>5
  <2>8. RunningIsAwaited'
    <3>1. SUFFICES ASSUME NEW t \in Tasks, state'[t] = "running"
                   PROVE  Rejected' \/ \E e \in Drivers : t \in awaits'[e]
      BY DEF RunningIsAwaited
    <3>2. CASE t \in Ready
      <4>1. t \in awaits'[d]
        BY <1>t, <2>1, <2>2, <2>4, <3>1, <3>2, Dequeued DEF TypeOK
      <4> QED
        BY <4>1
    <3>3. CASE t \notin Ready
      <4>1. state[t] = "running"
        BY <2>2, <3>1, <3>3
      <4>2. CASE Rejected
        BY <1>t, <2>1, <4>2 DEF Rejected, TypeOK
      <4>3. ASSUME NEW e \in Drivers, t \in awaits[e] PROVE t \in awaits'[e]
        BY <1>t, <2>1, <4>3 DEF TypeOK
      <4> QED
        BY <4>1, <4>2, <4>3 DEF IInv, RunningIsAwaited
    <3> QED
      BY <3>2, <3>3
  <2>9. CancelledAll'
    BY <2>2, <2>4, Dequeued DEF IInv, CancelledAll
  <2>10. IterationsPaid'
    <3>1. Started' = Started \cup Ready
      BY <1>t, <2>3, <2>4 DEF Started, TypeOK
    <3>2. Ready \in SUBSET Tasks /\ Ready \cap Started = {}
      BY <2>4 DEF Started, IInv, StartsCounted
    <3>3. /\ Cardinality(Started) <= Cardinality(Started')
          /\ Ready # {} => Cardinality(Started) + 1 <= Cardinality(Started')
      BY <3>1, <3>2, StartedGrows
    <3>4. Cardinality(Started) \in Nat /\ Cardinality(Started') \in Nat
      <4>1. IsFiniteSet(Tasks) /\ Started' \subseteq Tasks
        BY ConstantsAssumption DEF ConstantsAssumption, Started
      <4> QED
        BY <4>1, StartedSize, FS_Subset, FS_CardinalityType
    <3>5. SUFFICES ASSUME NEW e \in Drivers, driver'[e] \in {"idle", "driving"}
                   PROVE  iterations'[e] <= Cardinality(Started')
      BY DEF IterationsPaid
    <3>6. CASE e = d
      <4>1. Ready # {}
        BY <1>t, <2>1, <3>5, <3>6 DEF TypeOK
      <4>2. iterations[d] <= Cardinality(Started) /\ iterations[d] \in Nat
        BY <1>t DEF IInv, IterationsPaid, TypeOK
      <4>3. iterations'[d] = iterations[d] + 1
        BY <1>t, <2>1 DEF TypeOK
      <4> QED
        BY <3>3, <3>4, <3>6, <4>1, <4>2, <4>3
    <3>7. CASE e # d
      <4>1. driver[e] \in {"idle", "driving"} /\ iterations'[e] = iterations[e]
        BY <1>t, <2>1, <3>5, <3>7 DEF TypeOK
      <4>2. iterations[e] <= Cardinality(Started) /\ iterations[e] \in Nat
        BY <1>t, <4>1 DEF IInv, IterationsPaid, TypeOK
      <4> QED
        BY <3>3, <3>4, <4>1, <4>2
    <3> QED
      BY <3>6, <3>7
  <2>11. Exhausted'
    <3>1. CASE Ready = {}
      <4>1. \A t \in Tasks : state'[t] = IF t \in Skipped THEN "skipped" ELSE state[t]
        BY <2>2, <3>1
      <4>2. SUFFICES ASSUME NEW t \in Candidates' PROVE FALSE
        BY DEF Exhausted
      <4>3. t \in Tasks /\ state'[t] = "pending"
        BY <4>2 DEF Candidates
      <4>4. \A u \in plan.dependsOn[t] : state'[u] = "succeeded"
        BY <4>2 DEF Candidates, DependenciesSatisfied
      <4>5. plan.dependsOn[t] \subseteq Tasks
        BY <1>t, <4>3 DEF TypeOK, PlanType
      <4>6. \A u \in plan.dependsOn[t] : state[u] = "succeeded"
        BY <4>1, <4>4, <4>5
      <4>7. t \in Candidates /\ t \notin Skipped
        BY <4>1, <4>3, <4>6 DEF Candidates, DependenciesSatisfied
      <4>8. ~cancelled
        BY <4>3, <4>1, <4>7, Dequeued DEF IInv, CancelledAll
      <4> QED
        BY <3>1, <4>7, <4>8, Dequeued
    <3>2. CASE Ready # {}
      <4>1. driver'[d] = "driving"
        BY <1>t, <2>1, <3>2 DEF TypeOK
      <4> QED
        BY <4>1 DEF Exhausted
    <3> QED
      BY <3>1, <3>2
  <2> QED
    BY <2>5, <2>6, <2>7, <2>8, <2>9, <2>10, <2>11 DEF IInv
<1> QED
  BY <1>1, <1>2

\* A tool's result is recorded.
LEMMA SettlesInv ==
  ASSUME IInv, NEW t \in Tasks, NEW outcome \in {"succeeded", "failed"},
         Settles(t, outcome)
  PROVE  IInv'
<1>t. TypeOK
  BY DEF IInv
<1>1. /\ t \in inFlight
      /\ inFlight' = inFlight \ {t}
      /\ state' = [state EXCEPT ![t] = outcome]
      /\ awaits' = [d \in Drivers |-> awaits[d] \ {t}]
      /\ UNCHANGED <<plan, started, cancelled, driver, iterations>>
  BY DEF Settles, Awaited
<1>2. state[t] = "running"
  BY <1>t, <1>1 DEF TypeOK
<1>3. TypeOK'
  <2>1. state' \in [Tasks -> States \ {"ready"}]
    BY <1>t, <1>1 DEF TypeOK, States
  <2>2. awaits' \in [Drivers -> SUBSET inFlight']
    BY <1>t, <1>1 DEF TypeOK
  <2>3. \A d \in Drivers : driver'[d] # "driving" => awaits'[d] = {}
    BY <1>t, <1>1 DEF TypeOK
  <2>4. inFlight' \subseteq {u \in Tasks : state'[u] = "running"}
    BY <1>t, <1>1 DEF TypeOK
  <2> QED
    BY <1>t, <1>1, <2>1, <2>2, <2>3, <2>4 DEF TypeOK
<1>4. StartsCounted'
  BY <1>t, <1>1, <1>2 DEF IInv, StartsCounted, TypeOK
<1>5. DependenciesFirst'
  <2>1. \A u \in Tasks : state[u] = "succeeded" => state'[u] = "succeeded"
    BY <1>t, <1>1, <1>2 DEF TypeOK
  <2>2. plan.dependsOn \in [Tasks -> SUBSET Tasks]
    BY <1>t DEF TypeOK, PlanType
  <2> QED
    BY <1>1, <2>1, <2>2 DEF IInv, DependenciesFirst
<1>6. RunningIsAwaited'
  <2>1. Rejected => Rejected'
    BY <1>1 DEF Rejected
  <2>2. ASSUME NEW u \in Tasks, state'[u] = "running"
        PROVE  state[u] = "running" /\ u # t
    BY <1>t, <1>1, <2>2 DEF TypeOK
  <2>3. ASSUME NEW d \in Drivers, NEW u \in awaits[d], u # t
        PROVE  u \in awaits'[d]
    BY <1>1, <2>3
  <2> QED
    BY <2>1, <2>2, <2>3 DEF IInv, RunningIsAwaited
<1>7. CancelledAll'
  BY <1>t, <1>1 DEF IInv, CancelledAll, TypeOK
<1>8. IterationsPaid'
  BY <1>1 DEF IInv, IterationsPaid, Started
<1>9. Exhausted'
  <2>1. CASE Rejected
    BY <1>1, <2>1 DEF Rejected, Exhausted
  <2>2. CASE ~Rejected
    <3>1. PICK d \in Drivers : t \in awaits[d]
      BY <1>2, <2>2 DEF IInv, RunningIsAwaited
    <3>2. driver'[d] = "driving"
      BY <1>t, <1>1, <3>1 DEF TypeOK
    <3> QED
      BY <3>2 DEF Exhausted
  <2> QED
    BY <2>1, <2>2
<1> QED
  BY <1>3, <1>4, <1>5, <1>6, <1>7, <1>8, <1>9 DEF IInv

\* An invocation rejects, and the driver that awaits it with it.
LEMMA RejectsInv ==
  ASSUME IInv, NEW t \in Tasks, Rejects(t)
  PROVE  IInv'
<1>t. TypeOK
  BY DEF IInv
<1>1. /\ t \in inFlight
      /\ inFlight' = inFlight \ {t}
      /\ driver' = [d \in Drivers |-> IF t \in awaits[d] THEN "rejected" ELSE driver[d]]
      /\ awaits' = [d \in Drivers |-> IF t \in awaits[d] THEN {} ELSE awaits[d]]
      /\ UNCHANGED <<plan, state, started, cancelled, iterations>>
  BY DEF Rejects
<1>2. Rejected'
  <2>1. state[t] = "running"
    BY <1>t, <1>1 DEF TypeOK
  <2>2. CASE Rejected
    BY <1>1, <2>2 DEF Rejected
  <2>3. CASE ~Rejected
    BY <1>1, <2>1, <2>3 DEF IInv, RunningIsAwaited, Rejected
  <2> QED
    BY <2>2, <2>3
<1>3. TypeOK'
  <2>1. driver' \in [Drivers -> {"idle", "driving", "returned", "rejected"}]
    BY <1>t, <1>1 DEF TypeOK
  <2>2. awaits' \in [Drivers -> SUBSET inFlight']
    BY <1>t, <1>1 DEF TypeOK
  <2>3. \A d \in Drivers : driver'[d] # "driving" => awaits'[d] = {}
    BY <1>t, <1>1 DEF TypeOK
  <2> QED
    BY <1>t, <1>1, <2>1, <2>2, <2>3 DEF TypeOK
<1>4. (StartsCounted /\ DependenciesFirst /\ CancelledAll)'
  BY <1>1 DEF IInv, StartsCounted, DependenciesFirst, CancelledAll
<1>5. RunningIsAwaited'
  BY <1>2 DEF RunningIsAwaited
<1>6. IterationsPaid'
  BY <1>1 DEF IInv, IterationsPaid, Started
<1>7. Exhausted'
  BY <1>2 DEF Rejected, Exhausted
<1> QED
  BY <1>3, <1>4, <1>5, <1>6, <1>7 DEF IInv

LEMMA CancelInv ==
  ASSUME IInv, Cancel
  PROVE  IInv'
<1>t. TypeOK
  BY DEF IInv
<1>1. /\ cancelled' = TRUE
      /\ state' = [t \in Tasks |-> IF state[t] \in {"pending", "ready"}
                                   THEN "cancelled" ELSE state[t]]
      /\ UNCHANGED <<plan, started, driver, awaits, iterations, inFlight>>
  BY DEF Cancel
<1>2. TypeOK'
  <2>1. state' \in [Tasks -> States \ {"ready"}]
    BY <1>t, <1>1 DEF TypeOK, States
  <2>2. inFlight' \subseteq {t \in Tasks : state'[t] = "running"}
    BY <1>t, <1>1 DEF TypeOK
  <2> QED
    BY <1>t, <1>1, <2>1, <2>2 DEF TypeOK
<1>3. StartsCounted'
  BY <1>1 DEF IInv, StartsCounted
<1>4. DependenciesFirst'
  <2>1. plan.dependsOn \in [Tasks -> SUBSET Tasks]
    BY <1>t DEF TypeOK, PlanType
  <2> QED
    BY <1>1, <2>1 DEF IInv, DependenciesFirst
<1>5. RunningIsAwaited'
  BY <1>1 DEF IInv, RunningIsAwaited, Rejected
<1>6. CancelledAll'
  BY <1>1 DEF CancelledAll
<1>7. IterationsPaid'
  BY <1>1 DEF IInv, IterationsPaid, Started
<1>8. Exhausted'
  <2>1. Candidates' = {}
    BY <1>1 DEF Candidates
  <2> QED
    BY <2>1 DEF Exhausted
<1> QED
  BY <1>2, <1>3, <1>4, <1>5, <1>6, <1>7, <1>8 DEF IInv

LEMMA StutterInv ==
  ASSUME IInv, UNCHANGED vars
  PROVE  IInv'
<1> USE DEF vars
<1>1. TypeOK'
  BY DEF IInv, TypeOK
<1>2. (StartsCounted /\ DependenciesFirst /\ CancelledAll)'
  BY DEF IInv, StartsCounted, DependenciesFirst, CancelledAll
<1>3. RunningIsAwaited'
  BY DEF IInv, RunningIsAwaited, Rejected
<1>4. IterationsPaid'
  BY DEF IInv, IterationsPaid, Started
<1>5. Exhausted'
  BY DEF IInv, Exhausted, Candidates, DependenciesSatisfied
<1> QED
  BY <1>1, <1>2, <1>3, <1>4, <1>5 DEF IInv

LEMMA NextInv ==
  ASSUME IInv, [Next]_vars
  PROVE  IInv'
<1>1. ASSUME NEW d \in Drivers, Drive(d) PROVE IInv'
  <2>1. awaits[d] = {}
    BY <1>1 DEF IInv, TypeOK, Drive
  <2> QED
    BY <1>1, <2>1, TurnInv DEF Drive
<1>2. ASSUME NEW d \in Drivers, BatchDone(d) PROVE IInv'
  BY <1>2, TurnInv DEF BatchDone
<1>3. ASSUME NEW t \in Tasks, Succeeds(t) PROVE IInv'
  BY <1>3, SettlesInv DEF Succeeds
<1>4. ASSUME NEW t \in Tasks, Fails(t) PROVE IInv'
  BY <1>4, SettlesInv DEF Fails
<1>5. ASSUME NEW t \in Tasks, Rejects(t) PROVE IInv'
  BY <1>5, RejectsInv
<1>6. CASE Cancel
  BY <1>6, CancelInv
<1>7. CASE UNCHANGED vars
  BY <1>7, StutterInv
<1> QED
  BY <1>1, <1>2, <1>3, <1>4, <1>5, <1>6, <1>7 DEF Next, DriverStep, ToolStep

(* The inductive invariant holds throughout: types, starts counted by      *)
(* state, dependencies before dependents, every running task awaited       *)
(* unless a driver was rejected, a cancelled queue without pending tasks,  *)
(* iterations paid for by started tasks, and nothing startable left when   *)
(* every called driver has returned.                                       *)
THEOREM PlanInductive == Spec => []IInv
  BY InitInv, NextInv, PTL DEF Spec

-----------------------------------------------------------------------------
(* Its consequences.                                                       *)

\* Every variable of a plan's execution keeps its type.
THEOREM PlanTypeCorrect == Spec => []TypeOK
<1>1. IInv => TypeOK
  BY DEF IInv
<1> QED
  BY PlanInductive, <1>1, PTL

\* No task is ever started before all its dependencies have succeeded.
THEOREM DependenciesComeFirst == Spec => []DependenciesFirst
<1>1. IInv => DependenciesFirst
  BY DEF IInv
<1> QED
  BY PlanInductive, <1>1, PTL

\* No task is started twice, however many drivers share the queue.
THEOREM TasksStartOnce == Spec => []StartedOnce
<1>1. IInv => StartedOnce
  BY DEF IInv, StartsCounted, StartedOnce
<1> QED
  BY PlanInductive, <1>1, PTL

\* Drivers that have all returned leave a task pending only with a reason.
THEOREM NothingLeftBehind == Spec => []LeftBehindWithReason
<1>1. IInv => LeftBehindWithReason
  <2>1. SUFFICES ASSUME IInv,
                        MaxIterations >= Cardinality(Tasks),
                        \E d \in Drivers : driver[d] = "returned",
                        \A d \in Drivers : driver[d] \in {"idle", "returned"},
                        NEW t \in Tasks, state[t] = "pending"
                 PROVE  \E u \in plan.dependsOn[t] :
                          state[u] \in {"pending", "failed", "skipped"}
    BY DEF LeftBehindWithReason
  <2>2. Candidates = {}
    BY <2>1 DEF IInv, Exhausted
  <2>3. PICK u \in plan.dependsOn[t] : state[u] # "succeeded"
    BY <2>1, <2>2 DEF Candidates, DependenciesSatisfied
  <2>4. u \in Tasks
    BY <2>1 DEF IInv, TypeOK, PlanType
  <2>5. state[u] # "running"
    BY <2>1, <2>4 DEF IInv, RunningIsAwaited, Rejected, TypeOK
  <2>6. state[u] # "cancelled"
    BY <2>1, <2>4 DEF IInv, CancelledAll
  <2>7. state[u] \in States \ {"ready"}
    BY <2>1, <2>4 DEF IInv, TypeOK
  <2> QED
    BY <2>3, <2>5, <2>6, <2>7 DEF States
<1> QED
  BY PlanInductive, <1>1, PTL

\* No step changes the outcome of a task that has one.
THEOREM OutcomesAreFinal == Spec => OutcomeIsFinal
<1>1. ASSUME IInv, [Next]_vars, NEW t \in Tasks, state[t] \in Finished
      PROVE  state'[t] = state[t]
  <2>1. ASSUME NEW d \in Drivers, Turn(d) PROVE state'[t] = state[t]
    <3>1. t \notin Ready /\ t \notin Skipped
      BY <1>1, Dequeued DEF Finished
    <3> QED
      BY <2>1, <3>1 DEF Turn
  <2>2. ASSUME NEW u \in Tasks, u \in inFlight PROVE u # t
    BY <1>1, <2>2 DEF IInv, TypeOK, Finished
  <2>3. ASSUME NEW u \in Tasks, ToolStep(u) PROVE state'[t] = state[t]
    BY <1>1, <2>2, <2>3 DEF IInv, TypeOK, ToolStep, Succeeds, Fails, Rejects, Settles
  <2>4. CASE Cancel
    BY <1>1, <2>4 DEF Cancel, Finished
  <2>5. CASE UNCHANGED vars
    BY <2>5 DEF vars
  <2> QED
    BY <1>1, <2>1, <2>3, <2>4, <2>5 DEF Next, DriverStep, Drive, BatchDone
<1>2. IInv /\ [Next]_vars =>
        [\A t \in Tasks : state[t] \in Finished => state'[t] = state[t]]_vars
  BY <1>1
<1> QED
  BY PlanInductive, <1>2, PTL DEF Spec, OutcomeIsFinal
=============================================================================
