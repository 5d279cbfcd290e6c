----------------------- MODULE ToolInvocationProofs -----------------------
(***************************************************************************)
(* Theorems about ToolInvocation, for every set of invocations, slot       *)
(* limit, priority, retry limit and requirement.                           *)
(***************************************************************************)
EXTENDS ToolInvocation, FiniteSetTheorems, SequenceTheorems, TLAPS

-----------------------------------------------------------------------------
(* The queue's operators.                                                  *)

LEMMA AheadType ==
  ASSUME NEW q \in Seq(Invocations), NEW i \in Invocations
  PROVE  Ahead(q, i) \in 0..Len(q)
<1> DEFINE D == {k \in DOMAIN q : Priority[q[k]] >= Priority[i]}
<1>1. IsFiniteSet(1..Len(q)) /\ Cardinality(1..Len(q)) = Len(q)
  <2>1. Len(q) \in Nat
    OBVIOUS
  <2>2. QED
    BY <2>1, FS_Interval
<1>2. D \in SUBSET (1..Len(q))
  OBVIOUS
<1>3. Cardinality(D) \in Nat /\ Cardinality(D) <= Len(q)
  BY <1>1, <1>2, FS_Subset, FS_CardinalityType
<1>4. QED
  BY <1>3 DEF Ahead

\* Inserting an invocation gives a queue that is one longer and holds the
\* former entries and the new one.
LEMMA InsertAfterType ==
  ASSUME NEW q \in Seq(Invocations), NEW i \in Invocations, NEW n \in 0..Len(q)
  PROVE  /\ InsertAfter(q, n, i) \in Seq(Invocations)
         /\ Len(InsertAfter(q, n, i)) = Len(q) + 1
         /\ {InsertAfter(q, n, i)[k] : k \in DOMAIN InsertAfter(q, n, i)} =
              {q[k] : k \in DOMAIN q} \cup {i}
<1> DEFINE f == InsertAfter(q, n, i)
<1>1. f \in [1..(Len(q) + 1) -> Invocations]
  BY DEF InsertAfter
<1>2. f \in Seq(Invocations) /\ Len(f) = Len(q) + 1
  BY <1>1
<1>3. {f[k] : k \in DOMAIN f} = {q[k] : k \in DOMAIN q} \cup {i}
  <2>1. ASSUME NEW k \in DOMAIN f
        PROVE  f[k] \in {q[l] : l \in DOMAIN q} \cup {i}
    BY <2>1 DEF InsertAfter
  <2>2. ASSUME NEW k \in DOMAIN q
        PROVE  q[k] \in {f[l] : l \in DOMAIN f}
    <3>1. CASE k <= n
      <4>1. k \in DOMAIN f /\ f[k] = q[k]
        BY <3>1 DEF InsertAfter
      <4>2. QED
        BY <4>1
    <3>2. CASE k > n
      <4>1. k + 1 \in DOMAIN f /\ f[k + 1] = q[k]
        BY <3>2 DEF InsertAfter
      <4>2. QED
        BY <4>1
    <3>3. QED
      BY <3>1, <3>2
  <2>3. i \in {f[l] : l \in DOMAIN f}
    <3>1. n + 1 \in DOMAIN f /\ f[n + 1] = i
      BY DEF InsertAfter
    <3>2. QED
      BY <3>1
  <2>4. QED
    BY <2>1, <2>2, <2>3
<1>4. QED
  BY <1>2, <1>3

\* Inserting a newcomer keeps the entries of a queue distinct.
LEMMA InsertAfterDistinct ==
  ASSUME NEW q \in Seq(Invocations), NEW i \in Invocations, NEW n \in 0..Len(q),
         i \notin {q[k] : k \in DOMAIN q},
         \A k, l \in DOMAIN q : q[k] = q[l] => k = l
  PROVE  \A k, l \in DOMAIN InsertAfter(q, n, i) :
           InsertAfter(q, n, i)[k] = InsertAfter(q, n, i)[l] => k = l
BY DEF InsertAfter

\* The entries of q are in the order of their urgency.
Sorted(q) ==
  \A k, l \in DOMAIN q : k < l => Priority[q[k]] >= Priority[q[l]]

\* In a sorted queue exactly the first Ahead(q, i) entries are at least as
\* urgent as i: those below k are counted, those from k on are not.
LEMMA AheadSplits ==
  ASSUME NEW q \in Seq(Invocations), NEW i \in Invocations, Sorted(q),
         NEW k \in DOMAIN q
  PROVE  Priority[q[k]] >= Priority[i] <=> k <= Ahead(q, i)
<1> DEFINE D == {l \in DOMAIN q : Priority[q[l]] >= Priority[i]}
<1>1. /\ Len(q) \in Nat /\ k \in 1..Len(q)
      /\ DOMAIN q = 1..Len(q)
      /\ \A l \in DOMAIN q : Priority[q[l]] \in 0..3
      /\ Priority[i] \in 0..3
  BY ConstantsAssumption
<1>2. /\ IsFiniteSet(1..Len(q))
      /\ IsFiniteSet(1..k) /\ Cardinality(1..k) = k
      /\ IsFiniteSet(1..(k - 1)) /\ Cardinality(1..(k - 1)) = k - 1
  <2>1. ASSUME NEW m \in Nat
        PROVE  IsFiniteSet(1..m) /\ Cardinality(1..m) = m
    BY FS_Interval
  <2>2. Len(q) \in Nat /\ k \in Nat /\ k - 1 \in Nat
    BY <1>1
  <2>3. QED
    BY <2>1, <2>2
<1>3. IsFiniteSet(D) /\ Cardinality(D) \in Nat
  <2>1. D \in SUBSET (1..Len(q))
    BY <1>1
  <2>2. QED
    BY <1>2, <2>1, FS_Subset, FS_CardinalityType
<1>4. CASE Priority[q[k]] >= Priority[i]
  <2>1. 1..k \in SUBSET D
    BY <1>1, <1>4 DEF Sorted
  <2>2. k <= Cardinality(D)
    BY <1>2, <1>3, <2>1, FS_Subset
  <2>3. QED
    BY <1>4, <2>2 DEF Ahead
<1>5. CASE ~(Priority[q[k]] >= Priority[i])
  <2>1. D \in SUBSET (1..(k - 1))
    BY <1>1, <1>5 DEF Sorted
  <2>2. Cardinality(D) <= k - 1
    BY <1>2, <2>1, FS_Subset
  <2>3. QED
    BY <1>1, <1>3, <1>5, <2>2 DEF Ahead
<1>6. QED
  BY <1>4, <1>5

\* Enqueue() keeps the queue sorted.
LEMMA EnqueueSorted ==
  ASSUME NEW q \in Seq(Invocations), NEW i \in Invocations, Sorted(q)
  PROVE  Sorted(Enqueue(q, i))
<1> DEFINE n == Ahead(q, i)
           f == InsertAfter(q, n, i)
<1>1. /\ Len(q) \in Nat
      /\ DOMAIN q = 1..Len(q)
      /\ \A k \in 1..Len(q) : Priority[q[k]] \in 0..3
      /\ Priority[i] \in 0..3
      /\ n \in 0..Len(q)
  BY ConstantsAssumption, AheadType
<1>2. \A k \in 1..Len(q) : Priority[q[k]] >= Priority[i] <=> k <= n
  BY <1>1, AheadSplits
<1> HIDE DEF n
<1>3. ASSUME NEW k \in 1..(Len(q) + 1), NEW l \in 1..(Len(q) + 1), k < l
      PROVE  Priority[f[k]] >= Priority[f[l]]
  <2>1. CASE l <= n
    BY <1>1, <1>3, <2>1 DEF InsertAfter, Sorted
  <2>2. CASE l = n + 1
    BY <1>1, <1>2, <1>3, <2>2 DEF InsertAfter
  <2>3. CASE l > n + 1 /\ k <= n
    BY <1>1, <1>3, <2>3 DEF InsertAfter, Sorted
  <2>4. CASE l > n + 1 /\ k = n + 1
    BY <1>1, <1>2, <1>3, <2>4 DEF InsertAfter
  <2>5. CASE l > n + 1 /\ k > n + 1
    BY <1>1, <1>3, <2>5 DEF InsertAfter, Sorted
  <2>6. QED
    BY <1>1, <1>3, <2>1, <2>2, <2>3, <2>4, <2>5
<1>4. DOMAIN f = 1..(Len(q) + 1)
  BY DEF InsertAfter
<1>5. Sorted(f)
  BY <1>3, <1>4 DEF Sorted
<1>6. QED
  BY <1>5 DEF Enqueue, n

\* Enqueue() adds i to the entries, once.
LEMMA EnqueueEntries ==
  ASSUME NEW q \in Seq(Invocations), NEW i \in Invocations,
         i \notin {q[k] : k \in DOMAIN q},
         \A k, l \in DOMAIN q : q[k] = q[l] => k = l
  PROVE  /\ Enqueue(q, i) \in Seq(Invocations)
         /\ Len(Enqueue(q, i)) = Len(q) + 1
         /\ {Enqueue(q, i)[k] : k \in DOMAIN Enqueue(q, i)} =
              {q[k] : k \in DOMAIN q} \cup {i}
         /\ \A k, l \in DOMAIN Enqueue(q, i) :
              Enqueue(q, i)[k] = Enqueue(q, i)[l] => k = l
<1>1. Ahead(q, i) \in 0..Len(q)
  BY AheadType
<1> HIDE DEF Ahead
<1>2. QED
  BY <1>1, InsertAfterType, InsertAfterDistinct DEF Enqueue

\* drain() shifts between none and all of the entries.
LEMMA DrainCountType ==
  ASSUME NEW q \in Seq(Invocations), NEW busy \in Nat
  PROVE  DrainCount(q, busy) \in 0..Len(q)
BY ConstantsAssumption DEF DrainCount

-----------------------------------------------------------------------------
(* The inductive invariant.                                                *)

\* The loop of execute() has attempts left exactly where it needs them.
AttemptsLeft ==
  \A i \in Invocations :
    /\ phase[i] \in {"new", "queued"} => attempts[i] = 0
    /\ phase[i] = "backoff" => attempts[i] < MaxAttempts[i]

\* A handler that is alive was called by an attempt that has begun, and has
\* been told to stop unless that attempt still waits for it.
LiveHandlers ==
  \A i \in Invocations : \A n \in live[i] :
    /\ n <= attempts[i]
    /\ n = attempts[i] => phase[i] = "running" \/ signal[i] # "clear"

\* A cancelled invocation that has begun another attempt has an aborted
\* signal there, until it is settled.
CancelledIsFinal ==
  \A i \in cancelled :
    /\ cancelledAt[i] <= attempts[i]
    /\ attempts[i] <= cancelledAt[i] + 1
    /\ attempts[i] = cancelledAt[i] + 1 =>
         \/ phase[i] \in {"running", "returned", "failing"} /\ signal[i] = "cancelled"
         \/ phase[i] \in {"settled", "completed"} \cup OverPhases

\* The signal of a cancelled invocation is aborted while its value may still
\* be accepted.
CancelledIsHeeded ==
  \A i \in cancelled : phase[i] \in {"running", "returned"} => signal[i] # "clear"

\* The part of the invariant that an attempt alone can disturb.
AttemptInv ==
  /\ phase \in [Invocations -> Phases]
  /\ attempts \in [Invocations -> 0..3]
  /\ \A i \in Invocations : attempts[i] <= MaxAttempts[i]
  /\ signal \in [Invocations -> Signals]
  /\ result \in [Invocations -> Statuses \cup {"none"}]
  /\ live \in [Invocations -> SUBSET (1..3)]
  /\ AttemptsLeft
  /\ LiveHandlers
  /\ CancelledIsFinal
  /\ CancelledIsHeeded

IInv ==
  /\ TypeOK
  /\ SlotAccounting
  /\ Sorted(pending)
  /\ AttemptsLeft
  /\ LiveHandlers
  /\ CancelledIsFinal
  /\ CancelledIsHeeded

-----------------------------------------------------------------------------
(* What beginning an attempt for every invocation of a set S preserves.    *)

LEMMA AttemptOncePreserves ==
  ASSUME IInv,
         NEW S \in SUBSET Invocations, NEW ph \in [Invocations -> Phases],
         AttemptOnce(S, ph),
         \A i \in S : /\ attempts[i] < MaxAttempts[i]
                      /\ phase[i] \in {"new", "queued", "backoff"},
         \A i \in Invocations \ S :
           \/ ph[i] = phase[i]
           \/ phase[i] = "new" /\ ph[i] = "queued"
           \/ phase[i] = "completed" /\ ph[i] = "released",
         cancelled' = cancelled, cancelledAt' = cancelledAt
  PROVE  /\ AttemptInv'
         /\ \A i \in Invocations :
              IF i \in S THEN phase'[i] \in {"running", "settled"}
                         ELSE phase'[i] = ph[i]
<1> DEFINE started == {i \in S : Refusal(i) = "none"}
<1>0. /\ TypeOK /\ AttemptsLeft /\ LiveHandlers /\ CancelledIsFinal
      /\ CancelledIsHeeded
  BY DEF IInv
<1>1. /\ attempts' = [i \in Invocations |->
                        IF i \in S THEN attempts[i] + 1 ELSE attempts[i]]
      /\ phase' = [i \in Invocations |->
                     IF i \in started THEN "running"
                     ELSE IF i \in S THEN "settled" ELSE ph[i]]
      /\ result' = [i \in Invocations |->
                      IF i \in S \ started THEN Refusal(i) ELSE result[i]]
      /\ signal' = [i \in Invocations |->
                      IF i \in started THEN LinkedSignal(i) ELSE signal[i]]
      /\ live' = [i \in Invocations |->
                    IF i \in started THEN live[i] \cup {attempts[i] + 1}
                    ELSE live[i]]
  BY DEF AttemptOnce
<1>2. started \subseteq S
  OBVIOUS
<1>3. \A i \in Invocations :
        /\ MaxAttempts[i] \in 1..3
        /\ attempts[i] \in 0..3
        /\ attempts[i] <= MaxAttempts[i]
        /\ phase[i] \in Phases
        /\ signal[i] \in Signals
        /\ result[i] \in Statuses \cup {"none"}
        /\ live[i] \in SUBSET (1..3)
        /\ Refusal(i) \in Statuses \cup {"none"}
        /\ LinkedSignal(i) \in Signals
  BY <1>0, ConstantsAssumption DEF TypeOK, Refusal, Statuses, LinkedSignal, Signals
<1> HIDE DEF started
<1>4. {"running", "settled"} \subseteq Phases
  BY DEF Phases, SlotPhases, AttemptPhases
<1>5. /\ phase' \in [Invocations -> Phases]
      /\ signal' \in [Invocations -> Signals]
      /\ result' \in [Invocations -> Statuses \cup {"none"}]
  BY <1>1, <1>3, <1>4
<1>6. /\ attempts' \in [Invocations -> 0..3]
      /\ \A i \in Invocations : attempts'[i] <= MaxAttempts[i]
  BY <1>1, <1>3
<1>7. live' \in [Invocations -> SUBSET (1..3)]
  <2>1. \A i \in started : live[i] \cup {attempts[i] + 1} \in SUBSET (1..3)
    BY <1>2, <1>3
  <2>2. QED
    BY <1>1, <1>3, <2>1
<1>8. AttemptsLeft'
  BY <1>0, <1>1, <1>2 DEF AttemptsLeft
<1>9. LiveHandlers'
  <2>1. ASSUME NEW i \in Invocations, NEW n \in live'[i]
        PROVE  /\ n <= attempts'[i]
               /\ n = attempts'[i] => phase'[i] = "running" \/ signal'[i] # "clear"
    <3>1. CASE i \in started
      BY <1>0, <1>1, <1>2, <1>3, <2>1, <3>1 DEF LiveHandlers
    <3>2. CASE i \in S \ started
      BY <1>0, <1>1, <1>3, <2>1, <3>2 DEF LiveHandlers
    <3>3. CASE i \notin S
      BY <1>0, <1>1, <1>2, <1>3, <2>1, <3>3 DEF LiveHandlers
    <3>4. QED
      BY <3>1, <3>2, <3>3
  <2>2. QED
    BY <2>1 DEF LiveHandlers
<1>10. CancelledIsFinal'
  <2>1. ASSUME NEW i \in cancelled
        PROVE  /\ cancelledAt[i] <= attempts'[i]
               /\ attempts'[i] <= cancelledAt[i] + 1
               /\ attempts'[i] = cancelledAt[i] + 1 =>
                    \/ phase'[i] \in {"running", "returned", "failing"}
                       /\ signal'[i] = "cancelled"
                    \/ phase'[i] \in {"settled", "completed"} \cup OverPhases
    <3>0. /\ i \in Invocations
          /\ cancelledAt[i] \in 0..3
      BY <1>0, <2>1 DEF TypeOK
    <3>1. CASE i \in S
      BY <1>0, <1>1, <1>2, <1>3, <2>1, <3>0, <3>1 DEF CancelledIsFinal, LinkedSignal, OverPhases
    <3>2. CASE i \notin S
      BY <1>0, <1>1, <1>2, <1>3, <2>1, <3>0, <3>2 DEF CancelledIsFinal, OverPhases
    <3>3. QED
      BY <3>1, <3>2
  <2>2. QED
    BY <2>1 DEF CancelledIsFinal
<1>11. \A i \in Invocations : IF i \in S THEN phase'[i] \in {"running", "settled"}
                                         ELSE phase'[i] = ph[i]
  BY <1>1, <1>2
<1>12. CancelledIsHeeded'
  <2>1. \A i \in cancelled : i \in Invocations
    BY <1>0 DEF TypeOK
  <2>2. QED
    BY <1>0, <1>1, <1>2, <2>1 DEF CancelledIsHeeded, LinkedSignal
<1>13. QED
  BY <1>5, <1>6, <1>7, <1>8, <1>9, <1>10, <1>11, <1>12 DEF AttemptInv

-----------------------------------------------------------------------------
(* What drain() does to the queue.                                         *)

\* A submission takes a free slot, which there is only when nothing waits, or
\* else joins the queue.
LEMMA InvokeEffect ==
  ASSUME IInv, NEW i \in Invocations, Invoke(i)
  PROVE  \/ /\ pending = <<>> /\ pending' = <<>>
            /\ active < MaxConcurrent /\ active' = active + 1
            /\ AttemptOnce({i}, [phase EXCEPT ![i] = "queued"])
         \/ /\ active = MaxConcurrent /\ active' = active
            /\ pending' = Enqueue(pending, i)
            /\ AttemptOnce({}, [phase EXCEPT ![i] = "queued"])
<1> DEFINE q == Enqueue(pending, i)
           n == DrainCount(q, active)
           ph == [phase EXCEPT ![i] = "queued"]
<1>1. /\ pending \in Seq(Invocations) /\ active \in Nat
      /\ MaxConcurrent \in Nat \ {0} /\ active <= MaxConcurrent
      /\ pending # <<>> => active = MaxConcurrent
  BY ConstantsAssumption DEF IInv, TypeOK, SlotAccounting, WithinLimit, NoIdleSlot
<1>2. /\ i \notin {pending[k] : k \in DOMAIN pending}
      /\ \A k, l \in DOMAIN pending : pending[k] = pending[l] => k = l
  BY DEF IInv, SlotAccounting, QueueIsExact, Queued, Invoke
<1>3. /\ q \in Seq(Invocations)
      /\ Len(q) = Len(pending) + 1
      /\ {q[k] : k \in DOMAIN q} = {pending[k] : k \in DOMAIN pending} \cup {i}
  BY <1>1, <1>2, EnqueueEntries
<1>4. /\ pending' = SubSeq(q, n + 1, Len(q))
      /\ active' = active + n
      /\ AttemptOnce({q[k] : k \in 1..n}, ph)
  BY DEF Invoke, Drain
<1> HIDE DEF q, ph
<1>5. CASE active < MaxConcurrent
  <2>1. pending = <<>> /\ Len(q) = 1
    BY <1>1, <1>3, <1>5
  <2>2. n = 1
    BY <1>1, <1>5, <2>1 DEF DrainCount
  <2>3. q[1] = i
    BY <1>3, <2>1
  <2>4. pending' = <<>>
    BY <1>3, <1>4, <2>1, <2>2, SubSeqEmpty
  <2>5. {q[k] : k \in 1..n} = {i}
    BY <2>2, <2>3
  <2> HIDE DEF n
  <2>6. QED
    BY <1>4, <1>5, <2>1, <2>2, <2>4, <2>5 DEF ph
<1>6. CASE active = MaxConcurrent
  <2>1. n = 0
    BY <1>1, <1>6 DEF DrainCount
  <2>2. pending' = q
    BY <1>3, <1>4, <2>1, SubSeqFull
  <2>3. {q[k] : k \in 1..n} = {}
    BY <2>1
  <2> HIDE DEF n
  <2>4. active' = active
    BY <1>1, <1>4, <2>1
  <2>5. AttemptOnce({}, ph)
    BY <1>4, <2>3, Zenon
  <2>6. QED
    BY <1>6, <2>2, <2>4, <2>5 DEF ph, q
<1>7. QED
  BY <1>1, <1>5, <1>6

\* A freed slot goes to the first of the queue, if anything waits.
LEMMA ReleaseEffect ==
  ASSUME IInv, NEW i \in Invocations, Release(i)
  PROVE  /\ active \in Nat \ {0}
         /\ \/ /\ pending = <<>> /\ pending' = <<>> /\ active' = active - 1
               /\ AttemptOnce({}, [phase EXCEPT ![i] = "released"])
            \/ /\ pending # <<>> /\ pending' = Tail(pending) /\ active' = active
               /\ AttemptOnce({Head(pending)}, [phase EXCEPT ![i] = "released"])
<1> DEFINE n == DrainCount(pending, active - 1)
           ph == [phase EXCEPT ![i] = "released"]
<1>1. /\ pending \in Seq(Invocations) /\ active \in Nat
      /\ MaxConcurrent \in Nat \ {0} /\ active <= MaxConcurrent
      /\ pending # <<>> => active = MaxConcurrent
  BY ConstantsAssumption DEF IInv, TypeOK, SlotAccounting, WithinLimit, NoIdleSlot
<1>2. active # 0
  <2>1. i \in SlotHolders /\ active = Cardinality(SlotHolders)
    BY DEF IInv, SlotAccounting, CountIsExact, SlotHolders, SlotPhases, Release
  <2>2. IsFiniteSet(SlotHolders)
    <3>1. SlotHolders \in SUBSET Invocations
      BY DEF SlotHolders
    <3>2. QED
      BY <3>1, FS_Subset, ConstantsAssumption
  <2>3. QED
    BY <2>1, <2>2, FS_EmptySet
<1>3. /\ pending' = SubSeq(pending, n + 1, Len(pending))
      /\ active' = active - 1 + n
      /\ AttemptOnce({pending[k] : k \in 1..n}, ph)
  BY DEF Release, Drain
<1> HIDE DEF ph
<1>4. CASE pending = <<>>
  <2>1. n = 0
    BY <1>1, <1>2, <1>4 DEF DrainCount
  <2>2. pending' = <<>>
    BY <1>1, <1>3, <1>4, <2>1, SubSeqFull
  <2>3. {pending[k] : k \in 1..n} = {}
    BY <2>1
  <2> HIDE DEF n
  <2>4. QED
    BY <1>1, <1>2, <1>3, <1>4, <2>1, <2>2, <2>3 DEF ph
<1>5. CASE pending # <<>>
  <2>1. active = MaxConcurrent /\ Len(pending) \in Nat /\ Len(pending) >= 1
    BY <1>1, <1>5
  <2>2. n = 1
    BY <1>1, <2>1 DEF DrainCount
  <2>3. pending' = Tail(pending)
    BY <1>1, <1>3, <1>5, <2>2, TailIsSubSeq
  <2>4. {pending[k] : k \in 1..n} = {Head(pending)}
    BY <1>1, <1>5, <2>2
  <2> HIDE DEF n
  <2>5. active' = active
    BY <1>1, <1>3, <2>2
  <2>6. AttemptOnce({Head(pending)}, ph)
    BY <1>3, <2>4, Zenon
  <2>7. QED
    BY <1>1, <1>2, <1>5, <2>3, <2>5, <2>6 DEF ph
<1>6. QED
  BY <1>4, <1>5

\* The invocations with a slot, and any of them with one more or one less,
\* are finitely many.
LEMMA SlotHoldersFinite ==
  /\ IsFiniteSet(SlotHolders)
  /\ IsFiniteSet(SlotHolders')
<1>1. SlotHolders \in SUBSET Invocations /\ SlotHolders' \in SUBSET Invocations
  BY DEF SlotHolders
<1>2. QED
  BY <1>1, FS_Subset, ConstantsAssumption

\* What Invoke does to the phases.
LEMMA InvokePhases ==
  ASSUME IInv, NEW i \in Invocations, Invoke(i),
         NEW S \in SUBSET {i},
         AttemptOnce(S, [phase EXCEPT ![i] = "queued"])
  PROVE  /\ \A j \in Invocations \ {i} : phase'[j] = phase[j]
         /\ phase[i] = "new"
         /\ IF i \in S THEN phase'[i] \in {"running", "settled"}
                       ELSE phase'[i] = "queued"
         /\ AttemptInv'
<1> DEFINE ph == [phase EXCEPT ![i] = "queued"]
<1>1. /\ TypeOK /\ AttemptsLeft /\ LiveHandlers /\ CancelledIsFinal
      /\ CancelledIsHeeded
  BY DEF IInv
<1>2. /\ phase \in [Invocations -> Phases] /\ phase[i] = "new"
      /\ cancelled' = cancelled /\ cancelledAt' = cancelledAt
  BY <1>1 DEF TypeOK, Invoke
<1>3. ph \in [Invocations -> Phases]
  BY <1>2 DEF Phases
<1>4. ph[i] = "queued" /\ \A j \in Invocations \ {i} : ph[j] = phase[j]
  BY <1>2
<1>5. attempts[i] < MaxAttempts[i]
  BY <1>1, <1>2, ConstantsAssumption DEF AttemptsLeft
<1>6. S \in SUBSET Invocations
  OBVIOUS
<1>7. AttemptOnce(S, ph)
  OBVIOUS
<1> HIDE DEF ph
<1>8. \A j \in S : /\ attempts[j] < MaxAttempts[j]
                  /\ phase[j] \in {"new", "queued", "backoff"}
  BY <1>2, <1>5
<1>9. \A j \in Invocations \ S :
        \/ ph[j] = phase[j]
        \/ phase[j] = "new" /\ ph[j] = "queued"
        \/ phase[j] = "completed" /\ ph[j] = "released"
  BY <1>2, <1>4
<1>10. AttemptInv'
  BY <1>2, <1>3, <1>6, <1>7, <1>8, <1>9, AttemptOncePreserves DEF AttemptOnce
<1>11. \A j \in Invocations :
         IF j \in S THEN phase'[j] \in {"running", "settled"}
                    ELSE phase'[j] = ph[j]
  BY <1>2, <1>3, <1>6, <1>7, <1>8, <1>9, AttemptOncePreserves DEF AttemptOnce
<1>12. QED
  BY <1>2, <1>4, <1>10, <1>11

LEMMA InvokePreserves ==
  ASSUME IInv, NEW i \in Invocations, Invoke(i)
  PROVE  IInv'
<1>1. /\ pending \in Seq(Invocations) /\ active \in Nat /\ MaxConcurrent \in Nat \ {0}
      /\ active = Cardinality(SlotHolders)
      /\ active <= MaxConcurrent
      /\ pending # <<>> => active = MaxConcurrent
      /\ Queued = {pending[k] : k \in DOMAIN pending}
      /\ \A k, l \in DOMAIN pending : pending[k] = pending[l] => k = l
      /\ Sorted(pending)
  BY ConstantsAssumption
  DEF IInv, TypeOK, SlotAccounting, CountIsExact, WithinLimit, NoIdleSlot, QueueIsExact
<1>2. /\ TypeOK
      /\ controllers' = controllers \cup {i}
      /\ UNCHANGED <<cancelled, granted, drained, chunks, cancelledAt>>
  BY DEF IInv, Invoke
<1>3. CASE /\ pending = <<>> /\ pending' = <<>>
           /\ active < MaxConcurrent /\ active' = active + 1
           /\ AttemptOnce({i}, [phase EXCEPT ![i] = "queued"])
  <2>1. /\ \A j \in Invocations \ {i} : phase'[j] = phase[j]
        /\ phase[i] = "new"
        /\ phase'[i] \in {"running", "settled"}
        /\ AttemptInv'
    BY <1>3, {i} \in SUBSET {i}, i \in {i}, InvokePhases, Zenon
  <2>2. TypeOK'
    <3>1. pending' \in Seq(Invocations) /\ active' \in Nat
      BY <1>1, <1>3
    <3>2. QED
      BY <1>2, <2>1, <3>1 DEF TypeOK, AttemptInv
  <2>3. SlotHolders' = SlotHolders \cup {i} /\ i \notin SlotHolders
    BY <2>1 DEF SlotHolders, SlotPhases, AttemptPhases
  <2>4. Queued' = Queued
    BY <2>1 DEF Queued
  <2>5. SlotAccounting'
    <3>1. CountIsExact'
      BY <1>1, <1>3, <2>3, SlotHoldersFinite, FS_AddElement DEF CountIsExact
    <3>2. WithinLimit' /\ NoIdleSlot'
      BY <1>1, <1>3 DEF WithinLimit, NoIdleSlot
    <3>3. QueueIsExact'
      BY <1>1, <1>3, <2>4 DEF QueueIsExact
    <3>4. QED
      BY <3>1, <3>2, <3>3 DEF SlotAccounting
  <2>6. Sorted(pending)'
    BY <1>1, <1>3 DEF Sorted
  <2>7. QED
    BY <2>1, <2>2, <2>5, <2>6 DEF IInv, AttemptInv
<1>4. CASE /\ active = MaxConcurrent /\ active' = active
           /\ pending' = Enqueue(pending, i)
           /\ AttemptOnce({}, [phase EXCEPT ![i] = "queued"])
  <2>1. /\ \A j \in Invocations \ {i} : phase'[j] = phase[j]
        /\ phase[i] = "new"
        /\ phase'[i] = "queued"
        /\ AttemptInv'
    BY <1>4, {} \in SUBSET {i}, i \notin {}, InvokePhases, Zenon
  <2>2. i \notin {pending[k] : k \in DOMAIN pending}
    BY <1>1, <2>1 DEF Queued
  <2>3. /\ pending' \in Seq(Invocations)
        /\ {pending'[k] : k \in DOMAIN pending'} = {pending[k] : k \in DOMAIN pending} \cup {i}
        /\ \A k, l \in DOMAIN pending' : pending'[k] = pending'[l] => k = l
    <3>1. /\ Enqueue(pending, i) \in Seq(Invocations)
          /\ {Enqueue(pending, i)[k] : k \in DOMAIN Enqueue(pending, i)} =
               {pending[k] : k \in DOMAIN pending} \cup {i}
          /\ \A k, l \in DOMAIN Enqueue(pending, i) :
               Enqueue(pending, i)[k] = Enqueue(pending, i)[l] => k = l
      BY <1>1, <2>2, EnqueueEntries, Zenon
    <3>2. QED
      BY <1>4, <3>1, Zenon
  <2>4. Sorted(pending')
    BY <1>1, <1>4, EnqueueSorted
  <2>5. TypeOK'
    <3>1. active' \in Nat
      BY <1>1, <1>4
    <3>2. QED
      BY <1>2, <2>1, <2>3, <3>1 DEF TypeOK, AttemptInv
  <2>6. SlotHolders' = SlotHolders
    BY <2>1 DEF SlotHolders, SlotPhases, AttemptPhases
  <2>7. Queued' = Queued \cup {i}
    BY <2>1 DEF Queued
  <2>8. SlotAccounting'
    <3>1. CountIsExact' /\ WithinLimit' /\ NoIdleSlot'
      BY <1>1, <1>4, <2>6 DEF CountIsExact, WithinLimit, NoIdleSlot
    <3>2. QueueIsExact'
      BY <1>1, <2>3, <2>7 DEF QueueIsExact
    <3>3. QED
      BY <3>1, <3>2 DEF SlotAccounting
  <2>9. QED
    BY <2>1, <2>4, <2>5, <2>8 DEF IInv, Sorted, AttemptInv
<1>5. QED
  BY <1>3, <1>4, InvokeEffect

\* What Release does to the phases.
LEMMA ReleasePhases ==
  ASSUME IInv, NEW i \in Invocations, Release(i),
         NEW S \in SUBSET Queued,
         AttemptOnce(S, [phase EXCEPT ![i] = "released"])
  PROVE  /\ phase[i] = "completed" /\ phase'[i] = "released"
         /\ \A j \in S : phase[j] = "queued" /\ phase'[j] \in {"running", "settled"}
         /\ \A j \in Invocations \ ({i} \cup S) : phase'[j] = phase[j]
         /\ AttemptInv'
<1> DEFINE ph == [phase EXCEPT ![i] = "released"]
<1>1. /\ TypeOK /\ AttemptsLeft /\ LiveHandlers /\ CancelledIsFinal
      /\ CancelledIsHeeded
  BY DEF IInv, AttemptInv
<1>2. /\ phase \in [Invocations -> Phases] /\ phase[i] = "completed"
      /\ cancelled' = cancelled /\ cancelledAt' = cancelledAt
  BY <1>1 DEF TypeOK, Release
<1>3. ph \in [Invocations -> Phases]
  BY <1>2 DEF Phases, OverPhases
<1>4. ph[i] = "released" /\ \A j \in Invocations \ {i} : ph[j] = phase[j]
  BY <1>2
<1>5. /\ S \in SUBSET Invocations
      /\ \A j \in S : phase[j] = "queued"
      /\ i \notin S
  BY <1>2 DEF Queued
<1>6. \A j \in S : attempts[j] < MaxAttempts[j]
  BY <1>1, <1>5, ConstantsAssumption DEF AttemptsLeft
<1>7. AttemptOnce(S, ph)
  OBVIOUS
<1> HIDE DEF ph
<1>8. \A j \in S : /\ attempts[j] < MaxAttempts[j]
                  /\ phase[j] \in {"new", "queued", "backoff"}
  BY <1>5, <1>6
<1>9. \A j \in Invocations \ S :
        \/ ph[j] = phase[j]
        \/ phase[j] = "new" /\ ph[j] = "queued"
        \/ phase[j] = "completed" /\ ph[j] = "released"
  BY <1>2, <1>4
<1>10. AttemptInv'
  BY <1>2, <1>3, <1>5, <1>7, <1>8, <1>9, AttemptOncePreserves DEF AttemptOnce
<1>11. \A j \in Invocations :
         IF j \in S THEN phase'[j] \in {"running", "settled"}
                    ELSE phase'[j] = ph[j]
  BY <1>2, <1>3, <1>5, <1>7, <1>8, <1>9, AttemptOncePreserves DEF AttemptOnce
<1>12. QED
  BY <1>2, <1>4, <1>5, <1>10, <1>11

LEMMA ReleasePreserves ==
  ASSUME IInv, NEW i \in Invocations, Release(i)
  PROVE  IInv'
<1>1. /\ pending \in Seq(Invocations) /\ active \in Nat \ {0}
      /\ MaxConcurrent \in Nat \ {0}
      /\ active = Cardinality(SlotHolders)
      /\ active <= MaxConcurrent
      /\ pending # <<>> => active = MaxConcurrent
      /\ Queued = {pending[k] : k \in DOMAIN pending}
      /\ \A k, l \in DOMAIN pending : pending[k] = pending[l] => k = l
      /\ Sorted(pending)
  BY ConstantsAssumption, ReleaseEffect
  DEF IInv, TypeOK, SlotAccounting, CountIsExact, WithinLimit, NoIdleSlot, QueueIsExact
<1>2. /\ TypeOK
      /\ UNCHANGED <<controllers, cancelled, granted, drained, chunks, cancelledAt>>
  BY DEF IInv, Release
<1>3. CASE /\ pending = <<>> /\ pending' = <<>> /\ active' = active - 1
           /\ AttemptOnce({}, [phase EXCEPT ![i] = "released"])
  <2>1. /\ phase[i] = "completed" /\ phase'[i] = "released"
        /\ \A j \in Invocations \ {i} : phase'[j] = phase[j]
        /\ AttemptInv'
    BY <1>3, {} \in SUBSET Queued, {i} \cup {} = {i}, ReleasePhases, Zenon
  <2>2. TypeOK'
    <3>1. pending' \in Seq(Invocations) /\ active' \in Nat
      BY <1>1, <1>3
    <3>2. QED
      BY <1>2, <2>1, <3>1 DEF TypeOK, AttemptInv
  <2>3. SlotHolders' = SlotHolders \ {i} /\ i \in SlotHolders
    BY <2>1 DEF SlotHolders, SlotPhases, AttemptPhases
  <2>4. Queued' = Queued
    BY <2>1 DEF Queued
  <2>5. SlotAccounting'
    <3>1. CountIsExact'
      BY <1>1, <1>3, <2>3, SlotHoldersFinite, FS_RemoveElement DEF CountIsExact
    <3>2. WithinLimit' /\ NoIdleSlot'
      BY <1>1, <1>3 DEF WithinLimit, NoIdleSlot
    <3>3. QueueIsExact'
      BY <1>1, <1>3, <2>4 DEF QueueIsExact
    <3>4. QED
      BY <3>1, <3>2, <3>3 DEF SlotAccounting
  <2>6. Sorted(pending)'
    BY <1>1, <1>3 DEF Sorted
  <2>7. QED
    BY <2>1, <2>2, <2>5, <2>6 DEF IInv, AttemptInv
<1>4. CASE /\ pending # <<>> /\ pending' = Tail(pending) /\ active' = active
           /\ AttemptOnce({Head(pending)}, [phase EXCEPT ![i] = "released"])
  <2> DEFINE h == Head(pending)
  <2>1. /\ h = pending[1] /\ 1 \in DOMAIN pending /\ h \in Queued
        /\ Len(pending) \in Nat \ {0}
    BY <1>1, <1>4
  <2>2. h \in Invocations
    BY <2>1 DEF Queued
  <2>3. /\ phase[i] = "completed" /\ phase'[i] = "released"
        /\ phase[h] = "queued" /\ phase'[h] \in {"running", "settled"}
        /\ \A j \in Invocations \ {i, h} : phase'[j] = phase[j]
        /\ AttemptInv'
    <3>1. {h} \in SUBSET Queued /\ h \in {h} /\ {i} \cup {h} = {i, h}
      BY <2>1
    <3>2. AttemptOnce({h}, [phase EXCEPT ![i] = "released"])
      BY <1>4
    <3> HIDE DEF h
    <3>3. QED
      BY <3>1, <3>2, ReleasePhases, Zenon
  <2>4. /\ pending' \in Seq(Invocations)
        /\ Len(pending') = Len(pending) - 1
        /\ DOMAIN pending = 1..Len(pending)
        /\ DOMAIN pending' = 1..(Len(pending) - 1)
        /\ \A k \in 1..(Len(pending) - 1) : pending'[k] = pending[k + 1]
    BY <1>1, <1>4, HeadTailProperties
  <2> HIDE DEF h
  <2>5. TypeOK'
    <3>1. active' \in Nat
      BY <1>1, <1>4
    <3>2. QED
      BY <1>2, <2>3, <2>4, <3>1 DEF TypeOK, AttemptInv
  <2>6. /\ i \in SlotHolders /\ h \notin SlotHolders /\ h # i
        /\ SlotHolders' = (SlotHolders \ {i}) \cup {h}
    BY <2>2, <2>3 DEF SlotHolders, SlotPhases, AttemptPhases
  <2>7. Queued' = Queued \ {h}
    BY <2>2, <2>3 DEF Queued
  <2>8. CountIsExact'
    <3>1. /\ IsFiniteSet(SlotHolders \ {i})
          /\ Cardinality(SlotHolders \ {i}) = Cardinality(SlotHolders) - 1
      BY <2>6, SlotHoldersFinite, FS_RemoveElement
    <3>2. Cardinality(SlotHolders') = Cardinality(SlotHolders) - 1 + 1
      BY <2>6, <3>1, FS_AddElement
    <3>3. QED
      BY <1>1, <1>4, <3>2 DEF CountIsExact
  <2>9. WithinLimit' /\ NoIdleSlot'
    BY <1>1, <1>4 DEF WithinLimit, NoIdleSlot
  <2>10. QueueIsExact'
    <3>1. ASSUME NEW k \in DOMAIN pending'
          PROVE  pending'[k] \in Queued'
      <4>1. k + 1 \in DOMAIN pending /\ pending'[k] = pending[k + 1] /\ k + 1 # 1
        BY <2>1, <2>4, <3>1
      <4>2. QED
        BY <1>1, <2>1, <2>7, <4>1
    <3>2. ASSUME NEW j \in Queued'
          PROVE  \E k \in DOMAIN pending' : pending'[k] = j
      <4>1. PICK k \in DOMAIN pending : pending[k] = j
        BY <1>1, <2>7, <3>2
      <4>2. k # 1
        BY <2>1, <2>7, <3>2, <4>1
      <4>3. k - 1 \in DOMAIN pending' /\ pending'[k - 1] = j
        BY <2>1, <2>4, <4>1, <4>2
      <4>4. QED
        BY <4>3
    <3>3. ASSUME NEW k \in DOMAIN pending', NEW l \in DOMAIN pending',
                 pending'[k] = pending'[l]
          PROVE  k = l
      <4>1. /\ k + 1 \in DOMAIN pending /\ l + 1 \in DOMAIN pending
            /\ pending[k + 1] = pending[l + 1]
            /\ k \in Nat /\ l \in Nat
        BY <2>1, <2>4, <3>3
      <4>2. k + 1 = l + 1
        BY <1>1, <4>1
      <4>3. QED
        BY <4>1, <4>2
    <3>4. Queued' = {pending'[k] : k \in DOMAIN pending'}
      BY <3>1, <3>2
    <3>5. QED
      BY <3>3, <3>4 DEF QueueIsExact
  <2>11. Sorted(pending)'
    <3>1. ASSUME NEW k \in DOMAIN pending', NEW l \in DOMAIN pending', k < l
          PROVE  Priority[pending'[k]] >= Priority[pending'[l]]
      <4>1. /\ k + 1 \in DOMAIN pending /\ l + 1 \in DOMAIN pending
            /\ pending'[k] = pending[k + 1] /\ pending'[l] = pending[l + 1]
            /\ k + 1 < l + 1
        BY <2>1, <2>4, <3>1
      <4>2. QED
        BY <1>1, <4>1 DEF Sorted
    <3>2. QED
      BY <3>1 DEF Sorted
  <2>12. QED
    BY <2>3, <2>5, <2>8, <2>9, <2>10, <2>11 DEF IInv, SlotAccounting, AttemptInv
<1>5. QED
  BY <1>3, <1>4, ReleaseEffect

-----------------------------------------------------------------------------
(* The steps that leave the queue alone.                                   *)

LEMMA QuietStep ==
  ASSUME IInv, UNCHANGED queueVars,
         phase' \in [Invocations -> Phases],
         \A i \in Invocations :
           /\ phase'[i] \in SlotPhases <=> phase[i] \in SlotPhases
           /\ phase'[i] = "queued" <=> phase[i] = "queued"
  PROVE  SlotAccounting' /\ Sorted(pending)'
<1>1. SlotHolders' = SlotHolders /\ Queued' = Queued
  BY DEF SlotHolders, Queued
<1>2. pending' = pending /\ active' = active
  BY DEF queueVars
<1>3. QED
  BY <1>1, <1>2
  DEF IInv, SlotAccounting, CountIsExact, WithinLimit, NoIdleSlot, QueueIsExact, Sorted

\* The statuses attemptOnce() may return to the loop.
LEMMA ConcludePreserves ==
  ASSUME IInv, NEW i \in Invocations, NEW r \in Statuses, Conclude(i, r),
         phase[i] \in {"returned", "succeeding", "failing"},
         signal[i] = "cancelled" => r \in {"cancelled", "ok"},
         UNCHANGED <<queueVars, attempts, signal, controllers, cancelled,
                     granted, live, streamVars, cancelledAt>>
  PROVE  IInv'
<1>1. /\ TypeOK /\ AttemptsLeft /\ LiveHandlers /\ CancelledIsFinal
      /\ CancelledIsHeeded
  BY DEF IInv
<1>2. /\ phase \in [Invocations -> Phases]
      /\ result \in [Invocations -> Statuses \cup {"none"}]
      /\ attempts \in [Invocations -> 0..3]
      /\ MaxAttempts \in [Invocations -> 1..3]
      /\ cancelled \in SUBSET Invocations
      /\ cancelledAt \in [Invocations -> 0..3]
  BY <1>1, ConstantsAssumption DEF TypeOK
<1>3. \E p \in {"backoff", "settled"} :
        /\ phase' = [phase EXCEPT ![i] = p]
        /\ p = "backoff" => r \in Retryable /\ attempts[i] < MaxAttempts[i]
        /\ result' \in [Invocations -> Statuses \cup {"none"}]
  BY <1>2 DEF Conclude
<1>4. PICK p \in {"backoff", "settled"} :
        /\ phase' = [phase EXCEPT ![i] = p]
        /\ p = "backoff" => r \in Retryable /\ attempts[i] < MaxAttempts[i]
        /\ result' \in [Invocations -> Statuses \cup {"none"}]
  BY <1>3
<1>5. /\ phase' \in [Invocations -> Phases]
      /\ phase'[i] = p
      /\ \A j \in Invocations \ {i} : phase'[j] = phase[j]
  BY <1>2, <1>4 DEF Phases, SlotPhases
<1>6. SlotAccounting' /\ Sorted(pending)'
  BY <1>2, <1>4, <1>5, QuietStep DEF SlotPhases, AttemptPhases
<1>7. TypeOK'
  BY <1>1, <1>4, <1>5 DEF TypeOK, queueVars, streamVars
<1>8. AttemptsLeft'
  BY <1>1, <1>4, <1>5 DEF AttemptsLeft
<1>9. LiveHandlers'
  BY <1>1, <1>2, <1>5 DEF LiveHandlers
<1>10. CancelledIsFinal'
  <2>1. ASSUME NEW j \in cancelled
        PROVE  attempts[j] = cancelledAt[j] + 1 =>
                 \/ phase'[j] \in {"running", "returned", "failing"}
                    /\ signal[j] = "cancelled"
                 \/ phase'[j] \in {"settled", "completed"} \cup OverPhases
    BY <1>1, <1>2, <1>4, <1>5 DEF CancelledIsFinal, Retryable, OverPhases
  <2>2. QED
    BY <1>1, <2>1 DEF CancelledIsFinal
<1>11. CancelledIsHeeded'
  BY <1>1, <1>2, <1>4, <1>5 DEF CancelledIsHeeded
<1>12. QED
  BY <1>6, <1>7, <1>8, <1>9, <1>10, <1>11 DEF IInv

\* Cancelling aborts the signal of the attempt under way, if there is one.
LEMMA CancelPreserves ==
  ASSUME IInv, NEW i \in Invocations, Cancel(i)
  PROVE  IInv'
<1>1. /\ TypeOK /\ AttemptsLeft /\ LiveHandlers /\ CancelledIsFinal
      /\ CancelledIsHeeded
  BY DEF IInv
<1>2. /\ phase \in [Invocations -> Phases] /\ signal \in [Invocations -> Signals]
      /\ attempts \in [Invocations -> 0..3]
      /\ cancelled \in SUBSET Invocations
      /\ cancelledAt \in [Invocations -> 0..3]
  BY <1>1 DEF TypeOK
<1>3. /\ i \notin cancelled
      /\ cancelled' = cancelled \cup {i}
      /\ cancelledAt' = [cancelledAt EXCEPT ![i] = attempts[i]]
      /\ UNCHANGED <<queueVars, attempts, result, controllers, granted, live, streamVars>>
  BY DEF Cancel
<1>4. /\ phase' \in [Invocations -> Phases]
      /\ signal' \in [Invocations -> Signals]
      /\ \A j \in Invocations \ {i} : phase'[j] = phase[j] /\ signal'[j] = signal[j]
      /\ \/ phase'[i] = phase[i]
         \/ phase[i] = "running" /\ phase'[i] = "failing" /\ signal'[i] # "clear"
      /\ signal[i] # "clear" => signal'[i] = signal[i]
      /\ phase'[i] \in {"running", "returned"} => signal'[i] # "clear"
  BY <1>2 DEF Cancel, Phases, SlotPhases, AttemptPhases, Signals, InAttempt
<1>5. SlotAccounting' /\ Sorted(pending)'
  BY <1>2, <1>3, <1>4, QuietStep DEF SlotPhases, AttemptPhases
<1>6. TypeOK'
  <2>1. cancelledAt' \in [Invocations -> 0..3]
    BY <1>2, <1>3
  <2>2. QED
    BY <1>1, <1>3, <1>4, <2>1 DEF TypeOK, queueVars, streamVars
<1>7. AttemptsLeft'
  BY <1>1, <1>3, <1>4 DEF AttemptsLeft
<1>8. LiveHandlers'
  BY <1>1, <1>2, <1>3, <1>4 DEF LiveHandlers
<1>9. CancelledIsFinal'
  <2>1. ASSUME NEW j \in cancelled, j # i
        PROVE  /\ cancelledAt'[j] = cancelledAt[j]
               /\ phase'[j] = phase[j] /\ signal'[j] = signal[j]
    BY <1>2, <1>3, <1>4, <2>1
  <2>2. cancelledAt'[i] = attempts[i] /\ attempts[i] \in Nat
    BY <1>2, <1>3
  <2>3. QED
    BY <1>1, <1>3, <2>1, <2>2 DEF CancelledIsFinal
<1>10. CancelledIsHeeded'
  BY <1>1, <1>2, <1>3, <1>4 DEF CancelledIsHeeded
<1>11. QED
  BY <1>5, <1>6, <1>7, <1>8, <1>9, <1>10 DEF IInv

\* The timer, like a cancellation, aborts the signal; the race that a signal
\* aborted from the start loses needs nothing else.
LEMMA TimeoutPreserves ==
  ASSUME IInv, NEW i \in Invocations, Timeout(i) \/ AbortedAtStart(i)
  PROVE  IInv'
<1>1. /\ TypeOK /\ AttemptsLeft /\ LiveHandlers /\ CancelledIsFinal
      /\ CancelledIsHeeded
  BY DEF IInv
<1>2. /\ phase \in [Invocations -> Phases] /\ signal \in [Invocations -> Signals]
      /\ cancelled \in SUBSET Invocations
  BY <1>1 DEF TypeOK
<1>3. UNCHANGED <<queueVars, attempts, result, controllers, cancelled, granted, live,
                  streamVars, cancelledAt>>
  BY DEF Timeout, AbortedAtStart
<1>4. /\ phase' \in [Invocations -> Phases]
      /\ signal' \in [Invocations -> Signals]
      /\ \A j \in Invocations \ {i} : phase'[j] = phase[j] /\ signal'[j] = signal[j]
      /\ \/ phase'[i] = phase[i]
         \/ phase[i] = "running" /\ phase'[i] = "failing"
      /\ signal'[i] # "clear"
      /\ signal[i] # "clear" => signal'[i] = signal[i]
  BY <1>2 DEF Timeout, AbortedAtStart, Phases, SlotPhases, AttemptPhases, Signals,
              InAttempt
<1>5. SlotAccounting' /\ Sorted(pending)'
  BY <1>2, <1>3, <1>4, QuietStep DEF SlotPhases, AttemptPhases
<1>6. TypeOK'
  BY <1>1, <1>3, <1>4 DEF TypeOK, queueVars, streamVars
<1>7. AttemptsLeft'
  BY <1>1, <1>3, <1>4 DEF AttemptsLeft
<1>8. LiveHandlers'
  BY <1>1, <1>2, <1>3, <1>4 DEF LiveHandlers
<1>9. CancelledIsFinal'
  <2>1. ASSUME NEW j \in cancelled, attempts[j] = cancelledAt[j] + 1
        PROVE  \/ phase'[j] \in {"running", "returned", "failing"}
                  /\ signal'[j] = "cancelled"
               \/ phase'[j] \in {"settled", "completed"} \cup OverPhases
    <3>1. \/ phase[j] \in {"running", "returned", "failing"} /\ signal[j] = "cancelled"
          \/ phase[j] \in {"settled", "completed"} \cup OverPhases
      BY <1>1, <2>1 DEF CancelledIsFinal
    <3>2. CASE j # i
      BY <1>2, <1>4, <3>1, <3>2
    <3>3. CASE j = i
      BY <1>4, <3>1, <3>3 DEF OverPhases
    <3>4. QED
      BY <3>2, <3>3
  <2>2. QED
    BY <1>1, <1>3, <2>1 DEF CancelledIsFinal
<1>10. CancelledIsHeeded'
  BY <1>1, <1>2, <1>3, <1>4 DEF CancelledIsHeeded
<1>11. QED
  BY <1>5, <1>6, <1>7, <1>8, <1>9, <1>10 DEF IInv

\* A handler settles; the attempt that still waits for it goes on.
LEMMA HandlerSettlesPreserves ==
  ASSUME IInv, NEW i \in Invocations, NEW n \in 1..3,
         NEW next \in {"returned", "failing"}, HandlerSettles(i, n, next)
  PROVE  IInv'
<1>1. /\ TypeOK /\ AttemptsLeft /\ LiveHandlers /\ CancelledIsFinal
      /\ CancelledIsHeeded
  BY DEF IInv
<1>2. /\ phase \in [Invocations -> Phases]
      /\ live \in [Invocations -> SUBSET (1..3)]
      /\ drained \in [Invocations -> SUBSET (1..3)]
      /\ cancelled \in SUBSET Invocations
  BY <1>1 DEF TypeOK
<1>3. /\ live' = [live EXCEPT ![i] = @ \ {n}]
      /\ drained' = [drained EXCEPT ![i] = @ \ {n}]
      /\ UNCHANGED <<queueVars, attempts, signal, result, controllers, cancelled,
                     granted, chunks, cancelledAt>>
  BY DEF HandlerSettles
<1>4. /\ phase' \in [Invocations -> Phases]
      /\ \A j \in Invocations \ {i} : phase'[j] = phase[j]
      /\ \/ phase'[i] = phase[i]
         \/ phase[i] = "running" /\ phase'[i] = next /\ n = attempts[i]
  BY <1>2 DEF HandlerSettles, Phases, SlotPhases, AttemptPhases
<1>5. SlotAccounting' /\ Sorted(pending)'
  BY <1>2, <1>3, <1>4, QuietStep DEF SlotPhases, AttemptPhases
<1>6. TypeOK'
  <2>1. /\ live' \in [Invocations -> SUBSET (1..3)]
        /\ drained' \in [Invocations -> SUBSET (1..3)]
    BY <1>2, <1>3
  <2>2. QED
    BY <1>1, <1>3, <1>4, <2>1 DEF TypeOK, queueVars
<1>7. AttemptsLeft'
  BY <1>1, <1>3, <1>4 DEF AttemptsLeft
<1>8. LiveHandlers'
  BY <1>1, <1>2, <1>3, <1>4 DEF LiveHandlers
<1>9. CancelledIsFinal'
  <2>1. ASSUME NEW j \in cancelled, attempts[j] = cancelledAt[j] + 1
        PROVE  \/ phase'[j] \in {"running", "returned", "failing"}
                  /\ signal'[j] = "cancelled"
               \/ phase'[j] \in {"settled", "completed"} \cup OverPhases
    <3>1. \/ phase[j] \in {"running", "returned", "failing"} /\ signal[j] = "cancelled"
          \/ phase[j] \in {"settled", "completed"} \cup OverPhases
      BY <1>1, <2>1 DEF CancelledIsFinal
    <3>2. CASE j # i
      BY <1>2, <1>3, <1>4, <3>1, <3>2
    <3>3. CASE j = i
      BY <1>3, <1>4, <3>1, <3>3 DEF OverPhases
    <3>4. QED
      BY <3>2, <3>3
  <2>2. QED
    BY <1>1, <1>3, <2>1 DEF CancelledIsFinal
<1>10. CancelledIsHeeded'
  BY <1>1, <1>2, <1>3, <1>4 DEF CancelledIsHeeded
<1>11. QED
  BY <1>5, <1>6, <1>7, <1>8, <1>9, <1>10 DEF IInv

\* A stream's chunks are nobody else's concern.
LEMMA StreamPreserves ==
  ASSUME IInv, NEW i \in Invocations, NEW n \in 1..3,
         StreamYields(i, n) \/ StreamEnds(i, n)
  PROVE  IInv'
<1>1. /\ TypeOK
      /\ drained \in [Invocations -> SUBSET (1..3)]
      /\ chunks \in [Invocations -> Seq({"data", "done"})]
  BY DEF IInv, TypeOK
<1>2. UNCHANGED <<queueVars, phase, attempts, signal, result, controllers, cancelled,
                  granted, live, cancelledAt>>
  BY DEF StreamYields, StreamEnds
<1>3. drained' \in [Invocations -> SUBSET (1..3)]
  BY <1>1 DEF StreamYields, StreamEnds
<1>4. chunks' \in [Invocations -> Seq({"data", "done"})]
  <2>1. \A c \in {"data", "done"} : Append(chunks[i], c) \in Seq({"data", "done"})
    BY <1>1
  <2>2. QED
    BY <1>1, <2>1 DEF StreamYields, StreamEnds
<1>5. TypeOK'
  BY <1>1, <1>2, <1>3, <1>4 DEF TypeOK, queueVars
<1>6. QED
  BY <1>2, <1>5
  DEF IInv, queueVars, SlotAccounting, CountIsExact, WithinLimit, NoIdleSlot,
      QueueIsExact, SlotHolders, Queued, Sorted, AttemptsLeft, LiveHandlers,
      CancelledIsFinal, CancelledIsHeeded

\* The sleep ends in the next attempt.
LEMMA BackoffPreserves ==
  ASSUME IInv, NEW i \in Invocations, BackoffElapses(i)
  PROVE  IInv'
<1>1. /\ TypeOK /\ AttemptsLeft
      /\ phase \in [Invocations -> Phases]
  BY DEF IInv, TypeOK
<1>2. /\ phase[i] = "backoff" /\ attempts[i] < MaxAttempts[i]
      /\ UNCHANGED <<queueVars, controllers, cancelled, granted, streamVars, cancelledAt>>
  BY <1>1 DEF BackoffElapses, AttemptsLeft
<1>3. /\ \A j \in {i} : /\ attempts[j] < MaxAttempts[j]
                        /\ phase[j] \in {"new", "queued", "backoff"}
      /\ {i} \in SUBSET Invocations
      /\ AttemptOnce({i}, phase)
  BY <1>2 DEF BackoffElapses
<1>4. AttemptInv'
  BY <1>1, <1>2, <1>3, AttemptOncePreserves DEF AttemptOnce
<1>5. \A j \in Invocations :
        IF j \in {i} THEN phase'[j] \in {"running", "settled"}
                     ELSE phase'[j] = phase[j]
  BY <1>1, <1>2, <1>3, AttemptOncePreserves DEF AttemptOnce
<1>6. SlotAccounting' /\ Sorted(pending)'
  <2>1. phase' \in [Invocations -> Phases]
    BY <1>4 DEF AttemptInv
  <2>2. QED
    BY <1>2, <1>5, <2>1, QuietStep DEF SlotPhases, AttemptPhases
<1>7. TypeOK'
  BY <1>1, <1>2, <1>4 DEF TypeOK, AttemptInv, queueVars, streamVars
<1>8. QED
  BY <1>4, <1>6, <1>7 DEF IInv, AttemptInv

\* invoke() goes on with its result, before and after the slot is freed.
LEMMA ReplyPreserves ==
  ASSUME IInv, NEW i \in Invocations, Complete(i) \/ Reply(i)
  PROVE  IInv'
<1>1. /\ TypeOK /\ AttemptsLeft /\ LiveHandlers /\ CancelledIsFinal
      /\ CancelledIsHeeded
  BY DEF IInv
<1>2. /\ phase \in [Invocations -> Phases] /\ controllers \in SUBSET Invocations
      /\ cancelled \in SUBSET Invocations
  BY <1>1 DEF TypeOK
<1>3. UNCHANGED <<queueVars, attempts, signal, result, cancelled, granted, live,
                  streamVars, cancelledAt>>
  BY DEF Complete, Reply
<1>4. /\ phase' \in [Invocations -> Phases]
      /\ \A j \in Invocations \ {i} : phase'[j] = phase[j]
      /\ \/ phase[i] = "settled" /\ phase'[i] = "completed"
         \/ phase[i] = "released" /\ phase'[i] = "answered"
      /\ controllers' \in SUBSET Invocations
  BY <1>2 DEF Complete, Reply, Phases, SlotPhases, AttemptPhases, OverPhases
<1>5. SlotAccounting' /\ Sorted(pending)'
  BY <1>2, <1>3, <1>4, QuietStep DEF SlotPhases, AttemptPhases
<1>6. TypeOK'
  BY <1>1, <1>3, <1>4 DEF TypeOK, queueVars, streamVars
<1>7. AttemptsLeft'
  BY <1>1, <1>3, <1>4 DEF AttemptsLeft
<1>8. LiveHandlers'
  BY <1>1, <1>2, <1>3, <1>4 DEF LiveHandlers
<1>9. CancelledIsFinal'
  BY <1>1, <1>2, <1>3, <1>4 DEF CancelledIsFinal, OverPhases
<1>10. CancelledIsHeeded'
  BY <1>1, <1>2, <1>3, <1>4 DEF CancelledIsHeeded
<1>11. QED
  BY <1>5, <1>6, <1>7, <1>8, <1>9, <1>10 DEF IInv

\* Steps that change nothing but the broker's grants.
LEMMA GrantPreserves ==
  ASSUME IInv, granted' \in SUBSET Capabilities,
         UNCHANGED <<queueVars, phase, attempts, signal, result, controllers,
                     cancelled, live, streamVars, cancelledAt>>
  PROVE  IInv'
BY DEF IInv, TypeOK, queueVars, streamVars, SlotAccounting, CountIsExact, WithinLimit,
       NoIdleSlot, QueueIsExact, SlotHolders, Queued, Sorted, AttemptsLeft, LiveHandlers,
       CancelledIsFinal, CancelledIsHeeded

-----------------------------------------------------------------------------
(* The invariant is inductive.                                             *)

LEMMA InitIInv == Init => IInv
<1> SUFFICES ASSUME Init PROVE IInv
  OBVIOUS
<1>1. TypeOK
  <2>1. <<>> \in Seq(Invocations) /\ <<>> \in Seq({"data", "done"})
    OBVIOUS
  <2>2. \A i \in Invocations : 0 <= MaxAttempts[i]
    BY ConstantsAssumption
  <2>3. QED
    BY <2>1, <2>2 DEF Init, TypeOK, Phases, Signals
<1>2. SlotAccounting
  <2>1. SlotHolders = {} /\ Queued = {}
    BY DEF Init, SlotHolders, Queued, SlotPhases, AttemptPhases
  <2>2. CountIsExact
    BY <2>1, FS_EmptySet DEF Init, CountIsExact
  <2>3. WithinLimit /\ NoIdleSlot
    BY ConstantsAssumption DEF Init, WithinLimit, NoIdleSlot
  <2>4. QueueIsExact
    BY <2>1 DEF Init, QueueIsExact
  <2>5. QED
    BY <2>2, <2>3, <2>4 DEF SlotAccounting
<1>3. Sorted(pending) /\ AttemptsLeft /\ LiveHandlers
  BY DEF Init, Sorted, AttemptsLeft, LiveHandlers
<1>4. CancelledIsFinal /\ CancelledIsHeeded
  BY DEF Init, CancelledIsFinal, CancelledIsHeeded
<1>5. QED
  BY <1>1, <1>2, <1>3, <1>4 DEF IInv

LEMMA NextIInv == IInv /\ [Next]_vars => IInv'
<1> SUFFICES ASSUME IInv, [Next]_vars PROVE IInv'
  OBVIOUS
<1>1. ASSUME NEW i \in Invocations, Invoke(i) PROVE IInv'
  BY <1>1, InvokePreserves
<1>2. ASSUME NEW i \in Invocations, Cancel(i) PROVE IInv'
  BY <1>2, CancelPreserves
<1>3. ASSUME NEW i \in Invocations, Timeout(i) \/ AbortedAtStart(i) PROVE IInv'
  BY <1>3, TimeoutPreserves
<1>4. ASSUME NEW i \in Invocations, AfterReturn(i) PROVE IInv'
  <2>1. /\ phase[i] = "returned" /\ signal[i] \in Signals
        /\ UNCHANGED <<queueVars, attempts, signal, controllers, cancelled, granted,
                       live, streamVars, cancelledAt>>
    BY <1>4 DEF AfterReturn, IInv, TypeOK
  <2>2. CASE signal[i] # "clear" /\ Conclude(i, signal[i])
    BY <2>1, <2>2, ConcludePreserves DEF Signals, Statuses
  <2>3. CASE signal[i] = "clear" /\ Conclude(i, "validation_error")
    BY <2>1, <2>3, ConcludePreserves DEF Statuses
  <2>4. CASE /\ signal[i] = "clear"
             /\ phase' = [phase EXCEPT ![i] = "succeeding"]
             /\ result' = result
    <3>1. /\ TypeOK /\ AttemptsLeft /\ LiveHandlers /\ CancelledIsFinal
          /\ CancelledIsHeeded
          /\ phase \in [Invocations -> Phases]
      BY DEF IInv, TypeOK
    <3>2. /\ phase' \in [Invocations -> Phases]
          /\ phase'[i] = "succeeding"
          /\ \A j \in Invocations \ {i} : phase'[j] = phase[j]
      BY <2>4, <3>1 DEF Phases, SlotPhases, AttemptPhases
    <3>3. i \notin cancelled
      BY <2>1, <2>4, <3>1 DEF CancelledIsHeeded
    <3>4. SlotAccounting' /\ Sorted(pending)'
      BY <2>1, <3>2, QuietStep DEF SlotPhases, AttemptPhases
    <3>5. TypeOK'
      BY <2>1, <2>4, <3>1, <3>2 DEF TypeOK, queueVars, streamVars
    <3>6. AttemptsLeft' /\ LiveHandlers'
      BY <2>1, <3>1, <3>2 DEF AttemptsLeft, LiveHandlers
    <3>7. CancelledIsFinal' /\ CancelledIsHeeded'
      <4>1. \A j \in cancelled : phase'[j] = phase[j]
        BY <3>1, <3>2, <3>3 DEF TypeOK
      <4>2. QED
        BY <2>1, <3>1, <4>1 DEF CancelledIsFinal, CancelledIsHeeded
    <3>8. QED
      BY <3>4, <3>5, <3>6, <3>7 DEF IInv
  <2>5. QED
    BY <1>4, <2>2, <2>3, <2>4 DEF AfterReturn
<1>5. ASSUME NEW i \in Invocations, SuccessAnnounced(i) PROVE IInv'
  <2>1. Conclude(i, "ok") /\ "ok" \in Statuses
    BY <1>5 DEF SuccessAnnounced, Statuses
  <2>2. QED
    BY <1>5, <2>1, ConcludePreserves DEF SuccessAnnounced
<1>6. ASSUME NEW i \in Invocations, FailureAnnounced(i) PROVE IInv'
  <2> DEFINE r == IF signal[i] = "clear" THEN "error" ELSE signal[i]
  <2>1. /\ r \in Statuses
        /\ signal[i] = "cancelled" => r \in {"cancelled", "ok"}
    BY DEF IInv, TypeOK, Signals, Statuses
  <2>2. Conclude(i, r)
    BY <1>6 DEF FailureAnnounced
  <2> HIDE DEF r
  <2>3. QED
    BY <1>6, <2>1, <2>2, ConcludePreserves DEF FailureAnnounced
<1>7. ASSUME NEW i \in Invocations, BackoffElapses(i) PROVE IInv'
  BY <1>7, BackoffPreserves
<1>8. ASSUME NEW i \in Invocations, Complete(i) \/ Reply(i) PROVE IInv'
  BY <1>8, ReplyPreserves
<1>9. ASSUME NEW i \in Invocations, Release(i) PROVE IInv'
  BY <1>9, ReleasePreserves
<1>10. ASSUME NEW i \in Invocations, NEW n \in 1..3, HandlerStep(i, n) PROVE IInv'
  <2>1. CASE HandlerReturns(i, n)
    BY <2>1, HandlerSettlesPreserves DEF HandlerReturns
  <2>2. CASE HandlerThrows(i, n)
    BY <2>2, HandlerSettlesPreserves DEF HandlerThrows
  <2>3. CASE StreamYields(i, n) \/ StreamEnds(i, n)
    BY <2>3, StreamPreserves
  <2>4. QED
    BY <1>10, <2>1, <2>2, <2>3 DEF HandlerStep
<1>11. ASSUME NEW c \in Capabilities, SetGrant(c) PROVE IInv'
  <2>1. granted \in SUBSET Capabilities
    BY DEF IInv, TypeOK
  <2>2. granted' \in SUBSET Capabilities
    BY <1>11, <2>1 DEF SetGrant
  <2>3. QED
    BY <1>11, <2>2, GrantPreserves DEF SetGrant
<1>12. CASE UNCHANGED vars
  <2>1. granted' \in SUBSET Capabilities
    BY <1>12 DEF IInv, TypeOK, vars
  <2>2. QED
    BY <1>12, <2>1, GrantPreserves DEF vars, queueVars, streamVars
<1>13. QED
  BY <1>1, <1>2, <1>3, <1>4, <1>5, <1>6, <1>7, <1>8, <1>9, <1>10, <1>11, <1>12
  DEF Next, Step

\* The inductive invariant holds in every behaviour of the framework.
THEOREM Inductive == Spec => []IInv
BY InitIInv, NextIInv, PTL DEF Spec

\* Every variable keeps its type, and no invocation exceeds its attempts.
THEOREM TypeCorrect == Spec => []TypeOK
<1>1. IInv => TypeOK
  BY DEF IInv
<1>2. QED
  BY <1>1, Inductive, PTL

\* The slot counter is exact, respects the limit and leaves nothing waiting
\* beside a free slot, for any number of invocations and slots.
THEOREM SlotsAreAccounted == Spec => []SlotAccounting
<1>1. IInv => SlotAccounting
  BY DEF IInv
<1>2. QED
  BY <1>1, Inductive, PTL

\* No handler is abandoned without its signal being aborted.
THEOREM StragglersAreTold == Spec => []StragglersAreAborted
<1>1. IInv => StragglersAreAborted
  <2> SUFFICES ASSUME IInv, NEW i \in Invocations, NEW n \in live[i]
               PROVE  \/ n = attempts[i] /\ phase[i] = "running"
                      \/ n < attempts[i] \/ signal[i] # "clear"
    BY DEF StragglersAreAborted, AttemptAborted
  <2>1. n \in 1..3 /\ attempts[i] \in 0..3
    BY DEF IInv, TypeOK
  <2>2. /\ n <= attempts[i]
        /\ n = attempts[i] => phase[i] = "running" \/ signal[i] # "clear"
    BY DEF IInv, LiveHandlers
  <2>3. QED
    BY <2>1, <2>2
<1>2. QED
  BY <1>1, Inductive, PTL

\* A cancelled invocation calls its handler at most once more.
THEOREM CancelledIsNotRetried == Spec => []CancelledRunsAtMostOnceMore
<1>1. IInv => CancelledRunsAtMostOnceMore
  BY DEF IInv, CancelledIsFinal, CancelledRunsAtMostOnceMore
<1>2. QED
  BY <1>1, Inductive, PTL

-----------------------------------------------------------------------------
(* What no step ever does.                                                 *)

\* The handlers that an attempt calls are allowed to be called.
LEMMA AttemptOnceIsGranted ==
  ASSUME TypeOK, NEW S, NEW ph, AttemptOnce(S, ph), NEW i \in Invocations
  PROVE  live'[i] \subseteq live[i] \/ Requires[i] \subseteq granted
BY DEF AttemptOnce, Refusal, TypeOK

\* A handler is called only while the actor holds what its tool declares.
THEOREM OnlyGrantedAreCalled == Spec => GrantedWhenCalled
<1>1. ASSUME IInv, [Next]_vars, NEW i \in Invocations
      PROVE  live'[i] \subseteq live[i] \/ Requires[i] \subseteq granted
  <2>0. TypeOK /\ live \in [Invocations -> SUBSET (1..3)]
    BY <1>1 DEF IInv, TypeOK
  <2>1. ASSUME NEW j \in Invocations, Invoke(j)
        PROVE  live'[i] \subseteq live[i] \/ Requires[i] \subseteq granted
    <3>1. PICK S, ph : AttemptOnce(S, ph)
      BY <2>1, Zenon DEF Invoke, Drain
    <3>2. QED
      BY <2>0, <3>1, AttemptOnceIsGranted DEF AttemptOnce
  <2>2. ASSUME NEW j \in Invocations, Release(j)
        PROVE  live'[i] \subseteq live[i] \/ Requires[i] \subseteq granted
    <3>1. PICK S, ph : AttemptOnce(S, ph)
      BY <2>2, Zenon DEF Release, Drain
    <3>2. QED
      BY <2>0, <3>1, AttemptOnceIsGranted DEF AttemptOnce
  <2>3. ASSUME NEW j \in Invocations, BackoffElapses(j)
        PROVE  live'[i] \subseteq live[i] \/ Requires[i] \subseteq granted
    BY <2>0, <2>3, AttemptOnceIsGranted DEF BackoffElapses, AttemptOnce
  <2>4. ASSUME NEW j \in Invocations,
               \/ Cancel(j) \/ Timeout(j) \/ AbortedAtStart(j) \/ AfterReturn(j)
               \/ SuccessAnnounced(j) \/ FailureAnnounced(j) \/ Complete(j) \/ Reply(j)
        PROVE  live'[i] \subseteq live[i]
    BY <2>4 DEF Cancel, Timeout, AbortedAtStart, AfterReturn, SuccessAnnounced,
                FailureAnnounced, Complete, Reply
  <2>5. ASSUME NEW j \in Invocations, NEW n \in 1..3, HandlerStep(j, n)
        PROVE  live'[i] \subseteq live[i]
    BY <2>0, <2>5 DEF HandlerStep, HandlerReturns, HandlerThrows, HandlerSettles,
                      StreamYields, StreamEnds
  <2>6. ASSUME NEW c \in Capabilities, SetGrant(c)
        PROVE  live'[i] \subseteq live[i]
    BY <2>6 DEF SetGrant
  <2>7. CASE UNCHANGED vars
    BY <2>7 DEF vars
  <2>8. QED
    BY <1>1, <2>1, <2>2, <2>3, <2>4, <2>5, <2>6, <2>7 DEF Next, Step
<1>2. IInv /\ [Next]_vars =>
        [\A i \in Invocations :
           live'[i] \subseteq live[i] \/ Requires[i] \subseteq granted]_vars
  BY <1>1
<1>3. QED
  BY <1>2, Inductive, PTL DEF Spec, GrantedWhenCalled

\* Only the value of an attempt that nobody has aborted is accepted.
LEMMA OnlyAcceptedSucceed ==
  ASSUME IInv, [Next]_vars, NEW i \in Invocations, phase'[i] = "succeeding"
  PROVE  phase[i] = "succeeding" \/ AfterReturn(i)
<1>0. phase \in [Invocations -> Phases]
  BY DEF IInv, TypeOK
<1>1. ASSUME NEW j \in Invocations, Invoke(j)
      PROVE  phase[i] = "succeeding"
  BY <1>0, <1>1 DEF Invoke, Drain, AttemptOnce
<1>2. ASSUME NEW j \in Invocations, Release(j)
      PROVE  phase[i] = "succeeding"
  BY <1>0, <1>2 DEF Release, Drain, AttemptOnce
<1>3. ASSUME NEW j \in Invocations, BackoffElapses(j)
      PROVE  phase[i] = "succeeding"
  BY <1>0, <1>3 DEF BackoffElapses, AttemptOnce
<1>4. ASSUME NEW j \in Invocations,
             \/ Cancel(j) \/ Timeout(j) \/ AbortedAtStart(j) \/ SuccessAnnounced(j)
             \/ FailureAnnounced(j) \/ Complete(j) \/ Reply(j)
      PROVE  phase[i] = "succeeding"
  BY <1>0, <1>4 DEF Cancel, Timeout, AbortedAtStart, SuccessAnnounced,
                    FailureAnnounced, Conclude, Complete, Reply
<1>5. ASSUME NEW j \in Invocations, AfterReturn(j), j # i
      PROVE  phase[i] = "succeeding"
  BY <1>0, <1>5 DEF AfterReturn, Conclude
<1>6. ASSUME NEW j \in Invocations, NEW n \in 1..3, HandlerStep(j, n)
      PROVE  phase[i] = "succeeding"
  BY <1>0, <1>6 DEF HandlerStep, HandlerReturns, HandlerThrows, HandlerSettles,
                    StreamYields, StreamEnds
<1>7. ASSUME NEW c \in Capabilities, SetGrant(c)
      PROVE  phase[i] = "succeeding"
  BY <1>7 DEF SetGrant
<1>8. CASE UNCHANGED vars
  BY <1>8 DEF vars
<1>9. QED
  BY <1>1, <1>2, <1>3, <1>4, <1>5, <1>6, <1>7, <1>8 DEF Next, Step

\* A cancelled invocation never goes on to report success.
THEOREM CancelledDoNotSucceed == Spec => CancelledNeverSucceeds
<1>1. ASSUME IInv, [Next]_vars, NEW i \in cancelled, phase'[i] = "succeeding"
      PROVE  phase[i] = "succeeding"
  <2>1. i \in Invocations /\ phase \in [Invocations -> Phases]
    BY <1>1 DEF IInv, TypeOK
  <2>2. CASE AfterReturn(i)
    <3>1. phase[i] = "returned" /\ signal[i] # "clear"
      BY <1>1, <2>2 DEF IInv, CancelledIsHeeded, AfterReturn
    <3>2. phase'[i] \in {"backoff", "settled"}
      BY <2>1, <2>2, <3>1 DEF AfterReturn, Conclude
    <3>3. QED
      BY <1>1, <3>2
  <2>3. QED
    BY <1>1, <2>1, <2>2, OnlyAcceptedSucceed
<1>2. IInv /\ [Next]_vars =>
        [\A i \in cancelled : phase'[i] = "succeeding" => phase[i] = "succeeding"]_vars
  BY <1>1
<1>3. QED
  BY <1>2, Inductive, PTL DEF Spec, CancelledNeverSucceeds

-----------------------------------------------------------------------------
(* The queue implements the abstract pool.                                 *)

\* An invocation waits, holds a slot or is over; only these three matter.
SameClass(i) ==
  /\ phase'[i] = "new" <=> phase[i] = "new"
  /\ phase'[i] = "queued" <=> phase[i] = "queued"
  /\ phase'[i] \in SlotPhases <=> phase[i] \in SlotPhases
  /\ phase'[i] \in OverPhases <=> phase[i] \in OverPhases

\* Every step but a submission and a release keeps all of them in their class.
LEMMA OtherStepsAreQuiet ==
  ASSUME IInv, [Next]_vars
  PROVE  \/ \E i \in Invocations : Invoke(i) \/ Release(i)
         \/ \A i \in Invocations : SameClass(i)
<1>0. phase \in [Invocations -> Phases]
  BY DEF IInv, TypeOK
<1> DEFINE Moves(j) == \E p, q \in SlotPhases :
                         phase[j] = p /\ phase' = [phase EXCEPT ![j] = q]
           Leaves(j) == \E p, q \in OverPhases :
                          phase[j] = p /\ phase' = [phase EXCEPT ![j] = q]
<1>1. ASSUME NEW j \in Invocations, Moves(j) \/ Leaves(j) \/ phase' = phase
      PROVE  \A i \in Invocations : SameClass(i)
  BY <1>0, <1>1 DEF SameClass, SlotPhases, AttemptPhases, OverPhases
<1>2. ASSUME NEW j \in Invocations,
             Cancel(j) \/ Timeout(j) \/ AbortedAtStart(j) \/ Complete(j)
      PROVE  Moves(j) \/ phase' = phase
  BY <1>0, <1>2 DEF Cancel, Timeout, AbortedAtStart, Complete, InAttempt, SlotPhases,
                    AttemptPhases
<1>3. ASSUME NEW j \in Invocations,
             AfterReturn(j) \/ SuccessAnnounced(j) \/ FailureAnnounced(j)
      PROVE  Moves(j)
  BY <1>0, <1>3 DEF AfterReturn, SuccessAnnounced, FailureAnnounced, Conclude,
                    SlotPhases, AttemptPhases
<1>4. ASSUME NEW j \in Invocations, Reply(j)
      PROVE  Leaves(j)
  BY <1>0, <1>4 DEF Reply, OverPhases
<1>5. ASSUME NEW j \in Invocations, BackoffElapses(j)
      PROVE  \A i \in Invocations : SameClass(i)
  <2>1. \A i \in Invocations :
          \/ phase'[i] = phase[i]
          \/ phase[i] = "backoff" /\ phase'[i] \in {"running", "settled"}
    BY <1>0, <1>5 DEF BackoffElapses, AttemptOnce
  <2>2. QED
    BY <2>1 DEF SameClass, SlotPhases, AttemptPhases, OverPhases
<1>6. ASSUME NEW j \in Invocations, NEW n \in 1..3, HandlerStep(j, n)
      PROVE  Moves(j) \/ phase' = phase
  <2>1. phase' = phase \/ \E next \in {"returned", "failing"} :
          phase[j] = "running" /\ phase' = [phase EXCEPT ![j] = next]
    BY <1>0, <1>6 DEF HandlerStep, HandlerReturns, HandlerThrows, HandlerSettles,
                      StreamYields, StreamEnds
  <2>2. QED
    BY <2>1 DEF SlotPhases, AttemptPhases
<1>7. ASSUME (\E c \in Capabilities : SetGrant(c)) \/ UNCHANGED vars
      PROVE  \A i \in Invocations : SameClass(i)
  <2>1. phase' = phase
    BY <1>7 DEF SetGrant, vars
  <2>2. QED
    BY <2>1 DEF SameClass
<1> HIDE DEF Moves, Leaves
<1>8. QED
  BY <1>1, <1>2, <1>3, <1>4, <1>5, <1>6, <1>7 DEF Next, Step

\* What the two other steps do to the classes of the invocations.
LEMMA InvokeClasses ==
  ASSUME IInv, NEW i \in Invocations, Invoke(i)
  PROVE  /\ phase[i] = "new"
         /\ \A j \in Invocations \ {i} : phase'[j] = phase[j]
         /\ \/ /\ Queued = {} /\ active < MaxConcurrent
               /\ phase'[i] \in {"running", "settled"}
            \/ active = MaxConcurrent /\ phase'[i] = "queued"
<1>1. CASE /\ pending = <<>> /\ active < MaxConcurrent
           /\ AttemptOnce({i}, [phase EXCEPT ![i] = "queued"])
  <2>1. Queued = {}
    BY <1>1 DEF IInv, SlotAccounting, QueueIsExact
  <2>2. QED
    BY <1>1, <2>1, {i} \in SUBSET {i}, i \in {i}, InvokePhases, Zenon
<1>2. CASE active = MaxConcurrent /\ AttemptOnce({}, [phase EXCEPT ![i] = "queued"])
  BY <1>2, {} \in SUBSET {i}, i \notin {}, InvokePhases, Zenon
<1>3. QED
  BY <1>1, <1>2, InvokeEffect

LEMMA ReleaseClasses ==
  ASSUME IInv, NEW i \in Invocations, Release(i)
  PROVE  /\ phase[i] = "completed" /\ phase'[i] = "released"
         /\ \/ /\ Queued = {}
               /\ \A j \in Invocations \ {i} : phase'[j] = phase[j]
            \/ /\ pending # <<>> /\ Head(pending) \in Queued
               /\ phase'[Head(pending)] \in {"running", "settled"}
               /\ \A j \in Invocations \ {i, Head(pending)} : phase'[j] = phase[j]
<1>1. /\ pending \in Seq(Invocations)
      /\ Queued = {pending[k] : k \in DOMAIN pending}
  BY DEF IInv, TypeOK, SlotAccounting, QueueIsExact
<1>2. CASE pending = <<>> /\ AttemptOnce({}, [phase EXCEPT ![i] = "released"])
  <2>1. Queued = {}
    BY <1>1, <1>2
  <2>2. QED
    BY <1>2, <2>1, {} \in SUBSET Queued, {i} \cup {} = {i}, ReleasePhases, Zenon
<1>3. CASE /\ pending # <<>>
           /\ AttemptOnce({Head(pending)}, [phase EXCEPT ![i] = "released"])
  <2> DEFINE h == Head(pending)
  <2>1. h \in Queued
    BY <1>1, <1>3
  <2>2. AttemptOnce({h}, [phase EXCEPT ![i] = "released"])
    BY <1>3
  <2>3. {h} \in SUBSET Queued /\ h \in {h} /\ {i} \cup {h} = {i, h}
    BY <2>1
  <2> HIDE DEF h
  <2>4. /\ phase[i] = "completed" /\ phase'[i] = "released"
        /\ phase'[h] \in {"running", "settled"}
        /\ \A j \in Invocations \ {i, h} : phase'[j] = phase[j]
    BY <2>2, <2>3, ReleasePhases, Zenon
  <2>5. QED
    BY <1>3, <2>1, <2>4 DEF h
<1>4. QED
  BY <1>2, <1>3, ReleaseEffect

\* The head of the queue is the most urgent invocation that waits.
LEMMA HeadIsMostUrgent ==
  ASSUME IInv, pending # <<>>, NEW i \in Queued
  PROVE  Priority[Head(pending)] >= Priority[i]
<1>1. /\ pending \in Seq(Invocations) /\ Sorted(pending)
      /\ Queued = {pending[k] : k \in DOMAIN pending}
  BY DEF IInv, TypeOK, SlotAccounting, QueueIsExact
<1>2. PICK k \in DOMAIN pending : pending[k] = i
  BY <1>1
<1>3. Head(pending) = pending[1] /\ 1 \in DOMAIN pending /\ k \in Nat \ {0}
  BY <1>1, <1>2
<1>4. Priority[i] \in Nat
  BY ConstantsAssumption DEF Queued
<1>5. CASE k = 1
  BY <1>2, <1>3, <1>4, <1>5
<1>6. CASE k > 1
  BY <1>1, <1>2, <1>3, <1>6 DEF Sorted
<1>7. QED
  BY <1>3, <1>5, <1>6

\* ToolQueue implements BoundedPool: every behaviour of the framework, seen
\* through its slots, is one of the pool's.
THEOREM QueueImplementsPool == Spec => ImplementsPool
<1>1. Init => Pool!Init
  BY DEF Init, Pool!Init, Queued, SlotHolders, Over, SlotPhases, AttemptPhases, OverPhases
<1>2. ASSUME IInv, [Next]_vars
      PROVE  [Pool!Next]_Pool!poolVars
  <2>1. CASE \A i \in Invocations : SameClass(i)
    <3>1. Queued' = Queued /\ SlotHolders' = SlotHolders /\ Over' = Over
      BY <2>1 DEF SameClass, Queued, SlotHolders, Over
    <3>2. QED
      BY <3>1 DEF Pool!poolVars
  <2>2. ASSUME NEW i \in Invocations, Invoke(i)
        PROVE  Pool!Next
    <3>0. Pool!Cardinality(SlotHolders) = Cardinality(SlotHolders)
      BY DEF Pool!Cardinality, Cardinality
    <3>1. /\ active = Cardinality(SlotHolders) /\ active \in Nat
          /\ MaxConcurrent \in Nat
      BY <1>2, ConstantsAssumption DEF IInv, TypeOK, SlotAccounting, CountIsExact
    <3>2. /\ phase[i] = "new"
          /\ \A j \in Invocations \ {i} : phase'[j] = phase[j]
          /\ \/ /\ Queued = {} /\ active < MaxConcurrent
                /\ phase'[i] \in {"running", "settled"}
             \/ active = MaxConcurrent /\ phase'[i] = "queued"
      BY <1>2, <2>2, InvokeClasses
    <3>3. i \notin Queued \cup SlotHolders \cup Over
      BY <3>2 DEF Queued, SlotHolders, Over, SlotPhases, AttemptPhases, OverPhases
    <3>4. Over' = Over
      BY <3>2 DEF Over, OverPhases
    <3>5. CASE active < MaxConcurrent
      <4>1. SlotHolders' = SlotHolders \cup {i} /\ Queued' = Queued
        BY <3>1, <3>2, <3>5 DEF SlotHolders, Queued, SlotPhases, AttemptPhases
      <4>2. Pool!Submit(i)
        BY <3>1, <3>0, <3>3, <3>4, <3>5, <4>1 DEF Pool!Submit
      <4>3. QED
        BY <4>2 DEF Pool!Next
    <3>6. CASE active = MaxConcurrent
      <4>1. SlotHolders' = SlotHolders /\ Queued' = Queued \cup {i}
        BY <3>1, <3>2, <3>6 DEF SlotHolders, Queued, SlotPhases, AttemptPhases
      <4>2. Pool!Submit(i)
        BY <3>1, <3>0, <3>3, <3>4, <3>6, <4>1 DEF Pool!Submit
      <4>3. QED
        BY <4>2 DEF Pool!Next
    <3>7. QED
      BY <3>2, <3>5, <3>6
  <2>3. ASSUME NEW i \in Invocations, Release(i)
        PROVE  Pool!Next
    <3> DEFINE h == Head(pending)
    <3>1. /\ phase[i] = "completed" /\ phase'[i] = "released"
          /\ \/ /\ Queued = {}
                /\ \A j \in Invocations \ {i} : phase'[j] = phase[j]
             \/ /\ pending # <<>> /\ h \in Queued
                /\ phase'[h] \in {"running", "settled"}
                /\ \A j \in Invocations \ {i, h} : phase'[j] = phase[j]
      BY <1>2, <2>3, ReleaseClasses
    <3>2. pending # <<>> => \A j \in Queued : Priority[j] <= Priority[h]
      <4>1. \A j \in Queued : j \in Invocations
        BY DEF Queued
      <4>2. Queued = {} \/ h \in Queued
        BY <3>1
      <4>3. pending # <<>> => \A j \in Queued : Priority[h] >= Priority[j]
        BY <1>2, HeadIsMostUrgent
      <4>4. Priority \in [Invocations -> 0..3]
        BY ConstantsAssumption
      <4> HIDE DEF h
      <4>5. QED
        BY <4>1, <4>2, <4>3, <4>4
    <3> HIDE DEF h
    <3>3. i \in SlotHolders
      BY <3>1 DEF SlotHolders, SlotPhases
    <3>4. CASE Queued = {} /\ \A j \in Invocations \ {i} : phase'[j] = phase[j]
      <4>1. SlotHolders' = SlotHolders \ {i} /\ Queued' = Queued /\ Over' = Over \cup {i}
        BY <3>1, <3>4 DEF SlotHolders, Queued, Over, SlotPhases, AttemptPhases, OverPhases
      <4>2. Pool!Finish(i)
        BY <3>3, <3>4, <4>1 DEF Pool!Finish
      <4>3. QED
        BY <4>2 DEF Pool!Next
    <3>5. CASE /\ pending # <<>> /\ h \in Queued
               /\ phase'[h] \in {"running", "settled"}
               /\ \A j \in Invocations \ {i, h} : phase'[j] = phase[j]
      <4>1. phase[h] = "queued" /\ h \in Invocations /\ h # i
        BY <3>1, <3>5 DEF Queued
      <4>2. SlotHolders' = (SlotHolders \ {i}) \cup {h}
        BY <3>1, <3>5, <4>1 DEF SlotHolders, SlotPhases, AttemptPhases
      <4>3. Queued' = Queued \ {h}
        BY <3>1, <3>5, <4>1 DEF Queued
      <4>4. Over' = Over \cup {i}
        BY <3>1, <3>5, <4>1 DEF Over, OverPhases
      <4>5. \E next \in Queued :
              /\ \A other \in Queued : Priority[other] <= Priority[next]
              /\ SlotHolders' = (SlotHolders \ {i}) \cup {next}
              /\ Queued' = Queued \ {next}
        BY <3>2, <3>5, <4>2, <4>3
      <4>6. Pool!Finish(i)
        BY <3>3, <4>4, <4>5 DEF Pool!Finish
      <4>7. QED
        BY <4>6 DEF Pool!Next
    <3>6. QED
      BY <3>1, <3>4, <3>5
  <2>4. QED
    BY <1>2, <2>1, <2>2, <2>3, OtherStepsAreQuiet
<1>3. QED
  BY <1>1, <1>2, Inductive, PTL DEF Spec, ImplementsPool, Pool!Spec

\* No queued invocation is passed by a less urgent one or by a later one of
\* its own urgency.
THEOREM UrgentGoFirst == Spec => MostUrgentFirst
<1> DEFINE NotPassed ==
             \A i, j \in Invocations :
               /\ phase[i] = "queued" /\ phase'[i] = "queued"
               /\ phase[j] \in {"new", "queued"} /\ phase'[j] \in SlotPhases
               => Priority[j] >= Priority[i]
           InOrder ==
             \A k, l \in DOMAIN pending :
               /\ k < l
               /\ phase'[pending[k]] = "queued"
               => phase'[pending[l]] = "queued"
<1>1. ASSUME IInv, [Next]_vars PROVE NotPassed
  <2> SUFFICES ASSUME NEW i \in Invocations, NEW j \in Invocations,
                      phase[i] = "queued", phase'[i] = "queued",
                      phase[j] \in {"new", "queued"}, phase'[j] \in SlotPhases
               PROVE  Priority[j] >= Priority[i]
    OBVIOUS
  <2>1. i \in Queued
    BY DEF Queued
  <2>2. phase[j] \notin SlotPhases
    BY DEF SlotPhases, AttemptPhases
  <2>3. ~SameClass(j)
    BY <2>2 DEF SameClass
  <2>4. ASSUME NEW m \in Invocations, Invoke(m) PROVE FALSE
    <3>1. Queued # {} /\ phase'[j] # "queued" /\ phase'[j] # phase[j]
      BY <2>1, <2>2 DEF SlotPhases, AttemptPhases
    <3>2. active \in Nat /\ MaxConcurrent \in Nat
      BY <1>1, ConstantsAssumption DEF IInv, TypeOK
    <3>3. QED
      BY <1>1, <2>4, <3>1, <3>2, InvokeClasses
  <2>5. ASSUME NEW m \in Invocations, Release(m) PROVE Priority[j] >= Priority[i]
    <3>1. phase[m] = "completed" /\ j # m /\ phase'[j] # phase[j]
      BY <1>1, <2>2, <2>5, ReleaseClasses
    <3>2. pending # <<>> /\ j = Head(pending)
      BY <1>1, <2>1, <2>5, <3>1, ReleaseClasses
    <3>3. QED
      BY <1>1, <2>1, <3>2, HeadIsMostUrgent
  <2>6. QED
    BY <1>1, <2>3, <2>4, <2>5, OtherStepsAreQuiet
<1>2. ASSUME IInv, [Next]_vars PROVE InOrder
  <2> SUFFICES ASSUME NEW k \in DOMAIN pending, NEW l \in DOMAIN pending, k < l
               PROVE  phase'[pending[l]] = "queued"
    OBVIOUS
  <2>1. /\ pending \in Seq(Invocations)
        /\ Queued = {pending[n] : n \in DOMAIN pending}
        /\ \A m, n \in DOMAIN pending : pending[m] = pending[n] => m = n
    BY <1>2 DEF IInv, TypeOK, SlotAccounting, QueueIsExact
  <2>2. /\ pending[l] \in Invocations /\ phase[pending[l]] = "queued"
        /\ pending[l] # Head(pending)
    BY <2>1 DEF Queued
  <2>3. CASE \A i \in Invocations : SameClass(i)
    BY <2>2, <2>3 DEF SameClass
  <2>4. ASSUME NEW m \in Invocations, Invoke(m)
        PROVE  phase'[pending[l]] = "queued"
    BY <1>2, <2>2, <2>4, InvokeClasses
  <2>5. ASSUME NEW m \in Invocations, Release(m)
        PROVE  phase'[pending[l]] = "queued"
    BY <1>2, <2>2, <2>5, ReleaseClasses
  <2>6. QED
    BY <1>2, <2>3, <2>4, <2>5, OtherStepsAreQuiet
<1>3. IInv /\ [Next]_vars => [NotPassed /\ InOrder]_vars
  BY <1>1, <1>2
<1>4. QED
  BY <1>3, Inductive, PTL DEF Spec, MostUrgentFirst
=============================================================================
