--------------------------- MODULE ToolInvocation ---------------------------
(***************************************************************************)
(* core/tool-framework: ToolManager.invoke() and what it drives -- the     *)
(* priority queue (tool-queue.ts), the executor's attempt and retry loop   *)
(* (tool-executor.ts, tool-retry.ts), cancellation (tool-cancellation.ts), *)
(* the capability check (tool-permissions.ts) and streaming                *)
(* (tool-streaming.ts).                                                    *)
(*                                                                         *)
(* Everything runs on one JavaScript thread: code between two awaits is    *)
(* one action, and any other action may run at an await.  phase[i] is the  *)
(* await that invocation i stands at:                                      *)
(*                                                                         *)
(*   new         not submitted                                             *)
(*   queued      in ToolQueue.pending                                      *)
(*   running     awaiting the race of the handler with the abort signal    *)
(*   returned    the race was won by a value, its continuation is due      *)
(*   succeeding  awaiting the subscribers of "tool.invocation.succeeded"   *)
(*   failing     awaiting the subscribers of "tool.invocation.failed"      *)
(*   backoff     sleeping before the next attempt                          *)
(*   settled     execute() has its result, invoke() has not resumed        *)
(*   completed   invoke() has disposed of the controller                   *)
(*   released    the queue's finally has freed the slot                    *)
(*   answered    invoke()'s promise has settled                            *)
(***************************************************************************)
EXTENDS Naturals, Sequences, FiniteSets

CONSTANTS
  Invocations,    (* the calls of invoke()                                  *)
  MaxConcurrent,  (* ToolQueue's maxConcurrent                              *)
  Priority,       (* the request's priority weight, 0 (low) .. 3 (critical) *)
  MaxAttempts,    (* COST_TO_RETRIES of the tool's cost, 1 .. 3             *)
  Capabilities,   (* what a tool may require                                *)
  Requires,       (* the capabilities the invocation's tool declares        *)
  Malformed,      (* invocations whose parameters fail the input schema     *)
  Streaming,      (* invocations of a tool with executeStream               *)
  MaxChunks,      (* bound: data chunks a stream yields                     *)
  MaxCancels      (* bound: invocations that are cancelled                  *)

ASSUME ConstantsAssumption ==
  /\ IsFiniteSet(Invocations)
  /\ MaxConcurrent \in Nat \ {0}
  /\ Priority \in [Invocations -> 0..3]
  /\ MaxAttempts \in [Invocations -> 1..3]
  /\ Requires \in [Invocations -> SUBSET Capabilities]
  /\ Malformed \subseteq Invocations
  /\ Streaming \subseteq Invocations
  /\ MaxChunks \in Nat
  /\ MaxCancels \in Nat

VARIABLES
  pending,      (* ToolQueue.pending                                        *)
  active,       (* ToolQueue.active                                         *)
  phase,        (* the await each invocation stands at                      *)
  attempts,     (* attempts begun                                           *)
  signal,       (* state of the current attempt's linked signal             *)
  result,       (* the ToolResult's status, once there is one               *)
  controllers,  (* keys of ToolCancellationRegistry.controllers             *)
  cancelled,    (* invocations whose controller was aborted                 *)
  granted,      (* capabilities the broker grants the actor                 *)
  live,         (* live[i]: the attempts of i whose handler has not settled *)
  drained,      (* those of live[i] that have handed over their final chunk *)
  chunks,       (* what the consumer of each stream has been handed         *)
  cancelledAt   (* history: attempts[i] when i was cancelled                *)

queueVars  == <<pending, active>>
streamVars == <<drained, chunks>>
vars == <<pending, active, phase, attempts, signal, result, controllers, cancelled,
          granted, live, drained, chunks, cancelledAt>>

AttemptPhases == {"running", "returned", "succeeding", "failing"}
SlotPhases    == AttemptPhases \cup {"backoff", "settled", "completed"}
OverPhases    == {"released", "answered"}
Phases        == SlotPhases \cup OverPhases \cup {"new", "queued"}
Signals       == {"clear", "timeout", "cancelled"}
Statuses      == {"ok", "error", "timeout", "cancelled", "validation_error",
                  "permission_denied"}
Retryable     == {"timeout", "error"}

InAttempt(i) == phase[i] \in AttemptPhases

\* The signal handed to the handler of attempt n of i has been aborted.
AttemptAborted(i, n) == n < attempts[i] \/ signal[i] # "clear"

-----------------------------------------------------------------------------
(* The priority queue.                                                     *)

\* Defect: the new entry is pushed and the queue is not sorted.
UnsortedEnqueue(q, i) == Append(q, i)

\* The entries of the queue that stay ahead of a new one of i's urgency.
Ahead(q, i) == Cardinality({k \in DOMAIN q : Priority[q[k]] >= Priority[i]})

InsertAfter(q, n, i) ==
  [k \in 1..(Len(q) + 1) |->
     IF k <= n THEN q[k] ELSE IF k = n + 1 THEN i ELSE q[k - 1]]

\* push, then the stable sort by descending weight: on a queue that is sorted
\* already, the newcomer ends up behind all that are at least as urgent.
Enqueue(q, i) == InsertAfter(q, Ahead(q, i), i)

\* Defect: the loop runs once more when every slot is taken.
GreedyDrainCount(q, busy) ==
  IF busy > MaxConcurrent \/ q = <<>> THEN 0 ELSE 1

\* How many entries the loop of drain() shifts off q when busy slots are taken.
DrainCount(q, busy) ==
  IF busy >= MaxConcurrent THEN 0
  ELSE IF Len(q) <= MaxConcurrent - busy THEN Len(q) ELSE MaxConcurrent - busy

\* The checks attemptOnce() makes before it calls the handler.
Refusal(i) ==
  IF i \in Malformed THEN "validation_error"
  ELSE IF ~(Requires[i] \subseteq granted) THEN "permission_denied"
  ELSE "none"

\* Defect: a caller's signal that is already aborted is not noticed.
FreshSignal(i) == "clear"

\* The state in which linkedSignal() hands the signal to an attempt of i.
LinkedSignal(i) == IF i \in cancelled THEN "cancelled" ELSE "clear"

(* The invocations of S begin their next attempt, up to its first await:   *)
(* the handler is called even when the caller has already cancelled, the   *)
(* linked signal being aborted from the start.  ph are the phases before.  *)
AttemptOnce(S, ph) ==
  LET started == {i \in S : Refusal(i) = "none"}
  IN  /\ attempts' = [i \in Invocations |->
                        IF i \in S THEN attempts[i] + 1 ELSE attempts[i]]
      /\ phase' = [i \in Invocations |->
                     IF i \in started THEN "running"
                     ELSE IF i \in S THEN "settled" ELSE ph[i]]
      /\ result' = [i \in Invocations |->
                      IF i \in S \ started THEN Refusal(i) ELSE result[i]]
      /\ signal' = [i \in Invocations |->
                      IF i \in started THEN LinkedSignal(i) ELSE signal[i]]
      /\ live' = [i \in Invocations |->
                    IF i \in started THEN live[i] \cup {attempts[i] + 1}
                    ELSE live[i]]

\* drain(): the first entries of q get the free slots and begin to run.
Drain(q, busy, ph) ==
  LET n == DrainCount(q, busy)
  IN  /\ pending' = SubSeq(q, n + 1, Len(q))
      /\ active' = busy + n
      /\ AttemptOnce({q[k] : k \in 1..n}, ph)

-----------------------------------------------------------------------------
Init ==
  /\ pending = <<>>
  /\ active = 0
  /\ phase = [i \in Invocations |-> "new"]
  /\ attempts = [i \in Invocations |-> 0]
  /\ signal = [i \in Invocations |-> "clear"]
  /\ result = [i \in Invocations |-> "none"]
  /\ controllers = {}
  /\ cancelled = {}
  /\ granted = {}
  /\ live = [i \in Invocations |-> {}]
  /\ drained = [i \in Invocations |-> {}]
  /\ chunks = [i \in Invocations |-> <<>>]
  /\ cancelledAt = [i \in Invocations |-> 0]

\* invoke() of a registered tool, up to the await on the queue.
Invoke(i) ==
  /\ phase[i] = "new"
  /\ controllers' = controllers \cup {i}
  /\ Drain(Enqueue(pending, i), active, [phase EXCEPT ![i] = "queued"])
  /\ UNCHANGED <<cancelled, granted, drained, chunks, cancelledAt>>

\* cancel(): aborts the caller's controller, which aborts the linked signal
\* of the attempt under way; a second abort does nothing.
Cancel(i) ==
  /\ i \in controllers \ cancelled
  /\ Cardinality(cancelled) < MaxCancels
  /\ cancelled' = cancelled \cup {i}
  /\ cancelledAt' = [cancelledAt EXCEPT ![i] = attempts[i]]
  /\ IF InAttempt(i) /\ signal[i] = "clear"
     THEN /\ signal' = [signal EXCEPT ![i] = "cancelled"]
          /\ phase' = [phase EXCEPT ![i] = IF @ = "running" THEN "failing" ELSE @]
     ELSE UNCHANGED <<signal, phase>>
  /\ UNCHANGED <<queueVars, attempts, result, controllers, granted, live,
                 streamVars>>

\* Defect: the timer settles the race but does not abort the handler's signal.
SilentTimeout(i) ==
  /\ phase[i] = "running"
  /\ phase' = [phase EXCEPT ![i] = "failing"]
  /\ UNCHANGED <<queueVars, attempts, signal, result, controllers,
                 cancelled, granted, live, streamVars, cancelledAt>>

\* The attempt's timer fires: it is armed until the finally of attemptOnce().
Timeout(i) ==
  /\ InAttempt(i)
  /\ signal[i] = "clear"
  /\ signal' = [signal EXCEPT ![i] = "timeout"]
  /\ phase' = [phase EXCEPT ![i] = IF @ = "running" THEN "failing" ELSE @]
  /\ UNCHANGED <<queueVars, attempts, result, controllers, cancelled,
                 granted, live, streamVars, cancelledAt>>

\* The race of an attempt that began with an aborted signal is lost.
AbortedAtStart(i) ==
  /\ phase[i] = "running"
  /\ signal[i] # "clear"
  /\ phase' = [phase EXCEPT ![i] = "failing"]
  /\ UNCHANGED <<queueVars, attempts, signal, result, controllers,
                 cancelled, granted, live, streamVars, cancelledAt>>

\* The handler of attempt n settles; only a race it is still part of notices.
HandlerSettles(i, n, next) ==
  /\ n \in live[i]
  /\ live' = [live EXCEPT ![i] = @ \ {n}]
  /\ drained' = [drained EXCEPT ![i] = @ \ {n}]
  /\ phase' = IF n = attempts[i] /\ phase[i] = "running"
              THEN [phase EXCEPT ![i] = next] ELSE phase
  /\ UNCHANGED <<queueVars, attempts, signal, result, controllers,
                 cancelled, granted, chunks, cancelledAt>>

HandlerReturns(i, n) ==
  /\ i \in Streaming => n \in drained[i]
  /\ HandlerSettles(i, n, "returned")

HandlerThrows(i, n) == HandlerSettles(i, n, "failing")

\* The stream yields: its chunk is handed over unless the signal has fired,
\* which ends the loop and hands over the final chunk instead.
StreamYields(i, n) ==
  /\ i \in Streaming
  /\ n \in live[i] \ drained[i]
  /\ IF AttemptAborted(i, n)
     THEN /\ chunks' = [chunks EXCEPT ![i] = Append(@, "done")]
          /\ drained' = [drained EXCEPT ![i] = @ \cup {n}]
     ELSE /\ Len(chunks[i]) < MaxChunks
          /\ chunks' = [chunks EXCEPT ![i] = Append(@, "data")]
          /\ drained' = drained
  /\ UNCHANGED <<queueVars, phase, attempts, signal, result, controllers,
                 cancelled, granted, live, cancelledAt>>

\* The stream ends: the final chunk is handed over.
StreamEnds(i, n) ==
  /\ i \in Streaming
  /\ n \in live[i] \ drained[i]
  /\ chunks' = [chunks EXCEPT ![i] = Append(@, "done")]
  /\ drained' = [drained EXCEPT ![i] = @ \cup {n}]
  /\ UNCHANGED <<queueVars, phase, attempts, signal, result, controllers,
                 cancelled, granted, live, cancelledAt>>

\* Defect: a cancelled attempt is retried like a failed one.
RetryingConclude(i, r) ==
  IF r \in Retryable \cup {"cancelled"} /\ attempts[i] < MaxAttempts[i]
  THEN /\ phase' = [phase EXCEPT ![i] = "backoff"]
       /\ result' = result
  ELSE /\ phase' = [phase EXCEPT ![i] = "settled"]
       /\ result' = [result EXCEPT ![i] = r]

\* attemptOnce() returns status r; the loop of execute() retries or ends.
Conclude(i, r) ==
  IF r \in Retryable /\ attempts[i] < MaxAttempts[i]
  THEN /\ phase' = [phase EXCEPT ![i] = "backoff"]
       /\ result' = result
  ELSE /\ phase' = [phase EXCEPT ![i] = "settled"]
       /\ result' = [result EXCEPT ![i] = r]

\* The continuation of a race that a value won: the signal is read again,
\* then the value is validated.
AfterReturn(i) ==
  /\ phase[i] = "returned"
  /\ \/ /\ signal[i] # "clear"
        /\ Conclude(i, signal[i])
     \/ /\ signal[i] = "clear"
        /\ Conclude(i, "validation_error")
     \/ /\ signal[i] = "clear"
        /\ phase' = [phase EXCEPT ![i] = "succeeding"]
        /\ result' = result
  /\ UNCHANGED <<queueVars, attempts, signal, controllers, cancelled,
                 granted, live, streamVars, cancelledAt>>

SuccessAnnounced(i) ==
  /\ phase[i] = "succeeding"
  /\ Conclude(i, "ok")
  /\ UNCHANGED <<queueVars, attempts, signal, controllers, cancelled,
                 granted, live, streamVars, cancelledAt>>

\* The catch block reads the signal only after the subscribers have run.
FailureAnnounced(i) ==
  /\ phase[i] = "failing"
  /\ Conclude(i, IF signal[i] = "clear" THEN "error" ELSE signal[i])
  /\ UNCHANGED <<queueVars, attempts, signal, controllers, cancelled,
                 granted, live, streamVars, cancelledAt>>

\* The sleep between attempts is over: nothing can cut it short.
BackoffElapses(i) ==
  /\ phase[i] = "backoff"
  /\ AttemptOnce({i}, phase)
  /\ UNCHANGED <<queueVars, controllers, cancelled, granted, streamVars,
                 cancelledAt>>

\* invoke() resumes with the result: dispose, diagnostics, metrics and log.
Complete(i) ==
  /\ phase[i] = "settled"
  /\ phase' = [phase EXCEPT ![i] = "completed"]
  /\ controllers' = controllers \ {i}
  /\ UNCHANGED <<queueVars, attempts, signal, result, cancelled, granted,
                 live, streamVars, cancelledAt>>

\* Defect: the slot is freed and nobody is called.
IdleRelease(i) ==
  /\ phase[i] = "completed"
  /\ phase' = [phase EXCEPT ![i] = "released"]
  /\ active' = active - 1
  /\ UNCHANGED <<pending, attempts, signal, result, controllers, cancelled,
                 granted, live, streamVars, cancelledAt>>

\* The finally of the queue: the slot is free, the queue is drained.
Release(i) ==
  /\ phase[i] = "completed"
  /\ Drain(pending, active - 1, [phase EXCEPT ![i] = "released"])
  /\ UNCHANGED <<controllers, cancelled, granted, drained, chunks,
                 cancelledAt>>

(* invoke() has recorded the call in memory and announced its completion:  *)
(* its promise settles, with the result or, when the memory store failed,  *)
(* with that store's error.                                                *)
Reply(i) ==
  /\ phase[i] = "released"
  /\ phase' = [phase EXCEPT ![i] = "answered"]
  /\ UNCHANGED <<queueVars, attempts, signal, result, controllers, cancelled,
                 granted, live, streamVars, cancelledAt>>

\* The broker's record changes: consent, revocation, or an expired grant.
SetGrant(c) ==
  /\ granted' = IF c \in granted THEN granted \ {c} ELSE granted \cup {c}
  /\ UNCHANGED <<queueVars, phase, attempts, signal, result, controllers,
                 cancelled, live, streamVars, cancelledAt>>

-----------------------------------------------------------------------------
\* The steps of the framework itself.
Step(i) ==
  \/ AbortedAtStart(i)
  \/ AfterReturn(i)
  \/ SuccessAnnounced(i)
  \/ FailureAnnounced(i)
  \/ BackoffElapses(i)
  \/ Complete(i)
  \/ Release(i)
  \/ Reply(i)

\* The steps of a tool's handler.
HandlerStep(i, n) ==
  \/ HandlerReturns(i, n)
  \/ HandlerThrows(i, n)
  \/ StreamYields(i, n)
  \/ StreamEnds(i, n)

Next ==
  \/ \E i \in Invocations : Invoke(i) \/ Cancel(i) \/ Timeout(i) \/ Step(i)
  \/ \E i \in Invocations : \E n \in 1..3 : HandlerStep(i, n)
  \/ \E c \in Capabilities : SetGrant(c)

Spec == Init /\ [][Next]_vars

(* Timers fire and continuations are scheduled; event subscribers and the  *)
(* memory store answer.  Nothing is assumed of handlers, callers or users. *)
Fairness == \A i \in Invocations : WF_vars(Timeout(i)) /\ WF_vars(Step(i))

FairSpec == Spec /\ Fairness

-----------------------------------------------------------------------------
(* Type invariant.                                                         *)

TypeOK ==
  /\ pending \in Seq(Invocations)
  /\ active \in Nat
  /\ phase \in [Invocations -> Phases]
  /\ attempts \in [Invocations -> 0..3]
  /\ \A i \in Invocations : attempts[i] <= MaxAttempts[i]
  /\ signal \in [Invocations -> Signals]
  /\ result \in [Invocations -> Statuses \cup {"none"}]
  /\ controllers \subseteq Invocations
  /\ cancelled \subseteq Invocations
  /\ granted \subseteq Capabilities
  /\ live \in [Invocations -> SUBSET (1..3)]
  /\ drained \in [Invocations -> SUBSET (1..3)]
  /\ chunks \in [Invocations -> Seq({"data", "done"})]
  /\ cancelledAt \in [Invocations -> 0..3]

-----------------------------------------------------------------------------
(* The slots of the queue.                                                 *)

\* The invocations that wait for a slot, hold one, and have given it back.
Queued      == {i \in Invocations : phase[i] = "queued"}
SlotHolders == {i \in Invocations : phase[i] \in SlotPhases}
Over        == {i \in Invocations : phase[i] \in OverPhases}

\* The counter counts the invocations that hold a slot.
CountIsExact == active = Cardinality(SlotHolders)

WithinLimit == active <= MaxConcurrent

\* Nothing waits while a slot is free.
NoIdleSlot == pending # <<>> => active = MaxConcurrent

\* The queue holds every queued invocation once, and nothing else.
QueueIsExact ==
  /\ Queued = {pending[k] : k \in DOMAIN pending}
  /\ \A k, l \in DOMAIN pending : pending[k] = pending[l] => k = l

(* ToolQueue's accounting, over submissions, retries, timeouts,            *)
(* cancellations and releases in any order: the counter that enqueue() and *)
(* drain() keep is the number of invocations between their start and their *)
(* finally, it respects maxConcurrent, no slot is idle while an invocation *)
(* waits, and no invocation is queued twice or forgotten.                  *)
SlotAccounting == CountIsExact /\ WithinLimit /\ NoIdleSlot /\ QueueIsExact

(* A queued invocation is never passed by a less urgent one, nor by one of *)
(* its own urgency that came later (the sort of tool-queue.ts is stable).  *)
MostUrgentFirst ==
  [][/\ \A i, j \in Invocations :
           /\ phase[i] = "queued" /\ phase'[i] = "queued"
           /\ phase[j] \in {"new", "queued"} /\ phase'[j] \in SlotPhases
           => Priority[j] >= Priority[i]
     /\ \A k, l \in DOMAIN pending :
           /\ k < l
           /\ phase'[pending[k]] = "queued"
           => phase'[pending[l]] = "queued"
    ]_vars

-----------------------------------------------------------------------------
(* Cancellation, timeouts and retries.                                     *)

(* A handler call that is still running although its attempt is decided    *)
(* has been told to stop: its signal is aborted.  The framework never      *)
(* walks away from a handler silently, whichever of timer, cancellation,   *)
(* value and exception came first, and across retries.                     *)
StragglersAreAborted ==
  \A i \in Invocations : \A n \in live[i] :
    \/ n = attempts[i] /\ phase[i] = "running"
    \/ AttemptAborted(i, n)

(* Once cancel(i) has returned true the handler of i is called at most     *)
(* once more, in the attempt that was queued or asleep at that time: a     *)
(* cancelled invocation is not retried, even when the attempt under way    *)
(* timed out or threw before the cancellation reached it.                  *)
CancelledRunsAtMostOnceMore ==
  \A i \in cancelled : attempts[i] <= cancelledAt[i] + 1

(* An invocation cancelled before its value was accepted never goes on to  *)
(* report success, whether it was queued, running or asleep at the time.   *)
CancelledNeverSucceeds ==
  [][\A i \in cancelled :
       phase'[i] = "succeeding" => phase[i] = "succeeding"]_vars

(* A handler is called only while the actor holds every capability the     *)
(* tool declares: the check of an earlier attempt does not carry over to a *)
(* retry, and neither does the state of the broker at submission time.     *)
GrantedWhenCalled ==
  [][\A i \in Invocations :
       live'[i] \subseteq live[i] \/ Requires[i] \subseteq granted]_vars

-----------------------------------------------------------------------------
(* Liveness and refinement.                                                *)

(* Every invocation is answered, though handlers may hang and ignore their *)
(* signal: the attempt's timer frees the slot they would hold.             *)
EveryInvocationIsAnswered ==
  \A i \in Invocations : (phase[i] # "new") ~> (phase[i] = "answered")

(* ToolQueue implements the abstract pool: slots are handed on at once, to *)
(* the most urgent waiting invocation, and never twice to the same one.    *)
Pool == INSTANCE BoundedPool WITH
          Jobs <- Invocations, Limit <- MaxConcurrent, Urgency <- Priority,
          waiting <- Queued, running <- SlotHolders, over <- Over

ImplementsPool == Pool!Spec

-----------------------------------------------------------------------------
(* A claim of the source that the code does not keep.                      *)

(* types.ts:157 "the last one has `done: true`": nothing follows the final *)
(* chunk of a stream.                                                      *)
DoneChunkIsLast ==
  \A i \in Invocations : \A k \in DOMAIN chunks[i] :
    chunks[i][k] = "done" => k = Len(chunks[i])

=============================================================================
