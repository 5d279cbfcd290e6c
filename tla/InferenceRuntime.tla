-------------------------- MODULE InferenceRuntime --------------------------
(***************************************************************************)
(* core/local-runtime: LocalRuntimeManager (runtime-manager.ts) serving    *)
(* single-shot requests through InferenceQueue (inference-queue.ts) and    *)
(* chats as streams, with fallback from provider to provider and the       *)
(* failure streaks of RuntimeHealthMonitor (health-monitor.ts).  The       *)
(* providers, the model registry's ranking and the cloud are external.     *)
(*                                                                         *)
(* phase[r] is where the current call of request r stands:                 *)
(*                                                                         *)
(*   idle       not called                                                 *)
(*   chosen     findCandidates() has chosen, its await has not resumed     *)
(*   queued     in InferenceQueue.queue                                    *)
(*   running    racing the provider, its timer and the abort signal        *)
(*   won, lost  the race is decided, runWithFallback() has not resumed     *)
(*   opening    awaiting the first event of a provider's stream            *)
(*   streaming  handing over a provider's stream                           *)
(*   asking     no local candidate is left: asking if the cloud is there   *)
(*   cloud      handing over the cloud's stream                            *)
(*   succeeded, failed, left    over; left by the consumer of a stream     *)
(***************************************************************************)
EXTENDS Naturals, Sequences, FiniteSets

CONSTANTS
  Requests,              (* the callers, one call of each at a time         *)
  Chats,                 (* those that call streamChat()                    *)
  Providers,             (* the local runtime providers                     *)
  Cloud,                 (* the cloud chat fallback                         *)
  Ranked,                (* the providers the registry ranks for a request  *)
  Priority,              (* context.priority                                *)
  MaxConcurrent,         (* InferenceQueue's maxConcurrent                  *)
  UnavailableThreshold,  (* RuntimeHealthMonitor's unavailableThreshold     *)
  Timed,                 (* requests with a context.timeoutMs               *)
  Endless,               (* callers that call again and again               *)
  MaxCalls,              (* bound: calls of the other callers               *)
  MaxChunks              (* bound: events of a chat                         *)

ASSUME ConstantsAssumption ==
  /\ IsFiniteSet(Requests)
  /\ Chats \subseteq Requests
  /\ Cloud \notin Providers
  /\ Ranked \in [Requests -> Seq(Providers)]
  /\ Priority \in [Requests -> Nat]
  /\ MaxConcurrent \in Nat \ {0}
  /\ UnavailableThreshold \in Nat \ {0}
  /\ Timed \subseteq Requests \ Chats
  /\ Endless \subseteq Requests
  /\ MaxCalls \in Nat \ {0}
  /\ MaxChunks \in Nat

VARIABLES
  queue,         (* InferenceQueue.queue                                    *)
  runningCount,  (* InferenceQueue.runningCount                             *)
  phase,         (* where each request's call stands                        *)
  candidates,    (* candidates still to try, the current one first          *)
  aborted,       (* requests whose signal has been aborted                  *)
  failures,      (* consecutiveFailures, counted up to the threshold        *)
  delivered,     (* the sources of the events a chat's consumer was handed  *)
  calls,         (* the ordinal of each request's call                      *)
  answered       (* history: the queue entries that were answered           *)

queueVars == <<queue, runningCount>>
vars == <<queue, runningCount, phase, candidates, aborted, failures, delivered, calls,
          answered>>

Final  == {"succeeded", "failed", "left"}
Phases == {"idle", "chosen", "queued", "running", "won", "lost", "opening",
           "streaming", "asking", "cloud"} \cup Final

Tried(r) == Head(candidates[r])

IsUsable(p) == failures[p] < UnavailableThreshold

RecordSuccess(p) == failures' = [failures EXCEPT ![p] = 0]

\* Only whether the threshold has been reached matters.
RecordFailure(p) ==
  failures' = [failures EXCEPT ![p] = IF IsUsable(p) THEN @ + 1 ELSE @]

-----------------------------------------------------------------------------
(* The queue.                                                              *)

\* The queue entry of r: its n-th call, with k candidates left.
Entry(r) == <<r, calls[r], Len(candidates[r])>>

\* push and stable sort by descending priority.
Inserted(q, r) ==
  LET n == Cardinality({k \in DOMAIN q : Priority[q[k]] >= Priority[r]})
  IN  SubSeq(q, 1, n) \o <<r>> \o SubSeq(q, n + 1, Len(q))

\* The entries among the first k of q that take a slot when they are shifted.
Takers(q, k) == {q[m] : m \in 1..k} \ aborted

\* Defect: one entry is shifted per call, whether it takes the slot or not.
TimidDrainCount(q, busy) == IF busy >= MaxConcurrent \/ q = <<>> THEN 0 ELSE 1

\* How many entries the loop of drain() shifts off q: it goes on until the
\* slots are taken or q is empty, and a cancelled entry takes none.
DrainCount(q, busy) ==
  CHOOSE k \in 0..Len(q) :
    /\ \/ k = Len(q)
       \/ busy + Cardinality(Takers(q, k)) >= MaxConcurrent
    /\ \A m \in 0 .. k - 1 : busy + Cardinality(Takers(q, m)) < MaxConcurrent

\* Defect: what is shifted off runs, though it may have been cancelled.
HeedlessDrain(q, busy, ph) ==
  LET k       == DrainCount(q, busy)
      shifted == {q[m] : m \in 1..k}
  IN  /\ queue' = SubSeq(q, k + 1, Len(q))
      /\ runningCount' = busy + Cardinality(shifted)
      /\ phase' = [r \in Requests |-> IF r \in shifted THEN "running" ELSE ph[r]]

\* drain(): what is shifted off starts to run, or is rejected if cancelled.
Drain(q, busy, ph) ==
  LET k       == DrainCount(q, busy)
      shifted == {q[m] : m \in 1..k}
  IN  /\ queue' = SubSeq(q, k + 1, Len(q))
      /\ runningCount' = busy + Cardinality(shifted \ aborted)
      /\ phase' = [r \in Requests |->
                     IF r \notin shifted THEN ph[r]
                     ELSE IF r \in aborted THEN "lost" ELSE "running"]

\* The race of r is decided: the finally of runOne() frees its slot and
\* drains, in the microtask that settles the queue's promise.
Finish(r, outcome) ==
  /\ Drain(queue, runningCount - 1, [phase EXCEPT ![r] = outcome])
  /\ answered' = answered \cup {Entry(r)}

\* enqueue(): a request whose signal is aborted is rejected on the spot.
Enqueue(r, ph) ==
  IF r \in aborted
  THEN phase' = [ph EXCEPT ![r] = "lost"] /\ UNCHANGED queueVars
  ELSE Drain(Inserted(queue, r), runningCount, [ph EXCEPT ![r] = "queued"])

\* The candidates of r are cs now: the first of them is tried at once.
Try(r, cs) ==
  /\ candidates' = [candidates EXCEPT ![r] = cs]
  /\ IF cs # <<>> /\ r \notin Chats
     THEN Enqueue(r, phase)
     ELSE /\ phase' = [phase EXCEPT ![r] =
                         IF r \notin Chats THEN "failed"
                         ELSE IF cs = <<>> THEN "asking" ELSE "opening"]
          /\ UNCHANGED queueVars

-----------------------------------------------------------------------------
Init ==
  /\ queue = <<>>
  /\ runningCount = 0
  /\ phase = [r \in Requests |-> "idle"]
  /\ candidates = [r \in Requests |-> <<>>]
  /\ aborted = {}
  /\ failures = [p \in Providers |-> 0]
  /\ delivered = [r \in Requests |-> <<>>]
  /\ calls = [r \in Requests |-> 0]
  /\ answered = {}

\* The loop of findCandidates() keeps the usable providers, in rank order.
Usable(ranking) ==
  LET kept[n \in 0..Len(ranking)] ==
        IF n = 0 THEN <<>>
        ELSE IF IsUsable(ranking[n]) THEN Append(kept[n - 1], ranking[n])
        ELSE kept[n - 1]
  IN  kept[Len(ranking)]

\* A call begins: findCandidates() has chosen.
Call(r) ==
  /\ phase[r] = "idle"
  /\ phase' = [phase EXCEPT ![r] = "chosen"]
  /\ candidates' = [candidates EXCEPT ![r] = Usable(Ranked[r])]
  /\ calls' = [calls EXCEPT ![r] = IF r \in Endless THEN @ ELSE @ + 1]
  /\ UNCHANGED <<queueVars, aborted, failures, delivered, answered>>

\* The caller calls again, with a new signal.
CallAgain(r) ==
  /\ phase[r] \in Final
  /\ r \in Endless \/ calls[r] < MaxCalls
  /\ phase' = [phase EXCEPT ![r] = "idle"]
  /\ candidates' = [candidates EXCEPT ![r] = <<>>]
  /\ aborted' = aborted \ {r}
  /\ delivered' = [delivered EXCEPT ![r] = <<>>]
  /\ UNCHANGED <<queueVars, failures, calls, answered>>

\* The await on findCandidates() resumes; with no candidate a single-shot
\* request throws MissingModelError.
Begin(r) ==
  /\ phase[r] = "chosen"
  /\ Try(r, candidates[r])
  /\ UNCHANGED <<aborted, failures, delivered, calls, answered>>

\* The caller aborts the signal of a single-shot request: a race is lost, an
\* entry in the queue stays there until it is shifted.
Abort(r) ==
  /\ r \notin Chats \cup aborted
  /\ phase[r] \in Phases \ (Final \cup {"idle"})
  /\ aborted' = aborted \cup {r}
  /\ IF phase[r] = "running" THEN Finish(r, "lost")
     ELSE /\ answered' = answered \cup (IF phase[r] = "queued" THEN {Entry(r)} ELSE {})
          /\ UNCHANGED <<queueVars, phase>>
  /\ UNCHANGED <<candidates, failures, delivered, calls>>

ProviderAnswers(r) ==
  /\ phase[r] = "running"
  /\ Finish(r, "won")
  /\ UNCHANGED <<candidates, aborted, failures, delivered, calls>>

ProviderFails(r) ==
  /\ phase[r] = "running"
  /\ Finish(r, "lost")
  /\ UNCHANGED <<candidates, aborted, failures, delivered, calls>>

\* The timer of the race fires: the provider is not told.
Expire(r) ==
  /\ r \in Timed
  /\ phase[r] = "running"
  /\ Finish(r, "lost")
  /\ UNCHANGED <<candidates, aborted, failures, delivered, calls>>

\* runWithFallback() resumes with an answer ...
Answered(r) ==
  /\ phase[r] = "won"
  /\ phase' = [phase EXCEPT ![r] = "succeeded"]
  /\ RecordSuccess(Tried(r))
  /\ UNCHANGED <<queueVars, candidates, aborted, delivered, calls, answered>>

\* ... or without one: whatever the reason, the provider has failed, and the
\* next candidate is tried.
FallBack(r) ==
  /\ phase[r] = "lost"
  /\ RecordFailure(Tried(r))
  /\ Try(r, Tail(candidates[r]))
  /\ UNCHANGED <<aborted, delivered, calls, answered>>

\* An event of a stream is handed over; the first one counts as a success.
StreamYields(r) ==
  /\ phase[r] \in {"opening", "streaming"}
  /\ Len(delivered[r]) < MaxChunks
  /\ phase' = [phase EXCEPT ![r] = "streaming"]
  /\ delivered' = [delivered EXCEPT ![r] = Append(@, Tried(r))]
  /\ IF phase[r] = "opening" THEN RecordSuccess(Tried(r)) ELSE UNCHANGED failures
  /\ UNCHANGED <<queueVars, candidates, aborted, calls, answered>>

StreamEnds(r) ==
  /\ phase[r] \in {"opening", "streaming"}
  /\ phase' = [phase EXCEPT ![r] = "succeeded"]
  /\ IF phase[r] = "opening" THEN RecordSuccess(Tried(r)) ELSE UNCHANGED failures
  /\ UNCHANGED <<queueVars, candidates, aborted, delivered, calls, answered>>

\* A stream fails before or after its first event: the next one is opened.
StreamFails(r) ==
  /\ phase[r] \in {"opening", "streaming"}
  /\ RecordFailure(Tried(r))
  /\ Try(r, Tail(candidates[r]))
  /\ UNCHANGED <<aborted, delivered, calls, answered>>

\* isCloudReachable() answers; without the cloud the chat fails.
AskCloud(r) ==
  /\ phase[r] = "asking"
  /\ \E answer \in {"cloud", "failed"} : phase' = [phase EXCEPT ![r] = answer]
  /\ UNCHANGED <<queueVars, candidates, aborted, failures, delivered, calls, answered>>

CloudYields(r) ==
  /\ phase[r] = "cloud"
  /\ Len(delivered[r]) < MaxChunks
  /\ delivered' = [delivered EXCEPT ![r] = Append(@, Cloud)]
  /\ UNCHANGED <<queueVars, phase, candidates, aborted, failures, calls, answered>>

CloudEnds(r) ==
  /\ phase[r] = "cloud"
  /\ \E outcome \in {"succeeded", "failed"} : phase' = [phase EXCEPT ![r] = outcome]
  /\ UNCHANGED <<queueVars, candidates, aborted, failures, delivered, calls, answered>>

\* The consumer breaks out of its loop between two events.  (The provider's
\* stream is not closed: the generator drives its iterator by hand.)
Leave(r) ==
  /\ phase[r] \in {"streaming", "cloud"}
  /\ delivered[r] # <<>>
  /\ phase' = [phase EXCEPT ![r] = "left"]
  /\ UNCHANGED <<queueVars, candidates, aborted, failures, delivered, calls, answered>>

-----------------------------------------------------------------------------
\* The steps of the runtime itself.
Step(r) == Begin(r) \/ Answered(r) \/ FallBack(r) \/ Expire(r)

\* The steps of a provider's stream and of the cloud.
StreamStep(r) ==
  \/ StreamYields(r)
  \/ StreamEnds(r)
  \/ StreamFails(r)
  \/ AskCloud(r)
  \/ CloudYields(r)
  \/ CloudEnds(r)

Next == \E r \in Requests :
  \/ Call(r)
  \/ CallAgain(r)
  \/ Abort(r)
  \/ Leave(r)
  \/ ProviderAnswers(r)
  \/ ProviderFails(r)
  \/ Step(r)
  \/ StreamStep(r)

Spec == Init /\ [][Next]_vars

(* Continuations are scheduled and timers fire.  Providers may hang.       *)
Fairness == \A r \in Requests : WF_vars(Step(r))

FairSpec == Spec /\ Fairness

(* What would bring an unavailable provider back, if anything could: its   *)
(* callers keep calling, and every provider that is called answers.        *)
PersistentCallers ==
  \A r \in Requests :
    /\ WF_vars(Call(r)) /\ WF_vars(CallAgain(r))
    /\ WF_vars(StreamYields(r)) /\ WF_vars(StreamEnds(r))
    /\ SF_vars(ProviderAnswers(r))
    /\ WF_vars(AskCloud(r)) /\ WF_vars(CloudEnds(r))

PersistentSpec == FairSpec /\ PersistentCallers

-----------------------------------------------------------------------------
(* Type invariant.                                                         *)
TypeOK ==
  /\ queue \in Seq(Requests \ Chats)
  /\ runningCount \in 0..MaxConcurrent
  /\ phase \in [Requests -> Phases]
  /\ candidates \in [Requests -> Seq(Providers)]
  /\ \A r \in Requests :
       phase[r] \in {"queued", "running", "won", "lost", "opening", "streaming"}
       => candidates[r] # <<>>
  /\ aborted \subseteq Requests \ Chats
  /\ failures \in [Providers -> 0..UnavailableThreshold]
  /\ delivered \in [Requests -> Seq(Providers \cup {Cloud})]
  /\ calls \in [Requests -> Nat]
  /\ answered \subseteq Requests \X Nat \X Nat

RunningNow == {r \in Requests : phase[r] = "running"}
Queued     == {r \in Requests : phase[r] = "queued"}

(* InferenceQueue's accounting, over submissions, timeouts, cancellations  *)
(* in the queue and in flight, and fallbacks: the counter is the number of *)
(* running requests, no slot is idle while a request waits, and every      *)
(* queued request is in the queue once -- in priority order.               *)
SlotsExact ==
  /\ runningCount = Cardinality(RunningNow)
  /\ queue # <<>> => runningCount = MaxConcurrent
  /\ {queue[k] : k \in DOMAIN queue} = Queued
  /\ \A k, l \in DOMAIN queue :
       k < l => queue[k] # queue[l] /\ Priority[queue[k]] >= Priority[queue[l]]

(* A single-shot request that was aborted before its provider had answered *)
(* does not succeed, neither with that provider nor with a later           *)
(* candidate, and no further provider is called for it -- wherever the     *)
(* abort found it: before the queue, in it, racing, or falling back.       *)
AbortedIsHeeded ==
  [][\A r \in aborted \cap aborted' :
       /\ phase'[r] # "running"
       /\ phase'[r] = "succeeded" => phase[r] \in {"won", "succeeded"}]_vars

(* InferenceQueue implements the abstract pool.  A job is one entry of the *)
(* queue; an entry whose signal is aborted counts as withdrawn from then   *)
(* on, though it stays in the array until it is shifted off.               *)
Entries == UNION {{r} \X (1..MaxCalls) \X (1..Len(Ranked[r])) : r \in Requests \ Chats}

Pool == INSTANCE BoundedPool WITH
          Jobs    <- Entries,
          Limit   <- MaxConcurrent,
          Urgency <- [j \in Entries |-> Priority[j[1]]],
          waiting <- {Entry(r) : r \in Queued \ aborted},
          running <- {Entry(r) : r \in RunningNow},
          over    <- answered

ImplementsPool == Pool!Spec

-----------------------------------------------------------------------------
(* Claims of the source that the code does not keep.                       *)

(* The comment of streamChat(), runtime-manager.ts:240: a failure after    *)
(* some tokens were delivered is not retried with a second provider.  What *)
(* the consumer of one chat is handed comes from one source.               *)
OneSourcePerChat ==
  \A r \in Chats : \A k, l \in DOMAIN delivered[r] :
    delivered[r][k] = delivered[r][l]

(* The comment of RuntimeHealthMonitor, health-monitor.ts:22: "a provider  *)
(* is never permanently blacklisted by this monitor alone".                *)
NeverBlacklisted == \A p \in Providers : []<>IsUsable(p)
=============================================================================
