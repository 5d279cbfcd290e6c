--------------------------- MODULE PlanExecution ---------------------------
(***************************************************************************)
(* Running a plan: core/planner's ExecutionQueue (execution-queue.ts) and  *)
(* CancellationManager (execution-control.ts), driven by the tool          *)
(* framework's PlannerToolBridge (planner-integration.ts).                 *)
(*                                                                         *)
(* A driver is one call of runToCompletion(); several may drive the same   *)
(* queue, and a queue may be driven again after a driver has stopped.      *)
(* JavaScript is single-threaded: a driver dequeues a batch and starts all *)
(* of its tasks in one step, and the next await is Promise.all() on them.  *)
(* A task's tool is external to this module: it succeeds, fails, or its    *)
(* invocation rejects (ToolInvocation says when).                          *)
(***************************************************************************)
EXTENDS Naturals, FiniteSets

CONSTANTS
  Tasks,          (* the ids of the plan's tasks                            *)
  Drivers,        (* the calls of runToCompletion()                         *)
  MaxIterations,  (* runToCompletion's maxIterations                        *)
  Plans           (* the plans that buildExecutionQueue() may be given      *)

Conditions == {"none", "always", "on_success", "on_failure", "other"}

\* dependsOn is what TaskGraph has checked: every dependency is a task.
PlanType ==
  [dependsOn : [Tasks -> SUBSET Tasks],
   condition : [Tasks -> Conditions],
   upstream  : [Tasks -> Tasks],          (* condition.dependsOnTaskId      *)
   routed    : SUBSET Tasks]              (* tasks with a registered route  *)

ASSUME ConstantsAssumption ==
  /\ IsFiniteSet(Tasks)
  /\ MaxIterations \in Nat
  /\ Plans \subseteq PlanType

VARIABLES
  plan,        (* the plan; never changes                                   *)
  state,       (* ExecutionQueue.statuses: the state of each task           *)
  started,     (* TaskRuntimeStatus.attempts                                *)
  cancelled,   (* ExecutionQueue.cancelled                                  *)
  driver,      (* idle, driving, returned or rejected                       *)
  awaits,      (* the tasks each driver's Promise.all() still waits for     *)
  iterations,  (* runToCompletion's counter                                 *)
  inFlight     (* tasks whose tool invocation has not settled               *)

vars == <<plan, state, started, cancelled, driver, awaits, iterations, inFlight>>

States   == {"pending", "ready", "running", "succeeded", "failed", "cancelled",
             "skipped"}
Finished == {"succeeded", "failed", "cancelled", "skipped"}

\* Defect: a dependency that has merely finished counts as satisfied.
LaxDependenciesSatisfied(t) ==
  \A d \in plan.dependsOn[t] : state[d] \in Finished

DependenciesSatisfied(t) ==
  \A d \in plan.dependsOn[t] : state[d] = "succeeded"

\* evaluateCondition(): an expression it does not know is unmet.
ConditionSatisfied(t) ==
  LET upstream == state[plan.upstream[t]]
  IN  CASE plan.condition[t] \in {"none", "always"} -> TRUE
        [] plan.condition[t] = "on_success" -> upstream = "succeeded"
        [] plan.condition[t] = "on_failure" -> upstream = "failed"
        [] OTHER -> FALSE

\* dequeueReady() looks at the pending tasks whose dependencies have succeeded
\* -- a task it skips on the way satisfies nobody's dependency.  Conditions of
\* later tasks do see the states "ready" and "skipped" it leaves behind, which
\* meet no condition, as pending does not.
Candidates == {t \in Tasks : state[t] = "pending" /\ DependenciesSatisfied(t)}
Ready      == IF cancelled THEN {} ELSE {t \in Candidates : ConditionSatisfied(t)}
Skipped    == IF cancelled THEN {} ELSE Candidates \ Ready

IsComplete == \A t \in Tasks : state[t] \in Finished

-----------------------------------------------------------------------------
Init ==
  /\ plan \in Plans
  /\ state = [t \in Tasks |-> "pending"]
  /\ started = [t \in Tasks |-> 0]
  /\ cancelled = FALSE
  /\ driver = [d \in Drivers |-> "idle"]
  /\ awaits = [d \in Drivers |-> {}]
  /\ iterations = [d \in Drivers |-> 0]
  /\ inFlight = {}

\* The loop of runToCompletion(), from its condition to the next await: what
\* dequeueReady() returns is started by runOne() at once, and a task that has
\* no route fails on the spot.
Turn(d) ==
  IF IsComplete \/ iterations[d] >= MaxIterations
  THEN /\ driver' = [driver EXCEPT ![d] = "returned"]
       /\ UNCHANGED <<state, started, awaits, iterations, inFlight>>
  ELSE /\ iterations' = [iterations EXCEPT ![d] = @ + 1]
       /\ state' = [t \in Tasks |->
                      IF t \in Skipped THEN "skipped"
                      ELSE IF t \notin Ready THEN state[t]
                      ELSE IF t \in plan.routed THEN "running" ELSE "failed"]
       /\ started' = [t \in Tasks |->
                        IF t \in Ready THEN started[t] + 1 ELSE started[t]]
       /\ inFlight' = inFlight \cup (Ready \cap plan.routed)
       /\ awaits' = [awaits EXCEPT ![d] = Ready \cap plan.routed]
       /\ driver' = [driver EXCEPT ![d] = IF Ready = {} THEN "returned" ELSE "driving"]

\* runToCompletion() is called.
Drive(d) ==
  /\ driver[d] = "idle"
  /\ Turn(d)
  /\ UNCHANGED <<plan, cancelled>>

\* Defect: the driver leaves after its first batch.
OneBatchDone(d) ==
  /\ driver[d] = "driving"
  /\ awaits[d] = {}
  /\ driver' = [driver EXCEPT ![d] = "returned"]
  /\ UNCHANGED <<plan, state, started, cancelled, awaits, iterations, inFlight>>

\* Promise.all() has resolved.
BatchDone(d) ==
  /\ driver[d] = "driving"
  /\ awaits[d] = {}
  /\ Turn(d)
  /\ UNCHANGED <<plan, cancelled>>

\* Defect: runOne()'s promise does not resolve.
ForgottenAwaited(t) == awaits

\* The driver that waits for task t, if it has not been rejected, waits no more.
Awaited(t) == [d \in Drivers |-> awaits[d] \ {t}]

\* The tool's result arrives: runOne() records it whatever the task's state is.
Settles(t, outcome) ==
  /\ t \in inFlight
  /\ inFlight' = inFlight \ {t}
  /\ state' = [state EXCEPT ![t] = outcome]
  /\ awaits' = Awaited(t)
  /\ UNCHANGED <<plan, started, cancelled, driver, iterations>>

Succeeds(t) == Settles(t, "succeeded")
Fails(t)    == Settles(t, "failed")

\* invoke() rejects: nothing is recorded for the task, and Promise.all() --
\* so runToCompletion() -- rejects with it; the other tasks run on.
Rejects(t) ==
  /\ t \in inFlight
  /\ inFlight' = inFlight \ {t}
  /\ driver' = [d \in Drivers |-> IF t \in awaits[d] THEN "rejected" ELSE driver[d]]
  /\ awaits' = [d \in Drivers |-> IF t \in awaits[d] THEN {} ELSE awaits[d]]
  /\ UNCHANGED <<plan, state, started, cancelled, iterations>>

\* Defect: cancelling marks the running tasks as well.
EagerCancel ==
  /\ ~cancelled
  /\ cancelled' = TRUE
  /\ state' = [t \in Tasks |-> IF state[t] \in Finished THEN state[t] ELSE "cancelled"]
  /\ UNCHANGED <<plan, started, driver, awaits, iterations, inFlight>>

\* CancellationManager.cancel(), and the queue's.  (The signal it also aborts
\* reaches no tool: the bridge hands none to invoke().  A tool that cancels its
\* own plan while the rest of its batch is being started has this effect too:
\* markRunning() overwrites the cancelled state of the batch's other tasks.)
Cancel ==
  /\ ~cancelled
  /\ cancelled' = TRUE
  /\ state' = [t \in Tasks |->
                 IF state[t] \in {"pending", "ready"} THEN "cancelled" ELSE state[t]]
  /\ UNCHANGED <<plan, started, driver, awaits, iterations, inFlight>>

DriverStep(d) == Drive(d) \/ BatchDone(d)
ToolStep(t)   == Succeeds(t) \/ Fails(t) \/ Rejects(t)

Next ==
  \/ \E d \in Drivers : DriverStep(d)
  \/ \E t \in Tasks : ToolStep(t)
  \/ Cancel

Spec == Init /\ [][Next]_vars

(* Promises are resolved, and every invocation settles: the property       *)
(* EveryInvocationIsAnswered of ToolInvocation.  Nobody needs to start a   *)
(* driver or to cancel.                                                    *)
Fairness ==
  /\ \A d \in Drivers : WF_vars(BatchDone(d))
  /\ \A t \in Tasks : WF_vars(ToolStep(t))

FairSpec == Spec /\ Fairness

-----------------------------------------------------------------------------
(* Type invariant.  A driver waits only while it drives, for invocations   *)
(* that have not settled.                                                  *)
TypeOK ==
  /\ plan \in PlanType
  /\ state \in [Tasks -> States \ {"ready"}]
  /\ started \in [Tasks -> Nat]
  /\ cancelled \in BOOLEAN
  /\ driver \in [Drivers -> {"idle", "driving", "returned", "rejected"}]
  /\ awaits \in [Drivers -> SUBSET inFlight]
  /\ \A d \in Drivers : driver[d] # "driving" => awaits[d] = {}
  /\ iterations \in [Drivers -> 0..MaxIterations]
  /\ inFlight \subseteq {t \in Tasks : state[t] = "running"}

(* A task that was ever started stands on tasks that have all succeeded,   *)
(* whichever driver dequeued it, and whatever failed, rejected or was      *)
(* cancelled around it.                                                    *)
DependenciesFirst ==
  \A t \in Tasks : started[t] > 0 =>
    \A u \in plan.dependsOn[t] : state[u] = "succeeded"

(* A task is started at most once, though two drivers share the queue, one *)
(* of them is rejected and the queue is driven again.                      *)
StartedOnce == \A t \in Tasks : started[t] <= 1

(* The outcome of a task is final: one that was cancelled is not reported  *)
(* as succeeded by a tool that ends later, and no settled result is        *)
(* overwritten by a cancellation.                                          *)
OutcomeIsFinal ==
  [][\A t \in Tasks : state[t] \in Finished => state'[t] = state[t]]_vars

(* runToCompletion() leaves work behind only where it must: when the       *)
(* drivers have returned, and none was rejected, a task is still pending   *)
(* only because a dependency failed, was skipped or is itself left behind. *)
(* (dequeueReady()'s empty answer is what makes a driver give up, also     *)
(* when another driver's batch is under way.)  The driver must be allowed  *)
(* as many iterations as there are tasks; the default is 1000.             *)
LeftBehindWithReason ==
  /\ MaxIterations >= Cardinality(Tasks)
  /\ \E d \in Drivers : driver[d] = "returned"
  /\ \A d \in Drivers : driver[d] \in {"idle", "returned"}
  => \A t \in Tasks : state[t] = "pending" =>
       \E u \in plan.dependsOn[t] : state[u] \in {"pending", "failed", "skipped"}

(* A driver does not spin and is not left hanging: its call settles.       *)
DriversStop ==
  \A d \in Drivers : driver[d] = "driving" ~> driver[d] # "driving"

-----------------------------------------------------------------------------
(* A claim of the source that the code does not keep.                      *)

(* types.ts:39 says that a condition inspects the result of its upstream   *)
(* task: a task is not skipped on account of a task that has no result yet.*)
ConditionInspectsResult ==
  [][\A t \in Tasks :
       /\ state[t] = "pending" /\ state'[t] = "skipped"
       /\ plan.condition[t] \in {"on_success", "on_failure"}
       => state[plan.upstream[t]] \in Finished]_vars

=============================================================================
