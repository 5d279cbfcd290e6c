-------------------------- MODULE MCToolInvocation --------------------------
(***************************************************************************)
(* ToolInvocation for TLC, with five invocations: plain is tried once;     *)
(* guarded needs a capability that comes and goes and is tried twice, so   *)
(* that the capability can be lost between two attempts; urgent is tried   *)
(* once and passes the others in the queue; stream is tried twice and      *)
(* streams, so that two of its handlers can be alive at once; malformed    *)
(* is refused.  A behaviour looks at the first three or at the last two.   *)
(***************************************************************************)
EXTENDS ToolInvocation

CONSTANTS plain, guarded, urgent, stream, malformed, capability

VARIABLE scene

mcVars == <<vars, scene>>

MCPriority    == [i \in Invocations |-> IF i = urgent THEN 2 ELSE 1]
MCMaxAttempts == [i \in Invocations |-> IF i \in {guarded, stream} THEN 2 ELSE 1]
MCRequires    == [i \in Invocations |-> IF i = guarded THEN {capability} ELSE {}]

MCInit == Init /\ scene \in {"queue", "streams"}

\* One cancellation when three invocations queue, and grants that change where
\* an attempt that reads them may come next.
Allowed ==
  /\ granted' # granted => phase[guarded] \in {"new", "queued", "backoff"}
  /\ scene = "queue" => /\ Cardinality(cancelled') <= 1
                        /\ phase'[stream] = "new" /\ phase'[malformed] = "new"
  /\ scene = "streams" => /\ granted' = granted
                          /\ \A i \in {plain, guarded, urgent} : phase'[i] = "new"

Can(A) == A /\ Allowed /\ UNCHANGED scene

\* Less than Fairness asks for: that something due happens, not that all does.
Due == \E i \in Invocations : Timeout(i) \/ Step(i)

MCSpec == MCInit /\ [][Can(Next)]_mcVars /\ WF_mcVars(Can(Due))
=============================================================================
