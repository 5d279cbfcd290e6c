-------------------------- MODULE MCPlanExecution --------------------------
(***************************************************************************)
(* PlanExecution for TLC: every plan of three tasks -- b may depend on a,  *)
(* c on a and b -- in which one of them carries a condition on another,    *)
(* and with or without a route for b.                                      *)
(***************************************************************************)
EXTENDS PlanExecution, TLC

CONSTANTS a, b, c

MCPlans ==
  LET Before == a :> {} @@ b :> {a} @@ c :> {a, b}
      Graphs == {g \in [Tasks -> SUBSET Tasks] :
                   \A t \in Tasks : g[t] \subseteq Before[t]}
      \* The task with a condition, the task it inspects, the expression.
      Gates  == {<<t, u, e>> \in Tasks \X Tasks \X Conditions : u # t}
  IN  {[dependsOn |-> g,
        condition |-> [t \in Tasks |-> IF t = gate[1] THEN gate[3] ELSE "none"],
        upstream  |-> [t \in Tasks |-> gate[2]],
        routed    |-> r] :
         g \in Graphs, gate \in Gates, r \in {Tasks, Tasks \ {b}}}
=============================================================================
