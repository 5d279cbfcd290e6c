---------------------------- MODULE BoundedPool ----------------------------
(***************************************************************************)
(* What both of the repository's promise queues promise their callers: at  *)
(* most Limit jobs hold a slot, a job waits only while every slot is       *)
(* taken, a freed slot goes at once to the most urgent waiting job, and a  *)
(* job that is answered never comes back.  ToolInvocation (tool-queue.ts)  *)
(* implements it; InferenceRuntime (inference-queue.ts) does as well.      *)
(***************************************************************************)
EXTENDS Naturals, FiniteSets

CONSTANTS
  Jobs,       (* the jobs that may be submitted                             *)
  Limit,      (* how many may hold a slot                                   *)
  Urgency     (* [Jobs -> Nat], the larger the more urgent                  *)

VARIABLES
  waiting,    (* submitted, without a slot                                  *)
  running,    (* holding a slot                                             *)
  over        (* answered                                                   *)

poolVars == <<waiting, running, over>>

Init ==
  /\ waiting = {}
  /\ running = {}
  /\ over = {}

\* A new job takes a free slot, and waits when there is none.
Submit(j) ==
  /\ j \notin waiting \cup running \cup over
  /\ \/ /\ Cardinality(running) < Limit
        /\ running' = running \cup {j}
        /\ waiting' = waiting
     \/ /\ Cardinality(running) >= Limit
        /\ waiting' = waiting \cup {j}
        /\ running' = running
  /\ over' = over

\* A job gives its slot back, to the most urgent waiting job if one waits.
Finish(j) ==
  /\ j \in running
  /\ over' = over \cup {j}
  /\ \/ /\ waiting = {}
        /\ running' = running \ {j}
        /\ waiting' = waiting
     \/ \E next \in waiting :
          /\ \A other \in waiting : Urgency[other] <= Urgency[next]
          /\ running' = (running \ {j}) \cup {next}
          /\ waiting' = waiting \ {next}

\* A waiting job is withdrawn without ever having had a slot.
Withdraw(j) ==
  /\ j \in waiting
  /\ waiting' = waiting \ {j}
  /\ over' = over \cup {j}
  /\ running' = running

Next == \E j \in Jobs : Submit(j) \/ Finish(j) \/ Withdraw(j)

Spec == Init /\ [][Next]_poolVars
=============================================================================
