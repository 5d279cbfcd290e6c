------------------------------ MODULE MCMemory ------------------------------
(***************************************************************************)
(* The memory manager and the stores that sync memories, for TLC: a        *)
(* behaviour is about one or the other.                                    *)
(***************************************************************************)
EXTENDS MemoryStore, SyncStore

\* The third device syncs only the first key.
MCFiltered == [d \in Devices |-> IF d = 3 THEN Keys \ {1} ELSE {}]

VARIABLE scene

mcVars == <<memoryVars, syncVars, scene>>

MCInit == MemoryInit /\ SyncInit /\ scene \in {"crowd", "alone", "replicas"}

\* "crowd": two callers at once, the first of them calling first, and one
\* change of the permissions or restart; "alone": one caller, more calls.
MayCall(c) ==
    \/ scene = "crowd" /\ counts.calls < 2 /\ (counts.calls = 0 => c = 1)
    \/ scene = "alone" /\ c = 1
MayTurn == scene = "crowd" /\ counts.changes + counts.restarts = 0

Memory ==
    /\ \/ \E c \in Callers : (MayCall(c) /\ Calls(c)) \/ Resumes(c) \/ Fails(c)
       \/ MayTurn /\ (ChangePermissions \/ Restart)
    /\ UNCHANGED <<syncVars, scene>>

Sync == scene = "replicas" /\ SyncNext /\ UNCHANGED <<memoryVars, scene>>

\* Some snapshot that still tells somebody something arrives as it was taken.
Arrives == scene = "replicas" /\ (\E d, e \in Devices : Exchange(d, e)) /\ UNCHANGED <<memoryVars, scene>>

MCSpec == MCInit /\ [][Memory \/ Sync]_mcVars /\ WF_mcVars(Arrives)
=============================================================================
