---------------------------- MODULE LlamaServer ----------------------------
(***************************************************************************)
(* LlamaServerManager of electron/llm-model-provisioning.ts: the app's own *)
(* llama-server process, started once and polled over HTTP until it        *)
(* answers, exits or is late.  Nothing stops it when the app ends, and a   *)
(* process that outlives the app keeps the port.                           *)
(***************************************************************************)
VARIABLES
  server,   (* start(): at, and whether the exit has been seen, the deadline
               passed and the handle is held                                *)
  process,  (* the process started by this run of the app                   *)
  killed,   (* whether it has been sent SIGTERM                             *)
  orphan    (* whether a process of an earlier run listens on the port      *)

serverVars == <<server, process, killed, orphan>>

Off == [at |-> "off", exited |-> FALSE, late |-> FALSE, handle |-> FALSE]

ServerInit ==
  /\ server = Off
  /\ process = "none" /\ killed = FALSE
  /\ orphan = FALSE

Polling == server.at \in {"polls", "asks"}
Alive == process \in {"loading", "serving"}

\* start(): the process is spawned; a spawn that fails is an exit.
Spawns ==
  /\ server.at = "off"
  /\ process' \in {"loading", "dead"}
  /\ server' = [server EXCEPT !.at = "polls", !.handle = TRUE]
  /\ UNCHANGED <<killed, orphan>>

\* The runner throws, or the binary's path is refused: start() rejects.
SpawnThrows ==
  /\ server.at = "off"
  /\ server' = [server EXCEPT !.at = "failed"]
  /\ UNCHANGED <<process, killed, orphan>>

\* The model is loaded and the port is free.
ProcessServes ==
  /\ process = "loading" /\ ~orphan
  /\ process' = "serving"
  /\ UNCHANGED <<server, killed, orphan>>

ProcessDies ==
  /\ Alive
  /\ process' = "dead"
  /\ UNCHANGED <<server, killed, orphan>>

\* The handle's result settles.
ExitSeen ==
  /\ process = "dead" /\ ~server.exited
  /\ server' = [server EXCEPT !.exited = TRUE]
  /\ UNCHANGED <<process, killed, orphan>>

\* readyTimeoutMs have passed.
DeadlinePasses ==
  /\ Polling /\ ~server.late
  /\ server' = [server EXCEPT !.late = TRUE]
  /\ UNCHANGED <<process, killed, orphan>>

\* stop()
Stops ==
  /\ killed' = (killed \/ Alive)
  /\ server' = [server EXCEPT !.at = "failed", !.handle = FALSE]
  /\ UNCHANGED <<process, orphan>>

\* Defect: a start that comes too late only rejects.
LeavesItRunning ==
  /\ server.at = "polls" /\ server.late
  /\ server' = [server EXCEPT !.at = "failed"]
  /\ UNCHANGED <<process, killed, orphan>>

\* The loop's head: the deadline is looked at before the exit.
TooLate == server.at = "polls" /\ server.late /\ Stops

ExitedEarly ==
  /\ server.at = "polls" /\ ~server.late /\ server.exited
  /\ server' = [server EXCEPT !.at = "failed", !.handle = FALSE]
  /\ UNCHANGED <<process, killed, orphan>>

AsksHealth ==
  /\ server.at = "polls" /\ ~server.late /\ ~server.exited
  /\ server' = [server EXCEPT !.at = "asks"]
  /\ UNCHANGED <<process, killed, orphan>>

\* /health answers -- whoever listens on the port -- or does not yet.
Healthy ==
  /\ server.at = "asks" /\ (process = "serving" \/ orphan)
  /\ server' = [server EXCEPT !.at = "ready"]
  /\ UNCHANGED <<process, killed, orphan>>

NotYet ==
  /\ server.at = "asks"
  /\ server' = [server EXCEPT !.at = "polls"]
  /\ UNCHANGED <<process, killed, orphan>>

Starts == TooLate \/ ExitedEarly \/ AsksHealth \/ Healthy \/ NotYet

\* The app ends, and the process it started does not.
ServerOutlivesApp ==
  /\ orphan' = (orphan \/ (Alive /\ ~killed))
  /\ server' = Off /\ process' = "none" /\ killed' = FALSE

OrphanDies == orphan /\ orphan' = FALSE /\ UNCHANGED <<server, process, killed>>

-----------------------------------------------------------------------------
(* Properties *)

\* A start that rejects leaves no server behind: the app goes on with another
\* provider and nobody holds a handle to stop one that would load its model,
\* and keep the port, after all.
FailedStartsLeaveNoServer == server.at = "failed" => ~Alive \/ killed
=============================================================================
