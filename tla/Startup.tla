------------------------------- MODULE Startup -------------------------------
(***************************************************************************)
(* The start of the desktop app: bootstrapCore() of                        *)
(* electron/core-bootstrap.ts runs its reported steps in order, provisions *)
(* the local models (Provisioning), registers the speech models it finds   *)
(* (electron/voice-model-provisioning.ts) and brings up the local language *)
(* model (LlamaServer, electron/ai-orchestrator-bootstrap.ts).  The app    *)
(* may be ended, or die, at any step, and is started again.                *)
(***************************************************************************)
EXTENDS Provisioning, LlamaServer

CONSTANTS
  Voices,        (* the speech models that may be registered                *)
  BinaryOf,      (* the binary each of them is run with                     *)
  ModelOf,       (* its model file                                          *)
  LlamaBinary, LlamaModel,
  MaxRestarts    (* bound on the restarts of the app                        *)

ASSUME StartupAssumption ==
  /\ BinaryOf \in [Voices -> Targets] /\ ModelOf \in [Voices -> Targets]
  /\ {LlamaBinary, LlamaModel} \subseteq Targets
  /\ MaxRestarts \in Nat

VARIABLES
  stage,     (* the step of the start the app is at                         *)
  found,     (* the speech models detected, and then registered, by it      *)
  localLLM,  (* localLLMActive                                              *)
  restarts

stepVars == <<stage, found, localLLM>>
startupVars == <<fileVars, serverVars, stepVars, restarts>>

\* What each step is followed by; in safe mode there is a window and no more.
Following ==
  [core |-> "settings", settings |-> "security", security |-> "agent",
   agent |-> "history", history |-> "models", models |-> "detect",
   detect |-> "server", server |-> "finish", finish |-> "up"]

StartupInit ==
  /\ FilesInit /\ ServerInit
  /\ stage = "core" /\ found = {} /\ localLLM = FALSE
  /\ restarts = 0

\* Settled: the app is up, or will not be.
Started == stage \in {"up", "safe"}

Goes == stage' = Following[stage]

\* A step that is reported and done.
Reports ==
  /\ stage \in {"core", "settings", "security", "agent", "history", "finish"}
  /\ Goes
  /\ UNCHANGED <<fileVars, serverVars, found, localLLM>>

\* A step that throws ends the start: the Windows agent asks PowerShell for the
\* version, and the last step makes the tray.
Rejects ==
  /\ stage \in {"agent", "finish"}
  /\ stage' = "safe"
  /\ UNCHANGED <<fileVars, serverVars, found, localLLM>>

\* provisionLocalModels(), whatever comes of it.
ProvisionsModels ==
  /\ stage = "models"
  /\ IF Provisioned THEN Goes /\ UNCHANGED fileVars
     ELSE Provisions /\ UNCHANGED stage
  /\ UNCHANGED <<serverVars, found, localLLM>>

Exists(t) == target[t] # "absent"

\* detectVoiceModelStatus(): only the presence of the two files is looked at.
Detected(v) == Exists(BinaryOf[v]) /\ Exists(ModelOf[v])

\* registerVoiceModels(): the providers of what has been detected.
DetectsVoices ==
  /\ stage = "detect"
  /\ found' = {v \in Voices : Detected(v)}
  /\ Goes
  /\ UNCHANGED <<fileVars, serverVars, localLLM>>

\* detectLlamaModelStatus(): the heuristic provider will do.
NoServer ==
  /\ stage = "server" /\ server.at = "off"
  /\ ~Exists(LlamaBinary) \/ ~Exists(LlamaModel)
  /\ Goes
  /\ UNCHANGED <<fileVars, serverVars, found, localLLM>>

StartsServer ==
  /\ stage = "server"
  /\ \/ Exists(LlamaBinary) /\ Exists(LlamaModel) /\ (Spawns \/ SpawnThrows)
     \/ Starts
  /\ UNCHANGED <<fileVars, stepVars>>

\* start() has resolved or rejected: the local provider is registered or not.
ServerSettled ==
  /\ stage = "server" /\ server.at \in {"ready", "failed"}
  /\ localLLM' = (server.at = "ready")
  /\ Goes
  /\ UNCHANGED <<fileVars, serverVars, found>>

StartSteps ==
  /\ Reports \/ Rejects \/ ProvisionsModels \/ DetectsVoices
       \/ NoServer \/ StartsServer \/ ServerSettled
  /\ UNCHANGED restarts

\* What happens beside it.
Beside ==
  /\ \/ Edits /\ UNCHANGED serverVars
     \/ UNCHANGED fileVars /\ (ProcessServes \/ ProcessDies \/ ExitSeen \/ OrphanDies)
  /\ UNCHANGED <<stepVars, restarts>>

Deadline == DeadlinePasses /\ UNCHANGED <<fileVars, stepVars, restarts>>

\* The app ends -- it is quit, it dies -- and is started again.
RestartsApp ==
  /\ restarts < MaxRestarts
  /\ restarts' = restarts + 1
  /\ stage' = "core" /\ found' = {} /\ localLLM' = FALSE
  /\ ServerOutlivesApp
  /\ job' = Start /\ UNCHANGED <<source, target, link, part, edits>>

-----------------------------------------------------------------------------
(* Properties *)

\* Every start comes to its end: the copies return or fail, and the server is
\* waited for no longer than its deadline, whoever answers on its port.
StartupSettles == ~Started ~> Started
=============================================================================
