---------------------------- MODULE DesktopTurns ----------------------------
(***************************************************************************)
(* How a desktop action reaches the machine.  A tool call or a voice       *)
(* command runs one function of electron/desktop-actions.ts; the function  *)
(* checks its arguments, calls the capability layer, whose adapter calls a *)
(* manager of core/windows-agent, which may ask the person and then calls  *)
(* the WindowsSystemApi; the function then acts on the outcome.  Turns     *)
(* interleave between any two of these steps.  What the steps of one       *)
(* operation do is in FileActions, WindowActions, ServiceActions and       *)
(* DeviceActions, each with its own slice of the machine.                  *)
(***************************************************************************)
EXTENDS Naturals, FiniteSets, Sequences

CONSTANTS
  Turns,     (* the tool calls and voice commands that may be under way     *)
  VoiceTurns,(* those that are voice commands                               *)
  NoCall,    (* the call of a turn that has none                            *)
  Backends   (* the WindowsSystemApi implementations that are considered    *)

VARIABLES
  backend,   (* the implementation the adapter was created with             *)
  call,      (* per turn: the operation and its arguments, or NoCall        *)
  at,        (* per turn: how far it is                                     *)
  ok,        (* per turn: DesktopActionResult.ok of its last action         *)
  asked      (* per turn: the person was asked about this call, and allowed *)

turnVars == <<backend, call, at, ok, asked>>

ASSUME TurnsAssumption == VoiceTurns \subseteq Turns
ASSUME BackendsAssumption == Backends \subseteq {"reference", "powershell"}

Stages == {"idle", "call", "gate", "allowed", "again", "last", "after"}

TurnsInit ==
  /\ backend \in Backends
  /\ call = [t \in Turns |-> NoCall]
  /\ at = [t \in Turns |-> "idle"]
  /\ ok = [t \in Turns |-> TRUE]
  /\ asked = [t \in Turns |-> FALSE]

-----------------------------------------------------------------------------
\* registerDesktopVoiceCommands: what has a handler, part by part; all else
\* is for tools only.
SpokenForDevices == {"open_application", "close_application", "volume_up", "volume_down",
                     "set_volume", "mute", "unmute", "play", "pause", "next", "previous"}
SpokenForOpening == {"open_url", "open_file", "open_folder", "open_this"}
SpokenForWindows == {"list_windows", "get_active_window", "focus_window", "minimize_window",
                     "maximize_window", "restore_window", "snap_window", "switch_window"}
SpokenForFiles == {"list_files", "read_file", "search_files", "get_folder_path",
                   "list_recent_files", "create_folder", "copy_file", "move_file",
                   "rename_file", "delete_file"}

\* DESKTOP_INTENT_PATTERNS: what is said either means one of these or is left
\* to the model.
Spoken == SpokenForDevices \cup SpokenForOpening \cup SpokenForWindows \cup SpokenForFiles

Does(t, ops) == call[t] # NoCall /\ call[t].op \in ops

\* The checks of the desktop action have let the call through.
Begins(t, c) ==
  /\ at[t] = "idle"
  /\ t \in VoiceTurns => c.op \in Spoken \cup {"smart_open"}
  /\ call' = [call EXCEPT ![t] = c]
  /\ at' = [at EXCEPT ![t] = "call"]
  /\ ok' = [ok EXCEPT ![t] = TRUE]
  /\ UNCHANGED <<backend, asked>>

\* They have not: { ok: false } and nothing is called.
Declines(t) ==
  /\ at[t] = "idle"
  /\ ok' = [ok EXCEPT ![t] = FALSE]
  /\ UNCHANGED <<backend, call, at, asked>>

\* The function returns, and with it the tool's execute().
Ends(t, outcome) ==
  /\ call' = [call EXCEPT ![t] = NoCall]
  /\ at' = [at EXCEPT ![t] = "idle"]
  /\ ok' = [ok EXCEPT ![t] = outcome]
  /\ asked' = [asked EXCEPT ![t] = FALSE]
  /\ UNCHANGED backend

\* The capability layer refuses, or the adapter finds no such operation on
\* this release of Windows, or an argument has the wrong type.
Refused(t) == at[t] \in {"call", "again"} /\ Ends(t, FALSE)

\* A manager asks before it acts.
Asks(t) ==
  /\ at[t] = "call"
  /\ at' = [at EXCEPT ![t] = "gate"]
  /\ UNCHANGED <<backend, call, ok, asked>>

\* The person answers; no renderer and no answer in time count as a no.
Allows(t) ==
  /\ at[t] = "gate"
  /\ at' = [at EXCEPT ![t] = "allowed"]
  /\ asked' = [asked EXCEPT ![t] = TRUE]
  /\ UNCHANGED <<backend, call, ok>>

Denies(t) == at[t] = "gate" /\ Ends(t, FALSE)

\* The call may act on the machine: nothing to ask, or asked and allowed.
MayAct(t, gated) ==
  IF gated THEN at[t] = "allowed" ELSE at[t] \in {"call", "again"}

\* What run() and runJson() may report of a command that was carried out:
\* PowerShell is killed after 30 s, and the effect it had by then stays.
Reports(done) ==
  IF backend = "powershell" /\ done THEN BOOLEAN ELSE {done}

\* The machine has done what it could; the desktop action goes on.
Settles(t, done) ==
  /\ ok' \in {[ok EXCEPT ![t] = r] : r \in Reports(done)}
  /\ at' = [at EXCEPT ![t] = "after"]
  /\ UNCHANGED <<backend, call, asked>>

\* A non-zero exit code, a failure to spawn: an error and no effect.
ShellFails(t, gated) ==
  /\ backend = "powershell"
  /\ MayAct(t, gated)
  /\ Settles(t, FALSE)
=============================================================================
