--------------------------- MODULE ServiceActions ---------------------------
(***************************************************************************)
(* Windows services, scheduled tasks and the registry.  The desktop        *)
(* actions pass their arguments on unchecked; the managers decide what is  *)
(* asked; the WindowsSystemApi validates, but only after the person was    *)
(* asked.  A service is looked up, judged critical or not, and stopped     *)
(* later; a restart is a stop and then a start.                            *)
(***************************************************************************)
EXTENDS DesktopTurns, SequencesExt

CONSTANTS
  Services,
  CriticalServices,   (* critical: TRUE, CRITICAL_SERVICE_NAMES             *)
  TaskNames, TaskFolders, RootFolder,
  Keys,               (* registry keys: hive and path, as a sequence, that  *)
                      (* normalizeAndValidateRegistry accepts               *)
  NoArg,              (* an argument that is missing                        *)
  BadArg,             (* one the sanitizers of PowerShell throw on          *)
  InitialTasks,       (* records [name, folder, enabled, running]           *)
  InitialEntries,     (* records [key, name, value]                         *)
  ServiceCalls        (* the calls [op, on, in, as] each turn may make      *)

VARIABLES
  status,    (* per service: running, stopped, paused or gone               *)
  tasks,     (* the scheduled tasks                                         *)
  entries    (* the registry values                                         *)

serviceVars == <<status, tasks, entries>>

ASSUME CriticalServicesAssumption == CriticalServices \subseteq Services

RegistryTools == {"inspect_registry_key", "get_registry_value", "list_registry_values",
                  "set_registry_value", "delete_registry_key"}
ServiceTools == {"list_services", "inspect_service", "get_service_status",
                 "start_service", "stop_service", "restart_service"}
TaskTools == {"list_scheduled_tasks", "inspect_scheduled_task", "run_scheduled_task",
              "enable_scheduled_task", "disable_scheduled_task", "create_scheduled_task",
              "delete_scheduled_task"}
\* What the adapter offers and no tool uses.
UnusedOperations == {"pause_service", "resume_service", "delete_service",
                     "delete_registry_value"}

RegistryChanges == {"set_registry_value", "delete_registry_value", "delete_registry_key"}

\* A task has these four fields; what is changed in the registry is named
\* by a sequence.
IsTask(k) ==
  k = [name |-> k.name, folder |-> k.folder, enabled |-> k.enabled, running |-> k.running]
ASSUME InitialTasksAssumption == \A k \in InitialTasks : IsTask(k)
ASSUME ServiceCallsAssumption ==
  \A t \in Turns : \A c \in ServiceCalls[t] : c.op \in RegistryChanges => Len(c.on) \in Nat

ServicesInit ==
  /\ status = [s \in Services |-> "running"]
  /\ tasks = InitialTasks
  /\ entries = InitialEntries

StartsService(t) ==
  /\ \E c \in ServiceCalls[t] :
       c.op \in ServiceTools \cup TaskTools \cup RegistryTools \cup UnusedOperations
       /\ Begins(t, c)
  /\ UNCHANGED serviceVars

-----------------------------------------------------------------------------
Present(s) == s \in Services /\ status[s] # "gone"

\* Defect: only a deletion is asked about.
FindsAnyService(t) ==
  /\ Does(t, {"stop_service", "restart_service", "delete_service"})
  /\ at[t] = "call"
  /\ LET c == call[t] IN
     IF ~Present(c.on) THEN Ends(t, FALSE)
     ELSE IF c.op = "delete_service" THEN Asks(t)
     ELSE at' = [at EXCEPT ![t] = "again"] /\ UNCHANGED <<backend, call, ok, asked>>
  /\ UNCHANGED serviceVars

\* stop() and delete() look the service up by its name or its display name;
\* then whatever is critical, or deleted, is asked about.
FindsService(t) ==
  /\ Does(t, {"stop_service", "restart_service", "delete_service"})
  /\ at[t] = "call"
  /\ LET c == call[t] IN
     IF ~Present(c.on) THEN Ends(t, FALSE)
     ELSE IF c.op = "delete_service" \/ c.on \in CriticalServices THEN Asks(t)
     ELSE at' = [at EXCEPT ![t] = "again"] /\ UNCHANGED <<backend, call, ok, asked>>
  /\ UNCHANGED serviceVars

\* setServiceStatus: any service that is there, whatever its status.
SetByReference(c, s) == backend = "reference" /\ Present(c.on) /\ status' = [status EXCEPT ![c.on] = s]

\* The cmdlets take a name only, and pause only what runs.
SetByCmdlet(c, s) ==
  /\ backend = "powershell"
  /\ Present(c.on) /\ c.in = "name"
  /\ s = "paused" => status[c.on] # "stopped"
  /\ c.op = "resume_service" => status[c.on] # "stopped"
  /\ status' = [status EXCEPT ![c.on] = s]

SetsStatus(t, s) == SetByReference(call[t], s) \/ SetByCmdlet(call[t], s)

BeginsService(t) ==
  /\ \/ Does(t, {"start_service"}) /\ at[t] = "call"
     \/ Does(t, {"restart_service"}) /\ at[t] = "last"
  /\ SetsStatus(t, "running")
  /\ Settles(t, TRUE)
  /\ UNCHANGED <<tasks, entries>>

StopsService(t) ==
  /\ Does(t, {"stop_service", "restart_service"})
  /\ at[t] \in {"again", "allowed"}
  /\ SetsStatus(t, "stopped")
  /\ IF call[t].op = "restart_service"
     THEN at' = [at EXCEPT ![t] = "last"] /\ UNCHANGED <<backend, call, ok, asked>>
     ELSE Settles(t, TRUE)
  /\ UNCHANGED <<tasks, entries>>

PausesService(t) ==
  /\ Does(t, {"pause_service", "resume_service"})
  /\ at[t] = "call"
  /\ SetsStatus(t, IF call[t].op = "pause_service" THEN "paused" ELSE "running")
  /\ Settles(t, TRUE)
  /\ UNCHANGED <<tasks, entries>>

DeletesService(t) ==
  /\ Does(t, {"delete_service"})
  /\ at[t] = "allowed"
  /\ SetsStatus(t, "gone")
  /\ Settles(t, TRUE)
  /\ UNCHANGED <<tasks, entries>>

\* "no service named"; access denied; the service does not answer in time.
ServiceFails(t) ==
  /\ Does(t, ServiceTools \cup {"pause_service", "resume_service", "delete_service"})
  /\ at[t] \in {"call", "again", "allowed", "last"}
  /\ backend = "reference" => ~Present(call[t].on)
  /\ Settles(t, FALSE)
  /\ UNCHANGED serviceVars

-----------------------------------------------------------------------------
\* create and delete are asked about before anything is looked up.
AsksFirst(t) ==
  /\ Does(t, {"create_scheduled_task", "delete_scheduled_task"} \cup RegistryChanges)
  /\ Asks(t)
  /\ UNCHANGED serviceVars

AllowsChange(t) ==
  /\ Does(t, ServiceTools \cup TaskTools \cup RegistryTools \cup UnusedOperations)
  /\ Allows(t)
  /\ UNCHANGED serviceVars

DeniesChange(t) ==
  /\ Does(t, ServiceTools \cup TaskTools \cup RegistryTools \cup UnusedOperations)
  /\ Denies(t)
  /\ UNCHANGED serviceVars

Twins(c) == {k \in tasks : k.name = c.on}
InFolder(c) == {k \in Twins(c) : c.in \in {NoArg, k.folder}}

\* The reference looks a task up in its folder, and then changes every task
\* of that name.
HitByReference(c) == IF InFolder(c) = {} THEN {} ELSE Twins(c)

\* sanitizeTaskPath: for create and delete no folder is the root folder.
FolderOf(c) ==
  IF c.in = NoArg /\ c.op \in {"create_scheduled_task", "delete_scheduled_task"}
  THEN RootFolder ELSE c.in

HitByCmdlet(c) ==
  IF BadArg \in {c.on, c.in} THEN {}
  ELSE {k \in Twins(c) : FolderOf(c) \in {NoArg, k.folder}}

Hit(c) == IF backend = "reference" THEN HitByReference(c) ELSE HitByCmdlet(c)

\* The reference has one state for both: it is set to ready or disabled.
Switched(k, op) ==
  LET stays == IF backend = "reference" THEN FALSE ELSE k.running IN
  CASE op = "run_scheduled_task" -> [k EXCEPT !.running = TRUE]
    [] op = "enable_scheduled_task" -> [k EXCEPT !.enabled = TRUE, !.running = stays]
    [] op = "disable_scheduled_task" -> [k EXCEPT !.enabled = FALSE, !.running = stays]

SwitchesTask(t) ==
  /\ Does(t, {"run_scheduled_task", "enable_scheduled_task", "disable_scheduled_task"})
  /\ at[t] = "call"
  /\ LET hit == Hit(call[t])  op == call[t].op IN
     /\ hit # {}
     /\ (backend = "powershell" /\ op = "run_scheduled_task") => \A k \in hit : k.enabled
     /\ tasks' = (tasks \ hit) \cup {Switched(k, op) : k \in hit}
  /\ Settles(t, TRUE)
  /\ UNCHANGED <<status, entries>>

\* validateTaskSpec refuses a command it finds obfuscated.
CreatesTask(t) ==
  /\ Does(t, {"create_scheduled_task"})
  /\ at[t] = "allowed"
  /\ backend = "powershell" => BadArg \notin {call[t].on, call[t].in, call[t].as}
  /\ LET c == call[t] IN
     tasks' = (tasks \ Hit(c)) \cup
       {[name |-> c.on, folder |-> FolderOf(c), enabled |-> TRUE, running |-> FALSE]}
  /\ Settles(t, TRUE)
  /\ UNCHANGED <<status, entries>>

DeletesTask(t) ==
  /\ Does(t, {"delete_scheduled_task"})
  /\ at[t] = "allowed"
  /\ Hit(call[t]) # {}
  /\ tasks' = tasks \ Hit(call[t])
  /\ Settles(t, TRUE)
  /\ UNCHANGED <<status, entries>>

TaskFails(t) ==
  /\ Does(t, TaskTools)
  /\ at[t] = (IF call[t].op \in {"create_scheduled_task", "delete_scheduled_task"}
              THEN "allowed" ELSE "call")
  /\ backend = "reference" =>
       Hit(call[t]) = {} /\ call[t].op \notin {"create_scheduled_task", "list_scheduled_tasks",
                                               "inspect_scheduled_task"}
  /\ Settles(t, FALSE)
  /\ UNCHANGED serviceVars

\* A task that runs comes to its end.
TaskEnds ==
  /\ backend = "powershell"
  /\ \E k \in tasks : k.running /\ tasks' = (tasks \ {k}) \cup {[k EXCEPT !.running = FALSE]}
  /\ UNCHANGED <<turnVars, status, entries>>

-----------------------------------------------------------------------------
\* The value of that name in that key.
Same(c) == {e \in entries : e.key = c.on /\ e.name = c.in}

WritesValue(t) ==
  /\ Does(t, {"set_registry_value"})
  /\ at[t] = "allowed"
  /\ backend = "powershell" => call[t].on \in Keys
  /\ LET c == call[t] IN
     entries' = (entries \ Same(c)) \cup {[key |-> c.on, name |-> c.in, value |-> c.as]}
  /\ Settles(t, TRUE)
  /\ UNCHANGED <<status, tasks>>

\* A value that is not there is no error.
DeletesValue(t) ==
  /\ Does(t, {"delete_registry_value"})
  /\ at[t] = "allowed"
  /\ entries' = entries \ Same(call[t])
  /\ Settles(t, TRUE)
  /\ UNCHANGED <<status, tasks>>

Below(key) == {e \in entries : IsPrefix(key, e.key)}

\* Of a hive itself only its own values.
KeyByReference(c) ==
  /\ backend = "reference"
  /\ entries' = entries \ (IF Len(c.on) = 1 THEN {e \in entries : e.key = c.on} ELSE Below(c.on))

\* Never a hive; Remove-Item -Recurse may not get everywhere, and says nothing.
KeyByCmdlet(c) ==
  /\ backend = "powershell"
  /\ c.on \in Keys /\ Len(c.on) > 1
  /\ \E gone \in SUBSET Below(c.on) : entries' = entries \ gone

DeletesKey(t) ==
  /\ Does(t, {"delete_registry_key"})
  /\ at[t] = "allowed"
  /\ KeyByReference(call[t]) \/ KeyByCmdlet(call[t])
  /\ Settles(t, TRUE)
  /\ UNCHANGED <<status, tasks>>

RegistryFails(t) ==
  /\ Does(t, RegistryTools \cup RegistryChanges)
  /\ ShellFails(t, call[t].op \in RegistryChanges)
  /\ UNCHANGED serviceVars

-----------------------------------------------------------------------------
\* What only looks: a thing that is not there is an answer, and an error
\* only where a service's status was asked for.
FoundService(c) == IF c.op = "get_service_status" THEN Present(c.on) ELSE TRUE
FoundTask(c) == backend = "powershell" => BadArg \notin {c.on, c.in}
FoundEntry(c) == backend = "powershell" => c.on \in Keys

LooksAtService(t) ==
  /\ Does(t, {"list_services", "inspect_service", "get_service_status"})
  /\ at[t] = "call"
  /\ Settles(t, FoundService(call[t]))
  /\ UNCHANGED serviceVars

LooksAtTask(t) ==
  /\ Does(t, {"list_scheduled_tasks", "inspect_scheduled_task"})
  /\ at[t] = "call"
  /\ Settles(t, FoundTask(call[t]))
  /\ UNCHANGED serviceVars

LooksAtEntry(t) ==
  /\ Does(t, {"inspect_registry_key", "get_registry_value", "list_registry_values"})
  /\ at[t] = "call"
  /\ Settles(t, FoundEntry(call[t]))
  /\ UNCHANGED serviceVars

ReturnsService(t) == at[t] = "after" /\ Ends(t, ok[t]) /\ UNCHANGED serviceVars

ServiceStep(t) ==
  \/ StartsService(t) \/ FindsService(t)
  \/ BeginsService(t) \/ StopsService(t) \/ PausesService(t) \/ DeletesService(t)
  \/ ServiceFails(t) \/ AsksFirst(t) \/ AllowsChange(t) \/ DeniesChange(t)
  \/ SwitchesTask(t) \/ CreatesTask(t) \/ DeletesTask(t) \/ TaskFails(t)
  \/ WritesValue(t) \/ DeletesValue(t) \/ DeletesKey(t) \/ RegistryFails(t)
  \/ LooksAtService(t) \/ LooksAtTask(t) \/ LooksAtEntry(t) \/ ReturnsService(t)

ServicesNext == TaskEnds \/ \E t \in Turns : ServiceStep(t)

ServicesSpec == TurnsInit /\ ServicesInit /\ [][ServicesNext]_<<turnVars, serviceVars>>

-----------------------------------------------------------------------------
\* Some turn was asked about one of these operations on this.
AskedFor(ops, on) == \E t \in Turns : Does(t, ops) /\ asked[t] /\ call[t].on = on

\* No critical service is stopped, no service and no task is removed, no task
\* is created and no registry value changes or goes, unless the person was
\* asked in a call that names it, or a key that it is in (service-manager.ts,
\* task-scheduler-manager.ts, registry-interface.ts).
DestructionIsAsked ==
  [][/\ \A s \in Services :
          /\ (s \in CriticalServices /\ status[s] # "stopped" /\ status'[s] = "stopped")
               => AskedFor({"stop_service", "restart_service"}, s)
          /\ (status[s] # "gone" /\ status'[s] = "gone") => AskedFor({"delete_service"}, s)
     /\ \A n \in TaskNames : \A f \in TaskFolders :
          LET there  == \E k \in tasks : k.name = n /\ k.folder = f
              stays == \E k \in tasks' : k.name = n /\ k.folder = f IN
          there # stays => AskedFor({"create_scheduled_task", "delete_scheduled_task"}, n)
     /\ \A e \in (entries \ entries') \cup (entries' \ entries) :
          \E t \in Turns : Does(t, RegistryChanges) /\ asked[t] /\ IsPrefix(call[t].on, e.key)
    ]_<<turnVars, serviceVars>>
=============================================================================
