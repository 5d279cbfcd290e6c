------------------------------ MODULE MCDesktop ------------------------------
(***************************************************************************)
(* The desktop actions as TLC checks them: one voice command and two tool  *)
(* calls, two of which meet in each part of the machine, over both         *)
(* implementations of WindowsSystemApi.                                    *)
(***************************************************************************)
EXTENDS FileActions, WindowActions, ServiceActions, DeviceActions, TLC

CONSTANTS spoken, typed, queued,
          note, site, downloads, edge, firefox, netscape, explorer, notepad,
          Parts      (* the parts of the machine that are looked at          *)

VARIABLE part        (* the part this behaviour is about                     *)

-----------------------------------------------------------------------------
Home == <<"home">>
Work == <<"home", "work">>
Old == <<"home", "old">>
Paper == <<"home", "work", "paper">>
Paper2 == <<"home", "paper">>
MCPaths == {Home, Work, Old, Paper, Paper2, <<"home", "old", "paper">>}
MCFolders == {Home, Work}
MCProtected == {Home}
MCDocs == (Paper :> note)
MCWellKnown == (downloads :> Work)

F(op, p, q, b) == [op |-> op, path |-> p, to |-> q, browser |-> b]
FP(op, p) == F(op, p, NoPath, NoBrowser)
MCOffered == [t \in Turns |->
  CASE t = spoken ->
         {FP("delete_file", p) : p \in {Home, Work, Paper}} \cup
         {FP("open_file", Paper), FP("open_this", Home), FP("list_files", downloads),
          F("open_url", site, NoPath, netscape),
          F("open_url", site, NoPath, firefox), FP("get_folder_path", downloads)}
    [] t = typed ->
         {FP("create_folder", Work), FP("create_folder", BadPath),
          F("copy_file", Paper, Paper2, NoBrowser), F("move_file", Paper2, Work, NoBrowser),
          F("move_file", Paper2, Paper2, NoBrowser), F("rename_file", Work, Old, NoBrowser),
          F("copy_file", Work, Old, NoBrowser), FP("open_application", Paper),
          FP("open_application", site), FP("open_folder", downloads), FP("read_file", Paper),
          FP("search_files", downloads), FP("list_recent_files", Home)}
    [] OTHER -> {}]

-----------------------------------------------------------------------------
W(h, p, a, f) ==
  [handle |-> h, pid |-> p, app |-> a, state |-> "normal", place |-> "free", focused |-> f]
MCProcs == {[pid |-> 1, app |-> explorer], [pid |-> 2, app |-> notepad]}
MCWindows == <<W(1, 1, explorer, TRUE), W(2, 2, notepad, FALSE)>>

P(op, on, arg, h) == [op |-> op, on |-> on, arg |-> arg, handle |-> h]
PQ(op, on) == P(op, on, NoQuery, 0)
MCWindowCalls == [t \in Turns |->
  CASE t = spoken ->
         {PQ("minimize_window", notepad), P("snap_window", notepad, "left", 0),
          PQ("focus_window", NoQuery), PQ("switch_window", NoQuery),
          PQ("close_application", notepad), PQ("list_windows", NoQuery)}
    [] t = typed ->
         {PQ("restore_window", NoQuery), P("move", NoQuery, "left", 2),
          PQ("kill_process", 1), PQ("restart_process", 2),
          PQ("open_application", notepad), PQ("launch_browser", netscape),
          PQ("restart_application", notepad), PQ("focus_window", notepad), PQ("get_window_info", notepad),
          PQ("list_processes", NoQuery), PQ("list_installed_applications", NoQuery),
          PQ("list_browsers", NoQuery)}
    [] OTHER -> {}]

-----------------------------------------------------------------------------
Hive == <<"HKCU">>
Soft == <<"HKCU", "soft">>
Ryper == <<"HKCU", "soft", "ryper">>
MCKeys == {Hive, Soft, Ryper}
MCTasks == {[name |-> "backup", folder |-> f, enabled |-> TRUE, running |-> FALSE] :
              f \in TaskFolders}
MCEntries == {[key |-> k, name |-> "v", value |-> 1] : k \in {Soft, Ryper}}

S(op, on, in, as) == [op |-> op, on |-> on, in |-> in, as |-> as]
SO(op, on) == S(op, on, NoArg, NoArg)
MCServiceCalls == [t \in Turns |->
  CASE t = typed ->
         {SO("start_service", "spooler"), S("stop_service", "dhcp", "name", NoArg),
          S("stop_service", "spooler", "display", NoArg),
          S("restart_service", "dhcp", "name", NoArg), SO("inspect_service", "dhcp"),
          SO("run_scheduled_task", "backup"),
          S("disable_scheduled_task", "backup", "A", NoArg),
          S("delete_scheduled_task", "backup", "A", NoArg),
          SO("delete_registry_key", Soft), SO("delete_registry_key", Hive),
          S("set_registry_value", <<"HKCU", BadArg>>, "v", 2)}
    [] t = queued ->
         {S("pause_service", "dhcp", "name", NoArg), S("resume_service", "dhcp", "name", NoArg),
          S("delete_service", "spooler", "name", NoArg), SO("get_service_status", "spooler"),
          SO("create_scheduled_task", "backup"), S("create_scheduled_task", BadArg, NoArg, NoArg),
          SO("enable_scheduled_task", "backup"), SO("enable_scheduled_task", BadArg),
          SO("inspect_scheduled_task", BadArg), SO("list_scheduled_tasks", "backup"),
          S("delete_registry_value", Ryper, "v", NoArg), S("set_registry_value", Ryper, "v", 2),
          SO("get_registry_value", Ryper)}
    [] OTHER -> {}]

-----------------------------------------------------------------------------
D(op, on, v) == [op |-> op, on |-> on, val |-> v, seen |-> NoAdapter]
DN(op) == D(op, NoAdapter, 0)
MCDeviceCalls == [t \in Turns |->
  CASE t = spoken ->
         {D("volume_up", NoAdapter, NoAddress), D("set_volume", NoAdapter, BadValue),
          D("set_volume", NoAdapter, 5), DN("mute"), DN("play"), DN("next")}
    [] t = typed ->
         {D("volume_down", NoAdapter, NoAddress), D("volume_down", NoAdapter, 6),
          D("set_volume", NoAdapter, 1), DN("unmute"), DN("pause"), DN("previous"),
          D("show_notification", NoAdapter, "hello"), DN("get_tray_status"),
          D("disable_network_adapter", "wifi", NoAddress), DN("get_active_adapter"),
          D("set_dns", "ethernet", "1.1.1.1"), D("set_dns", "ethernet", BadValue),
          D("enable_network_adapter", "ethernet", NoAddress)}
    [] t = queued ->
         {D("update_tray_tooltip", NoAdapter, "busy"),
          D("set_static_ip", "ethernet", "10.0.0.2"), D("set_dhcp", "ethernet", 0),
          DN("list_devices"), DN("release_dhcp"), D("release_dhcp", "wifi", 0), D("renew_dhcp", "wifi", 0),
          D("reset_adapter", "wlan", 0)}]

-----------------------------------------------------------------------------
Kinds(p) ==
  CASE p = "files"    -> ChangeTools \cup {"read_file", "list_files"}
    [] p = "opens"    -> OpenTools \cup ReadTools \cup
                         {"smart_folder", "rename_file", "delete_file"}
    [] p = "windows"  -> WindowTools \cup
                         {"switch_window", "open_application", "close_application"}
    [] p = "apps"     -> AppTools \cup BrowserTools \cup ProcessOperations \cup
                         HandleOperations \cup ListingTools \cup {"restart_application"}
    [] p = "services" -> ServiceTools \cup (UnusedOperations \ {"delete_registry_value"})
    [] p = "tasks"    -> TaskTools
    [] p = "registry" -> RegistryTools \cup {"delete_registry_value"}
    [] p = "network"  -> NetworkTools \cup LeaseOperations
    [] p = "sound"    -> SoundTools
    [] p = "rest"     -> MediaCommands \cup NoticeTools \cup InfoTools

OnlyOf(p) == \A t \in Turns : call'[t] # NoCall => call'[t].op \in Kinds(p)

machine == <<fileVars, windowVars, serviceVars, deviceVars>>

MCInit ==
  /\ TurnsInit /\ FilesInit /\ WindowsInit /\ ServicesInit /\ DevicesInit
  /\ part \in Parts

MCNext ==
  /\ \/ /\ part \in {"files", "opens"} /\ FilesNext /\ OnlyOf(part)
        /\ UNCHANGED <<windowVars, serviceVars, deviceVars>>
     \/ /\ part \in {"windows", "apps"} /\ WindowsNext /\ OnlyOf(part)
        /\ UNCHANGED <<fileVars, serviceVars, deviceVars>>
     \/ /\ part \in {"services", "tasks", "registry"} /\ ServicesNext /\ OnlyOf(part)
        /\ UNCHANGED <<fileVars, windowVars, deviceVars>>
     \/ /\ part \in {"network", "sound", "rest"} /\ DevicesNext /\ OnlyOf(part)
        /\ UNCHANGED <<fileVars, windowVars, serviceVars>>
  /\ UNCHANGED part

MCSpec == MCInit /\ [][MCNext]_<<turnVars, machine, part>>

\* What a turn reported is overwritten before it is read again.
MCView == <<backend, call, at, [t \in Turns |-> at[t] = "idle" \/ ok[t]], asked,
            machine, part>>
=============================================================================
