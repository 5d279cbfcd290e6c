---------------------------- MODULE WindowActions ----------------------------
(***************************************************************************)
(* Applications, processes and windows: the desktop actions, the managers  *)
(* behind them and the two implementations of WindowsSystemApi.  Window    *)
(* tools find their window first and name it by its handle afterwards, so  *)
(* anything may happen to it in between.                                   *)
(***************************************************************************)
EXTENDS DesktopTurns, SequencesExt

CONSTANTS
  Pids,            (* the process ids that may be handed out                *)
  MaxHandle,       (* bound: the window handles that are handed out         *)
  Apps,            (* the applications that are installed                   *)
  CriticalApps,    (* those whose process is critical to the system         *)
  NoQuery,         (* an argument that is missing                           *)
  InitialProcs,    (* what runs at first: records [pid, app]                *)
  InitialWindows,  (* a sequence of [handle, pid, app, state, place, focused] *)
  WindowCalls      (* the calls each turn may make                          *)

VARIABLES
  procs,     (* the process table                                           *)
  windows,   (* the windows, in the order they are listed                   *)
  handles    (* nextId("hwnd"): the last handle of the reference            *)

windowVars == <<procs, windows, handles>>

IsWindow(w) ==
  /\ w = [handle |-> w.handle, pid |-> w.pid, app |-> w.app,
          state |-> w.state, place |-> w.place, focused |-> w.focused]
  /\ w.handle \in Nat

\* A handle is listed once.
IsListing(s) ==
  /\ s \in Seq(Range(s))
  /\ \A i \in DOMAIN s : IsWindow(s[i])
  /\ \A i, j \in DOMAIN s : s[i].handle = s[j].handle => i = j

ASSUME InitialWindowsAssumption ==
  IsListing(InitialWindows)
  /\ \A i \in DOMAIN InitialWindows : InitialWindows[i].handle \in 1..Len(InitialWindows)

WindowTools  == {"focus_window", "minimize_window", "maximize_window", "restore_window",
                 "snap_window"}
ListingTools == {"list_windows", "get_window_info", "get_active_window", "list_processes"}
AppTools == {"open_application", "close_application", "list_installed_applications",
             "list_running_applications"}
BrowserTools == {"list_browsers", "launch_browser"}
\* Operations of the adapter that no tool uses: they are given a handle.
HandleOperations == {"move", "resize", "center"}
ProcessOperations == {"kill_process", "restart_process"}

\* An operation that is given a handle is given no query.
IsWindowCall(c) ==
  /\ c = [op |-> c.op, on |-> c.on, arg |-> c.arg, handle |-> c.handle]
  /\ c.op \in HandleOperations => c.on = NoQuery

ASSUME WindowCallsAssumption == \A t \in Turns : \A c \in WindowCalls[t] : IsWindowCall(c)

WindowsInit ==
  /\ procs = InitialProcs
  /\ windows = InitialWindows
  /\ handles = Len(InitialWindows)

AppOf(pid) == {p.app : p \in {q \in procs : q.pid = pid}}
Running(pid) == \E p \in procs : p.pid = pid
Listed(h) == \E i \in DOMAIN windows : windows[i].handle = h

\* this.windows.filter: those that are wanted, in the order they are listed.
Among(wanted) ==
  LET kept[n \in 0..Len(windows)] ==
        IF n = 0 THEN <<>>
        ELSE IF windows[n] \in wanted THEN Append(kept[n - 1], windows[n])
        ELSE kept[n - 1]
  IN  kept[Len(windows)]

\* The windows a query may mean.
Matching(app) ==
  Among({w \in Range(windows) : IF app = NoQuery THEN w.focused ELSE w.app = app})

-----------------------------------------------------------------------------
\* A query that focus_window, close_application or open_application lacks.
Named(c) == c.op \in {"focus_window", "close_application", "open_application",
                      "restart_application"} => c.on # NoQuery
Positioned(c) == c.op = "snap_window" => c.arg # NoQuery
\* resize() refuses a width or height that is not positive.
Sized(c) == c.op = "resize" => c.arg # "empty"

StartsWindow(t) ==
  /\ \E c \in WindowCalls[t] : Named(c) /\ Positioned(c) /\ Sized(c) /\ Begins(t, c)
  /\ UNCHANGED windowVars

RejectsWindow(t) ==
  /\ \E c \in WindowCalls[t] : ~(Named(c) /\ Positioned(c) /\ Sized(c))
  /\ Declines(t)
  /\ UNCHANGED windowVars

\* Defect: the first window, whatever was asked for.
FindsAnyWindow(t) ==
  /\ Does(t, WindowTools)
  /\ at[t] = "call"
  /\ IF windows = <<>> THEN Ends(t, FALSE)
     ELSE /\ call' = [call EXCEPT ![t].handle = windows[1].handle]
          /\ at' = [at EXCEPT ![t] = "again"]
          /\ UNCHANGED <<backend, ok, asked>>
  /\ UNCHANGED windowVars

\* resolveWindow: the first window that matches, or the one with the focus.
FindsWindow(t) ==
  /\ Does(t, WindowTools)
  /\ at[t] = "call"
  /\ LET found == Matching(call[t].on) IN
     IF found = <<>> THEN Ends(t, FALSE)
     ELSE /\ call' = [call EXCEPT ![t].handle = found[1].handle]
          /\ at' = [at EXCEPT ![t] = "again"]
          /\ UNCHANGED <<backend, ok, asked>>
  /\ UNCHANGED windowVars

\* switchToNext: the window listed after the one that has the focus.
FindsNext(t) ==
  /\ Does(t, {"switch_window"})
  /\ at[t] = "call"
  /\ IF windows = <<>> THEN Ends(t, TRUE)
     ELSE LET active == SelectInSeq(windows, LAMBDA w : w.focused)
              next == windows[(active % Len(windows)) + 1] IN
          /\ call' = [call EXCEPT ![t].handle = next.handle]
          /\ at' = [at EXCEPT ![t] = "again"]
          /\ UNCHANGED <<backend, ok, asked>>
  /\ UNCHANGED windowVars

\* The operation has its handle.
HasHandle(t, ops) ==
  /\ Does(t, ops)
  /\ IF call[t].op \in HandleOperations THEN at[t] = "call" ELSE at[t] = "again"

Focused(h) == [i \in DOMAIN windows |-> [windows[i] EXCEPT !.focused = (windows[i].handle = h)]]

FocusedByReference(h) == Listed(h) /\ windows' = Focused(h)

\* A window that is gone is not missed: AppActivate answers false and the
\* command ends well.
FocusedByCmdlet(h) == windows' = IF Listed(h) THEN Focused(h) ELSE windows

FocusesWindow(t) ==
  /\ HasHandle(t, {"focus_window", "switch_window"})
  /\ IF backend = "reference" THEN FocusedByReference(call[t].handle)
     ELSE FocusedByCmdlet(call[t].handle)
  /\ Settles(t, TRUE)
  /\ UNCHANGED <<procs, handles>>

\* { ...w, ...patch }
With(w, fields) ==
  [w EXCEPT !.state = IF "state" \in DOMAIN fields THEN fields.state ELSE w.state,
            !.place = IF "place" \in DOMAIN fields THEN fields.place ELSE w.place]

\* requireWindow and replaceWindow: the window with these fields changed.
Patched(h, fields) ==
  /\ Listed(h)
  /\ windows' = [i \in DOMAIN windows |->
                   IF windows[i].handle = h THEN With(windows[i], fields) ELSE windows[i]]

\* What PowerShell is given to run for these is a comment.
Commented == backend = "powershell" /\ UNCHANGED windows

StateOf(op) ==
  CASE op = "minimize_window" -> "minimized"
    [] op = "maximize_window" -> "maximized"
    [] op = "restore_window" -> "normal"

SetsState(t) ==
  /\ HasHandle(t, {"minimize_window", "maximize_window", "restore_window"})
  /\ \/ Commented
     \/ /\ backend = "reference"
        /\ Patched(call[t].handle, [state |-> StateOf(call[t].op)])
  /\ Settles(t, TRUE)
  /\ UNCHANGED <<procs, handles>>

\* A half or a quarter of the screen; the window is a normal one then.
SnappedByReference(h, position) ==
  /\ backend = "reference"
  /\ Patched(h, [place |-> position, state |-> "normal"])

SnapsWindow(t) ==
  /\ HasHandle(t, {"snap_window"})
  /\ Commented \/ SnappedByReference(call[t].handle, call[t].arg)
  /\ Settles(t, TRUE)
  /\ UNCHANGED <<procs, handles>>

PlacedByReference(h, place) ==
  backend = "reference" /\ Patched(h, [place |-> place])

PlacesWindow(t) ==
  /\ HasHandle(t, HandleOperations)
  /\ Commented \/ PlacedByReference(call[t].handle, call[t].arg)
  /\ Settles(t, TRUE)
  /\ UNCHANGED <<procs, handles>>

\* "no window with handle".
MissesWindow(t) ==
  /\ HasHandle(t, WindowTools \cup HandleOperations \cup {"switch_window"})
  /\ ~Listed(call[t].handle)
  /\ backend = "reference"
  /\ Settles(t, FALSE)
  /\ UNCHANGED windowVars

-----------------------------------------------------------------------------
\* A process and, for an application, its window with the focus.
Launched(app, pid, h) ==
  /\ procs' = procs \cup {[pid |-> pid, app |-> app]}
  /\ windows' = LET all == Append(windows, [handle |-> h, pid |-> pid, app |-> app,
                              state |-> "normal", place |-> "free", focused |-> TRUE]) IN
                [i \in DOMAIN all |-> [all[i] EXCEPT !.focused = (all[i].pid = pid)]]

\* startProcess picks a pid at random and does not look whether it is taken;
\* the handles are new ones.
LaunchedByReference(app) ==
  /\ backend = "reference"
  /\ handles < MaxHandle
  /\ handles' = handles + 1
  /\ \E pid \in Pids : Launched(app, pid, handles')

\* Those of Windows may have been another window's.
LaunchedByCmdlet(app) ==
  /\ backend = "powershell"
  /\ \E pid \in Pids, h \in 1..MaxHandle :
       ~Running(pid) /\ ~Listed(h) /\ Launched(app, pid, h)
  /\ UNCHANGED handles

Launches(app) == LaunchedByReference(app) \/ LaunchedByCmdlet(app)

LaunchesApp(t) ==
  /\ \/ Does(t, {"open_application", "launch_browser"}) /\ at[t] = "call"
     \/ Does(t, {"restart_application"}) /\ at[t] = "last"
  /\ call[t].on \in Apps
  /\ Launches(call[t].on)
  /\ Settles(t, TRUE)

\* "no installed application with id", BrowserNotInstalledError.
MissesApp(t) ==
  /\ Does(t, {"open_application", "launch_browser", "restart_application"})
  /\ at[t] \in {"call", "last"}
  /\ call[t].on \notin Apps
  /\ Settles(t, FALSE)
  /\ UNCHANGED windowVars

\* killProcess takes the windows of the process along.
Without(pids) ==
  /\ procs' = {p \in procs : p.pid \notin pids}
  /\ windows' = Among({w \in Range(windows) : w.pid \notin pids})
  /\ UNCHANGED handles

\* closeApplication kills the process of each window of the application in
\* turn: the second window of a process finds it gone, which is an error.
ClosedByReference(app) ==
  LET mine == Matching(app)  pids == {mine[i].pid : i \in DOMAIN mine} IN
  [pids |-> pids, done |-> mine # <<>> /\ Cardinality(pids) = Len(mine)]

\* The cmdlets stop every process of that name.
ClosedByCmdlet(app) ==
  LET pids == {p.pid : p \in {q \in procs : q.app = app}} IN
  [pids |-> pids, done |-> pids # {}]

ClosesApp(t) ==
  /\ Does(t, {"close_application", "restart_application"})
  /\ at[t] = "call"
  /\ LET closed == IF backend = "reference" THEN ClosedByReference(call[t].on)
                   ELSE ClosedByCmdlet(call[t].on) IN
     /\ Without(closed.pids)
     /\ IF closed.done /\ call[t].op = "restart_application"
        THEN at' = [at EXCEPT ![t] = "last"] /\ UNCHANGED <<backend, call, ok, asked>>
        ELSE Settles(t, closed.done)

\* ProcessManager.kill looks the process up first.  Only the reference marks
\* a process critical: what Get-Process is asked for has no such field.
KnownCritical(pid) == backend = "reference" /\ AppOf(pid) \cap CriticalApps # {}

FindsProcess(t) ==
  /\ Does(t, ProcessOperations)
  /\ at[t] = "call"
  /\ IF ~Running(call[t].on) THEN Settles(t, FALSE)
     ELSE IF KnownCritical(call[t].on) THEN Asks(t)
     ELSE at' = [at EXCEPT ![t] = "again"] /\ UNCHANGED <<backend, call, ok, asked>>
  /\ UNCHANGED windowVars

AllowsKill(t) == Does(t, ProcessOperations) /\ Allows(t) /\ UNCHANGED windowVars
DeniesKill(t) == Does(t, ProcessOperations) /\ Denies(t) /\ UNCHANGED windowVars

\* restart() remembers the program and starts it again.
KillsProcess(t) ==
  /\ Does(t, ProcessOperations)
  /\ at[t] \in {"again", "allowed"}
  /\ Running(call[t].on)
  /\ Without({call[t].on})
  /\ IF call[t].op = "kill_process" THEN Settles(t, TRUE)
     ELSE /\ \E app \in AppOf(call[t].on) : call' = [call EXCEPT ![t].arg = app]
          /\ at' = [at EXCEPT ![t] = "last"]
          /\ UNCHANGED <<backend, ok, asked>>

MissesProcess(t) ==
  /\ Does(t, ProcessOperations)
  /\ at[t] \in {"again", "allowed"}
  /\ ~Running(call[t].on)
  /\ Settles(t, FALSE)
  /\ UNCHANGED windowVars

\* The reference starts a process without a window.
StartsAgain(t) ==
  /\ Does(t, {"restart_process"})
  /\ at[t] = "last"
  /\ \/ LaunchedByCmdlet(call[t].arg)
     \/ backend = "reference" /\ UNCHANGED <<windows, handles>>
        /\ \E pid \in Pids : procs' = procs \cup {[pid |-> pid, app |-> call[t].arg]}
  /\ Settles(t, TRUE)

-----------------------------------------------------------------------------
\* Get-Process, Stop-Process, Start-Process and the window commands may fail.
WindowFails(t) ==
  /\ Does(t, ProcessOperations \cup WindowTools \cup HandleOperations \cup ListingTools \cup
             AppTools \cup BrowserTools \cup {"switch_window", "restart_application"})
  /\ at[t] \in {"call", "again", "allowed", "last"}
  /\ backend = "powershell"
  /\ Settles(t, FALSE)
  /\ UNCHANGED windowVars

\* What only looks changes nothing, and finds nothing to be an answer.
LooksAtWindows(t) ==
  /\ Does(t, {"list_windows", "get_active_window"}) /\ at[t] = "call"
  /\ Settles(t, TRUE)
  /\ UNCHANGED windowVars

\* ... unless it was a window that was asked for.
LooksAtWindow(t) ==
  /\ Does(t, {"get_window_info"}) /\ at[t] = "call"
  /\ Settles(t, call[t].on = NoQuery \/ Matching(call[t].on) # <<>>)
  /\ UNCHANGED windowVars

LooksAtProcesses(t) ==
  /\ Does(t, {"list_processes"}) /\ at[t] = "call"
  /\ Settles(t, TRUE)
  /\ UNCHANGED windowVars

LooksAtApps(t) ==
  /\ Does(t, {"list_installed_applications", "list_running_applications"})
  /\ at[t] = "call"
  /\ Settles(t, TRUE)
  /\ UNCHANGED windowVars

LooksAtBrowsers(t) ==
  /\ Does(t, {"list_browsers"}) /\ at[t] = "call"
  /\ Settles(t, TRUE)
  /\ UNCHANGED windowVars

ReturnsWindow(t) == at[t] = "after" /\ Ends(t, ok[t]) /\ UNCHANGED windowVars

\* The person closes a program or turns to another window.
PersonCloses ==
  /\ backend = "powershell"
  /\ \E p \in procs : Without({p.pid})
  /\ UNCHANGED turnVars

PersonTurns ==
  /\ backend = "powershell"
  /\ \E i \in DOMAIN windows : ~windows[i].focused /\ windows' = Focused(windows[i].handle)
  /\ UNCHANGED <<turnVars, procs, handles>>

WindowStep(t) ==
  \/ StartsWindow(t) \/ RejectsWindow(t) \/ FindsWindow(t) \/ FindsNext(t)
  \/ FocusesWindow(t) \/ SetsState(t) \/ SnapsWindow(t) \/ PlacesWindow(t) \/ MissesWindow(t)
  \/ LaunchesApp(t) \/ MissesApp(t) \/ ClosesApp(t)
  \/ FindsProcess(t) \/ AllowsKill(t) \/ DeniesKill(t) \/ KillsProcess(t)
  \/ MissesProcess(t) \/ StartsAgain(t) \/ WindowFails(t) \/ ReturnsWindow(t)
  \/ LooksAtWindows(t) \/ LooksAtWindow(t) \/ LooksAtProcesses(t) \/ LooksAtApps(t)
  \/ LooksAtBrowsers(t)

WindowsNext == PersonCloses \/ PersonTurns \/ \E t \in Turns : WindowStep(t)

WindowsSpec == TurnsInit /\ WindowsInit /\ [][WindowsNext]_<<turnVars, windowVars>>

-----------------------------------------------------------------------------
\* The state and the place of a window are changed only by a turn that has
\* found this very window, and it still is a window of the application that
\* was asked for: one that closes in between is not mistaken for another.
OnlyFoundWindowsChange ==
  [][\A i \in DOMAIN windows, j \in DOMAIN windows' :
       LET w == windows[i]  v == windows'[j] IN
       (w.handle = v.handle /\ <<w.state, w.place>> # <<v.state, v.place>>) =>
         \E t \in Turns :
           /\ HasHandle(t, WindowTools \cup HandleOperations)
           /\ call[t].handle = w.handle
           /\ call[t].on \in {NoQuery, w.app}]_<<turnVars, windowVars>>

\* ProcessManager "never kills a critical process without going through the
\* DestructiveActionGate first" (process-manager.ts).
CriticalKillsAreAsked ==
  [][\A t \in Turns : \A p \in procs :
       (KillsProcess(t) /\ p.pid = call[t].on /\ p.app \in CriticalApps) => asked[t]
    ]_<<turnVars, windowVars>>
=============================================================================
