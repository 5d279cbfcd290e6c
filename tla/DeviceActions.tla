---------------------------- MODULE DeviceActions ----------------------------
(***************************************************************************)
(* Network adapters, sound, media keys, notifications and the tray.  The   *)
(* NetworkManager asks before it touches the adapter that carries the      *)
(* connection; which one that is it reads first, and acts later.           *)
(***************************************************************************)
EXTENDS DesktopTurns

CONSTANTS
  Adapters,        (* the network adapters, by their alias                  *)
  NoAdapter,       (* no alias is given; no adapter is active               *)
  BadValue,          (* an argument a validator throws on                     *)
  Route,           (* the adapter that carries the connection at first      *)
  Leased, NoAddress,
  MaxVolume, Step, (* 100 and 10                                            *)
  Tracks,          (* the length of the playlist                            *)
  MaxNotices,      (* bound: the notifications that are shown               *)
  DeviceCalls      (* the calls [op, on, val, seen] each turn may make      *)

VARIABLES
  net,        (* per adapter: [up, dhcp, ip, dns]                           *)
  route,      (* the adapter of the default route                           *)
  sound,      (* [volume, muted]                                            *)
  media,      (* [status, track]                                            *)
  notices,    (* NotificationManager.history                                *)
  tooltip     (* TrayManager.currentTooltip                                 *)

deviceVars == <<net, route, sound, media, notices, tooltip>>

\* A call has these four arguments.
IsDeviceCall(c) == c = [op |-> c.op, on |-> c.on, val |-> c.val, seen |-> c.seen]
ASSUME DeviceCallsAssumption == \A t \in Turns : \A c \in DeviceCalls[t] : IsDeviceCall(c)

ASSUME DeviceAssumption ==
  /\ Route \in Adapters /\ NoAdapter \notin Adapters
  /\ MaxVolume \in Nat /\ Step \in Nat \ {0} /\ Tracks \in Nat \ {0} /\ MaxNotices \in Nat

NetworkTools == {"get_network_configuration", "get_dns_configuration", "get_active_adapter",
                 "enable_network_adapter", "disable_network_adapter", "set_dhcp",
                 "set_static_ip", "set_dns"}
\* The adapter offers these, and no tool uses them.
LeaseOperations == {"renew_dhcp", "release_dhcp", "reset_adapter"}
\* What the manager asks about when it is for the active adapter.
Disruptive == {"disable_network_adapter", "set_dhcp", "set_static_ip", "set_dns",
               "release_dhcp", "reset_adapter"}
SoundTools == {"volume_up", "volume_down", "set_volume", "mute", "unmute"}
NoticeTools == {"show_notification", "list_notifications", "get_tray_status",
                "update_tray_tooltip"}
MediaCommands == {"play", "pause", "next", "previous"}
InfoTools == {"get_system_info", "list_displays", "list_audio_devices",
              "list_network_adapters", "list_devices"}

DevicesInit ==
  /\ net = [a \in Adapters |->
       [up |-> (a = Route), dhcp |-> TRUE, ip |-> Leased, dns |-> Leased]]
  /\ route = Route
  /\ sound = [volume |-> MaxVolume \div 2, muted |-> FALSE]
  /\ media = [status |-> "none", track |-> 0]
  /\ notices = 0
  /\ tooltip = "Ryper"

-----------------------------------------------------------------------------
\* An empty title or text; a volume that is not a number.
Complete(c) == c.op \in {"show_notification", "update_tray_tooltip", "set_volume"} => c.val # BadValue

\* setVolume clamps what it is given.
Clamped(c) ==
  IF c.op = "set_volume" /\ c.val > MaxVolume THEN [c EXCEPT !.val = MaxVolume] ELSE c

StartsDevice(t) ==
  /\ \E c \in DeviceCalls[t] : Complete(c) /\ Begins(t, Clamped(c))
  /\ UNCHANGED deviceVars

RejectsDevice(t) ==
  /\ \E c \in DeviceCalls[t] : ~Complete(c)
  /\ Declines(t)
  /\ UNCHANGED deviceVars

\* validateInterfaceAlias, validateIpAddress, validateDnsServers,
\* validatePrefixLength: the manager throws before it looks at anything.
Invalid(c) == BadValue \in {c.on, c.val}

Refuses(t) ==
  /\ Does(t, NetworkTools \cup LeaseOperations)
  /\ at[t] = "call" /\ Invalid(call[t])
  /\ Ends(t, FALSE)
  /\ UNCHANGED deviceVars

\* getActiveAdapter: with PowerShell, without a route, any adapter that is up.
ActiveAdapters ==
  IF route # NoAdapter \/ backend = "reference" THEN {route}
  ELSE LET up == {a \in Adapters : net[a].up} IN IF up = {} THEN {NoAdapter} ELSE up

\* Defect: the comparison with the active adapter is missing.
SkipsCheck(t) ==
  /\ Does(t, Disruptive) /\ call[t].on # NoAdapter
  /\ at[t] = "call" /\ ~Invalid(call[t])
  /\ \E active \in ActiveAdapters : call' = [call EXCEPT ![t].seen = active]
  /\ at' = [at EXCEPT ![t] = "again"]
  /\ UNCHANGED <<backend, ok, asked>>
  /\ UNCHANGED deviceVars

\* checkActiveAdapterProtection.
ChecksAdapter(t) ==
  /\ Does(t, Disruptive) /\ call[t].on # NoAdapter
  /\ at[t] = "call" /\ ~Invalid(call[t])
  /\ \E active \in ActiveAdapters :
       /\ call' = [call EXCEPT ![t].seen = active]
       /\ at' = [at EXCEPT ![t] = IF active = call[t].on THEN "gate" ELSE "again"]
  /\ UNCHANGED <<backend, ok, asked>>
  /\ UNCHANGED deviceVars

AllowsDisruption(t) == Does(t, Disruptive) /\ Allows(t) /\ UNCHANGED deviceVars
DeniesDisruption(t) == Does(t, Disruptive) /\ Denies(t) /\ UNCHANGED deviceVars

Checked(t) == Does(t, Disruptive) /\ at[t] \in {"again", "allowed"} /\ call[t].on \in Adapters

\* Without a route the machine is off line until one is found again.
RouteWithout(a) ==
  IF backend = "powershell" /\ route = a
  THEN route' \in {b \in Adapters \ {a} : net[b].up} \cup {NoAdapter} ELSE UNCHANGED route

EnablesAdapter(t) ==
  /\ Does(t, {"enable_network_adapter"}) /\ at[t] = "call" /\ call[t].on \in Adapters
  /\ net' = [net EXCEPT ![call[t].on].up = TRUE]
  /\ Settles(t, TRUE)
  /\ UNCHANGED <<route, sound, media, notices, tooltip>>

DisablesAdapter(t) ==
  /\ Checked(t) /\ call[t].op = "disable_network_adapter"
  /\ net' = [net EXCEPT ![call[t].on].up = FALSE]
  /\ RouteWithout(call[t].on)
  /\ Settles(t, TRUE)
  /\ UNCHANGED <<sound, media, notices, tooltip>>

\* What an adapter has after the operation, by the reference ...
ConfiguredByReference(a, c) ==
  CASE c.op = "set_dhcp" -> [a EXCEPT !.dhcp = TRUE]
    [] c.op = "set_static_ip" -> [a EXCEPT !.dhcp = FALSE, !.ip = c.val]
    [] c.op = "set_dns" -> [a EXCEPT !.dns = c.val]
    [] c.op = "release_dhcp" -> [a EXCEPT !.ip = NoAddress]
    [] c.op = "reset_adapter" -> a

\* ... and by the cmdlets, where DHCP brings its servers along, in a second
\* command that may not be reached.
ConfiguredByCmdlet(a, c) ==
  CASE c.op = "set_dhcp" -> {[a EXCEPT !.dhcp = TRUE], [a EXCEPT !.dhcp = TRUE, !.dns = Leased]}
    [] c.op = "reset_adapter" -> {[a EXCEPT !.up = TRUE]}
    [] OTHER -> {ConfiguredByReference(a, c)}

ConfiguresAdapter(t) ==
  /\ Checked(t) /\ call[t].op # "disable_network_adapter"
  /\ LET a == call[t].on
         outcomes == IF backend = "reference" THEN {ConfiguredByReference(net[a], call[t])}
                     ELSE ConfiguredByCmdlet(net[a], call[t]) IN
     \E n \in outcomes : net' = [net EXCEPT ![a] = n]
  /\ Settles(t, TRUE)
  /\ UNCHANGED <<route, sound, media, notices, tooltip>>

\* Without an alias nothing is checked, and every lease is released.
ReleasesAll(t) ==
  /\ Does(t, {"release_dhcp"}) /\ at[t] = "call" /\ call[t].on = NoAdapter
  /\ net' = [a \in Adapters |-> [net[a] EXCEPT !.ip = NoAddress]]
  /\ Settles(t, TRUE)
  /\ UNCHANGED <<route, sound, media, notices, tooltip>>

\* The reference does nothing to renew a lease.
Renews(t) ==
  /\ Does(t, {"renew_dhcp"}) /\ at[t] = "call"
  /\ call[t].on \in Adapters \cup {NoAdapter}
  /\ \/ backend = "reference" /\ UNCHANGED net
     \/ /\ backend = "powershell"
        /\ net' = [a \in Adapters |-> IF call[t].on \in {a, NoAdapter} /\ net[a].dhcp
                                      THEN [net[a] EXCEPT !.ip = Leased] ELSE net[a]]
  /\ Settles(t, TRUE)
  /\ UNCHANGED <<route, sound, media, notices, tooltip>>

\* "Network adapter not found"; "Elevation required".
AdapterFails(t) ==
  /\ Does(t, NetworkTools \cup LeaseOperations)
  /\ at[t] \in {"call", "again", "allowed"}
  /\ at[t] = "call" => call[t].op \notin Disruptive
  /\ backend = "reference" => call[t].on \notin Adapters \cup {NoAdapter}
  /\ Settles(t, FALSE)
  /\ UNCHANGED deviceVars

\* The connection moves: a cable, another network, a VPN.
RouteMoves ==
  /\ backend = "powershell"
  /\ route' \in {a \in Adapters : net[a].up} \cup {NoAdapter}
  /\ UNCHANGED <<turnVars, net, sound, media, notices, tooltip>>

-----------------------------------------------------------------------------
\* volumeUp and volumeDown read the volume (currentVolume) and set it later;
\* "volume down to ..." names the volume, and is not clamped.
Louder == IF sound.volume + Step > MaxVolume THEN MaxVolume ELSE sound.volume + Step
Quieter(c) ==
  IF c.val # NoAddress THEN c.val
  ELSE IF sound.volume < Step THEN 0 ELSE sound.volume - Step

ReadsVolume(t) ==
  /\ Does(t, {"volume_up", "volume_down"}) /\ at[t] = "call"
  /\ LET c == call[t] IN
     call' = [call EXCEPT ![t] =
       [c EXCEPT !.op = "set_volume",
                 !.val = IF c.op = "volume_up" THEN Louder ELSE Quieter(c)]]
  /\ UNCHANGED <<backend, at, ok, asked>>
  /\ UNCHANGED deviceVars

SetsVolume(t) ==
  /\ Does(t, {"set_volume"}) /\ at[t] = "call"
  /\ call[t].val \in 0..MaxVolume
  /\ sound' = [sound EXCEPT !.volume = call[t].val]
  /\ Settles(t, TRUE)
  /\ UNCHANGED <<net, route, media, notices, tooltip>>

\* "volume must be within 0-100".
RefusesVolume(t) ==
  /\ Does(t, {"set_volume"}) /\ at[t] = "call"
  /\ call[t].val \notin 0..MaxVolume
  /\ Settles(t, FALSE)
  /\ UNCHANGED deviceVars

SetsMute(t) ==
  /\ Does(t, {"mute", "unmute"}) /\ at[t] = "call"
  /\ sound' = [sound EXCEPT !.muted = (call[t].op = "mute")]
  /\ Settles(t, TRUE)
  /\ UNCHANGED <<net, route, media, notices, tooltip>>

\* The reference follows the command; the key of PowerShell toggles.
Played(op) ==
  CASE op = "next" -> [status |-> "playing", track |-> (media.track + 1) % Tracks]
    [] op = "previous" -> [status |-> "playing", track |-> (media.track + Tracks - 1) % Tracks]
    [] op = "play" -> [media EXCEPT !.status = "playing"]
    [] op = "pause" -> [media EXCEPT !.status = "paused"]

PressesKey(t) ==
  /\ Does(t, MediaCommands) /\ at[t] = "call"
  /\ media' = IF backend = "reference" THEN Played(call[t].op)
              ELSE IF call[t].op \in {"play", "pause"} /\ media.status # "none"
                   THEN Played(IF media.status = "playing" THEN "pause" ELSE "play")
                   ELSE media
  /\ Settles(t, TRUE)
  /\ UNCHANGED <<net, route, sound, notices, tooltip>>

ShowsNotice(t) ==
  /\ Does(t, {"show_notification"}) /\ at[t] = "call"
  /\ notices < MaxNotices
  /\ notices' = notices + 1
  /\ Settles(t, TRUE)
  /\ UNCHANGED <<net, route, sound, media, tooltip>>

SetsTooltip(t) ==
  /\ Does(t, {"update_tray_tooltip"}) /\ at[t] = "call"
  /\ tooltip' = call[t].val
  /\ Settles(t, TRUE)
  /\ UNCHANGED <<net, route, sound, media, notices>>

LooksAtNetwork(t) ==
  /\ Does(t, {"get_network_configuration", "get_dns_configuration", "get_active_adapter"})
  /\ at[t] = "call" /\ ~Invalid(call[t])
  /\ Settles(t, TRUE)
  /\ UNCHANGED deviceVars

LooksAtDevices(t) ==
  /\ Does(t, InfoTools) /\ at[t] = "call"
  /\ Settles(t, TRUE)
  /\ UNCHANGED deviceVars

LooksAtNotices(t) ==
  /\ Does(t, {"list_notifications", "get_tray_status"}) /\ at[t] = "call"
  /\ Settles(t, TRUE)
  /\ UNCHANGED deviceVars

\* A command of PowerShell fails, one that reads included.
DeviceFails(t) ==
  /\ Does(t, SoundTools \cup MediaCommands \cup InfoTools \cup {"show_notification"})
  /\ ShellFails(t, FALSE)
  /\ UNCHANGED deviceVars

ReturnsDevice(t) == at[t] = "after" /\ Ends(t, ok[t]) /\ UNCHANGED deviceVars

DeviceStep(t) ==
  \/ StartsDevice(t) \/ RejectsDevice(t) \/ Refuses(t) \/ ChecksAdapter(t)
  \/ AllowsDisruption(t) \/ DeniesDisruption(t)
  \/ EnablesAdapter(t) \/ DisablesAdapter(t) \/ ConfiguresAdapter(t) \/ ReleasesAll(t)
  \/ Renews(t) \/ AdapterFails(t)
  \/ ReadsVolume(t) \/ SetsVolume(t) \/ RefusesVolume(t) \/ SetsMute(t) \/ PressesKey(t)
  \/ ShowsNotice(t) \/ SetsTooltip(t)
  \/ LooksAtNetwork(t) \/ LooksAtDevices(t) \/ LooksAtNotices(t)
  \/ DeviceFails(t) \/ ReturnsDevice(t)

DevicesNext == RouteMoves \/ \E t \in Turns : DeviceStep(t)

DevicesSpec == TurnsInit /\ DevicesInit /\ [][DevicesNext]_<<turnVars, deviceVars>>

-----------------------------------------------------------------------------
\* The adapter that carries the connection is disabled or configured without
\* a question only by a release that names no adapter, or where the route
\* came to it after its turn had checked: never where it already was the
\* active one then (network-manager.ts checkActiveAdapterProtection).
ConnectionIsProtected ==
  [][\A a \in Adapters :
       (route = a /\ net'[a] # net[a] /\ (net[a].up => ~net'[a].up \/ net'[a].ip # net[a].ip
                                             \/ net'[a].dns # net[a].dns)) =>
         \E t \in Turns :
           \/ Checked(t) /\ call[t].on = a /\ (asked[t] \/ call[t].seen # a)
           \/ Does(t, {"release_dhcp"}) /\ call[t].on = NoAdapter
           \/ Does(t, {"renew_dhcp", "enable_network_adapter"})]_<<turnVars, deviceVars>>
=============================================================================
