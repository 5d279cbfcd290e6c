CONSTANTS
  spoken = spoken  typed = typed  queued = queued
  note = note  site = site  downloads = downloads
  edge = edge  firefox = firefox  netscape = netscape
  explorer = explorer  notepad = notepad
  Parts = {"files", "opens", "windows", "apps", "services", "tasks", "registry", "network", "sound", "rest"}
  Turns = {spoken, typed, queued}
  VoiceTurns = {spoken}
  NoCall = NoCall
  Backends = {"reference", "powershell"}
  Paths <- MCPaths
  Contents = {note}
  NoContent = NoContent
  InitialDocs <- MCDocs
  InitialFolders <- MCFolders
  Protected <- MCProtected
  Words = {downloads}
  WellKnown <- MCWellKnown
  Links = {site}
  Browsers = {edge, firefox}
  Installed = {edge}
  Preferred = firefox
  NoBrowser = NoBrowser
  NoPath = NoPath
  BadPath = BadPath
  Offered <- MCOffered
  NoReference = NoReference
  Pids = {1, 2, 3}
  MaxHandle = 3
  Apps = {explorer, notepad}
  CriticalApps = {explorer}
  NoQuery = NoQuery
  InitialProcs <- MCProcs
  InitialWindows <- MCWindows
  WindowCalls <- MCWindowCalls
  Services = {"dhcp", "spooler"}
  CriticalServices = {"dhcp"}
  TaskNames = {"backup"}
  TaskFolders = {"root", "A"}
  RootFolder = "root"
  Keys <- MCKeys
  NoArg = NoArg
  BadArg = BadArg
  InitialTasks <- MCTasks
  InitialEntries <- MCEntries
  ServiceCalls <- MCServiceCalls
  Adapters = {"wifi", "ethernet"}
  NoAdapter = NoAdapter
  BadValue = BadValue
  Route = "wifi"
  Leased = Leased
  NoAddress = NoAddress
  MaxVolume = 4
  Step = 1
  Tracks = 3
  MaxNotices = 2
  DeviceCalls <- MCDeviceCalls
SPECIFICATION MCSpec
VIEW MCView

  
PROPERTIES
  
  
  OnlyFoundWindowsChange
  DestructionIsAsked
  
CHECK_DEADLOCK FALSE
