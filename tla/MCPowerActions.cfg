CONSTANTS
  paste = paste
  voiceCall = voiceCall
  textCall = textCall
  voice = voice
  text = text
  execute = execute
  Calls = {paste, voiceCall, textCall}
  ActorOf <- MCActorOf
  Needs <- MCNeeds
  Gated = {voiceCall, textCall}
  Capabilities = {execute}
  PreAuthorized = {execute}
  KeptByReset = {}
  NoCapability = NoCapability
  NoDialog = NoDialog
  InitialSettings <- MCSettings
  DiskMayFail = FALSE
  MaxSaves = 0
  MaxRestarts = 1
  Turns = {voice, text}
  VoiceTurns = {voice}
  NamedActions = {"shutdown"}
  NoRecord = NoRecord
  MaxRequests = 3
  CallOf <- MCCallOf
SPECIFICATION FairPowerSpec
INVARIANTS
  PowerTakesTwoYeses
PROPERTIES
  
  ConfirmedTurnsEnd
CHECK_DEADLOCK FALSE
