CONSTANTS
  write = write
  delete = delete
  execute = execute
  notify = notify
  Calls = {write, delete}
  ActorOf <- MCActorOf
  Needs <- MCNeeds
  Gated = {delete}
  Capabilities = {execute, notify}
  PreAuthorized = {execute, notify}
  KeptByReset = {notify}
  NoCapability = NoCapability
  NoDialog = NoDialog
  InitialSettings <- MCSettings
  DiskMayFail = TRUE
  MaxSaves = 2
  MaxRestarts = 1
SPECIFICATION FairSpec
INVARIANTS
  EffectsWereApproved
  
  PolicyInForceIsTheSavedOne
PROPERTIES
  CallsSettle
CHECK_DEADLOCK FALSE
