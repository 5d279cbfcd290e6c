CONSTANTS
  plain = plain
  guarded = guarded
  urgent = urgent
  stream = stream
  malformed = malformed
  capability = capability
  Invocations = {plain, guarded, urgent, stream, malformed}
  MaxConcurrent = 1
  Priority <- MCPriority
  MaxAttempts <- MCMaxAttempts
  Capabilities = {capability}
  Requires <- MCRequires
  Malformed = {malformed}
  Streaming = {stream}
  MaxChunks = 2
  MaxCancels = 2
SPECIFICATION MCSpec
INVARIANTS
  SlotAccounting
  StragglersAreAborted
  
PROPERTIES
  
  CancelledNeverSucceeds
  EveryInvocationIsAnswered
  ImplementsPool
CHECK_DEADLOCK FALSE
