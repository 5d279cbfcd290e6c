CONSTANTS
  Callers = {1, 2}
  EmbeddingService = TRUE
  MaxIds = 4
  Earlier = 2
  MaxItems = 2
  MinGroup = 2
  MaxVersion = 2
  MaxCalls = 3
  MaxChanges = 1
  MaxRestarts = 1
  Devices = {1, 2, 3}
  Keys = {1, 2}
  Times = {1, 2}
  Values = {1, 2}
  NoValue = NoValue
  Filtered <- MCFiltered
  MaxStages = 3
  MaxSent = 1
SPECIFICATION MCSpec
CHECK_DEADLOCK FALSE
INVARIANTS
  ReplacedMemoriesAreKept
PROPERTIES
  ReplicasConverge
