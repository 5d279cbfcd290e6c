CONSTANTS
  a = a
  b = b
  c = c
  Tasks = {a, b, c}
  Drivers = {d1, d2}
  MaxIterations = 3
  Plans <- MCPlans
SPECIFICATION FairSpec
INVARIANTS
  DependenciesFirst
  LeftBehindWithReason
PROPERTIES
  
  DriversStop
CHECK_DEADLOCK FALSE
