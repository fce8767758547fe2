SPECIFICATION Spec
CONSTANTS
  NEndpoints = 2
  JobStale = 1
  AcceptStale = 4
  Failback = 4
  MaxTime = 11
INVARIANTS
  UncreditedStays
  DeadmanPrompt
PROPERTIES
  ThreePerWindow
  FirstFailoverHeld
