\* Four nodes, one of which may panic at any point after it starts.
CONSTANTS
  N = 4
  MaxCrashes = 1
SPECIFICATION Spec
INVARIANTS
  TypeOK
  DiscoveryBarrier
PROPERTIES
  ZenohLifecycleRefinement
CHECK_DEADLOCK FALSE
