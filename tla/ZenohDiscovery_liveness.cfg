\* Four nodes, no panic: every discovery loop must end.
CONSTANTS
  N = 4
  MaxCrashes = 0
SPECIFICATION Spec
PROPERTIES
  DiscoveryCompletes
CHECK_DEADLOCK FALSE
