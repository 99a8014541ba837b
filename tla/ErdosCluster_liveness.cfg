\* Two nodes, no failure: startup must complete.
CONSTANTS
  o0 = o0
  o1 = o1
  o2 = o2
  N = 2
  Ops <- MCOps2
  OpNode <- MCOpNode2
  FailingOps = {}
  MaxLinkFailures = 0
  WriteDot = FALSE
SPECIFICATION Spec
PROPERTIES
  StartupCompletes
CHECK_DEADLOCK FALSE
