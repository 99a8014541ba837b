\* Two nodes, o1 may panic in its setup, no pipe failure: does the panic stop node 1?
CONSTANTS
  o0 = o0
  o1 = o1
  o2 = o2
  N = 2
  Ops <- MCOps2
  OpNode <- MCOpNode2
  FailingOps = {o1}
  MaxLinkFailures = 0
  WriteDot = FALSE
SPECIFICATION Spec
PROPERTIES
  OperatorSetupPanicStopsNode
CHECK_DEADLOCK FALSE
