\* Two nodes; o2 may end before RunOperator reaches it, next to o0 on node 0.
CONSTANTS
  o0 = o0
  o1 = o1
  o2 = o2
  N = 2
  Ops <- MCOps2
  OpNode <- MCOpNode2
  FailingOps = {o2}
  MaxLinkFailures = 0
  WriteDot = FALSE
SPECIFICATION Spec
PROPERTIES
  RunOperatorReachesAll
CHECK_DEADLOCK FALSE
