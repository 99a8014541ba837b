\* Two nodes, no injected failure: can a run_async caller be stranded?
CONSTANTS
  o0 = o0
  o1 = o1
  o2 = o2
  N = 2
  Ops <- MCOps2
  OpNode <- MCOpNode2
  FailingOps = {}
  MaxLinkFailures = 0
  WriteDot = FALSE
SPECIFICATION Spec
INVARIANTS
  CallerNotStranded
CHECK_DEADLOCK FALSE
