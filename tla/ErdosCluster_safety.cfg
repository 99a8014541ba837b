\* Two nodes, one pipe failure, o1 may panic, to_dot may fail.
CONSTANTS
  o0 = o0
  o1 = o1
  o2 = o2
  N = 2
  Ops <- MCOps2
  OpNode <- MCOpNode2
  FailingOps = {o1}
  MaxLinkFailures = 1
  WriteDot = TRUE
SPECIFICATION Spec
INVARIANTS
  TypeOK
  CommBarrier
  GlobalBarrier
PROPERTIES
  ShutdownPropagates
  LifecycleRefinement
\* The program stops: every thread exits and every caller returns, or a
\* caller joins a node that is never shut down.
CHECK_DEADLOCK FALSE
