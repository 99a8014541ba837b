\* Two nodes on Zenoh; a node may panic in the pre-phase and one pipe may
\* fail: the bootstrap implements the abstract lifecycle, and startup
\* completes unless a node exits.
CONSTANTS
  o0 = o0
  o1 = o1
  o2 = o2
  N = 2
  Ops <- MCOps2
  OpNode <- MCOpNode2
  FailingOps = {}
  MaxLinkFailures = 1
  MaxCrashes = 1
  WriteDot = FALSE
SPECIFICATION ZSpec
INVARIANTS
  ZTypeOK
PROPERTIES
  LifecycleRefinement
  StartupCompletes
CHECK_DEADLOCK FALSE
