\* Two nodes, two streams on one pipe, a one-slot work queue, one pipe failure; either node may stop.
CONSTANTS
  s0 = s0
  s1 = s1
  N = 2
  Streams <- MCStreams2
  Producer <- MCProducer2
  Consumers <- MCConsumers2
  DriverStreams = {s0}
  Stoppable = {0, 1}
  MaxMsgs = 3
  Cap = 1
  MaxLinkFailures = 1
SPECIFICATION Spec
INVARIANTS
  TypeOK
PROPERTIES
  StreamRefinement
CHECK_DEADLOCK FALSE
