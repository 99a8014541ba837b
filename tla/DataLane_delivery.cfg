\* Three nodes, a driver stream fanned out to two peers, no pipe failure, no node stopping.
CONSTANTS
  s0 = s0
  s1 = s1
  N = 3
  Streams <- MCStreams3
  Producer <- MCProducer3
  Consumers <- MCConsumers3
  DriverStreams = {s0}
  Stoppable = {}
  MaxMsgs = 3
  Cap = 1
  MaxLinkFailures = 0
SPECIFICATION Spec
PROPERTIES
  AllDelivered
CHECK_DEADLOCK FALSE
