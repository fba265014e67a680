SPECIFICATION FairSpec
CONSTANTS
  Gateways = {1}
  Services = {2}
  Subscribers = {2}
  ReactorCount = 1
  WorkerCount = 2
  RecvCap = 1
  DistCap = 1
  SendCap = 1
  MaxRetries = 1
  MaxFrames = 2
INVARIANTS
  TypeOK
  FlowOrder
PROPERTIES
  ImplementsDelivery
  StopTerminates
CHECK_DEADLOCK FALSE
