SPECIFICATION Spec
CONSTANTS
  Gateways = {1, 4}
  Services = {2, 3}
  Subscribers = {2, 3}
  ReactorCount = 1
  WorkerCount = 1
  RecvCap = 1
  DistCap = 1
  SendCap = 1
  MaxRetries = 1
  MaxFrames = 2
INVARIANTS
  NoCrossRoute
  LossOnlyByFullQueue
CHECK_DEADLOCK FALSE
