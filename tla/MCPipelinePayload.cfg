SPECIFICATION Spec
CONSTANTS
  Gateways = {1}
  Services = {2}
  Subscribers = {2}
  ReactorCount = 1
  WorkerCount = 1
  RecvCap = 1
  DistCap = 1
  SendCap = 1
  MaxRetries = 1
  MaxFrames = 3
INVARIANTS
  PayloadComplete
CHECK_DEADLOCK FALSE
