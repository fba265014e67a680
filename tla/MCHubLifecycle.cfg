SPECIFICATION FairClientsSpec
\* The process ends.
CHECK_DEADLOCK FALSE
CONSTANTS
  reactor_threads = 2
  worker_threads = 0
  EpollMayFail <- MCEpollMayFail
INVARIANTS
  LifecycleTypeOK
  CleanUnlessStartFailed
  ReadyOnceAsked
PROPERTIES
  ShutdownCompletes
