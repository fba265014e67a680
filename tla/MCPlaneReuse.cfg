CONSTANTS
  Reactors = {r1}
  MaxSid = 2
  Nids = {n1}
  Cmds = {c1}
  Fds = {f1}
  ConnCap = 1
  SendCap = 1
  FreedReads = TRUE
  NoRoute = NoRoute
  NoFd = NoFd
  NoNid = NoNid
  NoSession = NoSession
SPECIFICATION FairSpec
\* The plane may be stopped, and a signal may end the process.
CHECK_DEADLOCK FALSE
INVARIANTS
  TypeOK
  FramesReachTheirNode
  EventsNotMisdirected
PROPERTIES
  ConnectionsRegistered
  StopTerminates
