CONSTANTS
  Reactors = {r1, r2}
  MaxSid = 2
  Nids = {n1, n2}
  Cmds = {c1}
  Fds = {f1, f2}
  ConnCap = 1
  SendCap = 0
  FreedReads = FALSE
  NoRoute = NoRoute
  NoFd = NoFd
  NoNid = NoNid
  NoSession = NoSession
SPECIFICATION Spec
SYMMETRY Symmetry
\* The plane may be stopped, and a signal may end the process.
CHECK_DEADLOCK FALSE
INVARIANTS
  SubscribersLive
  TablesAgree
  LastAuthRouted
  NoLostWakeup
  StopClosesSessions
  RoutesLiveUnlessRenamed
  OneEntryPerSubscriber
