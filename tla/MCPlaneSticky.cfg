CONSTANTS
  Reactors = {r1, r2}
  MaxSid = 2
  Nids = {n1}
  Cmds = {c1}
  Fds = {f1}
  ConnCap = 1
  SendCap = 1
  FreedReads = TRUE
  NoRoute = NoRoute
  NoFd = NoFd
  NoNid = NoNid
  NoSession = NoSession
SPECIFICATION Spec
SYMMETRY Symmetry
\* The plane may be stopped, and a signal may end the process.
CHECK_DEADLOCK FALSE
INVARIANTS
  StickyConnection
