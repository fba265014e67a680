SPECIFICATION DownlinkSpec
CONSTANTS
  kAuthUserLen = 2
  kAuthPassLen = 1
  Users <- MCUsers
  Passes <- MCPasses
  Gids = {1}
  ServiceNid = 30001
  Nids <- MCNids
  Cmds <- MCCmds
  Seqs <- MCSeqs
  Bodies <- MCBodies
  ShortPayloads <- MCShortPayloads
INVARIANTS AuthExact DownlinkExact LogAgrees
CHECK_DEADLOCK FALSE
