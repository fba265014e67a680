SPECIFICATION SessionFairSpec
CONSTANTS
  kWireHeaderSize = 2
  PayloadLens = {0, 3}
  Inner <- MCInner
  AckSize = 1
  SndBuf = 2
  MaxFrames = 3
  MaxSends = 1
\* The client may have nothing more to send.
CHECK_DEADLOCK FALSE
INVARIANTS
  SessionTypeOK
  FramedExactly
  BadFrameContained
  InterestMatches
PROPERTIES
  OutputDrains
