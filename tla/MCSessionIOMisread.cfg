SPECIFICATION SessionSpec
CONSTANTS
  kWireHeaderSize = 2
  PayloadLens = {0, 3}
  Inner <- MCInner
  AckSize = 1
  SndBuf = 2
  MaxFrames = 2
  MaxSends = 0
\* The client may have nothing more to send.
CHECK_DEADLOCK FALSE
INVARIANTS
  OnlyFramesHandled
