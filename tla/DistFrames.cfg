SPECIFICATION Spec
CONSTANTS
  HeaderSize = 2
  MaxSend = 3
  MaxReceive = 2
  ReceiveChunk = 4
  WriteChunk = 3
  NifLimit = 5
  MaxLength = 4
  MaxFrames = 3
INVARIANTS
  ParserInv
  AdmittedFrameIsSent
  NoFrameHeldBack
PROPERTY
  ImplementsChannel
\* The number of frames is bounded, and links end.
CHECK_DEADLOCK FALSE
