SPECIFICATION TCPFairSpec
CONSTANTS
  FrameLen = 3
  BufferSize = 7
  KernelSize = 4
  MaxMessages = 5
INVARIANTS
  BytesConserved
  FramesAligned
PROPERTY Arrives
CHECK_DEADLOCK FALSE
