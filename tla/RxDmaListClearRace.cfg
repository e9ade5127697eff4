CONSTANTS
  BufferCount = 3
  MaxFrames = 3
  ClearWhileReceiving = TRUE
SPECIFICATION Spec
INVARIANT DmaTargetsFreeBuffer
